------------------------------- MODULE Volumed -------------------------------
(***************************************************************************)
(* The privileged volume-group authority (crates/volumed/src/server.rs).   *)
(* Each handler runs one LVM command (lvs, lvcreate, lvremove, mkfs.xfs)   *)
(* and LVM serialises commands on one volume group, so a handler is one    *)
(* atomic step here; the callers interleave between handlers.              *)
(*                                                                         *)
(* Sizes are in units of bytes scaled down: Extent is the volume group's   *)
(* physical extent size, to which lvcreate rounds every size up.  Names    *)
(* are the safe names hash_resource derives from CO names, taken to be     *)
(* collision free.                                                         *)
(***************************************************************************)
EXTENDS Naturals, FiniteSets, FiniteSetsExt

CONSTANTS
    Names,     \* LV names
    Extent,    \* physical extent size of the volume group
    VGSize,    \* vg.capacity_bytes
    Spare,     \* Config.spare_bytes (0 when absent)
    MaxUuid    \* bound on the LVs created in one behaviour

ASSUME /\ Extent \in Nat \ {0}
       /\ VGSize \in Nat /\ Spare \in Nat
       /\ Spare < VGSize            \* main.rs lines 67-75 refuse to start otherwise
       /\ MaxUuid \in Nat \ {0}

VARIABLES
    lvs,       \* the logical volumes of the group: records [name, uuid, size]
    nextUuid   \* the uuid lvcreate gives the next LV

LV == [name : Names, uuid : 1..MaxUuid, size : Nat]

VolumedInit == lvs = {} /\ nextUuid = 1

VolumedTypeOK ==
    lvs \subseteq LV /\ nextUuid \in 1..MaxUuid + 1

Used == MapThenSumSet(LAMBDA l : l.size, lvs)

\* lvcreate allocates whole extents.
RoundUp(s) == ((s + Extent - 1) \div Extent) * Extent

\* get_free_bytes: capacity minus the spare reservation, 0 if it would go
\* negative.  The allocated volumes are not subtracted.
GetFreeBytes == IF VGSize >= Spare THEN VGSize - Spare ELSE 0

\* get_logical_volume by name (LogicalVolume::from_id) or by uuid
\* (LogicalVolume::from_uuid): the set of matches, empty for NotFound.
LvNamed(n) == {l \in lvs : l.name = n}
LvWithUuid(u) == {l \in lvs : l.uuid = u}

\* create_logical_volume: lvcreate fails, as a Command error that
\* map_lvm_error turns into InvalidArgument, when the name is taken or the
\* group has too few free extents.
CreateFails(n, s) == LvNamed(n) # {} \/ Used + RoundUp(s) > VGSize

CreateLv(n, s) ==
    /\ lvs' = lvs \cup {[name |-> n, uuid |-> nextUuid, size |-> RoundUp(s)]}
    /\ nextUuid' = nextUuid + 1

\* format_logical_volume: LogicalVolume::from_id by name, NotFound when
\* the LV is gone, then mkfs.xfs -f on its path (the file system it writes
\* is not modelled, nor a failing mkfs, which is Internal).
FormatResult(n) == IF LvNamed(n) = {} THEN "NotFound" ELSE "OK"

\* delete_logical_volume: lvremove by name.
RemoveLv(n) == lvs' = {l \in lvs : l.name # n} /\ UNCHANGED nextUuid
=============================================================================
