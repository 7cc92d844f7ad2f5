------------------------------- MODULE Mountd -------------------------------
(***************************************************************************)
(* The privileged mount authority (crates/mountd).  Its handlers mount(),  *)
(* unmount() and get_lvm_block_path() are modelled step by step: tonic     *)
(* runs each request on a worker thread of a multi-threaded tokio runtime, *)
(* so requests in the slots Reqs run in parallel and interleave at the     *)
(* granularity of the system calls each handler makes.                    *)
(*                                                                         *)
(* Paths are model values.  A directory path in Dirs names a directory     *)
(* inode; a volume in Vols is both its block-device node /dev/<vg>/<lv>    *)
(* and the xfs filesystem on it; a path in Links is a symlink whose target *)
(* the unprivileged owner can set.  The host mount table is a stack of     *)
(* mounts per directory: mounting over a mount point hides the lower       *)
(* mount, umount(2) removes the top one.                                   *)
(***************************************************************************)
EXTENDS Naturals, Sequences, SequencesExt, FiniteSets

CONSTANTS
    Dirs,         \* directories a request may name
    Vols,         \* logical volumes (device node and filesystem)
    Links,        \* symlinks under the owner's control
    Owner,        \* the configured for_user:for_group pair
    Root,         \* every other owner
    InitOwner,    \* owner of each directory and filesystem root at start
    Whitelist,    \* paths matched by a valid glob of Config.whitelist
    ReadOnlyBit,  \* directories and filesystem roots whose mode has no write bit
    Empty,        \* the empty string sent for a missing path
    Reqs,         \* request slots: RPCs in flight at once
    MountReqs,    \* the slots whose caller sends mount(); the others unmount
    Missing,      \* directories that do not exist
    MaxStack,     \* bound on mounts stacked on one directory, for the callers
    ArgPaths,     \* paths a caller of mountd alone sends
    ArgFlags      \* flag sets a caller of mountd alone sends

Paths == Dirs \cup Vols \cup Links
Objs  == Dirs \cup Vols                 \* what can be visible at a mount point
Flags == {"Bind", "ReadOnly", "Invalid"} \* MountFlag values; "Invalid" is an
                                         \* i32 that MountFlag::from_i32 rejects
Status == {"OK", "InvalidArgument", "PermissionDenied", "FailedPrecondition",
           "NotFound", "Internal"}
Mount == [obj : Objs, ro : BOOLEAN]      \* one entry of the mount table

ASSUME /\ Whitelist \subseteq Paths
       /\ InitOwner \in [Objs -> {Owner, Root}]
       /\ ReadOnlyBit \subseteq Objs
       /\ Empty \notin Paths
       /\ MaxStack \in Nat \ {0}
       /\ ArgPaths \subseteq Paths \cup {Empty}
       /\ ArgFlags \subseteq SUBSET Flags
       /\ MountReqs \subseteq Reqs

VARIABLES
    mtab,     \* [Dirs -> Seq(Mount)]: the host mount table
    owner,    \* [Objs -> {Owner, Root}]: uid:gid of each inode
    present,  \* directories that exist
    lvs,      \* logical volumes that exist (their device nodes exist)
    link,     \* [Links -> Dirs]: the target of each symlink
    mreq      \* [Reqs -> handler state]

mountdVars == <<mtab, owner, mreq>>
hostVars   == <<present, lvs, link>>

Idle == [op |-> "none", src |-> Empty, dst |-> Empty, flags |-> {},
         pc |-> "idle", snap |-> FALSE, res |-> "OK"]

-----------------------------------------------------------------------------
(* Path resolution and the view of the filesystem a handler reads.         *)

Resolve(p) == IF p \in Links THEN link[p] ELSE p

VisibleAt(d) == IF mtab[d] = <<>> THEN d ELSE Last(mtab[d]).obj

\* The superblock at d is read-only: chown and writes there fail with EROFS.
SuperRO(d) == mtab[d] # <<>> /\ Last(mtab[d]).ro

\* mountpoints::mountpaths(): the canonical paths of every mount point.
MountPaths == {d \in Dirs : mtab[d] # <<>>}

PathExists(p) == IF p \in Vols THEN p \in lvs ELSE Resolve(p) \in present

IsDir(p) == p \notin Vols /\ PathExists(p)

\* Path::metadata() follows symlinks; a device node is root's and writable.
MetaOwner(p) == IF p \in Vols THEN Root ELSE owner[VisibleAt(Resolve(p))]
MetaReadOnly(p) == p \notin Vols /\ VisibleAt(Resolve(p)) \in ReadOnlyBit

\* Mutant: the owner/whitelist test of ensure_interactable left out.
InteractableAnyOwner(p, readonly) ==
    /\ PathExists(p)
    /\ ~(readonly /\ MetaReadOnly(p))

\* Config::ensure_interactable.  The glob is matched against the path as
\* written; the read-only test is the code's, which rejects a path whose
\* permissions ARE read-only.
Interactable(p, readonly) ==
    /\ PathExists(p)
    /\ ~(readonly /\ MetaReadOnly(p))
    /\ p \in Whitelist \/ MetaOwner(p) = Owner

\* MountdServer::get_lvm_block_path: LogicalVolume::from_uuid.
GetLvmBlockPath(v) == IF v \in lvs THEN "OK" ELSE "NotFound"

-----------------------------------------------------------------------------
(* mount(): one action per step between system calls.                      *)

Finish(r, status) == mreq' = [mreq EXCEPT ![r].pc = "done", ![r].res = status]

\* Lines 59-62 (and 168-171 for unmount): read the mount table once.  The
\* handler only ever asks whether dst is in it, which is what snap keeps.
MSnap(r) ==
    /\ mreq[r].pc = "snap"
    /\ mreq' = [mreq EXCEPT ![r].snap = mreq[r].dst \in MountPaths,
                             ![r].pc = "check"]
    /\ UNCHANGED <<mtab, owner, hostVars>>

\* Mutant: mount() without the already-mounted early return of lines 111-118.
MCheckNoEarlyReturn(r) ==
    LET q  == mreq[r]
        ro == "ReadOnly" \in q.flags
    IN  /\ q.pc = "check" /\ q.op = "mount"
        /\ CASE q.src = Empty \/ q.dst = Empty   -> Finish(r, "InvalidArgument")
             [] ~Interactable(q.src, FALSE)      -> Finish(r, "PermissionDenied")
             [] ~Interactable(q.dst, ro)         -> Finish(r, "PermissionDenied")
             [] ~IsDir(q.dst)                    -> Finish(r, "FailedPrecondition")
             [] OTHER -> mreq' = [mreq EXCEPT ![r].pc = "sys"]
        /\ UNCHANGED <<mtab, owner, hostVars>>

\* Lines 64-118: argument, policy and directory checks, then the early
\* success if dst was in the snapshot taken by MSnap.
MCheck(r) ==
    LET q  == mreq[r]
        ro == "ReadOnly" \in q.flags
    IN  /\ q.pc = "check" /\ q.op = "mount"
        /\ CASE q.src = Empty \/ q.dst = Empty   -> Finish(r, "InvalidArgument")
             [] ~Interactable(q.src, FALSE)      -> Finish(r, "PermissionDenied")
             [] ~Interactable(q.dst, ro)         -> Finish(r, "PermissionDenied")
             [] ~IsDir(q.dst)                    -> Finish(r, "FailedPrecondition")
             [] q.snap                          -> Finish(r, "OK")
             [] OTHER -> mreq' = [mreq EXCEPT ![r].pc = "sys"]
        /\ UNCHANGED <<mtab, owner, hostVars>>

\* The mount a successful mount(2) adds.  A bind mount shows whatever is
\* visible at its source and keeps that superblock's read-only state:
\* MS_RDONLY together with MS_BIND is ignored by the kernel.
NewMount(q) ==
    IF "Bind" \in q.flags
    THEN [obj |-> VisibleAt(Resolve(q.src)), ro |-> SuperRO(Resolve(q.src))]
    ELSE [obj |-> q.src, ro |-> "ReadOnly" \in q.flags]

MountSucceeds(q) ==
    /\ IsDir(q.dst)
    /\ IF "Bind" \in q.flags THEN IsDir(q.src) ELSE q.src \in Vols \cap lvs

\* Mutant: the mount(2) error returned with ? and no map_err, which tonic
\* turns into an Unknown status.
MSysUnmapped(r) ==
    LET q == mreq[r] IN
    /\ q.pc = "sys" /\ q.op = "mount"
    /\ \/ /\ "Invalid" \in q.flags
          /\ Finish(r, "InvalidArgument")
          /\ UNCHANGED mtab
       \/ /\ "Invalid" \notin q.flags
          /\ ~MountSucceeds(q)
          /\ Finish(r, "Unknown")
          /\ UNCHANGED mtab
       \/ /\ "Invalid" \notin q.flags
          /\ MountSucceeds(q)
          /\ mtab' = [mtab EXCEPT ![Resolve(q.dst)] = Append(@, NewMount(q))]
          /\ mreq' = [mreq EXCEPT ![r].pc = "chown"]
    /\ UNCHANGED <<owner, hostVars>>

\* Lines 120-148: map the flags (rejecting an unknown one), add NODEV and
\* NOSUID, and call mount(2) on whatever dst resolves to now.
MSys(r) ==
    LET q == mreq[r] IN
    /\ q.pc = "sys" /\ q.op = "mount"
    /\ \/ /\ "Invalid" \in q.flags
          /\ Finish(r, "InvalidArgument")
          /\ UNCHANGED mtab
       \/ /\ "Invalid" \notin q.flags
          /\ ~MountSucceeds(q)
          /\ Finish(r, "Internal")
          /\ UNCHANGED mtab
       \/ /\ "Invalid" \notin q.flags
          /\ MountSucceeds(q)
          /\ mtab' = [mtab EXCEPT ![Resolve(q.dst)] = Append(@, NewMount(q))]
          /\ mreq' = [mreq EXCEPT ![r].pc = "chown"]
    /\ UNCHANGED <<owner, hostVars>>

\* Lines 150-161: chown(dst) to the owner pair; on a read-only superblock
\* chown fails with EROFS and the request fails with the mount in place.
MChown(r) ==
    LET q == mreq[r]
        d == Resolve(q.dst)
    IN  /\ q.pc = "chown"
        /\ \/ /\ SuperRO(d)
              /\ Finish(r, "Internal")
              /\ UNCHANGED owner
           \/ /\ ~SuperRO(d)
              /\ owner' = [owner EXCEPT ![VisibleAt(d)] = Owner]
              /\ Finish(r, "OK")
        /\ UNCHANGED <<mtab, hostVars>>

-----------------------------------------------------------------------------
(* unmount()                                                               *)

\* Mutant: unmount of a path that is not mounted fails instead of
\* answering OK.
UCheckNotIdempotent(r) ==
    LET q == mreq[r] IN
    /\ q.pc = "check" /\ q.op = "unmount"
    /\ CASE q.dst = Empty                 -> Finish(r, "InvalidArgument")
         [] ~Interactable(q.dst, FALSE)   -> Finish(r, "PermissionDenied")
         [] OTHER -> mreq' = [mreq EXCEPT ![r].pc = "sys"]
    /\ UNCHANGED <<mtab, owner, hostVars>>

\* Lines 173-203: argument check, early success if the path was not in the
\* snapshot, then the policy check.
UCheck(r) ==
    LET q == mreq[r] IN
    /\ q.pc = "check" /\ q.op = "unmount"
    /\ CASE q.dst = Empty                 -> Finish(r, "InvalidArgument")
         [] ~q.snap                      -> Finish(r, "OK")
         [] ~Interactable(q.dst, FALSE)   -> Finish(r, "PermissionDenied")
         [] OTHER -> mreq' = [mreq EXCEPT ![r].pc = "sys"]
    /\ UNCHANGED <<mtab, owner, hostVars>>

\* Lines 205-212: umount(2) removes the top mount, or fails with EINVAL if
\* the path is no longer a mount point.
USys(r) ==
    LET q == mreq[r]
        d == Resolve(q.dst)
    IN  /\ q.pc = "sys" /\ q.op = "unmount"
        /\ \/ /\ mtab[d] = <<>>
              /\ Finish(r, "Internal")
              /\ UNCHANGED mtab
           \/ /\ mtab[d] # <<>>
              /\ mtab' = [mtab EXCEPT ![d] = Front(@)]
              /\ Finish(r, "OK")
        /\ UNCHANGED <<owner, hostVars>>

\* Every step mountd takes for request r.
MountdStep(r) == MSnap(r) \/ MCheck(r) \/ MSys(r) \/ MChown(r) \/ UCheck(r) \/ USys(r)

\* A caller hands request r to mountd.
Call(r, op, src, dst, flags) ==
    mreq' = [mreq EXCEPT ![r] = [op |-> op, src |-> src, dst |-> dst,
                                  flags |-> flags, pc |-> "snap",
                                  snap |-> FALSE, res |-> "OK"]]

MountdInit ==
    /\ mtab = [d \in Dirs |-> <<>>]
    /\ owner = InitOwner
    /\ mreq = [r \in Reqs |-> Idle]

MountdTypeOK ==
    /\ mtab \in [Dirs -> Seq(Mount)]
    /\ owner \in [Objs -> {Owner, Root}]
    /\ present \subseteq Dirs
    /\ lvs \subseteq Vols
    /\ link \in [Links -> Dirs]
    /\ \A r \in Reqs :
         /\ mreq[r].op \in {"none", "mount", "unmount"}
         /\ mreq[r].src \in Paths \cup {Empty}
         /\ mreq[r].dst \in Paths \cup {Empty}
         /\ mreq[r].flags \subseteq Flags
         /\ mreq[r].pc \in {"idle", "snap", "check", "sys", "chown", "done"}
         /\ mreq[r].snap \in BOOLEAN
         /\ mreq[r].res \in Status

-----------------------------------------------------------------------------
(* mountd on its own, called by any local process that can reach its       *)
(* socket.  Such a caller may name any path and any flags; the owner made  *)
(* its symlinks point wherever it chose.  A caller stops issuing mounts    *)
(* onto a directory that carries MaxStack mounts.                          *)

Client(r) ==
    /\ mreq[r].pc = "idle"
    /\ \/ \E src, dst \in ArgPaths, flags \in ArgFlags :
            /\ r \in MountReqs
            /\ dst \in Dirs \cup Links => Len(mtab[Resolve(dst)]) < MaxStack
            /\ Call(r, "mount", src, dst, flags)
       \/ \E dst \in ArgPaths : Call(r, "unmount", Empty, dst, {})
    /\ UNCHANGED <<mtab, owner, hostVars>>

Reply(r) ==
    /\ mreq[r].pc = "done"
    /\ mreq' = [mreq EXCEPT ![r] = Idle]
    /\ UNCHANGED <<mtab, owner, hostVars>>

vars == <<mountdVars, hostVars>>

Init ==
    /\ MountdInit
    /\ present = Dirs \ Missing
    /\ lvs = Vols
    /\ link \in [Links -> Dirs]

Next == \E r \in Reqs : Client(r) \/ Reply(r) \/ MountdStep(r)

Spec == Init /\ [][Next]_vars

-----------------------------------------------------------------------------
(* Properties                                                              *)

\* mount() is idempotent (spec 4.2, 8): a second mount onto a directory that
\* is already a mount point is answered from the mount table and never
\* stacks a second mount on it.
NoStackedMounts == \A d \in Dirs : Len(mtab[d]) <= 1

\* The privilege boundary: the unprivileged owner, calling mount() and
\* unmount(), only ever gets mounts placed on, or the ownership of,
\* directories that the whitelist names or that it owned to begin with.
OwnerConfined ==
    \A d \in Dirs :
        (mtab[d] # <<>> \/ owner[d] = Owner)
            => d \in Whitelist \/ InitOwner[d] = Owner

\* Spec 4.2: after a successful mount, dst is chowned to the owner pair, so
\* whenever mount() answers OK the filesystem visible at dst is the owner's.
OwnedWhenMountOK ==
    \A r \in Reqs :
        LET q == mreq[r] IN
        (q.op = "mount" /\ q.pc = "done" /\ q.res = "OK")
            => owner[VisibleAt(Resolve(q.dst))] = Owner
=============================================================================
