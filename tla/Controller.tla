----------------------------- MODULE Controller -----------------------------
(***************************************************************************)
(* The CSI Controller service (crates/csi/src/controller.rs) over volumed. *)
(* CreateVolume and DeleteVolume are requests in the slots of Reqs; each   *)
(* call they make to volumed is a step, and requests interleave between    *)
(* those steps as tonic runs them in parallel.  The CO (the external       *)
(* provisioner) creates each name, later deletes the volume it got back,   *)
(* and repeats a call that failed.  Spec adds no timeouts; SpecTimeouts    *)
(* lets the CO time out a call, which cancels it, and repeat it.           *)
(***************************************************************************)
EXTENDS Naturals, FiniteSets

CONSTANTS
    Names, Extent, VGSize, Spare, MaxUuid,
    ReqSize,      \* [Names -> Nat]: capacity_range.required_bytes per name
    MinSize,      \* MIN_VOLUME_SIZE_BYTES
    Reqs,         \* controller request slots
    MaxRounds,    \* create/delete cycles the CO runs per name
    MaxTimeouts   \* bound on the CO's timeouts in one behaviour

ASSUME /\ ReqSize \in [Names -> Nat]
       /\ MinSize \in Nat
       /\ MaxRounds \in Nat /\ MaxTimeouts \in Nat
       /\ Reqs \subseteq Nat \ {0}

VARIABLES
    lvs, nextUuid,  \* volumed: the volume group
    creq,           \* [Reqs -> Controller handler state]
    co,             \* [Names -> 0..MaxUuid]: volume_id the CO holds, 0 none
    pend,           \* [Names -> Reqs \cup {0}]: the call the CO awaits
    rounds,         \* [Names -> Nat]: volumes of each name the CO deleted
    dels,           \* ids the CO has sent a DeleteVolume for
    timeouts

V == INSTANCE Volumed

CIdle == [op |-> "none", name |-> CHOOSE n \in Names : TRUE, uuid |-> 0,
          pc |-> "idle", res |-> "OK"]

vgVars == <<lvs, nextUuid>>
coVars == <<co, pend, rounds, dels, timeouts>>
vars == <<vgVars, creq, coVars>>

-----------------------------------------------------------------------------
(* create_volume, lines 244-352                                           *)

CFinish(r, status) == creq' = [creq EXCEPT ![r].pc = "done", ![r].res = status]
Goto(r, pc) == creq' = [creq EXCEPT ![r].pc = pc]

\* Lines 253-303: the CO sends a name and capabilities; the capacity is
\* checked against the minimum and against get_free_bytes.
CreateCheckCapacity(r) ==
    LET s == ReqSize[creq[r].name] IN
    /\ creq[r].pc = "start" /\ creq[r].op = "create"
    /\ IF s < MinSize \/ s > V!GetFreeBytes
       THEN CFinish(r, "OutOfRange")
       ELSE Goto(r, "lookup")
    /\ UNCHANGED <<vgVars, coVars>>

\* Mutant: an LV found under the name is never reused.
CreateLookupNoReuse(r) ==
    /\ creq[r].pc = "lookup"
    /\ Goto(r, "create")
    /\ UNCHANGED <<vgVars, coVars>>

\* Lines 305-342, the lookup by safe name: an LV of another capacity is a
\* conflict, one of the same capacity is reused.
CreateLookup(r) ==
    LET n == creq[r].name
        found == V!LvNamed(n)
    IN  /\ creq[r].pc = "lookup"
        /\ \/ /\ found = {}
              /\ Goto(r, "create")
           \/ \E l \in found :
                 IF l.size # ReqSize[n]
                 THEN CFinish(r, "AlreadyExists")
                 ELSE creq' = [creq EXCEPT ![r].uuid = l.uuid, ![r].pc = "format"]
        /\ UNCHANGED <<vgVars, coVars>>

\* Mutant: the lvcreate error is mapped to Internal.
CreateLogicalVolumeInternal(r) ==
    LET n == creq[r].name IN
    /\ creq[r].pc = "create"
    /\ nextUuid <= MaxUuid
    /\ IF V!CreateFails(n, ReqSize[n])
       THEN CFinish(r, "Internal") /\ UNCHANGED vgVars
       ELSE /\ V!CreateLv(n, ReqSize[n])
            /\ creq' = [creq EXCEPT ![r].uuid = nextUuid, ![r].pc = "format"]
    /\ UNCHANGED coVars

\* Mutant: the id returned is read after lvcreate took it.
CreateLogicalVolumeNextId(r) ==
    LET n == creq[r].name IN
    /\ creq[r].pc = "create"
    /\ nextUuid <= MaxUuid
    /\ IF V!CreateFails(n, ReqSize[n])
       THEN CFinish(r, "InvalidArgument") /\ UNCHANGED vgVars
       ELSE /\ V!CreateLv(n, ReqSize[n])
            /\ creq' = [creq EXCEPT ![r].uuid = nextUuid', ![r].pc = "format"]
    /\ UNCHANGED coVars

\* Lines 331-338: NotFound, so create_logical_volume; its error is
\* returned as it is.
CreateLogicalVolume(r) ==
    LET n == creq[r].name IN
    /\ creq[r].pc = "create"
    /\ nextUuid <= MaxUuid
    /\ IF V!CreateFails(n, ReqSize[n])
       THEN CFinish(r, "InvalidArgument") /\ UNCHANGED vgVars
       ELSE /\ V!CreateLv(n, ReqSize[n])
            /\ creq' = [creq EXCEPT ![r].uuid = nextUuid, ![r].pc = "format"]
    /\ UNCHANGED coVars

\* Lines 344-351 and volumed format_logical_volume: mkfs.xfs -f on the LV
\* of that name, created or reused (what it writes is not modelled).
CreateFormat(r) ==
    /\ creq[r].pc = "format"
    /\ CFinish(r, V!FormatResult(creq[r].name))
    /\ UNCHANGED <<vgVars, coVars>>

-----------------------------------------------------------------------------
(* delete_volume, lines 354-389                                           *)

\* Lines 361-373: look the id up; a missing volume is a success.
DeleteLookup(r) ==
    LET found == V!LvWithUuid(creq[r].uuid) IN
    /\ creq[r].pc = "start" /\ creq[r].op = "delete"
    /\ \/ /\ found = {}
          /\ CFinish(r, "OK")
       \/ \E l \in found :
             creq' = [creq EXCEPT ![r].name = l.name, ![r].pc = "remove"]
    /\ UNCHANGED <<vgVars, coVars>>

\* Lines 375-388: delete_logical_volume by the name found; lvremove of a
\* name that is gone fails as a Command error.
DeleteLogicalVolume(r) ==
    LET n == creq[r].name IN
    /\ creq[r].pc = "remove"
    /\ IF V!LvNamed(n) = {}
       THEN CFinish(r, "InvalidArgument") /\ UNCHANGED vgVars
       ELSE V!RemoveLv(n) /\ CFinish(r, "OK")
    /\ UNCHANGED coVars

ControllerStep(r) ==
    \/ CreateCheckCapacity(r) \/ CreateLookup(r) \/ CreateLogicalVolume(r)
    \/ CreateFormat(r) \/ DeleteLookup(r) \/ DeleteLogicalVolume(r)

-----------------------------------------------------------------------------
(* The CO: for each name, CreateVolume until it answers OK, then           *)
(* DeleteVolume of the id it got until that answers OK, MaxRounds times.   *)

CoCall(n, r) ==
    /\ pend[n] = 0 /\ creq[r].pc = "idle"
    /\ \/ /\ co[n] = 0 /\ rounds[n] < MaxRounds
          /\ creq' = [creq EXCEPT ![r] = [op |-> "create", name |-> n, uuid |-> 0,
                                          pc |-> "start", res |-> "OK"]]
       \/ /\ co[n] # 0
          /\ creq' = [creq EXCEPT ![r] = [op |-> "delete", name |-> n, uuid |-> co[n],
                                          pc |-> "start", res |-> "OK"]]
    /\ pend' = [pend EXCEPT ![n] = r]
    /\ dels' = IF co[n] # 0 THEN dels \cup {co[n]} ELSE dels
    /\ UNCHANGED <<vgVars, co, rounds, timeouts>>

\* The CO's deadline passes.  tonic enforces the grpc-timeout and drops the
\* handler at the volumed call it awaits: that call, which volumed runs
\* without an await, has been made or not, and the handler takes no
\* further step.  The CO repeats the call.
CoTimeout(n) ==
    /\ pend[n] # 0 /\ timeouts < MaxTimeouts
    /\ creq' = [creq EXCEPT ![pend[n]] = CIdle]
    /\ pend' = [pend EXCEPT ![n] = 0]
    /\ timeouts' = timeouts + 1
    /\ UNCHANGED <<vgVars, co, rounds, dels>>

\* The CO reads an answer.  The name of a delete request is the CO's name
\* until the lookup replaces it with the LV's, which is the same one.
CoReceive(r) ==
    LET q == creq[r]
        n == q.name
    IN  /\ q.pc = "done"
        /\ creq' = [creq EXCEPT ![r] = CIdle]
        /\ IF pend[n] = r /\ q.res = "OK"
           THEN /\ pend' = [pend EXCEPT ![n] = 0]
                /\ co' = [co EXCEPT ![n] = IF q.op = "create" THEN q.uuid ELSE 0]
                /\ rounds' = [rounds EXCEPT ![n] = IF q.op = "delete" THEN @ + 1 ELSE @]
           ELSE /\ pend' = IF pend[n] = r THEN [pend EXCEPT ![n] = 0] ELSE pend
                /\ UNCHANGED <<co, rounds>>
        /\ UNCHANGED <<vgVars, dels, timeouts>>

-----------------------------------------------------------------------------

Init ==
    /\ V!VolumedInit
    /\ creq = [r \in Reqs |-> CIdle]
    /\ co = [n \in Names |-> 0]
    /\ pend = [n \in Names |-> 0]
    /\ rounds = [n \in Names |-> 0]
    /\ dels = {}
    /\ timeouts = 0

Next ==
    \/ \E r \in Reqs : ControllerStep(r) \/ CoReceive(r)
    \/ \E n \in Names, r \in Reqs : CoCall(n, r)

NextTimeouts == Next \/ \E n \in Names : CoTimeout(n)

\* tokio runs every accepted request to completion and the CO keeps
\* calling until it is done with a name.
Fairness ==
    /\ \A r \in Reqs : WF_vars(ControllerStep(r)) /\ WF_vars(CoReceive(r))
    /\ \A n \in Names : WF_vars(\E r \in Reqs : CoCall(n, r))

SpecTimeouts == Init /\ [][NextTimeouts]_vars /\ Fairness

-----------------------------------------------------------------------------
(* Properties                                                              *)

ControllerTypeOK ==
    /\ V!VolumedTypeOK
    /\ creq \in [Reqs -> [op : {"none", "create", "delete"}, name : Names,
                          uuid : 0..MaxUuid,
                          pc : {"idle", "start", "lookup", "create", "format",
                                "remove", "done"},
                          res : {"OK", "OutOfRange", "AlreadyExists",
                                 "InvalidArgument", "NotFound"}]]
    /\ co \in [Names -> 0..MaxUuid]
    /\ pend \in [Names -> Reqs \cup {0}]
    /\ rounds \in [Names -> 0..MaxRounds]
    /\ dels \subseteq 1..MaxUuid
    /\ timeouts \in 0..MaxTimeouts

\* Every answer create_volume and delete_volume give is one the spec
\* allows: OK, or OutOfRange for a capacity out of bounds.  All requests
\* for a name carry the same capacity here, so AlreadyExists is never due;
\* identical retries and parallel calls are not refused (spec 5: the
\* volume manager's create conflict must be caught), and DeleteVolume of
\* a volume that is or becomes gone succeeds (spec 6).
AnswersAsSpecified ==
    \A r \in Reqs :
        LET q == creq[r]
            s == ReqSize[q.name]
        IN  q.pc = "done" =>
              \/ q.res = "OK"
              \/ q.res = "OutOfRange" /\ (s < MinSize \/ s > V!GetFreeBytes)

\* The volume the CO holds for a name is in the volume group under that
\* name until the CO sends DeleteVolume for that id: the id create_volume
\* returns is the one of the LV it created or reused under the name, and no
\* other request, cancelled or retried, removes that LV.
CoVolumeExists ==
    \A n \in Names :
        co[n] \notin dels \cup {0} => \E l \in lvs : l.uuid = co[n] /\ l.name = n

\* However the CO's calls of different names interleave and time out,
\* retrying create_volume and delete_volume converges: every name
\* eventually goes through all its create/delete rounds.  A retried create
\* has to reuse the LV the cancelled call left behind.
CoFinishes == <>(\A n \in Names : rounds[n] = MaxRounds)
=============================================================================
