-------------------------------- MODULE Node --------------------------------
(***************************************************************************)
(* The CSI Node service (crates/csi/src/node.rs) over mountd.  Each of the *)
(* four handlers is a request in a slot of Reqs; a handler in slot r calls *)
(* mountd through mountd's slot r and waits for its answer, so Node and    *)
(* mountd steps of different requests interleave freely, as they do on the *)
(* two tokio runtimes.  The container orchestrator (CO: kubelet) drives    *)
(* each volume through the lifecycle, retries a call that failed, and may  *)
(* time out a call, which cancels it, and retry it.                        *)
(*                                                                         *)
(* A volume v is staged at Staging[v] and published at Target[v].  The CO  *)
(* pre-creates staging paths; publish creates the target directory.        *)
(***************************************************************************)
EXTENDS Naturals, Sequences, SequencesExt, FiniteSets

CONSTANTS
    Dirs, Vols, Links, Owner, Root, InitOwner, Whitelist, ReadOnlyBit,
    Empty, Reqs, Missing,
    Staging,      \* [Vols -> Dirs]: staging_target_path the CO uses for v
    Target,       \* [Vols -> Dirs]: target_path the CO uses for v
    ReaderOnly,   \* volumes whose access mode is SingleNodeReaderOnly
    MaxTimeouts   \* bound on the CO's timeouts in one behaviour

ASSUME /\ Staging \in [Vols -> Dirs]
       /\ Target \in [Vols -> Dirs]
       /\ ReaderOnly \subseteq Vols
       /\ MaxTimeouts \in Nat
       /\ Reqs \subseteq Nat \ {0}

VARIABLES
    mtab, owner, present, lvs, link, mreq,   \* mountd and the host
    nreq,      \* [Reqs -> Node handler state]
    co,        \* [Vols -> LifeStates]: what the CO was last told
    pend,      \* [Vols -> Reqs \cup {0}]: the call whose answer the CO awaits
    retry,     \* [Vols -> NodeOps \cup {"none"}]: the call the CO must repeat
    timeouts   \* timeouts taken so far

\* mountd as called by the Node plugin; no other local caller.
M == INSTANCE Mountd WITH MaxStack <- 1, ArgPaths <- {}, ArgFlags <- {},
                           MountReqs <- Reqs

LifeStates == {"Unstaged", "Staged", "Published"}
NodeOps == {"stage", "unstage", "publish", "unpublish"}
NIdle == [op |-> "none", vol |-> Empty, pc |-> "idle", res |-> "OK"]

mountdVars == <<mtab, owner, present, lvs, link, mreq>>
coVars == <<co, pend, retry, timeouts>>
vars == <<mountdVars, nreq, coVars>>

-----------------------------------------------------------------------------
(* The handlers.                                                           *)

\* Lines 117-121 and 234-238: SingleNodeReaderOnly asks for a read-only
\* mount; publish always binds.
\* Mutant: the access mode is not turned into a ReadOnly flag.
StageFlagsRW(v) == {}

StageFlags(v) == IF v \in ReaderOnly THEN {"ReadOnly"} ELSE {}
PublishFlags(v) == {"Bind"} \cup StageFlags(v)

NFinish(r, status) == nreq' = [nreq EXCEPT ![r].pc = "done", ![r].res = status]

\* Hand the request to mountd in the same slot and wait for its answer.
ToMountd(r, op, src, dst, flags) ==
    /\ M!Call(r, op, src, dst, flags)
    /\ nreq' = [nreq EXCEPT ![r].pc = "mountd"]

\* Mutant: stage mounts the device at the target path instead.
NodeStageVolumeAtTarget(r) ==
    LET v == nreq[r].vol IN
    /\ nreq[r].pc = "start" /\ nreq[r].op = "stage"
    /\ CASE M!GetLvmBlockPath(v) # "OK" ->
                NFinish(r, M!GetLvmBlockPath(v)) /\ UNCHANGED mreq
         [] ~M!PathExists(v) \/ ~M!PathExists(Target[v]) ->
                NFinish(r, "FailedPrecondition") /\ UNCHANGED mreq
         [] OTHER -> ToMountd(r, "mount", v, Target[v], StageFlags(v))
    /\ UNCHANGED <<mtab, owner, present, lvs, link, coVars>>

\* node_stage_volume, lines 76-135: resolve the device node through mountd,
\* require it and the staging path to exist, mount the device there.  The
\* CO never sends empty fields, so the argument checks never fail.
NodeStageVolume(r) ==
    LET v == nreq[r].vol IN
    /\ nreq[r].pc = "start" /\ nreq[r].op = "stage"
    /\ CASE M!GetLvmBlockPath(v) # "OK" ->
                NFinish(r, M!GetLvmBlockPath(v)) /\ UNCHANGED mreq
         [] ~M!PathExists(v) \/ ~M!PathExists(Staging[v]) ->
                NFinish(r, "FailedPrecondition") /\ UNCHANGED mreq
         [] OTHER -> ToMountd(r, "mount", v, Staging[v], StageFlags(v))
    /\ UNCHANGED <<mtab, owner, present, lvs, link, coVars>>

\* node_unstage_volume, lines 149-180.
NodeUnstageVolume(r) ==
    LET v == nreq[r].vol IN
    /\ nreq[r].pc = "start" /\ nreq[r].op = "unstage"
    /\ CASE M!GetLvmBlockPath(v) # "OK" ->
                NFinish(r, M!GetLvmBlockPath(v)) /\ UNCHANGED mreq
         [] ~M!PathExists(v) ->
                NFinish(r, "FailedPrecondition") /\ UNCHANGED mreq
         [] OTHER -> ToMountd(r, "unmount", Empty, Staging[v], {})
    /\ UNCHANGED <<mtab, owner, present, lvs, link, coVars>>

\* node_publish_volume, lines 194-223: check the volume id through mountd,
\* then create_dir_all(target_path).
NodePublishVolume(r) ==
    LET v == nreq[r].vol IN
    /\ nreq[r].pc = "start" /\ nreq[r].op = "publish"
    /\ \/ /\ M!GetLvmBlockPath(v) # "OK"
          /\ NFinish(r, M!GetLvmBlockPath(v))
          /\ UNCHANGED present
       \/ /\ M!GetLvmBlockPath(v) = "OK"
          /\ present' = present \cup {Target[v]}
          /\ nreq' = [nreq EXCEPT ![r].pc = "bind"]
    /\ UNCHANGED <<mtab, owner, lvs, link, mreq, coVars>>

\* Mutant: source and destination of the bind swapped.
NodePublishBindSwapped(r) ==
    LET v == nreq[r].vol IN
    /\ nreq[r].pc = "bind"
    /\ CASE ~M!PathExists(Staging[v]) ->
                NFinish(r, "FailedPrecondition") /\ UNCHANGED mreq
         [] OTHER -> ToMountd(r, "mount", Target[v], Staging[v], PublishFlags(v))
    /\ UNCHANGED <<mtab, owner, present, lvs, link, coVars>>

\* Lines 225-258: the staging path must exist ("was it staged?"); then
\* bind-mount it onto the target.
NodePublishBind(r) ==
    LET v == nreq[r].vol IN
    /\ nreq[r].pc = "bind"
    /\ CASE ~M!PathExists(Staging[v]) ->
                NFinish(r, "FailedPrecondition") /\ UNCHANGED mreq
         [] OTHER -> ToMountd(r, "mount", Staging[v], Target[v], PublishFlags(v))
    /\ UNCHANGED <<mtab, owner, present, lvs, link, coVars>>

\* Mutant: unpublish unmounts the staging path, as unstage does.
NodeUnpublishVolumeStaging(r) ==
    LET v == nreq[r].vol IN
    /\ nreq[r].pc = "start" /\ nreq[r].op = "unpublish"
    /\ CASE M!GetLvmBlockPath(v) # "OK" ->
                NFinish(r, M!GetLvmBlockPath(v)) /\ UNCHANGED mreq
         [] OTHER -> ToMountd(r, "unmount", Empty, Staging[v], {})
    /\ UNCHANGED <<mtab, owner, present, lvs, link, coVars>>

\* Mutant: unpublish answers OK without asking mountd to unmount.
NodeUnpublishVolumeNoUnmount(r) ==
    LET v == nreq[r].vol IN
    /\ nreq[r].pc = "start" /\ nreq[r].op = "unpublish"
    /\ CASE M!GetLvmBlockPath(v) # "OK" ->
                NFinish(r, M!GetLvmBlockPath(v)) /\ UNCHANGED mreq
         [] OTHER -> NFinish(r, "OK") /\ UNCHANGED mreq
    /\ UNCHANGED <<mtab, owner, present, lvs, link, coVars>>

\* node_unpublish_volume, lines 272-293.
NodeUnpublishVolume(r) ==
    LET v == nreq[r].vol IN
    /\ nreq[r].pc = "start" /\ nreq[r].op = "unpublish"
    /\ CASE M!GetLvmBlockPath(v) # "OK" ->
                NFinish(r, M!GetLvmBlockPath(v)) /\ UNCHANGED mreq
         [] OTHER -> ToMountd(r, "unmount", Empty, Target[v], {})
    /\ UNCHANGED <<mtab, owner, present, lvs, link, coVars>>

\* Mutant: a mountd failure reaches the CO as Unknown instead of unchanged.
MountdReturnsUnknown(r) ==
    LET q == mreq[r]
        t == Target[nreq[r].vol]
    IN  /\ nreq[r].pc = "mountd" /\ q.pc = "done"
        /\ mreq' = [mreq EXCEPT ![r] = M!Idle]
        /\ \/ /\ q.res # "OK"
              /\ NFinish(r, "Unknown")
              /\ UNCHANGED present
           \/ /\ q.res = "OK" /\ nreq[r].op # "unpublish"
              /\ NFinish(r, "OK")
              /\ UNCHANGED present
           \/ /\ q.res = "OK" /\ nreq[r].op = "unpublish"
              /\ present' = IF mtab[t] = <<>> THEN present \ {t} ELSE present
              /\ NFinish(r, "OK")
        /\ UNCHANGED <<mtab, owner, lvs, link, coVars>>

\* Mutant: the handler only resumes on a successful answer from mountd.
MountdReturnsOnlyOK(r) ==
    LET q == mreq[r]
        t == Target[nreq[r].vol]
    IN  /\ nreq[r].pc = "mountd" /\ q.pc = "done" /\ q.res = "OK"
        /\ mreq' = [mreq EXCEPT ![r] = M!Idle]
        /\ \/ /\ nreq[r].op # "unpublish"
              /\ NFinish(r, "OK")
              /\ UNCHANGED present
           \/ /\ nreq[r].op = "unpublish"
              /\ present' = IF mtab[t] = <<>> THEN present \ {t} ELSE present
              /\ NFinish(r, "OK")
        /\ UNCHANGED <<mtab, owner, lvs, link, coVars>>

\* mountd's answer returns to the handler (lines 136-137, 181-182, 259-260,
\* 295-300).  Errors pass through unchanged.  After a successful unmount,
\* unpublish removes the target directory and ignores a failure: rmdir of
\* a directory that is still a mount point fails with EBUSY.
MountdReturns(r) ==
    LET q == mreq[r]
        t == Target[nreq[r].vol]
    IN  /\ nreq[r].pc = "mountd" /\ q.pc = "done"
        /\ mreq' = [mreq EXCEPT ![r] = M!Idle]
        /\ \/ /\ q.res # "OK" \/ nreq[r].op # "unpublish"
              /\ NFinish(r, q.res)
              /\ UNCHANGED present
           \/ /\ q.res = "OK" /\ nreq[r].op = "unpublish"
              /\ present' = IF mtab[t] = <<>> THEN present \ {t} ELSE present
              /\ NFinish(r, "OK")
        /\ UNCHANGED <<mtab, owner, lvs, link, coVars>>

NodeStep(r) ==
    \/ NodeStageVolume(r) \/ NodeUnstageVolume(r)
    \/ NodePublishVolume(r) \/ NodePublishBind(r)
    \/ NodeUnpublishVolume(r) \/ MountdReturns(r)

MountdStep(r) == M!MountdStep(r) /\ UNCHANGED <<nreq, coVars>>

-----------------------------------------------------------------------------
(* The CO follows the lifecycle.  It waits for one call per volume; a call *)
(* that failed or timed out is repeated before anything else is done with *)
(* the volume, as kubelet's reconciler does.                               *)

\* The calls spec 4.4 allows the CO from what it was last told.
CoOps(v) ==
    CASE co[v] = "Unstaged"  -> {"stage"}
      [] co[v] = "Staged"    -> {"publish", "unstage"}
      [] co[v] = "Published" -> {"unpublish"}

After(op) ==
    CASE op = "stage" -> "Staged"     [] op = "publish" -> "Published"
      [] op = "unpublish" -> "Staged" [] op = "unstage" -> "Unstaged"

CoCall(v, r) ==
    /\ pend[v] = 0 /\ nreq[r].pc = "idle"
    /\ \E op \in IF retry[v] = "none" THEN CoOps(v) ELSE {retry[v]} :
          nreq' = [nreq EXCEPT ![r] = [op |-> op, vol |-> v, pc |-> "start",
                                        res |-> "OK"]]
    /\ pend' = [pend EXCEPT ![v] = r]
    /\ UNCHANGED <<mountdVars, co, retry, timeouts>>

\* The CO's deadline passes.  tonic enforces the grpc-timeout the CO sent
\* and drops the handler at the await it is suspended in, so the handler
\* takes no further step and its answer is never sent; the CO repeats the
\* call.  A mountd call not yet served is dropped with it; one that mountd
\* has begun runs to the end first, mountd's handlers having no await.
CoTimeout(v) ==
    LET r == pend[v] IN
    /\ r # 0 /\ timeouts < MaxTimeouts
    /\ mreq[r].pc \in {"idle", "snap", "done"}
    /\ nreq' = [nreq EXCEPT ![r] = NIdle]
    /\ mreq' = [mreq EXCEPT ![r] = M!Idle]
    /\ retry' = [retry EXCEPT ![v] = nreq[r].op]
    /\ pend' = [pend EXCEPT ![v] = 0]
    /\ timeouts' = timeouts + 1
    /\ UNCHANGED <<mtab, owner, present, lvs, link, co>>

CoReceive(r) ==
    LET v == nreq[r].vol
        ok == nreq[r].res = "OK"
    IN  /\ nreq[r].pc = "done"
        /\ nreq' = [nreq EXCEPT ![r] = NIdle]
        /\ IF pend[v] = r
           THEN /\ pend' = [pend EXCEPT ![v] = 0]
                /\ co' = IF ok THEN [co EXCEPT ![v] = After(nreq[r].op)] ELSE co
                /\ retry' = [retry EXCEPT ![v] = IF ok THEN "none" ELSE nreq[r].op]
           ELSE UNCHANGED <<pend, co, retry>>
        /\ UNCHANGED <<mountdVars, timeouts>>

-----------------------------------------------------------------------------

Init ==
    /\ M!MountdInit
    /\ present = Dirs \ Missing
    /\ lvs = Vols
    /\ link \in [Links -> Dirs]
    /\ nreq = [r \in Reqs |-> NIdle]
    /\ co = [v \in Vols |-> "Unstaged"]
    /\ pend = [v \in Vols |-> 0]
    /\ retry = [v \in Vols |-> "none"]
    /\ timeouts = 0

Next ==
    \/ \E r \in Reqs : MountdStep(r) \/ NodeStep(r) \/ CoReceive(r)
    \/ \E v \in Vols : CoTimeout(v) \/ \E r \in Reqs : CoCall(v, r)

\* tokio runs every handler that can proceed, mountd answers every call,
\* and the CO reads every answer that arrives.  The CO keeps calling for
\* every volume, as kubelet's reconciler retries until it reaches the
\* desired state.
Fairness ==
    /\ \A r \in Reqs : /\ WF_vars(MountdStep(r))
                       /\ WF_vars(NodeStep(r))
                       /\ WF_vars(CoReceive(r))
    /\ \A v \in Vols : WF_vars(\E r \in Reqs : CoCall(v, r))

Spec == Init /\ [][Next]_vars /\ Fairness

-----------------------------------------------------------------------------
(* Properties                                                              *)

NodeTypeOK ==
    /\ M!MountdTypeOK
    /\ nreq \in [Reqs -> [op : NodeOps \cup {"none"}, vol : Vols \cup {Empty},
                          pc : {"idle", "start", "bind", "mountd", "done"},
                          res : M!Status]]
    /\ co \in [Vols -> LifeStates]
    /\ pend \in [Vols -> Reqs \cup {0}]
    /\ retry \in [Vols -> NodeOps \cup {"none"}]
    /\ timeouts \in 0..MaxTimeouts

MountedAt(v) == {d \in Dirs : \E i \in 1..Len(mtab[d]) : mtab[d][i].obj = v}

\* The CO has its answer for v, owes no retry, and nothing of the Node
\* plugin is still working on v.
Quiet(v) ==
    /\ pend[v] = 0 /\ retry[v] = "none"
    /\ \A r \in Reqs : nreq[r].vol = v => nreq[r].pc = "idle"

\* Spec 4.4: once the CO has been told v is published, and until it calls
\* again for v, its target path shows v's filesystem (a bind of the staging
\* mount), not the bare directory.
PublishedShowsVolume ==
    \A v \in Vols :
        co[v] = "Published" /\ Quiet(v) => M!VisibleAt(Target[v]) = v

\* Once NodeUnstageVolume answered OK and nothing is in flight for v, v is
\* mounted nowhere: unstage and unpublish leave no mount behind, so the
\* controller can delete the logical volume.
UnstagedNotMounted ==
    \A v \in Vols : co[v] = "Unstaged" /\ Quiet(v) => MountedAt(v) = {}

\* A reader-only volume is read-only wherever it is visible: publish asks
\* for MS_BIND|MS_RDONLY, which the kernel ignores, so this rests on the
\* staging mount being read-only.
ReaderOnlyStaysReadOnly ==
    \A v \in ReaderOnly, d \in Dirs :
        M!VisibleAt(d) = v /\ mtab[d] # <<>> => M!SuperRO(d)

\* A call that failed or timed out is repeated until it succeeds: retrying
\* converges because mount and unmount answer OK when the work was already
\* done by an earlier call (mountd's early returns on the mount table).
RetriesConverge == \A v \in Vols : retry[v] # "none" ~> retry[v] = "none"

\* The mount table moves each volume through the lifecycle of spec 4.4.  A
\* volume is staged when its staging path carries its mount and published
\* when, besides, its target path shows it.  A volume visible at its target
\* with no staging mount is in no lifecycle state; it maps to Unstaged, to
\* which the lifecycle never lets a published volume move.
LifeOf(v) ==
    CASE Staging[v] \notin MountedAt(v)  -> "Unstaged"
      [] M!VisibleAt(Target[v]) = v     -> "Published"
      [] OTHER                          -> "Staged"

Life == INSTANCE NodeLifecycle WITH life <- [v \in Vols |-> LifeOf(v)]

LifecycleRefined == Life!Spec
=============================================================================
