------------------------------- MODULE MC_Node -------------------------------
(* Two volumes, each with a staging path and a target path, all under the   *)
(* kubelet directory that the whitelist names.  The staging paths exist;    *)
(* the target paths are created by publish.  v2 is SingleNodeReaderOnly.    *)
EXTENDS Node

CONSTANTS s1, t1, s2, t2, v1, v2, OwnerPair, RootPair, EmptyPath

MCDirs == {s1, t1, s2, t2}
MCVols == {v1, v2}
MCInitOwner == [o \in MCDirs \cup MCVols |-> RootPair]
MCStaging == (v1 :> s1) @@ (v2 :> s2)
MCTarget == (v1 :> t1) @@ (v2 :> t2)
MCMissing == {t1, t2}
MCReaderOnly == {v2}
MCReqs == {1, 2}
MCOneVol == {v1}
MCOneVolDirs == {s1, t1}
\* The device nodes /dev/<vg>/* and the kubelet directory.
MCWhitelist == MCDirs \cup MCVols
=============================================================================
