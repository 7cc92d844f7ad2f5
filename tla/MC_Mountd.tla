----------------------------- MODULE MC_Mountd -----------------------------
(***************************************************************************)
(* Model of one host for Mountd:                                           *)
(*   d1  a directory the owner created, owned by Owner, mode 0555;        *)
(*   d2  a kubelet directory, root's, matched by the whitelist;           *)
(*   d3  a root directory outside the whitelist, say /etc;               *)
(*   d4  a whitelisted directory that does not exist;                      *)
(*   v1  a logical volume; its device node is whitelisted, /dev/vg/... ;   *)
(*   l1  a symlink, in a whitelisted tree, that the owner controls.        *)
(***************************************************************************)
EXTENDS Mountd

CONSTANTS d1, d2, d3, d4, v1, l1, OwnerPair, RootPair, EmptyPath

MCDirs      == {d1, d2, d3, d4}
MCVols      == {v1}
MCNoLinks   == {}
MCLinks     == {l1}
MCInitOwner == [o \in MCDirs \cup MCVols |-> IF o = d1 THEN OwnerPair ELSE RootPair]
MCWhitelist == {d2, d4, v1} \cup Links
MCReadOnly  == {d1}
MCMissing   == {d4}
MCAllPaths  == MCDirs \cup MCVols \cup Links \cup {EmptyPath}
MCAllFlags  == SUBSET Flags
MCFewPaths  == {d2, d3, v1}
MCFewFlags  == {{}, {"Bind"}, {"ReadOnly"}}
MCOneReq    == {1}
MCTwoReqs   == {1, 2}
=============================================================================
