--------------------------- MODULE MC_ListVolumes ---------------------------
(* Two CO names, lvs listing n1 before n2, room for both volumes in         *)
(* one-unit extents, three creations in a behaviour.  The CO sends a       *)
(* negative, the unbounded 0 and page sizes below and at the group's size. *)
EXTENDS ListVolumes, TLC

CONSTANTS n1, n2

MCNames == {n1, n2}
MCLvOrder == (n1 :> 1) @@ (n2 :> 2)
MCMaxEntries == {-1, 0, 1, 2}
=============================================================================
