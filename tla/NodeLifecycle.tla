---------------------------- MODULE NodeLifecycle ----------------------------
(***************************************************************************)
(* The Node-side life of a volume that spec 4.4 promises: a volume is      *)
(* unstaged, staged at its staging path, or published at its target path,  *)
(* and moves only Unstaged -> Staged -> Published -> Staged -> Unstaged.   *)
(* There is no persisted state object: the state is whatever the host      *)
(* mount table shows, so Node.tla maps its mount table onto life.          *)
(***************************************************************************)
CONSTANT Vols

VARIABLE life

LifeStates == {"Unstaged", "Staged", "Published"}

LifeTypeOK == life \in [Vols -> LifeStates]

Init == life = [v \in Vols |-> "Unstaged"]

Move(v, from, to) ==
    /\ life[v] = from
    /\ life' = [life EXCEPT ![v] = to]

Stage(v)     == Move(v, "Unstaged", "Staged")
Publish(v)   == Move(v, "Staged", "Published")
Unpublish(v) == Move(v, "Published", "Staged")
Unstage(v)   == Move(v, "Staged", "Unstaged")

Next == \E v \in Vols : Stage(v) \/ Publish(v) \/ Unpublish(v) \/ Unstage(v)

Spec == Init /\ [][Next]_life
=============================================================================
