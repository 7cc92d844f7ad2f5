---------------------------- MODULE ListVolumes ----------------------------
(***************************************************************************)
(* ListVolumes of the CSI Controller (crates/csi/src/controller.rs) over   *)
(* volumed's get_lv_list, and a CO that pages through it: it sends a       *)
(* max_entries and, after the first page, the next_token of the page it    *)
(* got, until next_token comes back empty.  list_volumes makes one call to *)
(* volumed, so a call is one step.  Other calls of the CO create and       *)
(* delete volumes meanwhile; each is the one volumed step that changes the *)
(* group (the Controller module has their handlers in detail).             *)
(*                                                                         *)
(* A token is the number the code formats with to_string and parses back  *)
(* with parse::<usize>; NoToken is the empty string, which the code reads  *)
(* as offset 0.  The CO sends back only tokens it received, so the parse   *)
(* never fails (the Aborted branch) and start + max_entries stays far      *)
(* below usize::MAX (max_entries is an i32).                               *)
(***************************************************************************)
EXTENDS Integers, Sequences, SequencesExt, FiniteSets

CONSTANTS
    Names, Extent, VGSize, Spare, MaxUuid,
    LvOrder,      \* [Names -> Nat]: the order in which lvs reports the LVs
    MaxEntries    \* the max_entries values (an i32) the CO sends

ASSUME /\ LvOrder \in [Names -> Nat]
       /\ \A a, b \in Names : a # b => LvOrder[a] # LvOrder[b]
       /\ MaxEntries \subseteq Int

VARIABLES
    lvs, nextUuid,        \* volumed: the volume group
    lst                   \* the CO's listing in progress

V == INSTANCE Volumed

vgVars == <<lvs, nextUuid>>
vars == <<vgVars, lst>>

NoToken == -1

Uuids(S) == {l.uuid : l \in S}

-----------------------------------------------------------------------------

\* volumed get_lv_list: every LV of the group, in the order lvs lists them.
GetLvList == SetToSortSeq(lvs, LAMBDA a, b : LvOrder[a.name] < LvOrder[b.name])

\* Lines 121-129: an empty starting_token is offset 0.
Start(token) == IF token = NoToken THEN 0 ELSE token

\* Iterator::take(k): the first k entries, all of them if there are fewer.
Take(s, k) == SubSeq(s, 1, IF k < Len(s) THEN k ELSE Len(s))

\* Lines 131-169: the page is taken from the head of the list whatever the
\* start, max_entries 0 taking all of it; next_token is start + max_entries
\* while that is below the length of the page just taken.
ListPage(max, start) ==
    LET e == Take(GetLvList, IF max = 0 THEN Len(GetLvList) ELSE max) IN
    [entries |-> e,
     next    |-> IF start + max < Len(e) THEN start + max ELSE NoToken]

\* list_volumes, lines 104-170, and the CO reading its answer: a negative
\* max_entries fails the usize conversion (lines 114-119); otherwise the CO
\* adds the page to what it has seen and sends next_token, or stops when it
\* is empty.  A call that returns the page and token of the previous call
\* leaves the state as it was: the CO pages on without end.
ListVolumesCall ==
    LET q == lst IN
    /\ q.pc = "paging"
    /\ IF q.max < 0
       THEN lst' = [q EXCEPT !.pc = "done", !.res = "InvalidArgument"]
       ELSE LET p == ListPage(q.max, Start(q.token)) IN
            lst' = [q EXCEPT !.seen = @ \cup Uuids(ToSet(p.entries)),
                             !.token = p.next,
                             !.pc = IF p.next = NoToken THEN "done" ELSE "paging"]
    /\ UNCHANGED vgVars

\* Lines 132-140: get_lv_list fails (an lvs command error) and list_volumes
\* answers Internal; the CO's listing ends with the error.
ListVolumesFails ==
    /\ lst.pc = "paging" /\ lst.max >= 0
    /\ lst' = [lst EXCEPT !.pc = "done", !.res = "Internal"]
    /\ UNCHANGED vgVars

-----------------------------------------------------------------------------
(* The CO                                                                  *)

\* The CO begins a listing with a max_entries of its choice.
CoStartList(m) ==
    /\ lst.pc # "paging"
    /\ lst' = [pc |-> "paging", max |-> m, token |-> NoToken, seen |-> {},
               res |-> "OK", changed |-> FALSE]
    /\ UNCHANGED vgVars

\* A CreateVolume or DeleteVolume of the CO changes the group; the listing
\* under way, or just finished, overlapped a change.
Changed == lst' = [lst EXCEPT !.changed = TRUE]

CoCreate(n) ==
    /\ nextUuid <= MaxUuid
    /\ ~V!CreateFails(n, Extent)
    /\ V!CreateLv(n, Extent)
    /\ Changed

CoDelete(n) ==
    /\ V!LvNamed(n) # {}
    /\ V!RemoveLv(n)
    /\ Changed

Init ==
    /\ V!VolumedInit
    /\ lst = [pc |-> "idle", max |-> 0, token |-> NoToken, seen |-> {},
              res |-> "OK", changed |-> FALSE]

Next ==
    \/ ListVolumesCall \/ ListVolumesFails
    \/ \E m \in MaxEntries : CoStartList(m)
    \/ \E n \in Names : CoCreate(n) \/ CoDelete(n)

\* tokio runs the call the CO made and the CO keeps paging; volumed is not
\* assumed ever to fail.
Spec == Init /\ [][Next]_vars /\ WF_vars(ListVolumesCall)

-----------------------------------------------------------------------------
(* Properties                                                              *)

\* CSI ListVolumes: a CO that follows next_token until it comes back empty
\* gets to the end of every listing, and a listing that answered OK while
\* the group did not change has returned every volume of the group (CSI
\* lets only a listing that overlaps a change miss volumes).
ListingComplete ==
    /\ [](lst.pc = "done" /\ lst.res = "OK" /\ ~lst.changed
            => lst.seen = Uuids(lvs))
    /\ (lst.pc = "paging" ~> lst.pc = "done")
=============================================================================
