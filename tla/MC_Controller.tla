---------------------------- MODULE MC_Controller ----------------------------
(* Two CO names: n1 asks for 4 units, n2 for 2, both whole 2-unit        *)
(* extents; each cfg sets the group's size.  Three request slots, more    *)
(* than the two calls of the two names that can be in flight at once.     *)
EXTENDS Controller, TLC

CONSTANTS n1, n2

MCNames == {n1, n2}
MCReqSize == (n1 :> 4) @@ (n2 :> 2)
MCReqs == {1, 2, 3}

\* For the race run: n1 asks for 3 units, which lvcreate rounds up to 4,
\* and the group (7 units, 1 spare) cannot hold both volumes although
\* each passes the free-bytes check alone.
MCReqSizeTight == (n1 :> 3) @@ (n2 :> 4)

\* For the livelock run: n1 asks for 3 units, rounded up to 4; both fit.
MCReqSizeUnaligned == (n1 :> 3) @@ (n2 :> 2)
=============================================================================
