---------------------------- MODULE MC_Bootstrap ----------------------------
(* The four processes of one host under a supervisor; two ends of a process.    *)
EXTENDS Bootstrap
=============================================================================
