------------------------------ MODULE Bootstrap ------------------------------
(***************************************************************************)
(* The four processes of a host and how they start and stop: the          *)
(* authorities volumed and mountd (crates/{volumed,mountd}/src/main.rs)    *)
(* and the CSI plugins controller and node (crates/csi/src/bin).  Each     *)
(* binds a Unix socket at a fixed path; a plugin then connects to its      *)
(* authority's socket.  A SIGINT stops a process cleanly and removes its   *)
(* socket file; any other end (SIGTERM, SIGKILL, a panic, an error out of  *)
(* serve) leaves the file behind.  A supervisor (kubelet, systemd) starts  *)
(* a process that is down again and again.                                 *)
(***************************************************************************)
EXTENDS Naturals

CONSTANTS
    MaxStops      \* bound on the ends, clean or not, in one behaviour

Authorities == {"volumed", "mountd"}
Plugins     == {"controller", "node"}
Daemons     == Authorities \cup Plugins

\* The authority whose socket each plugin connects to.
Dep == [controller |-> "volumed", node |-> "mountd"]

VARIABLES
    run,      \* [Daemons -> {"down", "up"}]: the process serves its socket
    sock,     \* [Daemons -> BOOLEAN]: the socket file exists at its path
    stops     \* ends so far

vars == <<run, sock, stops>>

-----------------------------------------------------------------------------

\* UnixListener::bind creates the socket file and fails with EADDRINUSE
\* when a file is already at the path, whether or not anyone listens.
Binds(p) == ~sock[p]

\* volumed and mountd: read the config (volumed also finds its volume group
\* and refuses a spare_bytes not below its capacity; these early returns
\* change nothing), bind, serve.  A failed bind returns an error and
\* changes nothing either.
StartAuthority(p) ==
    /\ run[p] = "down" /\ Binds(p)
    /\ run' = [run EXCEPT ![p] = "up"]
    /\ sock' = [sock EXCEPT ![p] = TRUE]
    /\ UNCHANGED stops

\* client_injector: connect to the authority's socket, which succeeds only
\* while the authority listens on it.
Connected(p) == run[Dep[p]] = "up"

\* The plugins bind first and then await client_injector, whose expect
\* panics when the connection fails: the process dies with its socket
\* file in place.
StartPlugin(p) ==
    /\ run[p] = "down" /\ Binds(p)
    /\ run' = [run EXCEPT ![p] = IF Connected(p) THEN "up" ELSE "down"]
    /\ sock' = [sock EXCEPT ![p] = TRUE]
    /\ UNCHANGED stops

\* SIGINT: the ctrlc handler ends serve_with_incoming_shutdown and main
\* removes the socket file.
Interrupt(p) ==
    /\ run[p] = "up" /\ stops < MaxStops
    /\ run' = [run EXCEPT ![p] = "down"]
    /\ sock' = [sock EXCEPT ![p] = FALSE]
    /\ stops' = stops + 1

\* Every other end: a signal the ctrlc handler does not catch, or serve
\* returning an error, which the ? passes up before remove_file.
Crash(p) ==
    /\ run[p] = "up" /\ stops < MaxStops
    /\ run' = [run EXCEPT ![p] = "down"]
    /\ stops' = stops + 1
    /\ UNCHANGED sock

Start(p) == IF p \in Plugins THEN StartPlugin(p) ELSE StartAuthority(p)

Init ==
    /\ run = [p \in Daemons |-> "down"]
    /\ sock = [p \in Daemons |-> FALSE]
    /\ stops = 0

Next == \E p \in Daemons : Start(p) \/ Interrupt(p) \/ Crash(p)

\* The supervisor restarts a process that is down.
Spec == Init /\ [][Next]_vars /\ \A p \in Daemons : WF_vars(Start(p))

-----------------------------------------------------------------------------
(* Properties                                                              *)

\* A process that is down is serving again later, whatever order the
\* supervisor starts the processes in and however they ended: restarting
\* recovers the host.
Recovers == \A p \in Daemons : run[p] = "down" ~> run[p] = "up"
=============================================================================
