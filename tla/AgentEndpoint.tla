---------------------------- MODULE AgentEndpoint ----------------------------
(***************************************************************************)
(* How agent processes come by the local socket and give it up:            *)
(* ipc::bind_listener, handle_bind_conflict, remove_stale_socket_file and  *)
(* cleanup_endpoint (auth/ipc.rs), called by run_server and its            *)
(* EndpointGuard (auth/agent/server.rs), in any number of processes that   *)
(* clients spawn (auth/agent/client.rs) and that can be killed anywhere.   *)
(*                                                                         *)
(* Each system call is a step.  The socket file belongs to the process     *)
(* that bound it last; connecting reaches a server only if that process    *)
(* listens.                                                                *)
(***************************************************************************)
EXTENDS Naturals

CONSTANTS
    Agents,       \* agent processes
    NoSocket,     \* nothing at the socket path
    Overlap,      \* whether processes start and exit at the same time
    MayCrash,     \* whether a process may be killed
    ReclaimName   \* whether dropping the listener unlinks its path (interprocess)

ASSUME NoSocketAssumption == NoSocket \notin Agents
ASSUME SwitchAssumption == {Overlap, MayCrash, ReclaimName} \subseteq BOOLEAN

VARIABLES
    pc,     \* what each process is doing
    path    \* the process whose socket is at the path, or NoSocket

endpointVars == <<pc, path>>

States == {"off", "bind", "conflict", "inspect", "unlink", "rebind", "listen", "protect",
           "serving", "cleanup", "remove", "drop"}

Starting == {"bind", "conflict", "inspect", "unlink", "rebind", "listen", "protect"}
Listening == {"protect", "serving", "cleanup", "remove", "drop"}

\* connect(paths).is_ok()
Connects == path # NoSocket /\ pc[path] \in Listening

Goto(p, st) == pc' = [pc EXCEPT ![p] = st]

\* One process at a time is between off and serving, unless they overlap.
Turn == Overlap \/ \A q \in Agents : pc[q] \in {"off", "serving"}

-----------------------------------------------------------------------------
(* bind_listener *)

\* A client spawns `cossh agent --serve`.
Start(p) ==
    /\ pc[p] = "off" /\ Turn
    /\ Goto(p, "bind")
    /\ UNCHANGED path

\* create_listener, as far as bind(2), which fails when the path exists.
Bind(p, taken) ==
    /\ path' = IF path = NoSocket THEN p ELSE path
    /\ Goto(p, IF path = NoSocket THEN "listen" ELSE taken)

FirstBind(p) == pc[p] = "bind" /\ Bind(p, "conflict")

\* Faulty variant: the file is taken for stale without trying to connect.
Conflict_Unasked(p) ==
    /\ pc[p] = "conflict"
    /\ Goto(p, "inspect")
    /\ UNCHANGED path

\* handle_bind_conflict: AlreadyRunning when a connection gets through.
Conflict(p) ==
    /\ pc[p] = "conflict"
    /\ Goto(p, IF Connects THEN "off" ELSE "inspect")
    /\ UNCHANGED path

\* remove_stale_socket_file: without a file the first error stands ...
Inspect(p) ==
    /\ pc[p] = "inspect"
    /\ Goto(p, IF path = NoSocket THEN "off" ELSE "unlink")
    /\ UNCHANGED path

\* Faulty variant: the bind is retried over the file.
UnlinkStale_Kept(p) ==
    /\ pc[p] = "unlink"
    /\ Goto(p, "rebind")
    /\ UNCHANGED path

\* ... with one, whatever is at the path by now is removed.
UnlinkStale(p) ==
    /\ pc[p] = "unlink"
    /\ Goto(p, IF path = NoSocket THEN "off" ELSE "rebind")
    /\ path' = NoSocket

\* The retry.  When it fails the process leaves, whether it then connects
\* (AlreadyRunning) or not.
SecondBind(p) == pc[p] = "rebind" /\ Bind(p, "off")

\* create_listener: listen(2), then the permissions of the file at the path.
Listen(p) ==
    /\ pc[p] = "listen"
    /\ Goto(p, "protect")
    /\ UNCHANGED path

Protect(p) ==
    /\ pc[p] = "protect"
    /\ Goto(p, IF path = NoSocket THEN "drop" ELSE "serving")
    /\ UNCHANGED path

-----------------------------------------------------------------------------
(* run_server returns: the guard is dropped, then the listener *)

Exit(p) ==
    /\ pc[p] = "serving" /\ Turn
    /\ Goto(p, "cleanup")
    /\ UNCHANGED path

\* cleanup_local_endpoint
Cleanup(p) ==
    /\ pc[p] = "cleanup"
    /\ Goto(p, IF path = NoSocket THEN "drop" ELSE "remove")
    /\ UNCHANGED path

Remove(p) ==
    /\ pc[p] = "remove"
    /\ Goto(p, "drop")
    /\ path' = NoSocket

Drop(p) ==
    /\ pc[p] = "drop"
    /\ Goto(p, "off")
    /\ path' = IF ReclaimName THEN NoSocket ELSE path

Crash(p) ==
    /\ MayCrash
    /\ pc[p] # "off"
    /\ Goto(p, "off")
    /\ UNCHANGED path

-----------------------------------------------------------------------------
EndpointInit == pc = [p \in Agents |-> "off"] /\ path = NoSocket

EndpointStep(p) ==
    \/ FirstBind(p) \/ Conflict(p) \/ Inspect(p) \/ UnlinkStale(p) \/ SecondBind(p)
    \/ Listen(p) \/ Protect(p) \/ Cleanup(p) \/ Remove(p) \/ Drop(p)

EndpointNext == \E p \in Agents : Start(p) \/ EndpointStep(p) \/ Exit(p) \/ Crash(p)

EndpointSpec == EndpointInit /\ [][EndpointNext]_endpointVars

-----------------------------------------------------------------------------
(* Properties *)

EndpointTypeOK == pc \in [Agents -> States] /\ path \in Agents \cup {NoSocket}

\* At most one agent serves, wherever earlier ones were killed and whatever
\* socket file they left behind.
SingleAgent ==
    \A p, q \in Agents : pc[p] = "serving" /\ pc[q] = "serving" => p = q

\* The agent that serves is the one clients reach: a lock request finds the
\* session it is meant for.
AgentReachable == \A p \in Agents : pc[p] = "serving" => path = p

\* "Removed stale password vault agent socket file": what a starter removes is
\* the socket of a process that does not listen.
ReclaimsOnlyStale ==
    [][\A p \in Agents : UnlinkStale(p) => ~Connects]_endpointVars

\* A start gives up only to an agent that answers: a file left by a killed
\* agent never keeps the next one from serving.
GivesUpOnlyToAgent ==
    [][\A p \in Agents :
          pc'[p] = "off" /\ (Conflict(p) \/ Inspect(p) \/ UnlinkStale(p) \/ SecondBind(p))
             => Connects]_endpointVars
=============================================================================
