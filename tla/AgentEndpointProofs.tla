------------------------- MODULE AgentEndpointProofs -------------------------
(***************************************************************************)
(* Proofs about AgentEndpoint for any set of processes, killed anywhere,   *)
(* as long as their starts and exits do not overlap.                       *)
(*                                                                         *)
(* What the properties need beyond themselves: the process on the move is  *)
(* alone, it has a server running beside it only before it has taken the   *)
(* file for stale, and the file at the path is where its last system call  *)
(* saw it.                                                                 *)
(***************************************************************************)
EXTENDS AgentEndpoint, TLAPS

Moving(p) == pc[p] \notin {"off", "serving"}

OneMoves == \A p, q \in Agents : Moving(p) /\ Moving(q) => p = q

Undisturbed ==
    \A p, q \in Agents :
        pc[p] \notin {"off", "bind", "conflict", "serving"} => pc[q] # "serving"

PathAsSeen ==
    \A p \in Agents :
        /\ pc[p] \in {"conflict", "inspect", "unlink"} => path # NoSocket
        /\ pc[p] = "rebind" => path = NoSocket
        /\ pc[p] \in {"listen", "protect"} => path = p

IInv == EndpointTypeOK /\ OneMoves /\ Undisturbed /\ PathAsSeen /\ AgentReachable

-----------------------------------------------------------------------------
LEMMA StartsWell == EndpointInit => IInv
BY NoSocketAssumption
   DEF EndpointInit, IInv, EndpointTypeOK, States, OneMoves, Moving, Undisturbed, PathAsSeen, AgentReachable

LEMMA StaysWell == ~Overlap /\ IInv /\ [EndpointNext]_endpointVars => IInv'
<1> SUFFICES ASSUME ~Overlap, IInv, [EndpointNext]_endpointVars PROVE IInv'
    OBVIOUS
<1> USE NoSocketAssumption
    DEF IInv, EndpointTypeOK, States, OneMoves, Moving, Undisturbed, PathAsSeen, AgentReachable
<1>0. CASE UNCHANGED endpointVars
    BY <1>0 DEF endpointVars
<1>1. CASE EndpointNext
    <2> PICK p \in Agents : Start(p) \/ EndpointStep(p) \/ Exit(p) \/ Crash(p)
        BY <1>1 DEF EndpointNext
    <2>1. CASE Start(p)
        BY <2>1 DEF Start, Turn, Goto
    <2>2. CASE FirstBind(p)
        BY <2>2 DEF FirstBind, Bind, Goto
    <2>3. CASE Conflict(p)
        BY <2>3 DEF Conflict, Connects, Listening, Goto
    <2>4. CASE Inspect(p)
        BY <2>4 DEF Inspect, Goto
    <2>5. CASE UnlinkStale(p)
        BY <2>5 DEF UnlinkStale, Goto
    <2>6. CASE SecondBind(p)
        BY <2>6 DEF SecondBind, Bind, Goto
    <2>7. CASE Listen(p)
        BY <2>7 DEF Listen, Goto
    <2>8. CASE Protect(p)
        BY <2>8 DEF Protect, Goto
    <2>9. CASE Exit(p)
        BY <2>9 DEF Exit, Turn, Goto
    <2>10. CASE Cleanup(p)
        BY <2>10 DEF Cleanup, Goto
    <2>11. CASE Remove(p)
        BY <2>11 DEF Remove, Goto
    <2>12. CASE Drop(p)
        BY <2>12 DEF Drop, Goto
    <2>13. CASE Crash(p)
        BY <2>13 DEF Crash, Goto
    <2> QED
        BY <2>1, <2>2, <2>3, <2>4, <2>5, <2>6, <2>7, <2>8, <2>9, <2>10, <2>11, <2>12, <2>13
           DEF EndpointStep
<1> QED
    BY <1>0, <1>1

LEMMA AlwaysWell == ~Overlap /\ EndpointSpec => []IInv
<1>1. ~Overlap /\ IInv /\ [EndpointNext]_endpointVars => IInv'
    BY StaysWell
<1>2. CASE Overlap
    BY <1>2
<1>3. CASE ~Overlap
    <2>1. IInv /\ [EndpointNext]_endpointVars => IInv'
        BY <1>1, <1>3
    <2> QED
        BY <2>1, StartsWell, PTL DEF EndpointSpec
<1> QED
    BY <1>2, <1>3

-----------------------------------------------------------------------------
\* Bind, cleanup and crash keep the processes and the path within their types.
THEOREM EndpointTypeCorrect == ~Overlap /\ EndpointSpec => []EndpointTypeOK
<1>1. IInv => EndpointTypeOK
    BY DEF IInv
<1> QED
    BY <1>1, AlwaysWell, PTL

\* run_server never runs twice at once: a start that meets a live agent leaves,
\* and one that meets a dead agent's file replaces it.
THEOREM OneAgentServes == ~Overlap /\ EndpointSpec => []SingleAgent
<1>1. IInv => SingleAgent
    BY DEF IInv, AgentReachable, SingleAgent
<1> QED
    BY <1>1, AlwaysWell, PTL

\* The agent that serves is the one at the socket path.
THEOREM ServedAtThePath == ~Overlap /\ EndpointSpec => []AgentReachable
<1>1. IInv => AgentReachable
    BY DEF IInv
<1> QED
    BY <1>1, AlwaysWell, PTL

\* remove_stale_socket_file never takes the file of a listening agent.
THEOREM LiveFilesAreKept == ~Overlap /\ EndpointSpec => ReclaimsOnlyStale
<1>1. IInv => \A p \in Agents : UnlinkStale(p) => ~Connects
    BY NoSocketAssumption
       DEF IInv, EndpointTypeOK, OneMoves, Moving, Undisturbed, UnlinkStale, Connects, Listening
<1>2. IInv /\ [EndpointNext]_endpointVars => [\A p \in Agents : UnlinkStale(p) => ~Connects]_endpointVars
    BY <1>1
<1> QED
    BY <1>2, AlwaysWell, PTL DEF EndpointSpec, ReclaimsOnlyStale

\* A start that gives up leaves an agent that answers.
THEOREM StartsAreNotInVain == ~Overlap /\ EndpointSpec => GivesUpOnlyToAgent
<1> DEFINE A == \A p \in Agents :
        pc'[p] = "off" /\ (Conflict(p) \/ Inspect(p) \/ UnlinkStale(p) \/ SecondBind(p))
           => Connects
<1>1. IInv => A
    <2> SUFFICES ASSUME IInv, NEW p \in Agents, pc'[p] = "off",
                        Conflict(p) \/ Inspect(p) \/ UnlinkStale(p) \/ SecondBind(p)
                 PROVE  Connects
        OBVIOUS
    <2> USE DEF IInv, EndpointTypeOK, States, PathAsSeen, Goto
    <2>1. CASE Conflict(p)
        BY <2>1 DEF Conflict
    <2>2. CASE Inspect(p)
        BY <2>2 DEF Inspect
    <2>3. CASE UnlinkStale(p)
        BY <2>3 DEF UnlinkStale
    <2>4. CASE SecondBind(p)
        BY <2>4 DEF SecondBind, Bind
    <2> QED
        BY <2>1, <2>2, <2>3, <2>4
<1>2. IInv /\ [EndpointNext]_endpointVars => [A]_endpointVars
    BY <1>1
<1> HIDE DEF A
<1>3. ~Overlap /\ EndpointSpec => [][A]_endpointVars
    BY <1>2, AlwaysWell, PTL DEF EndpointSpec
<1> QED
    BY <1>3 DEF GivesUpOnlyToAgent, A
=============================================================================
