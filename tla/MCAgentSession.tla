--------------------------- MODULE MCAgentSession ---------------------------
(* A trusted caller and one that may not be, one entry, two unlocks. *)
EXTENDS AgentSession

MCPolicies == {[idle |-> 2, session |-> 2]}
=============================================================================
