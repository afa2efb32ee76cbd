------------------------------- MODULE MCFiles -------------------------------
(***************************************************************************)
(* What processes of cossh do to the files they share: the agent's socket, *)
(* and the vault. part is the one a behaviour exercises, the other stays   *)
(* as it starts.                                                         *)
(***************************************************************************)
EXTENDS AgentEndpoint, VaultStore

VARIABLE part

filesVars == <<part, endpointVars, vars>>

FilesInit == part \in {"endpoint", "store"} /\ EndpointInit /\ Init

EndpointPart == part = "endpoint" /\ EndpointNext /\ UNCHANGED <<part, vars>>
StorePart == part = "store" /\ Next /\ UNCHANGED <<part, endpointVars>>

FilesNext == EndpointPart \/ StorePart

FilesSpec == FilesInit /\ [][FilesNext]_filesVars
=============================================================================
