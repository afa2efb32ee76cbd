------------------------------ MODULE MCDirect ------------------------------
(***************************************************************************)
(* A direct session and the reload of the configuration under it, a part   *)
(* in each behaviour: the other stays as it starts, and what is owed to it *)
(* is not asked for. A session ends; a configuration that is no longer     *)
(* saved comes to rest.                                                    *)
(***************************************************************************)
EXTENDS PtyRuntime, ConfigReload

VARIABLE part

directVars == <<part, vars, reloadVars>>

DirectInit ==
    /\ part \in {"runtime", "reload"} /\ Init /\ ReloadInit
    /\ part = "reload" => main = "drain"

RuntimePart == part = "runtime" /\ Next /\ UNCHANGED <<part, reloadVars>>
ReloadPart == part = "reload" /\ ReloadNext /\ UNCHANGED <<part, vars>>
AtRest == part = "reload" /\ UNCHANGED directVars

DirectNext == RuntimePart \/ ReloadPart \/ AtRest

\* The fairness of PtyRuntime's and of ConfigReload's FairSpec, each in its part.
DirectSpec ==
    /\ DirectInit /\ [][DirectNext]_directVars
    /\ WF_vars(part = "runtime" /\ Reader) /\ WF_vars(part = "runtime" /\ Watcher)
    /\ WF_vars(part = "runtime" /\ Main) /\ WF_vars(part = "runtime" /\ Tick)
    /\ WF_reloadVars(part = "reload" /\ WatcherThread)
    /\ WF_reloadVars(part = "reload" /\ TakeNotices)
    /\ WF_reloadVars(part = "reload" /\ Overlay)
    /\ WF_reloadVars(part = "reload" /\ LogWorker)
=============================================================================
