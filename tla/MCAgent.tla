------------------------------- MODULE MCAgent -------------------------------
(***************************************************************************)
(* Instances of the modules of the agent, side by side: `part` is drawn    *)
(* once and names the one that moves.                                      *)
(***************************************************************************)
EXTENDS AgentContainers, LaunchGrants, CoordinatorKey, LaunchPreflight, NativeSupervisor, TLC

CONSTANTS g1, c1, c2

VARIABLE part

Parts == {"containers", "grants", "key", "preflight", "supervisor"}

\* The second grant is for another candidate on the same device.
SubjectOf == [g \in Grants |-> IF g = g1 THEN c1 ELSE c2]
TargetOf == [g \in Grants |-> Here]

\* Handlers of either kind, and containers, are the same values.
Symmetry == Permutations(Tasks)

\* Launches, mutations and agent restarts together.
FewMutations == mutations' + launched' + agentEnds' <= 3

FewAsks == asks' + mishaps' + starts' <= 5

\* The host goes on until the preflight has answered, and computes and listens only
\* when that is looked at next: before, it would make no difference.  One holder ends.
NotAnswered ==
    /\ preflight.stage \notin {"ok", "refused"} /\ Cardinality(ended') <= 1
    /\ tenants' \subseteq tenants \/ preflight.stage = "tenants"
    /\ \/ \A p \in Ports : listener'[p] \subseteq listener[p]
       \/ preflight.stage \in {"port", "identify", "sockets"}

MCAgentInit ==
    /\ part \in Parts
    /\ ContainersInit /\ GrantInit /\ KeyInit /\ PreflightInit /\ SupervisorInit
    /\ part # "preflight" => preflight.head /\ preflight.selector = Candidate

Only(p) ==
    /\ part = p /\ UNCHANGED part
    /\ p # "containers" => UNCHANGED containerVars
    /\ p # "grants" => UNCHANGED grantVars
    /\ p # "key" => UNCHANGED keyVars
    /\ p # "preflight" => UNCHANGED preflightVars
    /\ p # "supervisor" => UNCHANGED supervisorVars

MCAgentNext ==
    \/ Only("containers") /\ ContainersNext /\ FewMutations
    \/ Only("grants") /\ GrantNext
    \/ Only("key") /\ KeyNext
    \/ Only("preflight") /\ PreflightNext /\ NotAnswered
    \/ Only("supervisor") /\ SupervisorNext /\ FewAsks

agentVars == <<part, containerVars, grantVars, keyVars, preflightVars, supervisorVars>>

MCAgentSpec == MCAgentInit /\ [][MCAgentNext]_agentVars
=============================================================================
