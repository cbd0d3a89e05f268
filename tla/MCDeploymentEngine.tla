------------------------ MODULE MCDeploymentEngine ------------------------
(***************************************************************************)
(* Two-member instances of DeploymentEngine: the head is member 1 of the   *)
(* record, the worker member 2; an ordinary recipe launches the head first,*)
(* a head recipe the worker's reservation first.                           *)
(***************************************************************************)
EXTENDS DeploymentEngine

CONSTANTS head, worker

BothRoles == {head, worker}
HeadFirst == [r \in BothRoles |-> IF r = head THEN 1 ELSE 2]
WorkerFirst == [r \in BothRoles |-> IF r = worker THEN 1 ELSE 2]
=============================================================================
