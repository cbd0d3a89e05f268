-------------------------- MODULE MCNativeSupervisor --------------------------
(***************************************************************************)
(* Instance of NativeSupervisor: one resource of each role, two requests   *)
(* at a time.                                                              *)
(***************************************************************************)
EXTENDS NativeSupervisor, TLC

Symmetry == Permutations(Requesters)

MCSupervisorNext == SupervisorNext /\ asks' + mishaps' + starts' <= 5

MCSupervisorSpec == SupervisorInit /\ [][MCSupervisorNext]_supervisorVars
=============================================================================
