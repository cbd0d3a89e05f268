--------------------------- MODULE MCConnections ---------------------------
(***************************************************************************)
(* Instances of TunnelPool (two devices, two goroutines, one Reconnect) and*)
(* of LogStreams (channels of one line), side by side: `part` is drawn once*)
(* and names the one that moves.                                           *)
(***************************************************************************)
EXTENDS TunnelPool, LogStreams

VARIABLE part

Parts == {"tunnels", "logs"}

\* A second fault, or Reconnect and a fault, come when one device is in use.
FewFaults ==
    faults' + reconnects' > 1 =>
      \E d \in Devices : \A i \in Loops : loop'[i].pc # "unused" => loop'[i].dev = d

MCConnectionsInit == part \in Parts /\ PoolInit /\ LogInit

MCConnectionsNext ==
    /\ UNCHANGED part
    /\ \/ part = "tunnels" /\ PoolNext /\ FewFaults /\ UNCHANGED logVars
       \/ part = "logs" /\ LogNext /\ UNCHANGED poolVars

\* Without callers no goroutine of the pool runs, without a user no log stream.
MCConnectionsSpec ==
    /\ MCConnectionsInit /\ [][MCConnectionsNext]_<<part, poolVars, logVars>>
    /\ PoolFairness /\ LogFairness
=============================================================================
