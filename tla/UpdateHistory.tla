---------------------------- MODULE UpdateHistory ----------------------------
(***************************************************************************)
(* The requests of DeviceUpdates with a history variable: what became      *)
(* current between a device handler's clone of the configuration           *)
(* (cloneConfig under Daemon.mu) and the instant it makes the clone        *)
(* current (applyConfigUpdate), and which the clone therefore undoes.      *)
(***************************************************************************)
EXTENDS DeviceUpdates

VARIABLE missed \* what changed since each handler cloned the configuration

AllMissed == [dev: SUBSET Devices, svc: SUBSET Services]
NothingMissed == [dev |-> {}, svc |-> {}]

Changed ==
    [dev |-> {d \in Devices : cfg'.dev[d] # cfg.dev[d]},
     svc |-> {s \in Services : (s \in cfg'.svc) # (s \in cfg.svc)}]

\* A handler misses nothing until it has cloned, and after it has swapped.
MissedBy(h) ==
    IF At2(h, "idle") \/ req'[h].pc \in {"idle", "tunnels"} THEN NothingMissed
    ELSE [dev |-> missed[h].dev \cup Changed.dev, svc |-> missed[h].svc \cup Changed.svc]

HistoryInit == Init /\ missed = [h \in Handlers |-> NothingMissed]
HistoryNext == Next /\ missed' = [h \in Handlers |-> MissedBy(h)]
HistorySpec == HistoryInit /\ [][HistoryNext]_<<vars, missed>>

-----------------------------------------------------------------------------
Swaps(h) == At2(h, "apply") /\ req'[h].pc = "tunnels"

\* What a handler that creates, updates, bootstraps or deletes a device changes
\* besides its device, and the services of one it deletes, is what it missed.
ChangesItsDevice(h) ==
    LET r == req[h] IN
    /\ Changed.dev \subseteq {r.dev} \cup missed[h].dev
    /\ \A s \in Changed.svc \ missed[h].svc : r.kind = "delete" /\ Host[s] = r.dev

\* A service request changes one record of a service, and holds Daemon.mu.
ChangesOneService ==
    /\ Changed.dev = {}
    /\ \E h \in Handlers, s \in Services :
          /\ lock' = h /\ req'[h].kind \in ServiceKinds /\ req'[h].dev = Host[s]
          /\ Changed.svc \subseteq {s}

\* Handlers of several devices and services, in any order: the record of another
\* device, or of a service, is changed only by undoing what became current after the
\* handler cloned the configuration. That much the code does lose (the clone of
\* handleUpdateDevice is swapped in whole); whatever was current before the clone
\* stays. A reload and a new process are to make the file current.
OthersUntouched ==
    [][\/ UNCHANGED cfg
       \/ restarts' # restarts
       \/ \E h \in Handlers : Swaps(h) /\ (Reloading(h) \/ ChangesItsDevice(h))
       \/ ChangesOneService]_<<vars, missed>>
=============================================================================
