----------------------------- MODULE TunnelPool -----------------------------
(***************************************************************************)
(* The SSH tunnels of internal/daemon/tunnel.go.  ConnectDevice starts one *)
(* goroutine (a loop) per call; the first to register for a device owns its*)
(* entry in the map and keeps dialing until its context is canceled.       *)
(*                                                                         *)
(* A step is what happens under one hold of TunnelPool.mu, or between two: *)
(* closing a device may come between any two steps of its loop.  A loop    *)
(* numbers the listeners and SSH sessions it opens; `gen` is the number of *)
(* the pair its tunnel struct holds.                                       *)
(***************************************************************************)
EXTENDS Naturals, FiniteSets

CONSTANTS
    Devices,
    Versions,     \* contents a device's configuration may have
    Loops,        \* goroutines that may ever be started
    NoLoop,       \* no entry in the map
    MaxFaults,    \* bound on failed dials and listens and lost connections
    MaxReconnects \* bound on calls of Reconnect

ASSUME LoopAssumption == NoLoop \notin Loops /\ IsFiniteSet(Loops)
ASSUME PoolBoundAssumption == MaxFaults \in Nat /\ MaxReconnects \in Nat

VARIABLES
    tunnels,  \* TunnelPool.tunnels: the loop whose tunnel is registered
    loop,     \* the goroutines, with the fields of their tunnel structs
    open,     \* listeners that accept local connections
    live,     \* SSH sessions that carry traffic
    faults, reconnects

poolVars == <<tunnels, loop, open, live, faults, reconnects>>

-----------------------------------------------------------------------------
Running == {"loop", "dialing", "dialed", "listening", "alive", "probing", "dead",
            "lost", "failed"}
Labels == {"unused", "spawned", "ended"} \cup Running

Goroutine == [pc: Labels, dev: Devices, ver: Versions, canceled: BOOLEAN,
              connected: BOOLEAN, gen: Nat]

\* The pair a loop has just opened and has not yet stored in its tunnel.
Fresh(i) == <<i, loop[i].gen + 1>>
Current(i) == <<i, loop[i].gen>>

Entry(d) == tunnels[d]

\* keepAlive holds the read lock during its remote command, so that nobody
\* gets the write lock meanwhile.
Writable == \A i \in Loops : loop[i].pc # "probing"

Set(i, fields) == loop' = [loop EXCEPT ![i] = fields]
Moves(i, label) == Set(i, [loop[i] EXCEPT !.pc = label])
Fault == faults < MaxFaults /\ faults' = faults + 1

-----------------------------------------------------------------------------
\* The callers of the pool.

\* go connectDevice(device), from ConnectAll, ConnectDevice and Reconnect.
Spawned(L, i, d, v) ==
    [L EXCEPT ![i] = [pc |-> "spawned", dev |-> d, ver |-> v, canceled |-> FALSE,
                      connected |-> FALSE, gen |-> 0]]

Unused(i) == loop[i].pc = "unused"

ConnectDevice(d, v) ==
    /\ \E i \in Loops : Unused(i) /\ loop' = Spawned(loop, i, d, v)
    /\ UNCHANGED <<tunnels, open, live, faults, reconnects>>

\* Cancel the context and close the listener and the session of the tunnels.
Canceled(owners) ==
    [i \in Loops |-> IF i \in owners THEN [loop[i] EXCEPT !.canceled = TRUE] ELSE loop[i]]
Closed(pairs, owners) == pairs \ {Current(i) : i \in owners}

Drop(ds) == [d \in Devices |-> IF d \in ds THEN NoLoop ELSE tunnels[d]]

Close(ds) ==
    LET owners == {Entry(d) : d \in ds} \ {NoLoop}
    IN /\ Writable
       /\ loop' = Canceled(owners)
       /\ open' = Closed(open, owners) /\ live' = Closed(live, owners)
       /\ tunnels' = Drop(ds)
       /\ UNCHANGED <<faults, reconnects>>

CloseDevice(d) == Close({d})
CloseAll == Close(Devices)

\* Reconnect cancels the tunnel, leaves its entry in the map, and starts a loop,
\* unless the device is no longer configured.
Reconnect(d, v) ==
    /\ reconnects < MaxReconnects /\ reconnects' = reconnects + 1
    /\ Writable /\ Entry(d) # NoLoop
    /\ open' = Closed(open, {Entry(d)}) /\ live' = Closed(live, {Entry(d)})
    /\ \/ \E i \in Loops : Unused(i) /\ loop' = Spawned(Canceled({Entry(d)}), i, d, v)
       \/ loop' = Canceled({Entry(d)})
    /\ UNCHANGED <<tunnels, faults>>

-----------------------------------------------------------------------------
\* connectDevice.

At(i, label) == loop[i].pc = label

\* Mutant of Register: the map is not consulted.
RegisterAnyway(i) ==
    /\ At(i, "spawned") /\ Writable
    /\ tunnels' = [tunnels EXCEPT ![loop[i].dev] = i] /\ Moves(i, "loop")
    /\ UNCHANGED <<open, live, faults, reconnects>>

Register(i) ==
    /\ At(i, "spawned") /\ Writable
    /\ \/ /\ Entry(loop[i].dev) = NoLoop
          /\ tunnels' = [tunnels EXCEPT ![loop[i].dev] = i] /\ Moves(i, "loop")
       \/ Entry(loop[i].dev) # NoLoop /\ Moves(i, "ended") /\ UNCHANGED tunnels
    /\ UNCHANGED <<open, live, faults, reconnects>>

Iterate(i) ==
    /\ At(i, "loop")
    /\ Moves(i, IF loop[i].canceled THEN "ended" ELSE "dialing")
    /\ UNCHANGED <<tunnels, open, live, faults, reconnects>>

\* establishTunnel: dial, listen, store the pair under the lock.
Dial(i) ==
    /\ At(i, "dialing")
    /\ \/ Moves(i, "dialed") /\ live' = live \cup {Fresh(i)} /\ UNCHANGED faults
       \/ Fault /\ Moves(i, "failed") /\ UNCHANGED live
    /\ UNCHANGED <<tunnels, open, reconnects>>

Listen(i) ==
    /\ At(i, "dialed")
    /\ \/ Moves(i, "listening") /\ open' = open \cup {Fresh(i)} /\ UNCHANGED <<live, faults>>
       \/ Fault /\ Moves(i, "failed") /\ live' = live \ {Fresh(i)} /\ UNCHANGED open
    /\ UNCHANGED <<tunnels, reconnects>>

Store(i) ==
    /\ At(i, "listening") /\ Writable
    /\ Set(i, [loop[i] EXCEPT !.pc = "alive", !.connected = TRUE, !.gen = @ + 1])
    /\ UNCHANGED <<tunnels, open, live, faults, reconnects>>

\* lastError is recorded under the lock; the loop sleeps and tries again.
RetryLater(i) ==
    /\ At(i, "failed") /\ Writable /\ Moves(i, "loop")
    /\ UNCHANGED <<tunnels, open, live, faults, reconnects>>

\* Mutant of KeepAliveEnds: keepAlive does not look at its context.
KeepAliveDeaf(i) ==
    /\ At(i, "alive") /\ ~loop[i].connected /\ Moves(i, "lost")
    /\ UNCHANGED <<tunnels, open, live, faults, reconnects>>

\* keepAlive: a canceled context or a tick.
KeepAliveEnds(i) ==
    /\ At(i, "alive") /\ (loop[i].canceled \/ ~loop[i].connected)
    /\ Moves(i, "lost")
    /\ UNCHANGED <<tunnels, open, live, faults, reconnects>>

Tick(i) ==
    /\ At(i, "alive") /\ loop[i].connected /\ Moves(i, "probing")
    /\ UNCHANGED <<tunnels, open, live, faults, reconnects>>

\* Mutant of Probe: a failed keepalive command is not noticed.
ProbeDeaf(i) ==
    /\ At(i, "probing") /\ Moves(i, "alive")
    /\ UNCHANGED <<tunnels, open, live, faults, reconnects>>

Probe(i) ==
    /\ At(i, "probing")
    /\ Moves(i, IF Current(i) \in live THEN "alive" ELSE "dead")
    /\ UNCHANGED <<tunnels, open, live, faults, reconnects>>

\* The keepalive failed, or keepAlive returned: no longer connected.
Disconnected(i) ==
    /\ loop[i].pc \in {"dead", "lost"} /\ Writable
    /\ Set(i, [loop[i] EXCEPT !.pc = IF @ = "dead" THEN "lost" ELSE "loop", !.connected = FALSE])
    /\ UNCHANGED <<tunnels, open, live, faults, reconnects>>

\* The network loses a session.
Lose(pair) ==
    /\ pair \in live /\ Fault /\ live' = live \ {pair}
    /\ UNCHANGED <<tunnels, loop, open, reconnects>>

-----------------------------------------------------------------------------
PoolInit ==
    /\ tunnels = [d \in Devices |-> NoLoop]
    /\ \E d \in Devices, v \in Versions :
         loop = [i \in Loops |-> [pc |-> "unused", dev |-> d, ver |-> v, canceled |-> FALSE,
                                  connected |-> FALSE, gen |-> 0]]
    /\ open = {} /\ live = {} /\ faults = 0 /\ reconnects = 0

LoopStep(i) ==
    \/ Register(i) \/ Iterate(i) \/ Dial(i) \/ Listen(i) \/ Store(i) \/ RetryLater(i)
    \/ KeepAliveEnds(i) \/ Tick(i) \/ Probe(i) \/ Disconnected(i)

Caller ==
    \/ \E d \in Devices, v \in Versions : ConnectDevice(d, v) \/ Reconnect(d, v)
    \/ \E d \in Devices : CloseDevice(d)
    \/ CloseAll

LoopsRun == \E i \in Loops : LoopStep(i)
Loses == \E pair \in live : Lose(pair)

PoolNext == LoopsRun \/ Caller \/ Loses

PoolSpec == PoolInit /\ [][PoolNext]_poolVars

\* Goroutines run, a dial has a timeout, the ticker ticks.  Writers of an
\* RWMutex are not starved, and keepAlive's command gives the lock back again.
\* A select whose context is done and whose ticker ticks takes either at random.
PoolFairness ==
    \A i \in Loops : SF_poolVars(LoopStep(i)) /\ SF_poolVars(KeepAliveEnds(i))

FairPoolSpec == PoolSpec /\ PoolFairness

-----------------------------------------------------------------------------
\* Properties.

PoolTypeOK ==
    /\ tunnels \in [Devices -> Loops \cup {NoLoop}]
    /\ loop \in [Loops -> Goroutine]
    /\ open \subseteq Loops \X Nat /\ live \subseteq Loops \X Nat
    /\ faults \in Nat /\ reconnects \in Nat

Active(i) == loop[i].pc \in Running /\ ~loop[i].canceled

\* Two goroutines never keep a tunnel for the same device, however often
\* ConnectDevice is called and however late its goroutines run.
OneLoopPerDevice ==
    \A i, j \in Loops : Active(i) /\ Active(j) /\ loop[i].dev = loop[j].dev => i = j

\* The tunnel in a device's entry is one whose goroutine still works for it:
\* CloseDevice never leaves an entry that keeps connectDevice from registering.
\* Reconnect, which nothing calls, would leave the entry of a canceled tunnel.
EntriesActive ==
    \A d \in Devices : Entry(d) # NoLoop => Active(Entry(d)) /\ loop[Entry(d)].dev = d
EntryIsServed == reconnects = 0 => EntriesActive

\* A tunnel reported connected has a port that still accepts connections, as
\* long as Reconnect, which closes it and says nothing, was not called.
ConnectedListens ==
    reconnects = 0 =>
      \A d \in Devices :
        Entry(d) # NoLoop /\ loop[Entry(d)].connected => Current(Entry(d)) \in open

\* What every caller of the pool relies on: the goroutine that registered serves
\* the device alone, its entry leads to it, and Connected means a port that accepts
\* (connectDevice, establishTunnel, CloseDevice, LocalPort).
PoolSafety ==
    PoolTypeOK /\ OneLoopPerDevice /\ EntryIsServed /\ ConnectedListens

\* A device with an entry is connected again and again until it is closed,
\* whatever was lost: the map never holds a tunnel nobody works for.
StaysReachable ==
    \A d \in Devices, i \in Loops :
        (Entry(d) = i) ~> (\/ loop[i].connected /\ Current(i) \in live
                          \/ Entry(d) # i
                          \/ reconnects > 0)

\* A canceled goroutine ends, wherever the cancellation found it.
CanceledEnds == \A i \in Loops : loop[i].canceled ~> At(i, "ended")
=============================================================================
