------------------------- MODULE ConnectionsProofs --------------------------
(***************************************************************************)
(* Theorems about TunnelPool, about the device requests that call it and   *)
(* about LogStreams, for any devices, goroutines, requests and bounds.     *)
(*                                                                         *)
(* The pool: two goroutines never keep a tunnel for the same device, and,  *)
(* as long as Reconnect is not called, a registered tunnel is one somebody *)
(* works for.                                                              *)
(*                                                                         *)
(* Requests in any order: Daemon.mu and the tunnels.  Whoever holds the    *)
(* lock is saving what is current, a clone that is swapped in undoes only  *)
(* what became current after it was made, and the pool keeps what it       *)
(* promises between handlers that close and connect its devices, and       *)
(* across restarts.                                                        *)
(*                                                                         *)
(* Requests that follow each other (OneRequest): the file is readable, it  *)
(* holds the devices the daemon works with, and each of them has a tunnel. *)
(*                                                                         *)
(* Streams of logs: nobody sends on a channel that was closed.             *)
(***************************************************************************)
EXTENDS MCDeviceUpdates, LogStreams, TLAPS

\* A goroutine that still works for its tunnel is the one its device's entry names.
Registered == \A i \in Loops : Active(i) => tunnels[loop[i].dev] = i

PoolInv == PoolTypeOK /\ Registered

\* The step of a goroutine that changes at most its label and its connection.
Advances(i) ==
    /\ loop' = [loop EXCEPT ![i] = loop'[i]]
    /\ loop'[i].dev = loop[i].dev /\ loop'[i].canceled = loop[i].canceled
    /\ tunnels' = tunnels
    /\ loop[i].pc \in Running
    /\ loop'[i].pc \in Running \/ (loop[i].canceled /\ loop'[i].pc = "ended")

\* Overwriting the label of a goroutine.
LEMMA LabelFacts ==
    ASSUME NEW g \in Goroutine, NEW label \in Labels
    PROVE  /\ [g EXCEPT !.pc = label] \in Goroutine
           /\ [g EXCEPT !.pc = label].pc = label
           /\ [g EXCEPT !.pc = label].dev = g.dev
           /\ [g EXCEPT !.pc = label].canceled = g.canceled
BY DEF Goroutine

\* Overwriting its label and its connection.
LEMMA ConnectionFacts ==
    ASSUME NEW g \in Goroutine, NEW label \in Labels, NEW c \in BOOLEAN
    PROVE  /\ [g EXCEPT !.pc = label, !.connected = c] \in Goroutine
           /\ [g EXCEPT !.pc = label, !.connected = c].pc = label
           /\ [g EXCEPT !.pc = label, !.connected = c].dev = g.dev
           /\ [g EXCEPT !.pc = label, !.connected = c].canceled = g.canceled
<1> DEFINE k == [g EXCEPT !.pc = label]
<1>1. k \in Goroutine /\ k.pc = label /\ k.dev = g.dev /\ k.canceled = g.canceled
  BY LabelFacts
<1>2. [g EXCEPT !.pc = label, !.connected = c] = [k EXCEPT !.connected = c]
  OBVIOUS
<1> HIDE DEF k
<1>3. /\ [k EXCEPT !.connected = c] \in Goroutine
      /\ [k EXCEPT !.connected = c].pc = k.pc
      /\ [k EXCEPT !.connected = c].dev = k.dev
      /\ [k EXCEPT !.connected = c].canceled = k.canceled
  BY <1>1 DEF Goroutine
<1> QED BY <1>1, <1>2, <1>3, Zenon

\* Setting a goroutine's label keeps it well typed and its other fields.
LEMMA MoveFacts ==
    ASSUME loop \in [Loops -> Goroutine], NEW i \in Loops, NEW label \in Labels, Moves(i, label)
    PROVE  /\ loop' \in [Loops -> Goroutine]
           /\ loop' = [loop EXCEPT ![i] = loop'[i]]
           /\ loop'[i].pc = label /\ loop'[i].dev = loop[i].dev
           /\ loop'[i].canceled = loop[i].canceled
<1>1. PICK g \in Goroutine : g = loop[i]
  OBVIOUS
<1> DEFINE h == [g EXCEPT !.pc = label]
<1>2. h \in Goroutine /\ h.pc = label /\ h.dev = g.dev /\ h.canceled = g.canceled
  BY LabelFacts
<1>3. loop' = [loop EXCEPT ![i] = h]
  BY <1>1 DEF Moves, Set
<1> HIDE DEF h
<1> QED BY <1>1, <1>2, <1>3

\* Every step of a registered goroutine advances it.
LEMMA StepAdvances ==
    ASSUME PoolTypeOK, NEW i \in Loops, LoopStep(i), ~Register(i)
    PROVE  Advances(i) /\ PoolTypeOK'
<1> USE DEF PoolTypeOK, Advances, At
<1>0. loop[i] \in Goroutine
  OBVIOUS
<1>a. /\ Fresh(i) \in Loops \X Nat /\ Current(i) \in Loops \X Nat
      /\ Running \subseteq Labels
  BY <1>0 DEF Fresh, Current, Goroutine, Labels
<1>m. ASSUME NEW label \in Labels, Moves(i, label)
      PROVE  /\ loop' \in [Loops -> Goroutine]
             /\ loop' = [loop EXCEPT ![i] = loop'[i]]
             /\ loop'[i].pc = label /\ loop'[i].dev = loop[i].dev
             /\ loop'[i].canceled = loop[i].canceled
  BY <1>m, MoveFacts
<1>1. CASE Iterate(i)
  BY <1>1, <1>m DEF Iterate, Labels, Running
<1>2. CASE Dial(i)
  <2>1. Moves(i, "dialed") \/ Moves(i, "failed")
    BY <1>2 DEF Dial
  <2>2. live' \subseteq Loops \X Nat /\ faults' \in Nat
    BY <1>2, <1>a DEF Dial, Fault
  <2> QED BY <1>2, <2>1, <2>2, <1>m DEF Dial, Labels, Running
<1>3. CASE Listen(i)
  <2>1. Moves(i, "listening") \/ Moves(i, "failed")
    BY <1>3 DEF Listen
  <2>2. open' \subseteq Loops \X Nat /\ live' \subseteq Loops \X Nat /\ faults' \in Nat
    BY <1>3, <1>a DEF Listen, Fault
  <2> QED BY <1>3, <2>1, <2>2, <1>m DEF Listen, Labels, Running
<1>4. CASE Store(i)
  <2>0. PICK g \in Goroutine : g = loop[i]
    BY <1>0
  <2>g. g.gen + 1 \in Nat /\ "alive" \in Labels
    BY DEF Goroutine, Labels, Running
  <2>n. PICK n \in Nat, label \in Labels : n = g.gen + 1 /\ label = "alive"
    BY <2>g
  <2> DEFINE k == [g EXCEPT !.pc = label, !.connected = TRUE]
             h == [k EXCEPT !.gen = n]
  <2>1. loop' = [loop EXCEPT ![i] = h]
    BY <1>4, <2>0, <2>n DEF Store, Set
  <2>k. k \in Goroutine /\ k.pc = label /\ k.dev = g.dev /\ k.canceled = g.canceled
    BY ConnectionFacts
  <2> HIDE DEF k
  <2>2. h \in Goroutine /\ h.pc = label /\ h.dev = g.dev /\ h.canceled = g.canceled
    BY <2>k DEF Goroutine
  <2> HIDE DEF h
  <2> QED BY <1>4, <2>0, <2>n, <2>1, <2>2 DEF Store, Running
<1>5. CASE RetryLater(i)
  BY <1>5, <1>m DEF RetryLater, Labels, Running
<1>6. CASE KeepAliveEnds(i)
  BY <1>6, <1>m DEF KeepAliveEnds, Labels, Running
<1>7. CASE Tick(i)
  BY <1>7, <1>m DEF Tick, Labels, Running
<1>8. CASE Probe(i)
  BY <1>8, <1>m DEF Probe, Labels, Running
<1>9. CASE Disconnected(i)
  <2> DEFINE label == IF loop[i].pc = "dead" THEN "lost" ELSE "loop"
  <2>0. PICK g \in Goroutine : g = loop[i]
    BY <1>0
  <2> DEFINE h == [g EXCEPT !.pc = label, !.connected = FALSE]
  <2>1. loop' = [loop EXCEPT ![i] = h]
    BY <1>9, <2>0 DEF Disconnected, Set
  <2>a. label \in Labels /\ label \in Running
    BY DEF Labels, Running
  <2> HIDE DEF label
  <2>2. h \in Goroutine /\ h.pc = label /\ h.dev = g.dev /\ h.canceled = g.canceled
    BY <2>a, ConnectionFacts
  <2> HIDE DEF h
  <2> QED BY <1>9, <2>0, <2>a, <2>1, <2>2 DEF Disconnected, Running
<1> QED BY <1>1, <1>2, <1>3, <1>4, <1>5, <1>6, <1>7, <1>8, <1>9 DEF LoopStep

\* An advancing goroutine is active afterwards iff it was before.
LEMMA AdvanceKeeps ==
    ASSUME PoolTypeOK, NEW i \in Loops, Advances(i)
    PROVE  \A j \in Loops : loop'[j].dev = loop[j].dev /\ (Active(j)' <=> Active(j))
<1> SUFFICES ASSUME NEW j \in Loops
             PROVE  loop'[j].dev = loop[j].dev /\ (Active(j)' <=> Active(j))
  OBVIOUS
<1>1. CASE j # i
  BY <1>1 DEF Advances, PoolTypeOK, Active
<1>2. CASE j = i
  BY <1>2 DEF Advances, Active
<1> QED BY <1>1, <1>2

\* What registering does: it fills an empty entry, or the goroutine ends.
LEMMA RegisterFacts ==
    ASSUME PoolTypeOK, NEW i \in Loops, Register(i)
    PROVE  /\ PoolTypeOK'
           /\ \A j \in Loops \ {i} : loop'[j] = loop[j]
           /\ loop'[i].dev = loop[i].dev /\ loop'[i].canceled = loop[i].canceled
           /\ \/ /\ tunnels[loop[i].dev] = NoLoop /\ loop'[i].pc = "loop"
                 /\ tunnels' = [tunnels EXCEPT ![loop[i].dev] = i]
              \/ loop'[i].pc = "ended" /\ tunnels' = tunnels
           /\ loop[i].pc = "spawned"
<1> USE DEF PoolTypeOK
<1>1. Moves(i, "loop") \/ Moves(i, "ended")
  BY DEF Register
<1>2. loop' \in [Loops -> Goroutine] /\ loop' = [loop EXCEPT ![i] = loop'[i]]
  BY <1>1, MoveFacts DEF Labels, Running
<1>5. tunnels' \in [Devices -> Loops \cup {NoLoop}]
  BY DEF Register
<1>6. /\ loop'[i].dev = loop[i].dev /\ loop'[i].canceled = loop[i].canceled
      /\ Moves(i, "loop") => loop'[i].pc = "loop"
      /\ Moves(i, "ended") => loop'[i].pc = "ended"
  BY <1>1, MoveFacts DEF Labels, Running
<1> QED BY <1>2, <1>5, <1>6 DEF Register, Entry, At

\* Starting a goroutine touches no other, and it is not active yet.
LEMMA SpawnFacts ==
    ASSUME NEW L \in [Loops -> Goroutine], NEW i \in Loops, NEW d \in Devices, NEW v \in Versions
    PROVE  /\ Spawned(L, i, d, v) \in [Loops -> Goroutine]
           /\ \A j \in Loops \ {i} : Spawned(L, i, d, v)[j] = L[j]
           /\ Spawned(L, i, d, v)[i].pc = "spawned"
<1>1. [pc |-> "spawned", dev |-> d, ver |-> v, canceled |-> FALSE, connected |-> FALSE,
       gen |-> 0] \in Goroutine
  BY DEF Goroutine, Labels
<1> QED BY <1>1 DEF Spawned

\* Canceling keeps the goroutines well typed.
LEMMA CancelFacts ==
    ASSUME loop \in [Loops -> Goroutine], NEW owners
    PROVE  /\ Canceled(owners) \in [Loops -> Goroutine]
           /\ \A j \in Loops : /\ Canceled(owners)[j].dev = loop[j].dev
                               /\ Canceled(owners)[j].pc = loop[j].pc
                               /\ j \notin owners => Canceled(owners)[j] = loop[j]
                               /\ j \in owners => Canceled(owners)[j].canceled
<1> SUFFICES ASSUME NEW j \in Loops
             PROVE  /\ Canceled(owners)[j] \in Goroutine
                    /\ Canceled(owners)[j].dev = loop[j].dev
                    /\ Canceled(owners)[j].pc = loop[j].pc
                    /\ j \notin owners => Canceled(owners)[j] = loop[j]
                    /\ j \in owners => Canceled(owners)[j].canceled
  BY DEF Canceled
<1>1. loop[j] \in Goroutine
  OBVIOUS
<1> QED BY <1>1 DEF Canceled, Goroutine

\* The invariant is kept by closing any set of devices.
LEMMA CloseInvariant ==
    ASSUME PoolInv, NEW ds \in SUBSET Devices, Close(ds)
    PROVE  PoolInv'
<1> DEFINE owners == {Entry(d) : d \in ds} \ {NoLoop}
<1>1. /\ loop' = Canceled(owners) /\ tunnels' = Drop(ds)
      /\ open' \subseteq open /\ live' \subseteq live
      /\ UNCHANGED <<faults, reconnects>>
  BY DEF Close, Closed
<1> HIDE DEF owners
<1>2. PoolTypeOK'
  BY <1>1, CancelFacts DEF PoolInv, PoolTypeOK, Drop
<1>3. ASSUME NEW i \in Loops, Active(i)'
      PROVE  tunnels'[loop'[i].dev] = i
  <2>1. i \notin owners /\ loop'[i] = loop[i]
    BY <1>1, <1>3, CancelFacts DEF Active, PoolInv, PoolTypeOK
  <2>2. tunnels[loop[i].dev] = i /\ loop[i].dev \in Devices
    BY <2>1, <1>3 DEF Active, PoolInv, Registered, PoolTypeOK, Goroutine
  <2>3. loop[i].dev \notin ds
    BY <2>1, <2>2, LoopAssumption DEF owners, Entry
  <2> QED BY <1>1, <2>1, <2>2, <2>3 DEF Drop
<1> QED BY <1>2, <1>3 DEF PoolInv, Registered

\* The invariant is kept by the calls that start a goroutine.
LEMMA CallInvariant ==
    ASSUME PoolInv, NEW d \in Devices, NEW v \in Versions,
           ConnectDevice(d, v) \/ Reconnect(d, v)
    PROVE  PoolInv'
<1> USE DEF PoolInv, PoolTypeOK
<1>1. CASE ConnectDevice(d, v)
  <2>1. PICK i \in Loops : Unused(i) /\ loop' = Spawned(loop, i, d, v)
    BY <1>1 DEF ConnectDevice
  <2>2. /\ loop' \in [Loops -> Goroutine] /\ loop'[i].pc = "spawned"
        /\ \A j \in Loops \ {i} : loop'[j] = loop[j]
    BY <2>1, SpawnFacts
  <2> QED BY <1>1, <2>2 DEF ConnectDevice, Registered, Active, Running
<1>2. CASE Reconnect(d, v)
  <2> DEFINE C == Canceled({Entry(d)})
  <2>1. \/ \E i \in Loops : loop' = Spawned(C, i, d, v)
        \/ loop' = C
    BY <1>2 DEF Reconnect
  <2>2. /\ C \in [Loops -> Goroutine]
        /\ \A j \in Loops : j # Entry(d) => C[j] = loop[j]
        /\ \A j \in Loops : j = Entry(d) => C[j].canceled
    BY CancelFacts
  <2>3. /\ open' \subseteq open /\ live' \subseteq live /\ tunnels' = tunnels
        /\ faults' = faults /\ reconnects' \in Nat
    BY <1>2 DEF Reconnect, Closed
  <2> HIDE DEF C
  <2>4. CASE loop' = C
    <3>1. \A j \in Loops : Active(j)' => loop'[j] = loop[j]
      BY <2>2, <2>4 DEF Active
    <3> QED BY <2>2, <2>3, <2>4, <3>1 DEF Registered, Active
  <2>5. ASSUME NEW i \in Loops, loop' = Spawned(C, i, d, v) PROVE PoolInv'
    <3>1. /\ loop' \in [Loops -> Goroutine] /\ loop'[i].pc = "spawned"
          /\ \A j \in Loops \ {i} : loop'[j] = C[j]
      BY <2>2, <2>5, SpawnFacts
    <3>2. \A j \in Loops : Active(j)' => loop'[j] = loop[j]
      BY <2>2, <3>1 DEF Active, Running
    <3> QED BY <2>3, <3>1, <3>2 DEF Registered, Active
  <2> QED BY <2>1, <2>4, <2>5
<1> QED BY <1>1, <1>2

\* The initial state satisfies the invariant.
LEMMA PoolInitially == PoolInit => PoolInv
<1> SUFFICES ASSUME PoolInit PROVE PoolInv
  OBVIOUS
<1>1. PICK d \in Devices, v \in Versions :
         loop = [i \in Loops |-> [pc |-> "unused", dev |-> d, ver |-> v, canceled |-> FALSE,
                                  connected |-> FALSE, gen |-> 0]]
  BY DEF PoolInit
<1>2. [pc |-> "unused", dev |-> d, ver |-> v, canceled |-> FALSE, connected |-> FALSE,
       gen |-> 0] \in Goroutine
  BY DEF Goroutine, Labels
<1>3. loop \in [Loops -> Goroutine] /\ \A i \in Loops : loop[i].pc = "unused"
  BY <1>1, <1>2
<1> QED BY <1>3 DEF PoolInit, PoolInv, PoolTypeOK, Registered, Active, Running

\* Every step keeps the invariant.
LEMMA PoolStep == PoolInv /\ [PoolNext]_poolVars => PoolInv'
<1> SUFFICES ASSUME PoolInv, [PoolNext]_poolVars PROVE PoolInv'
  OBVIOUS
<1>1. ASSUME NEW i \in Loops, LoopStep(i), ~Register(i) PROVE PoolInv'
  <2>1. Advances(i) /\ PoolTypeOK'
    BY <1>1, StepAdvances DEF PoolInv
  <2>2. \A j \in Loops : loop'[j].dev = loop[j].dev /\ (Active(j)' <=> Active(j))
    BY <2>1, AdvanceKeeps DEF PoolInv
  <2> QED BY <2>1, <2>2 DEF PoolInv, Registered, Advances
<1>2. ASSUME NEW i \in Loops, Register(i) PROVE PoolInv'
  <2>1. /\ PoolTypeOK' /\ \A j \in Loops \ {i} : loop'[j] = loop[j]
        /\ loop'[i].dev = loop[i].dev
        /\ \/ /\ tunnels[loop[i].dev] = NoLoop /\ loop'[i].pc = "loop"
              /\ tunnels' = [tunnels EXCEPT ![loop[i].dev] = i]
           \/ loop'[i].pc = "ended" /\ tunnels' = tunnels
    BY <1>2, RegisterFacts DEF PoolInv
  <2>2. loop[i].dev \in Devices
    BY DEF PoolInv, PoolTypeOK, Goroutine
  <2>3. ASSUME NEW j \in Loops, Active(j)' PROVE tunnels'[loop'[j].dev] = j
    <3>1. CASE j = i
      BY <3>1, <2>1, <2>2, <2>3 DEF Active, Running, PoolInv, PoolTypeOK
    <3>2. CASE j # i
      <4>1. tunnels[loop[j].dev] = j /\ loop'[j] = loop[j] /\ loop[j].dev \in Devices
        BY <3>2, <2>1, <2>3 DEF Active, PoolInv, Registered, PoolTypeOK, Goroutine
      <4> QED BY <4>1, <2>1, <2>2, LoopAssumption DEF PoolInv, PoolTypeOK
    <3> QED BY <3>1, <3>2
  <2> QED BY <2>1, <2>3 DEF PoolInv, Registered
<1>3. ASSUME NEW pair \in live, Lose(pair) PROVE PoolInv'
  BY <1>3 DEF Lose, Fault, PoolInv, PoolTypeOK, Registered, Active
<1>4. ASSUME UNCHANGED poolVars PROVE PoolInv'
  BY <1>4 DEF poolVars, PoolInv, PoolTypeOK, Registered, Active
<1>5. CASE Caller
  BY <1>5, CallInvariant, CloseInvariant DEF Caller, CloseDevice, CloseAll
<1> QED BY <1>1, <1>2, <1>3, <1>4, <1>5 DEF PoolNext, LoopsRun, Loses

\* The inductive invariant of the pool.
THEOREM PoolInvariance == PoolSpec => []PoolInv
BY PoolInitially, PoolStep, PTL DEF PoolSpec

\* The map, the goroutines and what they opened are always well formed.
THEOREM PoolTyped == PoolSpec => []PoolTypeOK
<1>1. PoolInv => PoolTypeOK
  BY DEF PoolInv
<1> QED BY <1>1, PoolInvariance, PTL

\* connectDevice's check of the map under the lock keeps a second goroutine
\* of the same device from ever serving beside the first.
THEOREM OneLoop == PoolSpec => []OneLoopPerDevice
<1>1. PoolInv => OneLoopPerDevice
  BY DEF PoolInv, Registered, OneLoopPerDevice
<1> QED BY <1>1, PoolInvariance, PTL

\* A goroutine that has not registered yet was not canceled either.
Young(i) == loop[i].pc \in {"unused", "spawned"} => ~loop[i].canceled
EntriesKept == EntriesActive /\ \A i \in Loops : Young(i)

\* A step before any Reconnect leaves goroutines that have not registered alone.
LEMMA YoungStep ==
    ASSUME reconnects' = 0, PoolInv, EntriesKept, [PoolNext]_poolVars
    PROVE  \A j \in Loops : Young(j)'
<1> SUFFICES ASSUME NEW j \in Loops PROVE Young(j)'
  OBVIOUS
<1>y. Young(j)
  BY DEF EntriesKept
<1>1. ASSUME NEW i \in Loops, LoopStep(i), ~Register(i) PROVE Young(j)'
  <2>1. Advances(i)
    BY <1>1, StepAdvances DEF PoolInv
  <2> QED BY <2>1, <1>y DEF Advances, Young, Running, PoolInv, PoolTypeOK
<1>2. ASSUME NEW i \in Loops, Register(i) PROVE Young(j)'
  <2>1. /\ \A k \in Loops \ {i} : loop'[k] = loop[k]
        /\ loop'[i].pc = "loop" \/ loop'[i].pc = "ended"
    BY <1>2, RegisterFacts DEF PoolInv
  <2> QED BY <2>1, <1>y DEF Young
<1>3. ASSUME UNCHANGED loop PROVE Young(j)'
  BY <1>3, <1>y DEF Young
<1>4. ASSUME NEW c \in Devices, NEW v \in Versions, ConnectDevice(c, v) PROVE Young(j)'
  <2>1. PICK i \in Loops : Unused(i) /\ loop' = Spawned(loop, i, c, v)
    BY <1>4 DEF ConnectDevice
  <2>2. CASE j = i
    BY <2>1, <2>2 DEF Spawned, Young, PoolInv, PoolTypeOK
  <2>3. CASE j # i
    BY <2>1, <2>3, <1>y, SpawnFacts DEF Young, PoolInv, PoolTypeOK
  <2> QED BY <2>2, <2>3
<1>5. ASSUME NEW c \in Devices, NEW v \in Versions, Reconnect(c, v) PROVE FALSE
  BY <1>5 DEF Reconnect, PoolInv, PoolTypeOK
<1>6. ASSUME NEW ds \in SUBSET Devices, Close(ds) PROVE Young(j)'
  <2> DEFINE owners == {Entry(c) : c \in ds} \ {NoLoop}
  <2>1. loop' = Canceled(owners)
    BY <1>6 DEF Close
  <2>2. j \in owners => loop[j].pc \in Running
    BY DEF EntriesKept, EntriesActive, Entry, Active
  <2> HIDE DEF owners
  <2>3. loop'[j].pc = loop[j].pc /\ (j \notin owners => loop'[j] = loop[j])
    BY <2>1, CancelFacts DEF PoolInv, PoolTypeOK
  <2> QED BY <2>2, <2>3, <1>y DEF Young, Running
<1> QED BY <1>1, <1>2, <1>3, <1>4, <1>5, <1>6
        DEF PoolNext, LoopsRun, Loses, Lose, Caller, CloseDevice, CloseAll, poolVars

\* A step before any Reconnect keeps the entries served.
LEMMA ServedStep ==
    ASSUME reconnects' = 0, PoolInv, EntriesKept, [PoolNext]_poolVars
    PROVE  EntriesActive'
<1>0. PoolInv' /\ LoopAssumption
  BY PoolStep, LoopAssumption
<1>e. SUFFICES ASSUME NEW d \in Devices, NEW e \in Loops, tunnels'[d] = e
               PROVE  Active(e)' /\ loop'[e].dev = d
  BY <1>0 DEF EntriesActive, Entry, PoolInv, PoolTypeOK
<1>s. tunnels[d] = e => Active(e) /\ loop[e].dev = d
  BY LoopAssumption DEF EntriesKept, EntriesActive, Entry
<1>1. ASSUME NEW i \in Loops, LoopStep(i), ~Register(i)
      PROVE  Active(e)' /\ loop'[e].dev = d
  <2>1. Advances(i)
    BY <1>1, StepAdvances DEF PoolInv
  <2>2. loop'[e].dev = loop[e].dev /\ (Active(e)' <=> Active(e))
    BY <2>1, <1>e, AdvanceKeeps DEF PoolInv
  <2> QED BY <2>1, <2>2, <1>e, <1>s DEF Advances
<1>2. ASSUME NEW i \in Loops, Register(i)
      PROVE  Active(e)' /\ loop'[e].dev = d
  <2>1. /\ \A j \in Loops \ {i} : loop'[j] = loop[j]
        /\ loop'[i].dev = loop[i].dev /\ loop'[i].canceled = loop[i].canceled
        /\ \/ /\ tunnels[loop[i].dev] = NoLoop /\ loop'[i].pc = "loop"
              /\ tunnels' = [tunnels EXCEPT ![loop[i].dev] = i]
           \/ loop'[i].pc = "ended" /\ tunnels' = tunnels
        /\ loop[i].pc = "spawned"
    BY <1>2, RegisterFacts DEF PoolInv
  <2>2. CASE tunnels[d] = e
    BY <2>1, <2>2, <1>e, <1>s DEF Active, Running
  <2>3. CASE tunnels[d] # e
    <3>1. e = i /\ loop[i].dev = d /\ loop'[i].pc = "loop"
      BY <2>1, <2>3, <1>e DEF PoolInv, PoolTypeOK
    <3>2. ~loop[i].canceled
      BY <2>1 DEF EntriesKept, Young
    <3> QED BY <2>1, <3>1, <3>2 DEF Active, Running
  <2> QED BY <2>2, <2>3
<1>3. ASSUME UNCHANGED <<tunnels, loop>>
      PROVE  Active(e)' /\ loop'[e].dev = d
  BY <1>3, <1>e, <1>s DEF Active
<1>4. ASSUME NEW c \in Devices, NEW v \in Versions, ConnectDevice(c, v)
      PROVE  Active(e)' /\ loop'[e].dev = d
  <2>1. PICK i \in Loops : Unused(i) /\ loop' = Spawned(loop, i, c, v)
    BY <1>4 DEF ConnectDevice
  <2>2. Active(e) /\ loop[e].dev = d /\ e # i
    BY <1>4, <1>e, <1>s, <2>1 DEF ConnectDevice, Unused, Active, Running
  <2> QED BY <1>e, <2>1, <2>2, SpawnFacts DEF Active, PoolInv, PoolTypeOK
<1>5. ASSUME NEW c \in Devices, NEW v \in Versions, Reconnect(c, v) PROVE FALSE
  BY <1>5 DEF Reconnect, PoolInv, PoolTypeOK
<1>6. ASSUME NEW ds \in SUBSET Devices, Close(ds)
      PROVE  Active(e)' /\ loop'[e].dev = d
  <2> DEFINE owners == {Entry(c) : c \in ds} \ {NoLoop}
  <2>1. loop' = Canceled(owners) /\ tunnels' = Drop(ds)
    BY <1>6 DEF Close
  <2>2. tunnels[d] = e /\ d \notin ds
    BY <2>1, <1>e, LoopAssumption DEF Drop
  <2>3. e \notin owners
    BY <2>2, <1>s DEF EntriesKept, EntriesActive, Entry
  <2> HIDE DEF owners
  <2> QED BY <1>e, <1>s, <2>1, <2>2, <2>3, CancelFacts DEF Active, PoolInv, PoolTypeOK
<1> QED BY <1>1, <1>2, <1>3, <1>4, <1>5, <1>6
        DEF PoolNext, LoopsRun, Loses, Lose, Caller, CloseDevice, CloseAll, poolVars

\* The count of Reconnect calls never goes back to zero.
LEMMA ReconnectsCounted ==
    ASSUME PoolInv, [PoolNext]_poolVars, reconnects' = 0
    PROVE  reconnects = 0
<1>1. ASSUME NEW c \in Devices, NEW v \in Versions, Reconnect(c, v) PROVE FALSE
  BY <1>1 DEF Reconnect, PoolInv, PoolTypeOK
<1>2. ASSUME NEW i \in Loops, LoopStep(i) PROVE reconnects' = reconnects
  BY <1>2 DEF LoopStep, Register, Iterate, Dial, Listen, Store, RetryLater,
              KeepAliveEnds, Tick, Probe, Disconnected
<1>3. ASSUME NEW ds \in SUBSET Devices, Close(ds) PROVE reconnects' = reconnects
  BY <1>3 DEF Close
<1> QED BY <1>1, <1>2, <1>3
        DEF PoolNext, LoopsRun, Loses, Lose, Caller, ConnectDevice, CloseDevice, CloseAll,
            poolVars

\* As long as Reconnect is not called, the tunnel an entry names is one whose
\* goroutine still works for it.
THEOREM EntriesServed == PoolSpec => []EntryIsServed
<1> DEFINE Inv == reconnects = 0 => EntriesKept
<1>1. PoolInit => Inv
  BY DEF PoolInit, EntriesKept, Young, EntriesActive, Entry
<1>2. PoolInv /\ Inv /\ [PoolNext]_poolVars => Inv'
  BY ServedStep, YoungStep, ReconnectsCounted DEF EntriesKept
<1>3. Inv => EntryIsServed
  BY DEF EntriesKept, EntryIsServed
<1> HIDE DEF Inv
<1> QED BY <1>1, <1>2, <1>3, PoolInvariance, PTL DEF PoolSpec

\* The listener a goroutine is about to store, or reports as connected, accepts.
OpenedBy(i) ==
    /\ At(i, "listening") => Fresh(i) \in open
    /\ loop[i].connected /\ ~loop[i].canceled => Current(i) \in open
Opened == \A i \in Loops : OpenedBy(i)

\* Setting a goroutine's label touches neither its pair nor its connection.
LEMMA MoveSpares ==
    ASSUME PoolTypeOK, NEW i \in Loops, NEW label, Moves(i, label)
    PROVE  /\ loop'[i].gen = loop[i].gen /\ loop'[i].connected = loop[i].connected
           /\ loop'[i].canceled = loop[i].canceled /\ loop'[i].pc = label
<1>1. loop[i] \in Goroutine /\ loop'[i] = [loop[i] EXCEPT !.pc = label]
  BY DEF Moves, Set, PoolTypeOK
<1>2. PICK g \in Goroutine : g = loop[i]
  BY <1>1
<1>3. /\ [g EXCEPT !.pc = label].gen = g.gen /\ [g EXCEPT !.pc = label].connected = g.connected
      /\ [g EXCEPT !.pc = label].canceled = g.canceled /\ [g EXCEPT !.pc = label].pc = label
  BY DEF Goroutine
<1> QED BY <1>1, <1>2, <1>3

\* A step of the goroutine itself: it stores the pair it has opened.
LEMMA OwnStepOpened ==
    ASSUME PoolTypeOK, NEW i \in Loops, OpenedBy(i), LoopStep(i)
    PROVE  OpenedBy(i)' /\ open \subseteq open'
<1> USE DEF OpenedBy, At, Fresh, Current
<1>m. ASSUME NEW label, Moves(i, label), label # "listening", open' = open
      PROVE  OpenedBy(i)' /\ open \subseteq open'
  BY <1>m, MoveSpares
<1>1. CASE Listen(i)
  <2>1. CASE Moves(i, "listening") /\ open' = open \cup {Fresh(i)}
    BY <2>1, MoveSpares
  <2>2. CASE Moves(i, "failed") /\ open' = open
    BY <2>2, <1>m
  <2> QED BY <1>1, <2>1, <2>2 DEF Listen
<1>2. CASE Store(i)
  <2>1. loop[i] \in Goroutine /\ loop[i].pc = "listening" /\ open' = open
    BY <1>2 DEF Store, PoolTypeOK
  <2>2. PICK g \in Goroutine : g = loop[i]
    BY <2>1
  <2> DEFINE h == [g EXCEPT !.pc = "alive", !.connected = TRUE, !.gen = @ + 1]
  <2>3. h.gen = g.gen + 1 /\ h.pc = "alive"
    BY DEF Goroutine
  <2>4. loop'[i] = h
    BY <1>2, <2>2 DEF Store, Set, PoolTypeOK
  <2> HIDE DEF h
  <2> QED BY <2>1, <2>2, <2>3, <2>4
<1>3. CASE Disconnected(i)
  <2>1. loop[i] \in Goroutine /\ open' = open
    BY <1>3 DEF Disconnected, PoolTypeOK
  <2>2. PICK g \in Goroutine : g = loop[i]
    BY <2>1
  <2> DEFINE label == IF loop[i].pc = "dead" THEN "lost" ELSE "loop"
             h == [g EXCEPT !.pc = label, !.connected = FALSE]
  <2>3. h.connected = FALSE /\ h.pc = label
    BY DEF Goroutine
  <2>4. loop'[i] = h
    BY <1>3, <2>2 DEF Disconnected, Set, PoolTypeOK
  <2>5. label # "listening"
    OBVIOUS
  <2> HIDE DEF h, label
  <2> QED BY <2>1, <2>3, <2>4, <2>5
<1>4. CASE Register(i)
  BY <1>4, <1>m DEF Register
<1>5. CASE Iterate(i)
  BY <1>5, <1>m DEF Iterate
<1>6. CASE Dial(i)
  BY <1>6, <1>m DEF Dial
<1>7. CASE RetryLater(i) \/ KeepAliveEnds(i) \/ Tick(i)
  BY <1>7, <1>m DEF RetryLater, KeepAliveEnds, Tick
<1>8. CASE Probe(i)
  BY <1>8, <1>m DEF Probe
<1> QED BY <1>1, <1>2, <1>3, <1>4, <1>5, <1>6, <1>7, <1>8 DEF LoopStep

\* Canceling goroutines and closing what they hold spares what others hold.
LEMMA CancelOpened ==
    ASSUME PoolTypeOK, Opened, NEW owners \in SUBSET Loops, open' = Closed(open, owners),
           NEW j \in Loops, loop'[j] = Canceled(owners)[j]
    PROVE  OpenedBy(j)'
<1>1. loop[j] \in Goroutine /\ OpenedBy(j) /\ \A i \in owners : loop[i].gen \in Nat
  BY DEF Opened, PoolTypeOK, Goroutine
<1>2. PICK g \in Goroutine : g = loop[j]
  BY <1>1
<1>3. /\ [g EXCEPT !.canceled = TRUE].gen = g.gen /\ [g EXCEPT !.canceled = TRUE].pc = g.pc
      /\ [g EXCEPT !.canceled = TRUE].canceled = TRUE /\ g.gen \in Nat
  BY DEF Goroutine
<1>4. Fresh(j) \notin {Current(i) : i \in owners}
  BY <1>2, <1>3 DEF Fresh, Current
<1>5. CASE j \in owners
  <2>1. loop'[j] = [g EXCEPT !.canceled = TRUE]
    BY <1>2, <1>5 DEF Canceled
  <2> QED BY <1>1, <1>2, <1>3, <1>4, <2>1 DEF OpenedBy, At, Fresh, Closed
<1>6. CASE j \notin owners
  <2>1. loop'[j] = loop[j]
    BY <1>6 DEF Canceled
  <2>2. Current(j) \notin {Current(i) : i \in owners}
    BY <1>6 DEF Current
  <2> QED BY <1>1, <1>4, <2>1, <2>2 DEF OpenedBy, At, Fresh, Current, Closed
<1> QED BY <1>5, <1>6

\* Every step keeps the listeners of those who are not canceled.
LEMMA OpenedStep ==
    ASSUME PoolInv, Opened, [PoolNext]_poolVars
    PROVE  Opened'
<1>t. PoolTypeOK /\ loop \in [Loops -> Goroutine]
  BY DEF PoolInv, PoolTypeOK
<1> SUFFICES ASSUME NEW j \in Loops PROVE OpenedBy(j)'
  BY DEF Opened
<1>j. OpenedBy(j)
  BY DEF Opened
<1>0. ASSUME loop'[j] = loop[j], open \subseteq open' PROVE OpenedBy(j)'
  BY <1>0, <1>j DEF OpenedBy, At, Fresh, Current
<1>s. ASSUME NEW L \in [Loops -> Goroutine], NEW i \in Loops, NEW d, NEW v, j = i,
             loop' = Spawned(L, i, d, v)
      PROVE  OpenedBy(j)'
  BY <1>s DEF Spawned, OpenedBy, At
<1>1. ASSUME NEW i \in Loops, LoopStep(i) PROVE OpenedBy(j)'
  <2>1. OpenedBy(i)' /\ open \subseteq open'
    BY <1>1, <1>t, OwnStepOpened DEF Opened
  <2>2. \A k \in Loops \ {i} : loop'[k] = loop[k]
    <3>1. CASE Register(i)
      BY <3>1, <1>t, RegisterFacts
    <3>2. CASE ~Register(i)
      BY <1>1, <3>2, <1>t, StepAdvances DEF Advances
    <3> QED BY <3>1, <3>2
  <2> QED BY <2>1, <2>2, <1>0
<1>2. ASSUME NEW d \in Devices, NEW v \in Versions, ConnectDevice(d, v) PROVE OpenedBy(j)'
  <2>1. PICK i \in Loops : loop' = Spawned(loop, i, d, v)
    BY <1>2 DEF ConnectDevice
  <2>2. j # i => loop'[j] = loop[j]
    BY <2>1, <1>t, SpawnFacts
  <2> QED BY <1>2, <2>1, <2>2, <1>0, <1>s, <1>t DEF ConnectDevice
<1>3. ASSUME NEW d \in Devices, NEW v \in Versions, Reconnect(d, v) PROVE OpenedBy(j)'
  <2> DEFINE owners == {Entry(d)}
  <2>1. owners \in SUBSET Loops /\ open' = Closed(open, owners)
    BY <1>3 DEF Reconnect, Entry, PoolInv, PoolTypeOK
  <2>2. Canceled(owners) \in [Loops -> Goroutine]
    BY <1>t, CancelFacts
  <2>3. \/ \E i \in Loops : loop' = Spawned(Canceled(owners), i, d, v)
        \/ loop' = Canceled(owners)
    BY <1>3 DEF Reconnect
  <2> HIDE DEF owners
  <2>4. CASE loop'[j] = Canceled(owners)[j]
    BY <2>1, <2>4, <1>t, CancelOpened
  <2>5. ASSUME NEW i \in Loops, loop' = Spawned(Canceled(owners), i, d, v) PROVE OpenedBy(j)'
    <3>1. j # i => loop'[j] = Canceled(owners)[j]
      BY <2>2, <2>5, SpawnFacts
    <3> QED BY <2>2, <2>4, <2>5, <3>1, <1>s
  <2> QED BY <2>3, <2>4, <2>5
<1>4. ASSUME NEW ds \in SUBSET Devices, Close(ds) PROVE OpenedBy(j)'
  <2> DEFINE owners == {Entry(d) : d \in ds} \ {NoLoop}
  <2>1. /\ owners \in SUBSET Loops
        /\ open' = Closed(open, owners) /\ loop' = Canceled(owners)
    BY <1>4 DEF Close, Entry, PoolInv, PoolTypeOK
  <2> HIDE DEF owners
  <2> QED BY <2>1, <1>t, CancelOpened
<1>5. CASE Loses \/ UNCHANGED poolVars
  BY <1>5, <1>0 DEF Loses, Lose, poolVars
<1> QED BY <1>1, <1>2, <1>3, <1>4, <1>5 DEF PoolNext, LoopsRun, Caller, CloseDevice, CloseAll

\* A tunnel that says it is connected, and whose goroutine nobody canceled, has
\* a listener that accepts connections, Reconnect or not.
THEOREM OpenedHolds == PoolSpec => []Opened
<1>1. PoolInit => Opened
  BY DEF PoolInit, Opened, OpenedBy, At
<1>2. PoolInv /\ Opened /\ [PoolNext]_poolVars => Opened'
  BY OpenedStep
<1> QED BY <1>1, <1>2, PoolInvariance, PTL DEF PoolSpec

\* What every caller of the pool relies on (PoolSafety's four parts) holds for any
\* number of devices, goroutines, lost connections and calls.
THEOREM PoolIsSafe == PoolSpec => []PoolSafety
<1>1. EntryIsServed /\ Opened /\ PoolTypeOK => ConnectedListens
  <2> SUFFICES ASSUME EntryIsServed, Opened, PoolTypeOK, reconnects = 0,
                      NEW d \in Devices, Entry(d) # NoLoop, loop[Entry(d)].connected
               PROVE  Current(Entry(d)) \in open
    BY DEF ConnectedListens
  <2>1. Entry(d) \in Loops /\ ~loop[Entry(d)].canceled
    BY DEF EntryIsServed, EntriesActive, Active, Entry, PoolTypeOK
  <2> QED BY <2>1 DEF Opened, OpenedBy
<1>2. PoolTypeOK /\ OneLoopPerDevice /\ EntryIsServed /\ Opened => PoolSafety
  BY <1>1 DEF PoolSafety
<1> QED BY <1>2, PoolTyped, OneLoop, EntriesServed, OpenedHolds, PTL

-----------------------------------------------------------------------------
\* The requests that change devices and services.

Saving == {"open", "write", "rename"}

\* A service request holds the lock, and only one that is still saving.
LockHeldWhileSaving ==
    /\ \A h \in Handlers : req[h].kind \in ServiceKinds => lock = h
    /\ \A h \in Handlers : lock = h => req[h].pc \in Saving

\* The devices a request connects are configured.
Connectable ==
    \A h \in Handlers : At2(h, "tunnels") =>
        \A d \in req[h].connect : req[h].next.dev[d] # Absent

UpdatesInv == UpdatesSafety /\ LockHeldWhileSaving /\ Connectable /\ Registered

\* At most one request is being served.
OneRequest ==
    \A g, h \in Handlers : req[g].pc # "idle" /\ req[h].pc # "idle" => g = h

\* What a single request finds and leaves in the files.
Agree(c, file) == c.dev \in {file.dev, Aliased(file).dev}
FileOf(h) ==
    LET r == req[h] IN
    /\ r.fd = (IF r.pc = "write" THEN "tmp" ELSE "none")
    /\ r.pc = "write" => tmp = Empty
    /\ r.pc = "rename" => tmp = r.next
    /\ r.pc = "apply" => Agree(r.next, disk)
    /\ r.pc # "idle" => r.kind # "none"
    /\ r.kind = "reload" /\ r.pc \in Saving => r.next = Aliased(disk)
    /\ r.kind = "reload" /\ r.pc = "apply" => r.next \in {disk, Aliased(disk)}
Filed ==
    /\ disk \in Config /\ \A h \in Handlers : FileOf(h)
    /\ (\A h \in Handlers : ~At2(h, "apply")) => Agree(cfg, disk)

\* A configured device has a tunnel, or the request that is adjusting the tunnels
\* still has to connect it; what that request closes and keeps it connects again.
HasTunnel(d) == Entry(d) # NoLoop \/ \E i \in Loops : At(i, "spawned") /\ loop[i].dev = d
Adjusts(h, d) == At2(h, "tunnels") /\ d \in req[h].connect
Tunneled ==
    \A d \in Devices : cfg.dev[d] # Absent =>
      /\ HasTunnel(d) \/ \E h \in Handlers : Adjusts(h, d)
      /\ \A h \in Handlers : At2(h, "tunnels") /\ d \in req[h].close => d \in req[h].connect

Settled == DiskReadable /\ DevicesPersisted /\ ConfiguredIsServed
AloneInv == OneRequest /\ Filed /\ Tunneled

-----------------------------------------------------------------------------
\* Records of requests.

LEMMA ConfigFacts ==
    ASSUME NEW c \in Config
    PROVE  /\ Aliased(c) \in Config /\ Aliased(c).svc = c.svc
           /\ Aliased(c).dev = [d \in Devices |-> IF c.dev[d] = Absent THEN Absent ELSE Alias[c.dev[d]]]
BY AliasAssumption DEF Aliased, Config

LEMMA ServingFacts ==
    ASSUME req \in [Handlers -> Request], NEW h \in Handlers, NEW kind \in DeviceKinds \cup ServiceKinds,
           NEW d \in Devices, NEW next \in Config, NEW label \in {"open", "apply"}
    PROVE  LET r == Serving(h, kind, d, next, label) IN
           /\ r \in Request /\ r.kind = kind /\ r.pc = label /\ r.dev = d /\ r.next = next
           /\ r.fd = req[h].fd /\ r.close = req[h].close /\ r.connect = req[h].connect
<1>1. PICK q \in Request : q = req[h]
  OBVIOUS
<1>2. DeviceKinds \cup ServiceKinds \subseteq DeviceKinds \cup ServiceKinds \cup {"none"}
  OBVIOUS
<1> QED BY <1>1, <1>2 DEF Serving, Request

LEMMA AnsweredFacts ==
    ASSUME NEW q \in Request
    PROVE  LET r == Answered(q) IN
           /\ r \in Request /\ r.kind = "none" /\ r.pc = "idle" /\ r.dev = q.dev /\ r.next = q.next
           /\ r.fd = "none" /\ r.close = {} /\ r.connect = {}
BY DEF Answered, Request

LEMMA StageFacts ==
    ASSUME NEW q \in Request, NEW label \in {"idle", "open", "write", "rename", "apply", "tunnels"},
           NEW where \in {"none", "tmp", "disk", "gone"}
    PROVE  LET r == [q EXCEPT !.pc = label, !.fd = where] IN
           /\ r \in Request /\ r.kind = q.kind /\ r.pc = label /\ r.dev = q.dev /\ r.next = q.next
           /\ r.fd = where /\ r.close = q.close /\ r.connect = q.connect
BY DEF Request

LEMMA LabelOnlyFacts ==
    ASSUME NEW q \in Request, NEW label \in {"idle", "open", "write", "rename", "apply", "tunnels"}
    PROVE  LET r == [q EXCEPT !.pc = label] IN
           /\ r \in Request /\ r.kind = q.kind /\ r.pc = label /\ r.dev = q.dev /\ r.next = q.next
           /\ r.fd = q.fd /\ r.close = q.close /\ r.connect = q.connect
BY DEF Request

LEMMA FailedFacts ==
    ASSUME NEW q \in Request
    PROVE  LET r == Failed(q) IN
           /\ r \in Request /\ r.dev = q.dev /\ r.next = q.next /\ r.fd = "none"
           /\ \/ q.kind = "reload" /\ r.kind = q.kind /\ r.pc = "apply"
              \/ q.kind # "reload" /\ r.kind = "none" /\ r.pc = "idle"
<1>1. CASE q.kind = "reload"
  <2> DEFINE r == [q EXCEPT !.pc = "apply", !.fd = "none"]
  <2>1. /\ r \in Request /\ r.kind = q.kind /\ r.pc = "apply" /\ r.dev = q.dev
        /\ r.next = q.next /\ r.fd = "none"
    BY DEF Request
  <2>2. Failed(q) = r
    BY <1>1 DEF Failed
  <2> QED BY <1>1, <2>1, <2>2
<1>2. CASE q.kind # "reload"
  BY <1>2, AnsweredFacts DEF Failed
<1> QED BY <1>1, <1>2

LEMMA SavedFacts ==
    ASSUME NEW q \in Request
    PROVE  LET r == Saved(q) IN
           /\ r \in Request /\ r.dev = q.dev /\ r.next = q.next /\ r.fd \in {q.fd, "none"}
           /\ \/ q.kind \in ServiceKinds /\ r.kind = "none" /\ r.pc = "idle"
              \/ q.kind \notin ServiceKinds /\ r.kind = q.kind /\ r.pc = "apply"
BY LabelOnlyFacts, AnsweredFacts DEF Saved

LEMMA MovedFacts ==
    ASSUME NEW q \in Request, NEW renamed \in BOOLEAN
    PROVE  LET r == Moved(q, renamed) IN
           /\ r \in Request /\ r.kind = q.kind /\ r.pc = q.pc /\ r.dev = q.dev /\ r.next = q.next
           /\ r.close = q.close /\ r.connect = q.connect
           /\ q.fd \notin {"tmp", "disk"} => r = q
<1>1. ASSUME NEW where \in {"none", "tmp", "disk", "gone"}
      PROVE  LET r == [q EXCEPT !.fd = where] IN
             /\ r \in Request /\ r.kind = q.kind /\ r.pc = q.pc /\ r.dev = q.dev /\ r.next = q.next
             /\ r.close = q.close /\ r.connect = q.connect
  BY DEF Request
<1> QED BY <1>1 DEF Moved

LEMMA BecomesFacts ==
    ASSUME req \in [Handlers -> Request], NEW h \in Handlers, NEW r \in Request, Becomes(h, r)
    PROVE  /\ req' \in [Handlers -> Request] /\ req'[h] = r
           /\ \A g \in Handlers : g # h => req'[g] = req[g]
BY DEF Becomes

-----------------------------------------------------------------------------
\* Requests in any order.

\* The new process of a restart: every goroutine is new, and the entries are empty.
LEMMA RestartedPool ==
    ASSUME UpdatesInv, Restart
    PROVE  /\ cfg' \in Config /\ loop' \in [Loops -> Goroutine]
           /\ \A i \in Loops : /\ loop'[i].pc \in {"unused", "spawned"}
                               /\ ~loop'[i].canceled /\ ~loop'[i].connected
           /\ tunnels' = [d \in Devices |-> NoLoop]
           /\ open' = {} /\ live' = {} /\ UNCHANGED <<faults, reconnects>>
           /\ \A d \in Devices : cfg'.dev[d] # Absent => HasTunnel(d)'
<1>1. disk \in Config /\ cfg' \in {disk, Aliased(disk)}
  BY DEF Restart, UpdatesInv, UpdatesSafety, UpdatesTypeOK, Readable, Files
<1>2. cfg' \in Config
  BY <1>1, ConfigFacts
<1> DEFINE configured == {d \in Devices : cfg'.dev[d] # Absent}
           fresh == [i \in Loops |-> [loop[i] EXCEPT !.pc = "unused", !.canceled = FALSE,
                                                    !.connected = FALSE, !.gen = 0]]
           New(d) == [pc |-> "spawned", dev |-> d, ver |-> cfg'.dev[d], canceled |-> FALSE,
                      connected |-> FALSE, gen |-> 0]
<1>3. PICK owner \in [configured -> Loops] :
        /\ \A d, e \in configured : owner[d] = owner[e] => d = e
        /\ loop' = [i \in Loops |->
                       IF \E d \in configured : owner[d] = i
                       THEN LET d == CHOOSE d \in configured : owner[d] = i
                            IN Spawned(fresh, i, d, cfg'.dev[d])[i]
                       ELSE fresh[i]]
  BY DEF Restart, ConnectAll
<1>4. ASSUME NEW i \in Loops
      PROVE  /\ fresh[i] \in Goroutine /\ fresh[i].pc = "unused"
             /\ ~fresh[i].canceled /\ ~fresh[i].connected
  <2>1. PICK g \in Goroutine : g = loop[i]
    BY DEF UpdatesInv, UpdatesSafety, UpdatesTypeOK, PoolTypeOK
  <2> DEFINE k == [g EXCEPT !.pc = "unused", !.canceled = FALSE, !.connected = FALSE, !.gen = 0]
  <2>2. k \in Goroutine /\ k.pc = "unused" /\ ~k.canceled /\ ~k.connected
    BY DEF Goroutine, Labels
  <2>3. fresh[i] = k
    BY <2>1
  <2> HIDE DEF k
  <2> QED BY <2>2, <2>3
<1>5. ASSUME NEW d \in configured
      PROVE  /\ New(d) \in Goroutine /\ New(d).pc = "spawned" /\ New(d).dev = d
             /\ ~New(d).canceled /\ ~New(d).connected
  BY <1>2, <1>5 DEF Goroutine, Labels, Config
<1>6. ASSUME NEW d \in configured PROVE loop'[owner[d]] = New(d)
  <2>1. owner[d] \in Loops /\ (CHOOSE e \in configured : owner[e] = owner[d]) = d
    BY <1>3
  <2>2. fresh \in [Loops -> Goroutine]
    BY <1>4
  <2> HIDE DEF fresh, configured
  <2> QED BY <1>3, <2>1, <2>2 DEF Spawned
<1>7. ASSUME NEW i \in Loops, ~\E d \in configured : owner[d] = i PROVE loop'[i] = fresh[i]
  BY <1>3, <1>7
<1> HIDE DEF fresh, New
<1>8. ASSUME NEW i \in Loops
      PROVE  /\ loop'[i] \in Goroutine /\ loop'[i].pc \in {"unused", "spawned"}
             /\ ~loop'[i].canceled /\ ~loop'[i].connected
  BY <1>4, <1>5, <1>6, <1>7
<1>9. DOMAIN loop' = Loops /\ loop' = [i \in Loops |-> loop'[i]]
  <2> HIDE DEF configured
  <2> QED BY <1>3
<1>10. loop' \in [Loops -> Goroutine]
  BY <1>8, <1>9
<1>11. ASSUME NEW d \in Devices, cfg'.dev[d] # Absent PROVE HasTunnel(d)'
  <2>1. d \in configured
    BY <1>11
  <2>2. owner[d] \in Loops
    BY <1>3, <2>1
  <2>3. loop'[owner[d]].pc = "spawned" /\ loop'[owner[d]].dev = d
    BY <1>5, <1>6, <2>1
  <2> QED BY <2>2, <2>3 DEF HasTunnel, At
<1> QED BY <1>2, <1>8, <1>10, <1>11 DEF Restart, ConnectAll

\* What a request does with the tunnels is a call of the pool, or nothing.
LEMMA PoolKept ==
    ASSUME UpdatesInv, Next, ~Restart
    PROVE  [PoolNext]_poolVars
<1>1. ASSUME NEW h \in Handlers, Requested(h) PROVE UNCHANGED poolVars
  BY <1>1 DEF Requested, PutDevice, DeleteDevice, Reload, PersistDeployResult, RemoveService,
              Admit, poolVars
<1>2. ASSUME NEW h \in Handlers, OpenTmp(h) \/ WriteTmp(h) \/ RenameTmp(h) \/ Apply(h) \/ Finish(h)
      PROVE  UNCHANGED poolVars
  BY <1>2 DEF OpenTmp, WriteTmp, RenameTmp, Apply, Finish, SaveFault, poolVars
<1>3. ASSUME NEW h \in Handlers, NEW d \in Devices, CloseTunnel(h, d) PROVE PoolNext
  BY <1>3 DEF CloseTunnel, PoolNext, Caller
<1>4. ASSUME NEW h \in Handlers, NEW d \in Devices, ConnectTunnel(h, d) PROVE PoolNext
  <2>1. req[h] \in Request /\ req[h].next \in Config
    BY DEF UpdatesInv, UpdatesSafety, UpdatesTypeOK, Request
  <2>2. req[h].next.dev[d] \in Versions
    BY <1>4, <2>1 DEF ConnectTunnel, UpdatesInv, Connectable, Config
  <2> QED BY <1>4, <2>2 DEF ConnectTunnel, PoolNext, Caller
<1> QED BY <1>1, <1>2, <1>3, <1>4 DEF Next, PoolRuns, Served, PoolNext

LEMMA PoolInvKept ==
    ASSUME UpdatesInv, [Next]_vars
    PROVE  PoolInv'
<1>1. PoolInv
  BY DEF UpdatesInv, UpdatesSafety, UpdatesTypeOK, PoolInv
<1>2. CASE Restart
  <2>1. Registered'
    BY <1>2, RestartedPool DEF Registered, Active, Running
  <2> QED BY <1>1, <1>2, <2>1, RestartedPool DEF PoolInv, PoolTypeOK
<1>3. CASE ~Restart
  BY <1>1, <1>3, PoolKept, PoolStep DEF vars, poolVars
<1> QED BY <1>2, <1>3

\* The types and the lock under one request's new record r.
LEMMA UpdateKept ==
    ASSUME UpdatesInv, PoolInv', NEW h \in Handlers, NEW r \in Request,
           req' \in [Handlers -> Request], req'[h] = r,
           \A g \in Handlers : g # h =>
              /\ req'[g].kind = req[g].kind /\ req'[g].pc = req[g].pc
              /\ req'[g].next = req[g].next /\ req'[g].connect = req[g].connect,
           disk' \in Files \ {NoFile}, tmp' \in Files, cfg' \in Config,
           requests' \in Nat, saveFaults' \in Nat, restarts' \in Nat,
           \/ lock' = lock /\ r.kind = req[h].kind
           \/ lock' = h /\ lock = Nobody
           \/ lock' = Released(h) /\ r.kind \notin ServiceKinds,
           lock' = h => r.kind \in ServiceKinds /\ r.pc \in Saving /\ r.next = cfg',
           cfg' = cfg \/ lock \in {h, Nobody},
           r.pc = "tunnels" => \A d \in r.connect : r.next.dev[d] # Absent
    PROVE  UpdatesInv'
<1>1. lock' = Nobody \/ (lock' \in Handlers /\ req'[lock'].kind \in ServiceKinds)
  BY FileNamesAssumption DEF UpdatesInv, UpdatesSafety, UpdatesTypeOK, Released
<1>2. UpdatesTypeOK'
  BY <1>1 DEF UpdatesTypeOK, PoolInv
<1>3. ASSUME NEW g \in Handlers, g # h, lock' = g PROVE lock = g /\ cfg' = cfg
  BY <1>3, FileNamesAssumption DEF Released
<1>4. LockedSaveIsCurrent'
  BY <1>3 DEF LockedSaveIsCurrent, UpdatesInv, UpdatesSafety
<1>5. LockHeldWhileSaving'
  <2> SUFFICES ASSUME NEW g \in Handlers
               PROVE  /\ req'[g].kind \in ServiceKinds => lock' = g
                      /\ lock' = g => req'[g].pc \in Saving
    BY DEF LockHeldWhileSaving
  <2>1. CASE g = h
    BY <2>1, FileNamesAssumption DEF UpdatesInv, LockHeldWhileSaving, Released
  <2>2. CASE g # h
    BY <2>2, <1>3, FileNamesAssumption DEF UpdatesInv, LockHeldWhileSaving, Released
  <2> QED BY <2>1, <2>2
<1>6. Connectable'
  BY DEF Connectable, UpdatesInv, At2
<1> QED BY <1>2, <1>4, <1>5, <1>6 DEF UpdatesInv, UpdatesSafety, PoolInv

\* What holds of a state to begin with, in the form the steps need it.
LEMMA UpdateFacts ==
    ASSUME UpdatesInv
    PROVE  /\ req \in [Handlers -> Request] /\ cfg \in Config
           /\ disk \in Files \ {NoFile} /\ tmp \in Files
           /\ requests \in Nat /\ saveFaults \in Nat /\ restarts \in Nat
           /\ Readable(disk) => disk \in Config
           /\ \A h \in Handlers :
                /\ req[h] \in Request /\ req[h].next \in Config
                /\ At2(h, "idle") => lock # h /\ req[h].kind \notin ServiceKinds
                /\ req[h].kind \in ServiceKinds <=> lock = h
                /\ lock = h => req[h].pc \in Saving /\ req[h].next = cfg
<1>1. /\ req \in [Handlers -> Request] /\ cfg \in Config
      /\ disk \in Files \ {NoFile} /\ tmp \in Files
      /\ requests \in Nat /\ saveFaults \in Nat /\ restarts \in Nat
  BY DEF UpdatesInv, UpdatesSafety, UpdatesTypeOK
<1>2. Readable(disk) => disk \in Config
  BY <1>1 DEF Files, Readable
<1>3. ASSUME NEW h \in Handlers
      PROVE  /\ req[h] \in Request /\ req[h].next \in Config
             /\ req[h].kind \in ServiceKinds <=> lock = h
             /\ lock = h => req[h].pc \in Saving /\ req[h].next = cfg
  BY <1>1, FileNamesAssumption DEF UpdatesInv, UpdatesSafety, UpdatesTypeOK,
                                   LockedSaveIsCurrent, LockHeldWhileSaving, Request
<1>4. ASSUME NEW h \in Handlers, At2(h, "idle") PROVE lock # h /\ req[h].kind \notin ServiceKinds
  BY <1>3, <1>4 DEF At2, Saving
<1> QED BY <1>1, <1>2, <1>3, <1>4

\* Requests that begin.
LEMMA RequestedKept ==
    ASSUME UpdatesInv, PoolInv', NEW h \in Handlers, Requested(h)
    PROVE  UpdatesInv'
<1>u. /\ req \in [Handlers -> Request] /\ cfg \in Config /\ requests \in Nat
      /\ disk \in Files \ {NoFile} /\ tmp \in Files /\ saveFaults \in Nat /\ restarts \in Nat
  BY UpdateFacts
<1>1. ASSUME NEW kind \in DeviceKinds \cup ServiceKinds, NEW d \in Devices, NEW next \in Config,
             NEW label \in {"open", "apply"}, Becomes(h, Serving(h, kind, d, next, label)),
             Ready(h), Admit, cfg' \in Config,
             \/ kind \in DeviceKinds /\ UNCHANGED <<cfg, lock>>
             \/ /\ kind \in ServiceKinds /\ Free /\ lock' = h /\ next = cfg' /\ label = "open"
      PROVE  UpdatesInv'
  <2> DEFINE r == Serving(h, kind, d, next, label)
  <2>1. r \in Request /\ r.kind = kind /\ r.pc = label /\ r.next = next
    BY <1>u, ServingFacts
  <2> HIDE DEF r
  <2>2. /\ req' \in [Handlers -> Request] /\ req'[h] = r
        /\ \A g \in Handlers : g # h => req'[g] = req[g]
    BY <1>1, <1>u, <2>1, BecomesFacts DEF r
  <2>3. lock # h
    BY <1>1, UpdateFacts DEF Ready, At2
  <2>4. CASE kind \in DeviceKinds /\ UNCHANGED <<cfg, lock>>
    <3>1. lock' = Released(h) /\ r.kind \notin ServiceKinds /\ lock' # h
      BY <2>1, <2>3, <2>4 DEF Released, DeviceKinds, ServiceKinds
    <3> QED BY <1>1, <1>u, <2>1, <2>2, <2>4, <3>1, UpdateKept DEF Admit
  <2>5. CASE kind \in ServiceKinds /\ Free /\ lock' = h /\ next = cfg' /\ label = "open"
    BY <1>1, <1>u, <2>1, <2>2, <2>5, UpdateKept DEF Admit, Free, Saving
  <2> QED BY <1>1, <2>4, <2>5
<1>2. ASSUME NEW d \in Devices, NEW v \in Versions, PutDevice(h, d, v) PROVE UpdatesInv'
  <2>1. [cfg EXCEPT !.dev[d] = v] \in Config
    BY <1>u DEF Config
  <2> QED BY <1>1, <1>2, <1>u, <2>1 DEF PutDevice, DeviceKinds
<1>3. ASSUME NEW d \in Devices, DeleteDevice(h, d) PROVE UpdatesInv'
  <2> DEFINE next == [dev |-> [cfg.dev EXCEPT ![d] = Absent],
                      svc |-> {s \in cfg.svc : Host[s] # d}]
  <2>1. next \in Config
    BY <1>u DEF Config
  <2>2. Becomes(h, Serving(h, "delete", d, next, "open"))
    BY <1>3 DEF DeleteDevice
  <2> HIDE DEF next
  <2> QED BY <1>1, <1>3, <1>u, <2>1, <2>2 DEF DeleteDevice, DeviceKinds
<1>4. ASSUME NEW d \in Devices, Reload(h, d) PROVE UpdatesInv'
  <2>1. disk \in Config /\ Aliased(disk) \in Config
    BY <1>4, UpdateFacts, ConfigFacts DEF Reload
  <2> QED BY <1>1, <1>4, <1>u, <2>1 DEF Reload, DeviceKinds
<1>5. ASSUME NEW s \in Services, PersistDeployResult(h, s) \/ RemoveService(h, s) PROVE UpdatesInv'
  <2>1. cfg' \in Config /\ Host[s] \in Devices
    BY <1>5, <1>u, HostAssumption DEF PersistDeployResult, RemoveService, Config
  <2> QED BY <1>1, <1>5, <1>u, <2>1 DEF PersistDeployResult, RemoveService, ServiceKinds
<1> QED BY <1>2, <1>3, <1>4, <1>5 DEF Requested


\* Requests that are being served.
LEMMA SaveKept ==
    ASSUME UpdatesInv, PoolInv', NEW h \in Handlers, OpenTmp(h) \/ WriteTmp(h) \/ RenameTmp(h)
    PROVE  UpdatesInv'
<1> DEFINE q == req[h]
<1>u. /\ req \in [Handlers -> Request] /\ cfg \in Config /\ requests \in Nat
      /\ disk \in Files \ {NoFile} /\ tmp \in Files /\ saveFaults \in Nat /\ restarts \in Nat
      /\ q \in Request /\ q.next \in Config
  BY UpdateFacts
<1>l. /\ lock = h => q.kind \in ServiceKinds /\ q.next = cfg
      /\ q.kind \in ServiceKinds => lock = h
  BY UpdateFacts
<1>f. /\ Failed(q) \in Request
      /\ Failed(q).kind \notin ServiceKinds /\ Failed(q).pc # "tunnels"
  BY <1>u, FailedFacts DEF ServiceKinds
<1>n. Released(h) # h
  BY FileNamesAssumption DEF Released
<1>o. {Empty, Torn, NoFile} \cap Config = {} /\ NoFile \notin {Empty, Torn}
  BY FileNamesAssumption
<1>1. CASE OpenTmp(h)
  <2>1. tmp' \in Files /\ disk' = disk
    BY <1>1 DEF OpenTmp, Files
  <2>2. CASE /\ Becomes(h, [q EXCEPT !.pc = "write", !.fd = "tmp"])
             /\ UNCHANGED <<cfg, lock, requests, saveFaults, restarts>>
    <3> DEFINE r == [q EXCEPT !.pc = "write", !.fd = "tmp"]
    <3>1. r \in Request /\ r.kind = q.kind /\ r.pc = "write" /\ r.next = q.next
      BY <1>u DEF Request
    <3> HIDE DEF r
    <3>2. /\ req' \in [Handlers -> Request] /\ req'[h] = r
          /\ \A g \in Handlers : g # h => req'[g] = req[g]
      BY <2>2, <1>u, <3>1, BecomesFacts DEF r
    <3> QED BY <1>u, <1>l, <2>1, <2>2, <3>1, <3>2, UpdateKept DEF Saving
  <2>3. CASE SaveFault(h) /\ Becomes(h, Failed(q))
    <3>1. /\ req' \in [Handlers -> Request] /\ req'[h] = Failed(q)
          /\ \A g \in Handlers : g # h => req'[g] = req[g]
      BY <2>3, <1>u, <1>f, BecomesFacts
    <3> QED BY <1>u, <1>f, <1>n, <2>1, <2>3, <3>1, UpdateKept DEF SaveFault
  <2> QED BY <1>1, <2>2, <2>3 DEF OpenTmp
<1>2. CASE WriteTmp(h)
  <2> DEFINE r == [q EXCEPT !.pc = "rename", !.fd = "none"]
  <2>1. r \in Request /\ r.kind = q.kind /\ r.pc = "rename" /\ r.next = q.next
    BY <1>u DEF Request
  <2>2. Becomes(h, r) /\ UNCHANGED <<cfg, lock, requests, saveFaults, restarts>>
    BY <1>2 DEF WriteTmp
  <2> HIDE DEF r
  <2>3. /\ req' \in [Handlers -> Request] /\ req'[h] = r
        /\ \A g \in Handlers : g # h => req'[g] = req[g]
    BY <2>2, <1>u, <2>1, BecomesFacts
  <2>4. tmp' \in Files /\ disk' \in Files \ {NoFile}
    BY <1>2, <1>u, <1>o DEF WriteTmp, Overwrite, Files
  <2> QED BY <1>u, <1>l, <2>1, <2>2, <2>3, <2>4, UpdateKept DEF Saving
<1>3. CASE RenameTmp(h)
  <2>m. ASSUME NEW r \in Request, NEW renamed \in BOOLEAN,
               req' = [g \in Handlers |-> IF g = h THEN r ELSE Moved(req[g], renamed)]
        PROVE  /\ req' \in [Handlers -> Request] /\ req'[h] = r
               /\ \A g \in Handlers : g # h =>
                    /\ req'[g].kind = req[g].kind /\ req'[g].pc = req[g].pc
                    /\ req'[g].next = req[g].next /\ req'[g].connect = req[g].connect
    <3>1. \A g \in Handlers :
            /\ Moved(req[g], renamed) \in Request
            /\ Moved(req[g], renamed).kind = req[g].kind /\ Moved(req[g], renamed).pc = req[g].pc
            /\ Moved(req[g], renamed).next = req[g].next
            /\ Moved(req[g], renamed).connect = req[g].connect
      BY <1>u, MovedFacts
    <3> QED BY <2>m, <3>1
  <2>1. CASE /\ tmp # NoFile /\ disk' = tmp /\ tmp' = NoFile /\ lock' = Released(h)
             /\ req' = [g \in Handlers |-> IF g = h THEN Saved(req[h]) ELSE Moved(req[g], TRUE)]
             /\ UNCHANGED <<cfg, requests, saveFaults, restarts>>
    <3>1. /\ Saved(q) \in Request /\ Saved(q).kind \notin ServiceKinds /\ Saved(q).pc # "tunnels"
      BY <1>u, SavedFacts DEF ServiceKinds
    <3>2. tmp' \in Files
      BY <2>1 DEF Files
    <3>3. /\ req' \in [Handlers -> Request] /\ req'[h] = Saved(q)
          /\ \A g \in Handlers : g # h =>
               /\ req'[g].kind = req[g].kind /\ req'[g].pc = req[g].pc
               /\ req'[g].next = req[g].next /\ req'[g].connect = req[g].connect
      BY <2>1, <2>m, <3>1
    <3> QED BY <1>u, <1>n, <2>1, <3>1, <3>2, <3>3, UpdateKept
  <2>2. CASE /\ Becomes(h, Failed(req[h])) /\ lock' = Released(h)
             /\ UNCHANGED <<disk, tmp, cfg, requests, saveFaults, restarts>>
    <3>1. /\ req' \in [Handlers -> Request] /\ req'[h] = Failed(q)
          /\ \A g \in Handlers : g # h => req'[g] = req[g]
      BY <2>2, <1>u, <1>f, BecomesFacts
    <3> QED BY <1>u, <1>f, <1>n, <2>2, <3>1, UpdateKept
  <2>3. CASE /\ SaveFault(h) /\ tmp' = NoFile /\ UNCHANGED disk
             /\ req' = [g \in Handlers |->
                          IF g = h THEN Failed(req[h]) ELSE Moved(req[g], FALSE)]
    <3>1. tmp' \in Files
      BY <2>3 DEF Files
    <3>2. /\ req' \in [Handlers -> Request] /\ req'[h] = Failed(q)
          /\ \A g \in Handlers : g # h =>
               /\ req'[g].kind = req[g].kind /\ req'[g].pc = req[g].pc
               /\ req'[g].next = req[g].next /\ req'[g].connect = req[g].connect
      BY <2>3, <2>m, <1>f
    <3>3. /\ lock' = Released(h) /\ saveFaults' \in Nat /\ disk' = disk
          /\ UNCHANGED <<cfg, requests, restarts>>
      BY <1>u, <2>3 DEF SaveFault
    <3> QED BY <1>u, <1>f, <1>n, <3>1, <3>2, <3>3, UpdateKept
  <2> QED BY <1>3, <2>1, <2>2, <2>3 DEF RenameTmp
<1> QED BY <1>1, <1>2, <1>3

LEMMA ApplyKept ==
    ASSUME UpdatesInv, PoolInv', NEW h \in Handlers,
           \/ Apply(h) \/ Finish(h)
           \/ \E d \in Devices : CloseTunnel(h, d) \/ ConnectTunnel(h, d)
    PROVE  UpdatesInv'
<1> DEFINE q == req[h]
<1>u. /\ req \in [Handlers -> Request] /\ cfg \in Config /\ requests \in Nat
      /\ disk \in Files \ {NoFile} /\ tmp \in Files /\ saveFaults \in Nat /\ restarts \in Nat
      /\ q \in Request /\ q.next \in Config
  BY UpdateFacts
<1>l. q.pc \in {"apply", "tunnels"} => lock # h /\ q.kind \notin ServiceKinds
  BY UpdateFacts DEF Saving
<1>1. ASSUME NEW r \in Request, Becomes(h, r), r.kind \notin ServiceKinds, lock # h,
             UNCHANGED <<disk, tmp, lock, requests, saveFaults, restarts>>, cfg' \in Config,
             cfg' = cfg \/ lock = Nobody,
             r.pc = "tunnels" => \A d \in r.connect : r.next.dev[d] # Absent
      PROVE  UpdatesInv'
  <2>1. /\ req' \in [Handlers -> Request] /\ req'[h] = r
        /\ \A g \in Handlers : g # h => req'[g] = req[g]
    BY <1>1, <1>u, BecomesFacts
  <2>2. lock' = Released(h)
    BY <1>1 DEF Released
  <2> QED BY <1>1, <1>u, <2>1, <2>2, UpdateKept
<1>2. CASE Apply(h)
  <2> DEFINE after == q.next.dev
             changed == {d \in Devices : cfg.dev[d] # after[d]}
             close == {d \in changed : cfg.dev[d] # Absent}
             connect == {d \in changed : after[d] # Absent}
             added == {d \in changed : cfg.dev[d] = Absent}
             r == [q EXCEPT !.pc = "tunnels", !.close = close, !.connect = connect, !.added = added]
  <2>1. /\ Becomes(h, r) /\ Free /\ q.pc = "apply" /\ cfg' = q.next
        /\ UNCHANGED <<disk, tmp, lock, requests, saveFaults, restarts>>
    BY <1>2 DEF Apply, At2
  <2>2. /\ close \in SUBSET Devices /\ connect \in SUBSET Devices /\ added \in SUBSET Devices
        /\ \A d \in connect : q.next.dev[d] # Absent
    OBVIOUS
  <2> HIDE DEF close, connect, added
  <2>3. r \in Request /\ r.kind = q.kind /\ r.next = q.next /\ r.connect = connect
    BY <1>u, <2>2 DEF Request
  <2> HIDE DEF r
  <2> QED BY <1>1, <1>u, <1>l, <2>1, <2>2, <2>3 DEF Free
<1>3. CASE Finish(h)
  <2>1. Answered(q) \in Request /\ Answered(q).kind = "none" /\ Answered(q).pc = "idle"
    BY <1>u, AnsweredFacts
  <2> QED BY <1>1, <1>3, <1>u, <1>l, <2>1 DEF Finish, At2, ServiceKinds
<1>4. ASSUME NEW d \in Devices, CloseTunnel(h, d) PROVE UpdatesInv'
  <2> DEFINE r == [q EXCEPT !.close = @ \ {d}]
  <2>1. r \in Request /\ r.kind = q.kind /\ r.next = q.next /\ r.connect = q.connect /\ r.pc = q.pc
    BY <1>u DEF Request
  <2>2. Becomes(h, r) /\ OnlyReq /\ q.pc = "tunnels"
    BY <1>4 DEF CloseTunnel, At2
  <2> HIDE DEF r
  <2> QED BY <1>1, <1>u, <1>l, <2>1, <2>2 DEF OnlyReq, UpdatesInv, Connectable, At2
<1>5. ASSUME NEW d \in Devices, ConnectTunnel(h, d) PROVE UpdatesInv'
  <2> DEFINE r == [q EXCEPT !.connect = @ \ {d}, !.added = @ \ {d}]
  <2>1. r \in Request /\ r.kind = q.kind /\ r.next = q.next /\ r.connect \subseteq q.connect /\ r.pc = q.pc
    BY <1>u DEF Request
  <2>2. Becomes(h, r) /\ OnlyReq /\ q.pc = "tunnels"
    BY <1>5 DEF ConnectTunnel, At2
  <2> HIDE DEF r
  <2> QED BY <1>1, <1>u, <1>l, <2>1, <2>2 DEF OnlyReq, UpdatesInv, Connectable, At2
<1> QED BY <1>2, <1>3, <1>4, <1>5

LEMMA NoRequestFacts ==
    ASSUME Devices # {}
    PROVE  NoRequest \in [Handlers -> Request]
           /\ \A h \in Handlers : /\ NoRequest[h].pc = "idle" /\ NoRequest[h].kind = "none"
                                  /\ NoRequest[h].fd = "none"
<1>1. EmptyConfig \in Config
  BY DEF EmptyConfig, Config
<1>2. (CHOOSE d \in Devices : TRUE) \in Devices
  OBVIOUS
<1> QED BY <1>1, <1>2 DEF NoRequest, Request

LEMMA UpdatesInitially ==
    ASSUME Init
    PROVE  UpdatesInv
<1>1. PoolInv /\ Devices # {}
  BY PoolInitially DEF Init, PoolInit
<1>2. EmptyConfig \in Config /\ EmptyConfig \in Files \ {NoFile} /\ NoFile \in Files
  BY FileNamesAssumption DEF EmptyConfig, Config, Files
<1>3. /\ req \in [Handlers -> Request]
      /\ \A h \in Handlers : req[h].pc = "idle" /\ req[h].kind = "none"
  BY <1>1, NoRequestFacts DEF Init
<1>4. lock = Nobody /\ Nobody \notin Handlers
  BY FileNamesAssumption DEF Init
<1>5. UpdatesTypeOK
  BY <1>1, <1>2, <1>3, <1>4 DEF Init, UpdatesTypeOK, PoolInv
<1> QED BY <1>1, <1>3, <1>4, <1>5
        DEF UpdatesInv, UpdatesSafety, LockedSaveIsCurrent, LockHeldWhileSaving, Connectable,
            At2, PoolInv, ServiceKinds

LEMMA UpdatesStep ==
    ASSUME UpdatesInv, [Next]_vars
    PROVE  UpdatesInv'
<1>p. PoolInv'
  BY PoolInvKept
<1>u. /\ req \in [Handlers -> Request] /\ cfg \in Config /\ requests \in Nat
      /\ disk \in Files \ {NoFile} /\ tmp \in Files /\ saveFaults \in Nat /\ restarts \in Nat
  BY UpdateFacts
<1>1. ASSUME NEW h \in Handlers, Requested(h) \/ Served(h) PROVE UpdatesInv'
  BY <1>1, <1>p, RequestedKept, SaveKept, ApplyKept DEF Served
<1>2. CASE UNCHANGED updateVars
  BY <1>2, <1>p DEF updateVars, UpdatesInv, UpdatesSafety, UpdatesTypeOK, LockedSaveIsCurrent,
                    LockHeldWhileSaving, Connectable, At2, PoolInv
<1>3. CASE Restart
  <2>1. cfg' \in Config /\ disk \in Config
    BY <1>3, UpdateFacts, RestartedPool DEF Restart
  <2>2. disk' \in Files \ {NoFile} /\ tmp' \in Files
    BY <1>3, <1>u, <2>1, FileNamesAssumption DEF Restart, Files
  <2>3. \A h \in Handlers : Devices # {}
    BY <1>u DEF Request
  <2>4. req' = NoRequest /\ lock' = Nobody /\ Nobody \notin Handlers
    BY <1>3, FileNamesAssumption DEF Restart
  <2>5. /\ req' \in [Handlers -> Request]
        /\ \A h \in Handlers : req'[h].pc = "idle" /\ req'[h].kind = "none"
    <3>1. CASE Handlers = {}
      BY <2>4, <3>1 DEF NoRequest
    <3>2. CASE Handlers # {}
      BY <2>3, <2>4, <3>2, NoRequestFacts
    <3> QED BY <3>1, <3>2
  <2>6. requests' \in Nat /\ saveFaults' \in Nat /\ restarts' \in Nat
    BY <1>3, <1>u DEF Restart
  <2>7. UpdatesTypeOK'
    BY <1>p, <2>1, <2>2, <2>4, <2>5, <2>6 DEF UpdatesTypeOK, PoolInv
  <2> QED BY <1>p, <2>4, <2>5, <2>7
          DEF UpdatesInv, UpdatesSafety, LockedSaveIsCurrent, LockHeldWhileSaving, Connectable,
              At2, PoolInv, ServiceKinds
<1> QED BY <1>1, <1>2, <1>3 DEF Next, PoolRuns, vars

\* The inductive invariant of requests in any order: that of the pool, and that a
\* handler that locked Daemon.mu saves before it unlocks it.
THEOREM UpdatesInvariance == Spec => []UpdatesInv
BY UpdatesInitially, UpdatesStep, PTL DEF Spec

\* While handlers save their clones and swap the configuration in any order, the lock
\* is held only by a service request that is saving, and what it saves is what the
\* daemon works with (persistDeployResult, removeServiceByContainerID).
THEOREM UpdatesAreSafe == Spec => []UpdatesSafety
BY UpdatesInvariance, PTL DEF UpdatesInv

\* The tunnel pool keeps its promises when its callers are the daemon's handlers, with
\* requests in any order and restarts: one goroutine per device, entries served, what is
\* reported connected listens.
THEOREM PoolStaysSafe == Spec => []PoolSafety
<1> DEFINE Pool == Opened /\ EntriesKept /\ reconnects = 0
<1>1. Init => Pool
  BY DEF Init, PoolInit, Opened, OpenedBy, At, EntriesKept, Young, EntriesActive, Entry
<1>2. UpdatesInv /\ Pool /\ [Next]_vars => Pool'
  <2> SUFFICES ASSUME UpdatesInv, Pool, [Next]_vars PROVE Pool'
    OBVIOUS
  <2>0. PoolInv
    BY DEF UpdatesInv, UpdatesSafety, UpdatesTypeOK, PoolInv
  <2>1. CASE Restart
    BY <2>1, RestartedPool DEF Opened, OpenedBy, At, EntriesKept, Young, EntriesActive, Entry
  <2>2. CASE ~Restart
    <3>1. [PoolNext]_poolVars
      BY <2>2, PoolKept DEF vars
    <3>2. reconnects' = 0
      <4>1. CASE LoopsRun \/ Loses
        BY <4>1 DEF LoopsRun, LoopStep, Register, Iterate, Dial, Listen, Store, RetryLater,
                    KeepAliveEnds, Tick, Probe, Disconnected, Loses, Lose
      <4>2. ASSUME NEW h \in Handlers, NEW d \in Devices,
                   CloseTunnel(h, d) \/ ConnectTunnel(h, d)
            PROVE  reconnects' = reconnects
        BY <4>2 DEF CloseTunnel, ConnectTunnel, CloseDevice, Close, ConnectDevice
      <4>3. ASSUME NEW h \in Handlers, Requested(h) PROVE reconnects' = reconnects
        BY <4>3 DEF Requested, PutDevice, DeleteDevice, Reload, PersistDeployResult,
                    RemoveService, Admit, poolVars
      <4>4. ASSUME NEW h \in Handlers,
                   OpenTmp(h) \/ WriteTmp(h) \/ RenameTmp(h) \/ Apply(h) \/ Finish(h)
            PROVE  reconnects' = reconnects
        BY <4>4 DEF OpenTmp, WriteTmp, RenameTmp, Apply, Finish, SaveFault, poolVars
      <4> QED BY <2>2, <4>1, <4>2, <4>3, <4>4 DEF Next, PoolRuns, Served, vars, poolVars
    <3> QED BY <2>0, <3>1, <3>2, OpenedStep, ServedStep, YoungStep DEF EntriesKept
  <2> QED BY <2>1, <2>2
<1>3. UpdatesInv /\ Pool => PoolSafety
  <2> SUFFICES ASSUME UpdatesInv, Pool PROVE PoolSafety
    OBVIOUS
  <2>1. PoolTypeOK /\ Registered /\ EntriesActive
    BY DEF UpdatesInv, UpdatesSafety, UpdatesTypeOK, EntriesKept
  <2>2. OneLoopPerDevice
    BY <2>1 DEF Registered, OneLoopPerDevice
  <2>3. ConnectedListens
    <3> SUFFICES ASSUME NEW d \in Devices, Entry(d) # NoLoop, loop[Entry(d)].connected
                 PROVE  Current(Entry(d)) \in open
      BY DEF ConnectedListens
    <3>1. Entry(d) \in Loops /\ ~loop[Entry(d)].canceled
      BY <2>1 DEF EntriesActive, Active, Entry, PoolTypeOK
    <3> QED BY <3>1 DEF Opened, OpenedBy
  <2> QED BY <2>1, <2>2, <2>3 DEF PoolSafety, EntryIsServed
<1> HIDE DEF Pool
<1> QED BY <1>1, <1>2, <1>3, UpdatesInvariance, PTL DEF Spec

-----------------------------------------------------------------------------
\* Requests that follow each other.

\* A step of one request leaves the others idle.
LEMMA OthersIdle ==
    ASSUME UpdatesInv, OneRequest, OneRequest', Filed, NEW h \in Handlers, Requested(h) \/ Served(h)
    PROVE  \A g \in Handlers : g # h => req'[g] = req[g] /\ req[g].pc = "idle"
<1>u. /\ req \in [Handlers -> Request] /\ cfg \in Config /\ req[h] \in Request
      /\ req[h].next \in Config /\ \A g \in Handlers : req[g] \in Request
      /\ Readable(disk) => disk \in Config
  BY UpdateFacts
<1> SUFFICES ASSUME NEW g \in Handlers, g # h PROVE req'[g] = req[g] /\ req[g].pc = "idle"
  OBVIOUS
<1>b. ASSUME NEW r, Becomes(h, r) PROVE req'[g] = req[g] /\ req'[h] = r
  BY <1>b, <1>u DEF Becomes
<1>1. CASE req[h].pc # "idle"
  <2>1. req[g].pc = "idle" /\ FileOf(g)
    BY <1>1 DEF OneRequest, Filed
  <2>2. Moved(req[g], TRUE) = req[g] /\ Moved(req[g], FALSE) = req[g]
    BY <2>1 DEF FileOf, Moved
  <2>3. ~Requested(h)
    BY <1>1 DEF Requested, PutDevice, DeleteDevice, Reload, PersistDeployResult, RemoveService,
                Ready
  <2>4. CASE RenameTmp(h)
    BY <1>b, <2>1, <2>2, <2>4 DEF RenameTmp
  <2>5. CASE OpenTmp(h) \/ WriteTmp(h) \/ Apply(h) \/ Finish(h)
    BY <1>b, <2>1, <2>5 DEF OpenTmp, WriteTmp, Apply, Finish
  <2>6. ASSUME NEW d \in Devices, CloseTunnel(h, d) \/ ConnectTunnel(h, d) PROVE req'[g] = req[g]
    BY <1>b, <2>6 DEF CloseTunnel, ConnectTunnel
  <2> QED BY <2>1, <2>3, <2>4, <2>5, <2>6 DEF Served
<1>2. CASE req[h].pc = "idle"
  <2>1. ~Served(h)
    BY <1>2 DEF Served, OpenTmp, WriteTmp, RenameTmp, Apply, Finish, CloseTunnel, ConnectTunnel,
                At2
  <2>2. ASSUME NEW kind, NEW d, NEW next, NEW label \in {"open", "apply"},
               Becomes(h, Serving(h, kind, d, next, label))
        PROVE  req'[g] = req[g] /\ req'[h].pc # "idle"
    <3>1. Serving(h, kind, d, next, label).pc = label
      BY <1>u DEF Serving, Request
    <3> QED BY <1>b, <2>2, <3>1
  <2>3. Requested(h)
    BY <2>1
  <2>4. req'[g] = req[g] /\ req'[h].pc # "idle"
    BY <2>2, <2>3 DEF Requested, PutDevice, DeleteDevice, Reload, PersistDeployResult,
                      RemoveService
  <2> QED BY <2>4 DEF OneRequest
<1> QED BY <1>1, <1>2

\* What is to show of the files and the clone once the request h has its new record.
LEMMA ByOne ==
    ASSUME NEW h \in Handlers, disk' \in Config,
           \A g \in Handlers : g # h => req'[g] = req[g] /\ req[g].pc = "idle",
           Filed, FileOf(h)',
           req'[h].pc # "apply" => Agree(cfg, disk)'
    PROVE  Filed'
<1>1. ASSUME NEW g \in Handlers, g # h PROVE FileOf(g)'
  BY <1>1 DEF Filed, FileOf, Saving
<1>2. (\A g \in Handlers : ~At2(g, "apply"))' => Agree(cfg, disk)'
  BY DEF At2
<1> QED BY <1>1, <1>2 DEF Filed

LEMMA RequestFiled ==
    ASSUME UpdatesInv, OneRequest, OneRequest', Filed, NEW h \in Handlers, Requested(h)
    PROVE  Filed'
<1>u. /\ req \in [Handlers -> Request] /\ cfg \in Config /\ req[h] \in Request
      /\ disk \in Config /\ FileOf(h)
  BY UpdateFacts DEF Filed
<1>o. \A g \in Handlers : g # h => req'[g] = req[g] /\ req[g].pc = "idle"
  BY OthersIdle
<1>i. Ready(h) => Agree(cfg, disk)
  BY <1>o DEF Ready, Filed, At2
<1>1. ASSUME NEW kind \in DeviceKinds \cup ServiceKinds, NEW d \in Devices, NEW next \in Config,
             NEW label \in {"open", "apply"}, Becomes(h, Serving(h, kind, d, next, label)),
             Ready(h), Admit, cfg'.dev = cfg.dev,
             kind = "reload" => next = IF label = "open" THEN Aliased(disk) ELSE disk,
             label = "apply" => kind = "reload"
      PROVE  Filed'
  <2> DEFINE r == Serving(h, kind, d, next, label)
  <2>1. /\ r \in Request /\ r.kind = kind /\ r.pc = label /\ r.next = next /\ r.dev = d
        /\ r.fd = req[h].fd
    BY <1>u, ServingFacts
  <2> HIDE DEF r
  <2>2. req'[h] = r
    BY <1>1, <1>u, <2>1, BecomesFacts DEF r
  <2>3. disk' = disk /\ Agree(cfg, disk)'
    BY <1>1, <1>i DEF Admit, Agree
  <2>4. FileOf(h)'
    BY <1>1, <1>u, <2>1, <2>2, <2>3 DEF FileOf, Ready, Agree, Saving, DeviceKinds, ServiceKinds
  <2> QED BY <1>o, <1>u, <2>3, <2>4, ByOne
<1>2. ASSUME NEW d \in Devices, NEW v \in Versions, PutDevice(h, d, v) PROVE Filed'
  <2> DEFINE next == [cfg EXCEPT !.dev[d] = v]
  <2>1. next \in Config
    BY <1>u DEF Config
  <2>2. Becomes(h, Serving(h, "put", d, next, "open")) /\ Ready(h) /\ Admit /\ cfg' = cfg
    BY <1>2 DEF PutDevice
  <2> HIDE DEF next
  <2> QED BY <1>1, <2>1, <2>2 DEF DeviceKinds
<1>3. ASSUME NEW d \in Devices, DeleteDevice(h, d) PROVE Filed'
  <2> DEFINE next == [dev |-> [cfg.dev EXCEPT ![d] = Absent],
                      svc |-> {s \in cfg.svc : Host[s] # d}]
  <2>1. next \in Config
    BY <1>u DEF Config
  <2>2. Becomes(h, Serving(h, "delete", d, next, "open")) /\ Ready(h) /\ Admit /\ cfg' = cfg
    BY <1>3 DEF DeleteDevice
  <2> HIDE DEF next
  <2> QED BY <1>1, <2>1, <2>2 DEF DeviceKinds
<1>4. ASSUME NEW d \in Devices, Reload(h, d) PROVE Filed'
  <2>1. Aliased(disk) \in Config
    BY <1>u, ConfigFacts
  <2> QED BY <1>1, <1>4, <1>u, <2>1 DEF Reload, DeviceKinds
<1>5. ASSUME NEW s \in Services, PersistDeployResult(h, s) \/ RemoveService(h, s)
      PROVE  Filed'
  <2>1. cfg' \in Config /\ cfg'.dev = cfg.dev /\ Host[s] \in Devices
    BY <1>5, <1>u, HostAssumption DEF PersistDeployResult, RemoveService, Config
  <2> QED BY <1>1, <1>5, <2>1 DEF PersistDeployResult, RemoveService, ServiceKinds
<1> QED BY <1>2, <1>3, <1>4, <1>5 DEF Requested

LEMMA SaveFiled ==
    ASSUME UpdatesInv, OneRequest, OneRequest', Filed, NEW h \in Handlers,
           OpenTmp(h) \/ WriteTmp(h) \/ RenameTmp(h)
    PROVE  Filed'
<1> DEFINE q == req[h]
<1>u. /\ req \in [Handlers -> Request] /\ cfg \in Config /\ q \in Request /\ q.next \in Config
      /\ disk \in Config /\ FileOf(h)
  BY UpdateFacts DEF Filed
<1>l. q.kind \in ServiceKinds => q.next = cfg
  BY UpdateFacts
<1>o. \A g \in Handlers : g # h => req'[g] = req[g] /\ req[g].pc = "idle"
  BY OthersIdle DEF Served
<1>i. q.pc \in Saving => Agree(cfg, disk)
  BY <1>o DEF Saving, Filed, At2
<1>n. {Empty, Torn, NoFile} \cap Config = {} /\ NoFile \notin {Empty, Torn}
  BY FileNamesAssumption
<1>f. ASSUME q.pc \in Saving, req'[h] = Failed(q), UNCHANGED <<disk, cfg>>
      PROVE  Filed'
  <2>1. /\ req'[h].dev = q.dev /\ req'[h].next = q.next /\ req'[h].fd = "none"
        /\ \/ q.kind = "reload" /\ req'[h].kind = q.kind /\ req'[h].pc = "apply"
           \/ q.kind # "reload" /\ req'[h].kind = "none" /\ req'[h].pc = "idle"
    BY <1>f, <1>u, FailedFacts
  <2>2. Agree(cfg, disk)'
    BY <1>f, <1>i DEF Agree
  <2>3. FileOf(h)'
    BY <1>f, <1>u, <2>1 DEF FileOf, Agree, Saving
  <2> QED BY <1>f, <1>o, <1>u, <2>2, <2>3, ByOne
<1>1. CASE OpenTmp(h)
  <2>1. tmp' = Empty /\ UNCHANGED <<disk, cfg>> /\ q.pc = "open"
    BY <1>1 DEF OpenTmp, SaveFault, At2
  <2>2. CASE Becomes(h, [q EXCEPT !.pc = "write", !.fd = "tmp"])
    <3> DEFINE r == [q EXCEPT !.pc = "write", !.fd = "tmp"]
    <3>1. /\ r \in Request /\ r.kind = q.kind /\ r.pc = "write" /\ r.next = q.next
          /\ r.dev = q.dev /\ r.fd = "tmp"
      BY <1>u DEF Request
    <3> HIDE DEF r
    <3>2. req'[h] = r
      BY <2>2, <1>u, <3>1, BecomesFacts DEF r
    <3>3. FileOf(h)' /\ Agree(cfg, disk)'
      BY <1>i, <1>u, <2>1, <3>1, <3>2 DEF FileOf, Agree, Saving
    <3> QED BY <1>o, <1>u, <2>1, <3>3, ByOne
  <2>3. CASE Becomes(h, Failed(q))
    <3>1. req'[h] = Failed(q)
      BY <2>3, <1>u, FailedFacts, BecomesFacts
    <3> QED BY <1>f, <2>1, <3>1 DEF Saving
  <2> QED BY <1>1, <2>2, <2>3 DEF OpenTmp
<1>2. CASE WriteTmp(h)
  <2> DEFINE r == [q EXCEPT !.pc = "rename", !.fd = "none"]
  <2>1. /\ r \in Request /\ r.kind = q.kind /\ r.pc = "rename" /\ r.next = q.next
        /\ r.dev = q.dev /\ r.fd = "none"
    BY <1>u DEF Request
  <2>2. Becomes(h, r) /\ cfg' = cfg /\ q.pc = "write"
    BY <1>2 DEF WriteTmp, At2
  <2> HIDE DEF r
  <2>3. req'[h] = r
    BY <2>2, <1>u, <2>1, BecomesFacts
  <2>4. tmp' = q.next /\ disk' = disk
    BY <1>2, <1>u, <2>2 DEF WriteTmp, Overwrite, FileOf
  <2>5. FileOf(h)' /\ Agree(cfg, disk)'
    BY <1>i, <1>u, <2>1, <2>2, <2>3, <2>4 DEF FileOf, Agree, Saving
  <2> QED BY <1>o, <1>u, <2>4, <2>5, ByOne
<1>3. CASE RenameTmp(h)
  <2>1. q.pc = "rename" /\ tmp = q.next /\ q.fd = "none" /\ cfg' = cfg
    BY <1>3, <1>u DEF RenameTmp, SaveFault, At2, FileOf
  <2>2. CASE disk' = tmp /\ req' = [g \in Handlers |-> IF g = h THEN Saved(req[h])
                                                       ELSE Moved(req[g], TRUE)]
    <3>1. /\ req'[h].dev = q.dev /\ req'[h].next = q.next /\ req'[h].fd = "none"
          /\ \/ q.kind \in ServiceKinds /\ req'[h].kind = "none" /\ req'[h].pc = "idle"
             \/ q.kind \notin ServiceKinds /\ req'[h].kind = q.kind /\ req'[h].pc = "apply"
      BY <2>1, <2>2, <1>u, SavedFacts
    <3>2. FileOf(h)'
      BY <1>u, <2>1, <2>2, <3>1 DEF FileOf, Agree, Saving
    <3>3. req'[h].pc # "apply" => Agree(cfg, disk)'
      BY <1>l, <2>1, <2>2, <3>1 DEF Agree
    <3> QED BY <1>o, <1>u, <2>1, <2>2, <3>2, <3>3, ByOne
  <2>3. CASE disk' = disk /\ req'[h] = Failed(q)
    BY <1>f, <2>1, <2>3 DEF Saving
  <2>4. tmp # NoFile
    BY <1>n, <1>u, <2>1
  <2>5. \/ disk' = tmp /\ req' = [g \in Handlers |-> IF g = h THEN Saved(req[h])
                                                     ELSE Moved(req[g], TRUE)]
        \/ disk' = disk /\ req'[h] = Failed(q)
    BY <1>3, <1>u, <2>4 DEF RenameTmp
  <2> QED BY <2>2, <2>3, <2>5
<1> QED BY <1>1, <1>2, <1>3

LEMMA ApplyFiled ==
    ASSUME UpdatesInv, OneRequest, OneRequest', Filed, NEW h \in Handlers,
           \/ Apply(h) \/ Finish(h)
           \/ \E d \in Devices : CloseTunnel(h, d) \/ ConnectTunnel(h, d)
    PROVE  Filed'
<1> DEFINE q == req[h]
<1>u. /\ req \in [Handlers -> Request] /\ cfg \in Config /\ q \in Request /\ q.next \in Config
      /\ disk \in Config /\ FileOf(h)
  BY UpdateFacts DEF Filed
<1>o. \A g \in Handlers : g # h => req'[g] = req[g] /\ req[g].pc = "idle"
  BY OthersIdle DEF Served
<1>i. q.pc = "tunnels" => Agree(cfg, disk)
  BY <1>o DEF Filed, At2
<1>1. ASSUME NEW r \in Request, Becomes(h, r), disk' = disk, Agree(cfg, disk)', r.fd = "none",
             r.pc = "idle" \/ (r.pc = "tunnels" /\ r.kind = q.kind /\ q.pc # "idle")
      PROVE  Filed'
  <2>1. req'[h] = r
    BY <1>1, <1>u, BecomesFacts
  <2>2. FileOf(h)'
    BY <1>1, <1>u, <2>1 DEF FileOf, Saving
  <2> QED BY <1>1, <1>o, <1>u, <2>1, <2>2, ByOne
<1>2. CASE Apply(h)
  <2> DEFINE after == q.next.dev
             changed == {d \in Devices : cfg.dev[d] # after[d]}
             close == {d \in changed : cfg.dev[d] # Absent}
             connect == {d \in changed : after[d] # Absent}
             added == {d \in changed : cfg.dev[d] = Absent}
             r == [q EXCEPT !.pc = "tunnels", !.close = close, !.connect = connect, !.added = added]
  <2>1. Becomes(h, r) /\ q.pc = "apply" /\ cfg' = q.next /\ disk' = disk
    BY <1>2 DEF Apply, At2
  <2>2. close \in SUBSET Devices /\ connect \in SUBSET Devices /\ added \in SUBSET Devices
    OBVIOUS
  <2> HIDE DEF close, connect, added
  <2>3. r \in Request /\ r.kind = q.kind /\ r.pc = "tunnels" /\ r.fd = q.fd
    BY <1>u, <2>2 DEF Request
  <2> HIDE DEF r
  <2> QED BY <1>1, <1>u, <2>1, <2>3 DEF FileOf, Agree
<1>3. CASE Finish(h)
  <2>1. Answered(q) \in Request /\ Answered(q).pc = "idle" /\ Answered(q).fd = "none"
    BY <1>u, AnsweredFacts
  <2> QED BY <1>1, <1>3, <1>i, <2>1 DEF Finish, At2, Agree
<1>4. ASSUME NEW d \in Devices, CloseTunnel(h, d) PROVE Filed'
  <2> DEFINE r == [q EXCEPT !.close = @ \ {d}]
  <2>1. r \in Request /\ r.kind = q.kind /\ r.fd = q.fd /\ r.pc = q.pc
    BY <1>u DEF Request
  <2>2. Becomes(h, r) /\ UNCHANGED <<cfg, disk>> /\ q.pc = "tunnels"
    BY <1>4 DEF CloseTunnel, At2, OnlyReq
  <2> HIDE DEF r
  <2> QED BY <1>1, <1>i, <1>u, <2>1, <2>2 DEF FileOf, Agree
<1>5. ASSUME NEW d \in Devices, ConnectTunnel(h, d) PROVE Filed'
  <2> DEFINE r == [q EXCEPT !.connect = @ \ {d}, !.added = @ \ {d}]
  <2>1. r \in Request /\ r.kind = q.kind /\ r.fd = q.fd /\ r.pc = q.pc
    BY <1>u DEF Request
  <2>2. Becomes(h, r) /\ UNCHANGED <<cfg, disk>> /\ q.pc = "tunnels"
    BY <1>5 DEF ConnectTunnel, At2, OnlyReq
  <2> HIDE DEF r
  <2> QED BY <1>1, <1>i, <1>u, <2>1, <2>2 DEF FileOf, Agree
<1> QED BY <1>2, <1>3, <1>4, <1>5

\* Goroutines and the network take no device's tunnel away.
LEMMA TunnelsKept ==
    ASSUME PoolTypeOK, LoopsRun \/ Loses, NEW d \in Devices, HasTunnel(d)
    PROVE  HasTunnel(d)'
<1>1. CASE Loses
  BY <1>1 DEF Loses, Lose, HasTunnel, Entry, At
<1>2. ASSUME NEW i \in Loops, LoopStep(i), ~Register(i) PROVE HasTunnel(d)'
  <2>1. Advances(i)
    BY <1>2, StepAdvances
  <2> QED BY <2>1 DEF Advances, HasTunnel, Entry, At, PoolTypeOK, Running
<1>3. ASSUME NEW i \in Loops, Register(i) PROVE HasTunnel(d)'
  <2>1. \A j \in Loops \ {i} : loop'[j] = loop[j]
    BY <1>3, RegisterFacts
  <2>2. \/ /\ tunnels[loop[i].dev] = NoLoop
           /\ tunnels' = [tunnels EXCEPT ![loop[i].dev] = i]
        \/ tunnels' = tunnels /\ tunnels[loop[i].dev] # NoLoop
    BY <1>3 DEF Register, Entry
  <2> QED BY <2>1, <2>2, LoopAssumption DEF HasTunnel, Entry, At, PoolTypeOK
<1> QED BY <1>1, <1>2, <1>3 DEF LoopsRun

\* The tunnels once the request h has its new record, and the others are idle.
LEMMA TunneledByOne ==
    ASSUME NEW h \in Handlers,
           \A g \in Handlers : g # h => req'[g] = req[g] /\ req[g].pc = "idle",
           \A d \in Devices : cfg'.dev[d] # Absent =>
              /\ HasTunnel(d)' \/ Adjusts(h, d)'
              /\ req'[h].pc = "tunnels" /\ d \in req'[h].close => d \in req'[h].connect
    PROVE  Tunneled'
BY DEF Tunneled, Adjusts, At2

LEMMA UpdateTunneled ==
    ASSUME UpdatesInv, OneRequest, OneRequest', Filed, Tunneled, NEW h \in Handlers,
           Requested(h) \/ Served(h)
    PROVE  Tunneled'
<1> DEFINE q == req[h]
<1>u. /\ req \in [Handlers -> Request] /\ cfg \in Config /\ q \in Request /\ q.next \in Config
      /\ PoolTypeOK /\ loop \in [Loops -> Goroutine]
  BY UpdateFacts DEF UpdatesInv, UpdatesSafety, UpdatesTypeOK, PoolTypeOK
<1>o. \A g \in Handlers : g # h => req'[g] = req[g] /\ req[g].pc = "idle"
  BY OthersIdle
<1>h. ASSUME NEW d \in Devices, cfg.dev[d] # Absent
      PROVE  /\ HasTunnel(d) \/ (q.pc = "tunnels" /\ d \in q.connect)
             /\ q.pc = "tunnels" /\ d \in q.close => d \in q.connect
  BY <1>h, <1>o DEF Tunneled, Adjusts, At2
<1>1. ASSUME cfg'.dev = cfg.dev, UNCHANGED poolVars, req'[h].pc # "tunnels", q.pc # "tunnels"
      PROVE  Tunneled'
  <2>1. ASSUME NEW d \in Devices, cfg'.dev[d] # Absent PROVE HasTunnel(d)'
    BY <1>1, <1>h, <2>1 DEF HasTunnel, Entry, At, poolVars
  <2> QED BY <1>1, <1>o, <2>1, TunneledByOne
<1>2. CASE Requested(h)
  <2>1. q.pc = "idle" /\ UNCHANGED poolVars
    BY <1>2 DEF Requested, PutDevice, DeleteDevice, Reload, PersistDeployResult, RemoveService,
                Ready, Admit, poolVars
  <2>2. cfg'.dev = cfg.dev
    BY <1>2, <1>u DEF Requested, PutDevice, DeleteDevice, Reload, PersistDeployResult,
                      RemoveService, Config
  <2>3. ASSUME NEW kind, NEW d, NEW next, NEW label \in {"open", "apply"},
               Becomes(h, Serving(h, kind, d, next, label))
        PROVE  req'[h].pc # "tunnels"
    <3>1. Serving(h, kind, d, next, label).pc = label
      BY <1>u DEF Serving, Request
    <3> QED BY <1>u, <2>3, <3>1 DEF Becomes
  <2>4. req'[h].pc # "tunnels"
    BY <1>2, <2>3 DEF Requested, PutDevice, DeleteDevice, Reload, PersistDeployResult,
                      RemoveService
  <2> QED BY <1>1, <2>1, <2>2, <2>4
<1>3. CASE OpenTmp(h) \/ WriteTmp(h) \/ RenameTmp(h)
  <2>1. q.pc \in Saving /\ cfg' = cfg /\ UNCHANGED poolVars
    BY <1>3 DEF OpenTmp, WriteTmp, RenameTmp, SaveFault, At2, Saving, poolVars
  <2>2. /\ Failed(q).pc # "tunnels" /\ Saved(q).pc # "tunnels"
        /\ [q EXCEPT !.pc = "write", !.fd = "tmp"].pc = "write"
        /\ [q EXCEPT !.pc = "rename", !.fd = "none"].pc = "rename"
    BY <1>u, FailedFacts, SavedFacts DEF Request
  <2>3. req'[h].pc # "tunnels"
    BY <1>3, <1>u, <2>2 DEF OpenTmp, WriteTmp, RenameTmp, Becomes
  <2> QED BY <1>1, <2>1, <2>3 DEF Saving
<1>4. CASE Apply(h)
  <2> DEFINE after == q.next.dev
             changed == {d \in Devices : cfg.dev[d] # after[d]}
             close == {d \in changed : cfg.dev[d] # Absent}
             connect == {d \in changed : after[d] # Absent}
             added == {d \in changed : cfg.dev[d] = Absent}
             r == [q EXCEPT !.pc = "tunnels", !.close = close, !.connect = connect, !.added = added]
  <2>1. Becomes(h, r) /\ q.pc = "apply" /\ cfg' = q.next /\ UNCHANGED poolVars
    BY <1>4 DEF Apply, At2, poolVars
  <2>2. /\ close \in SUBSET Devices /\ connect \in SUBSET Devices /\ added \in SUBSET Devices
        /\ \A d \in Devices : after[d] # Absent =>
             /\ d \in connect \/ cfg.dev[d] # Absent
             /\ d \in close => d \in connect
    OBVIOUS
  <2> HIDE DEF close, connect, added
  <2>3. r \in Request /\ r.pc = "tunnels" /\ r.close = close /\ r.connect = connect
    BY <1>u, <2>2 DEF Request
  <2> HIDE DEF r
  <2>4. req'[h] = r
    BY <1>u, <2>1, <2>3, BecomesFacts
  <2>5. ASSUME NEW d \in Devices, cfg'.dev[d] # Absent
        PROVE  HasTunnel(d)' \/ Adjusts(h, d)'
    <3>1. CASE d \in connect
      BY <2>3, <2>4, <3>1 DEF Adjusts, At2
    <3>2. CASE d \notin connect
      BY <1>h, <2>1, <2>2, <2>5, <3>2 DEF HasTunnel, Entry, At, poolVars
    <3> QED BY <3>1, <3>2
  <2> QED BY <1>o, <2>1, <2>2, <2>3, <2>4, <2>5, TunneledByOne
<1>5. CASE Finish(h)
  <2>1. Answered(q) \in Request /\ Answered(q).pc = "idle"
    BY <1>u, AnsweredFacts
  <2>2. /\ req'[h].pc = "idle" /\ q.connect = {} /\ cfg' = cfg /\ UNCHANGED poolVars
    BY <1>5, <1>u, <2>1 DEF Finish, Becomes, poolVars
  <2>3. ASSUME NEW d \in Devices, cfg'.dev[d] # Absent PROVE HasTunnel(d)'
    BY <1>h, <2>2, <2>3 DEF HasTunnel, Entry, At, poolVars
  <2> QED BY <1>o, <2>2, <2>3, TunneledByOne
<1>6. ASSUME NEW d \in Devices, CloseTunnel(h, d) PROVE Tunneled'
  <2> DEFINE r == [q EXCEPT !.close = @ \ {d}]
  <2>1. r \in Request /\ r.close = q.close \ {d} /\ r.connect = q.connect /\ r.pc = q.pc
    BY <1>u DEF Request
  <2>2. Becomes(h, r) /\ cfg' = cfg /\ q.pc = "tunnels" /\ d \in q.close /\ Close({d})
    BY <1>6 DEF CloseTunnel, At2, OnlyReq, CloseDevice
  <2> HIDE DEF r
  <2>3. req'[h] = r
    BY <1>u, <2>1, <2>2, BecomesFacts
  <2>4. ASSUME NEW e \in Devices, e # d, HasTunnel(e) PROVE HasTunnel(e)'
    <3> DEFINE owners == {Entry(c) : c \in {d}} \ {NoLoop}
    <3>1. loop' = Canceled(owners) /\ tunnels' = Drop({d})
      BY <2>2 DEF Close
    <3> HIDE DEF owners
    <3>2. tunnels'[e] = tunnels[e]
      BY <2>4, <3>1 DEF Drop
    <3>3. \A j \in Loops : loop'[j].dev = loop[j].dev /\ loop'[j].pc = loop[j].pc
      BY <1>u, <3>1, CancelFacts
    <3> QED BY <2>4, <3>2, <3>3 DEF HasTunnel, Entry, At
  <2>5. ASSUME NEW e \in Devices, cfg'.dev[e] # Absent
        PROVE  /\ HasTunnel(e)' \/ Adjusts(h, e)'
               /\ e \in r.close => e \in r.connect
    BY <1>h, <2>1, <2>2, <2>3, <2>4, <2>5 DEF Adjusts, At2
  <2> QED BY <1>o, <2>3, <2>5, TunneledByOne
<1>7. ASSUME NEW d \in Devices, ConnectTunnel(h, d) PROVE Tunneled'
  <2> DEFINE r == [q EXCEPT !.connect = @ \ {d}, !.added = @ \ {d}]
  <2>1. r \in Request /\ r.close = q.close /\ r.connect = q.connect \ {d} /\ r.pc = q.pc
    BY <1>u DEF Request
  <2>2. /\ Becomes(h, r) /\ cfg' = cfg /\ q.pc = "tunnels" /\ d \notin q.close
        /\ ConnectDevice(d, q.next.dev[d])
    BY <1>7 DEF ConnectTunnel, At2, OnlyReq
  <2> HIDE DEF r
  <2>3. req'[h] = r
    BY <1>u, <2>1, <2>2, BecomesFacts
  <2>4. PICK i \in Loops : Unused(i) /\ loop' = Spawned(loop, i, d, q.next.dev[d])
    BY <2>2 DEF ConnectDevice
  <2>5. /\ loop'[i].pc = "spawned" /\ loop'[i].dev = d
        /\ \A j \in Loops \ {i} : loop'[j] = loop[j]
    BY <1>u, <2>4 DEF Spawned
  <2>6. tunnels' = tunnels
    BY <2>2 DEF ConnectDevice
  <2>7. HasTunnel(d)' /\ \A e \in Devices : HasTunnel(e) => HasTunnel(e)'
    BY <2>4, <2>5, <2>6 DEF HasTunnel, Entry, At, Unused
  <2>8. ASSUME NEW e \in Devices, cfg'.dev[e] # Absent
        PROVE  /\ HasTunnel(e)' \/ Adjusts(h, e)'
               /\ e \in r.close => e \in r.connect
    BY <1>h, <2>1, <2>2, <2>3, <2>7, <2>8 DEF Adjusts, At2
  <2> QED BY <1>o, <2>3, <2>8, TunneledByOne
<1> QED BY <1>2, <1>3, <1>4, <1>5, <1>6, <1>7 DEF Served

LEMMA AloneInitially ==
    ASSUME Init
    PROVE  AloneInv
<1>1. \A h \in Handlers : req[h].pc = "idle" /\ req[h].kind = "none" /\ req[h].fd = "none"
  BY NoRequestFacts DEF Init, PoolInit
<1>2. EmptyConfig \in Config /\ \A d \in Devices : EmptyConfig.dev[d] = Absent
  BY DEF EmptyConfig, Config
<1>3. Filed
  BY <1>1, <1>2 DEF Init, Filed, FileOf, Agree, Saving
<1>4. Tunneled
  BY <1>1, <1>2 DEF Init, Tunneled
<1> QED BY <1>1, <1>3, <1>4 DEF AloneInv, OneRequest

LEMMA AloneStep ==
    ASSUME UpdatesInv, AloneInv, [Next]_vars, OneRequest'
    PROVE  AloneInv'
<1>1. ASSUME NEW h \in Handlers, Requested(h) \/ Served(h) PROVE AloneInv'
  <2>1. Filed'
    BY <1>1, RequestFiled, SaveFiled, ApplyFiled DEF Served, AloneInv
  <2>2. Tunneled'
    BY <1>1, UpdateTunneled DEF AloneInv
  <2> QED BY <2>1, <2>2 DEF AloneInv
<1>2. CASE UNCHANGED updateVars /\ (LoopsRun \/ Loses \/ UNCHANGED poolVars)
  <2>1. Filed'
    BY <1>2 DEF AloneInv, Filed, FileOf, Agree, At2, updateVars
  <2>2. PoolTypeOK
    BY DEF UpdatesInv, UpdatesSafety, UpdatesTypeOK
  <2>3. \A d \in Devices : HasTunnel(d) => HasTunnel(d)'
    BY <1>2, <2>2, TunnelsKept DEF HasTunnel, Entry, At, poolVars
  <2>4. UNCHANGED <<cfg, req>>
    BY <1>2 DEF updateVars
  <2>5. Tunneled'
    BY <2>3, <2>4 DEF AloneInv, Tunneled, Adjusts, At2
  <2> QED BY <2>1, <2>5 DEF AloneInv
<1>3. CASE Restart
  <2>1. /\ cfg' \in Config /\ disk \in Config /\ disk' \in {disk, cfg'}
        /\ cfg' \in {disk, Aliased(disk)} /\ req' = NoRequest
    BY <1>3, UpdateFacts, RestartedPool DEF Restart
  <2>2. \A h \in Handlers : /\ req'[h].pc = "idle" /\ req'[h].kind = "none" /\ req'[h].fd = "none"
    BY <2>1 DEF NoRequest
  <2>3. Filed'
    BY <2>1, <2>2 DEF Filed, FileOf, Agree, Saving
  <2>4. Tunneled'
    BY <1>3, <2>2, RestartedPool DEF Tunneled, At2
  <2> QED BY <2>3, <2>4 DEF AloneInv
<1> QED BY <1>1, <1>2, <1>3 DEF Next, PoolRuns, vars

LEMMA AloneIsSettled ==
    ASSUME AloneInv
    PROVE  Settled
<1>1. DiskReadable
  BY FileNamesAssumption DEF AloneInv, Filed, DiskReadable, Readable
<1>2. DevicesPersisted
  BY <1>1 DEF AloneInv, Filed, DevicesPersisted, DiskReadable, Idle, At2, Agree
<1>3. ConfiguredIsServed
  BY DEF AloneInv, Tunneled, Adjusts, ConfiguredIsServed, Idle, At2, HasTunnel
<1> QED BY <1>1, <1>2, <1>3 DEF Settled, DiskReadable

\* Requests that follow each other, any number of them, with failed saves, crashes
\* and restarts between.
SerialSpec == Init /\ [][Next /\ OneRequest']_vars

\* As long as no two handlers run together, config.json can be read at every instant,
\* and between requests the devices on it are those the daemon works with and each of
\* them has a tunnel (config.Save, applyConfigUpdate, handleReload, Run).
THEOREM SerialSettles == SerialSpec => []Settled
<1>1. Init => UpdatesInv /\ AloneInv
  BY UpdatesInitially, AloneInitially
<1>2. UpdatesInv /\ AloneInv /\ [Next /\ OneRequest']_vars => (UpdatesInv /\ AloneInv)'
  <2>1. AloneInv /\ UNCHANGED vars => OneRequest'
    BY DEF AloneInv, OneRequest, vars, updateVars
  <2> QED BY <2>1, UpdatesStep, AloneStep
<1>3. AloneInv => Settled
  BY AloneIsSettled
<1> QED BY <1>1, <1>2, <1>3, PTL DEF SerialSpec

\* Of the instances TLC checks: in the one where requests follow each other, the
\* invariant of a single request holds.
MCInv == UpdatesInv /\ (overlap = "none" => AloneInv)

LEMMA MCStep ==
    ASSUME MCInv, [MCNext]_<<vars, missed, overlap>>
    PROVE  MCInv'
<1>1. [Next]_vars /\ UNCHANGED overlap
  BY DEF MCNext, HistoryNext
<1>2. UpdatesInv'
  BY <1>1, UpdatesStep DEF MCInv
<1>3. CASE overlap = "none"
  <2>1. OneAtATime \/ UNCHANGED vars
    BY <1>3 DEF MCNext
  <2>2. OneRequest'
    BY <1>3, <2>1 DEF MCInv, AloneInv, OneRequest, OneAtATime, vars, updateVars
  <2> QED BY <1>1, <1>2, <1>3, <2>2, AloneStep DEF MCInv
<1>4. CASE overlap # "none"
  BY <1>1, <1>2, <1>4 DEF MCInv
<1> QED BY <1>3, <1>4

\* The inductive invariant of the handlers in the instances of the run.
THEOREM MCInvariance == MCSpec => []MCInv
<1>1. MCInit => MCInv
  BY UpdatesInitially, AloneInitially DEF MCInit, HistoryInit, MCInv
<1>2. MCInv /\ [MCNext]_<<vars, missed, overlap>> => MCInv'
  BY MCStep
<1> QED BY <1>1, <1>2, PTL DEF MCSpec

\* The same of the instance of the runs in which requests follow each other.
THEOREM AloneSettles == MCSpec => []AloneSettled
<1>1. MCInv => AloneSettled
  BY AloneIsSettled DEF MCInv, AloneSettled, AloneReadable, AlonePersisted, AloneServed, Settled
<1> QED BY <1>1, MCInvariance, PTL

-----------------------------------------------------------------------------
\* What the clone of a device handler undoes.

\* A handler that has cloned and not yet swapped: outside its device, and the services
\* of a device it deletes, its clone differs from the configuration in what it missed.
CloneHeld(h) ==
    LET r == req[h] IN
    r.pc \in Saving \cup {"apply"} =>
      /\ r.kind \in DeviceKinds \cup ServiceKinds
      /\ r.kind \in {"put", "delete"} =>
           /\ \A d \in Devices : r.next.dev[d] # cfg.dev[d] => d = r.dev \/ d \in missed[h].dev
           /\ \A s \in Services : (s \in r.next.svc) # (s \in cfg.svc) =>
                s \in missed[h].svc \/ (r.kind = "delete" /\ Host[s] = r.dev)
HistoryInv ==
    /\ UpdatesInv /\ missed \in [Handlers -> AllMissed]
    /\ \A h \in Handlers : CloneHeld(h)

\* What a step does to a handler that does not begin a request in it.
LEMMA Carried ==
    ASSUME UpdatesInv, Next, NEW h \in Handlers, ~Requested(h)
    PROVE  \/ req'[h].pc \in {"idle", "tunnels"}
           \/ /\ req[h].pc \in Saving \cup {"apply"}
              /\ req'[h].kind = req[h].kind /\ req'[h].dev = req[h].dev
              /\ req'[h].next = req[h].next
<1> DEFINE Same == /\ req'[h].pc = req[h].pc /\ req'[h].kind = req[h].kind
                   /\ req'[h].dev = req[h].dev /\ req'[h].next = req[h].next
<1>u. /\ req \in [Handlers -> Request] /\ req[h] \in Request
      /\ req[h].pc \in {"idle", "tunnels"} \cup Saving \cup {"apply"}
  BY UpdateFacts DEF Request, Saving
<1>s. SUFFICES ASSUME ~Same
               PROVE  \/ req'[h].pc \in {"idle", "tunnels"}
                      \/ /\ req[h].pc \in Saving \cup {"apply"}
                         /\ req'[h].kind = req[h].kind /\ req'[h].dev = req[h].dev
                         /\ req'[h].next = req[h].next
  BY <1>u
<1>1. CASE PoolRuns
  BY <1>s, <1>1 DEF PoolRuns, updateVars
<1>2. CASE Restart
  <2>1. req'[h].pc = "idle"
    BY <1>2 DEF Restart, NoRequest
  <2> QED BY <2>1
<1>3. ASSUME NEW g \in Handlers, g # h, Requested(g) \/ Served(g) PROVE FALSE
  <2>1. CASE \E r \in {req'[g]} : req' = [req EXCEPT ![g] = r]
    BY <1>3, <1>s, <1>u, <2>1
  <2>2. CASE \E renamed \in BOOLEAN : req'[h] = Moved(req[h], renamed)
    BY <1>s, <1>u, <2>2, MovedFacts
  <2>3. CASE RenameTmp(g)
    <3>1. \/ req'[h] = Moved(req[h], TRUE) \/ req'[h] = Moved(req[h], FALSE)
          \/ req' = [req EXCEPT ![g] = Failed(req[g])]
      BY <1>3, <2>3 DEF RenameTmp, Becomes
    <3> QED BY <1>3, <1>s, <1>u, <2>2, <3>1
  <2>4. ASSUME NEW r, Becomes(g, r) PROVE FALSE
    BY <1>3, <1>s, <1>u, <2>4 DEF Becomes
  <2>5. CASE Requested(g)
    BY <2>4, <2>5 DEF Requested, PutDevice, DeleteDevice, Reload, PersistDeployResult,
                      RemoveService
  <2>6. CASE OpenTmp(g) \/ WriteTmp(g) \/ Apply(g) \/ Finish(g)
             \/ \E d \in Devices : CloseTunnel(g, d) \/ ConnectTunnel(g, d)
    BY <2>4, <2>6 DEF OpenTmp, WriteTmp, Apply, Finish, CloseTunnel, ConnectTunnel
  <2> QED BY <1>3, <2>3, <2>5, <2>6 DEF Served
<1>4. CASE Served(h)
  <2>f. ASSUME req'[h] = Failed(req[h]), req[h].pc \in Saving
        PROVE  \/ req'[h].pc = "idle"
               \/ req'[h].kind = req[h].kind /\ req'[h].dev = req[h].dev /\ req'[h].next = req[h].next
    BY <1>u, <2>f, FailedFacts
  <2>1. CASE OpenTmp(h)
    <3>1. At2(h, "open") /\ (\/ req'[h] = [req[h] EXCEPT !.pc = "write", !.fd = "tmp"]
                             \/ req'[h] = Failed(req[h]))
      BY <1>u, <2>1 DEF OpenTmp, Becomes
    <3>2. req'[h] = Failed(req[h]) \/ (/\ req'[h].kind = req[h].kind /\ req'[h].dev = req[h].dev
                                      /\ req'[h].next = req[h].next)
      BY <1>u, <3>1 DEF Request
    <3> QED BY <2>f, <3>1, <3>2 DEF At2, Saving
  <2>2. CASE WriteTmp(h)
    <3>1. At2(h, "write") /\ req'[h] = [req[h] EXCEPT !.pc = "rename", !.fd = "none"]
      BY <1>u, <2>2 DEF WriteTmp, Becomes
    <3>2. /\ req'[h].kind = req[h].kind /\ req'[h].dev = req[h].dev
          /\ req'[h].next = req[h].next
      BY <1>u, <3>1 DEF Request
    <3> QED BY <3>1, <3>2 DEF At2, Saving
  <2>3. CASE RenameTmp(h)
    <3>1. At2(h, "rename") /\ req'[h] \in {Saved(req[h]), Failed(req[h])}
      BY <1>u, <2>3 DEF RenameTmp, Becomes
    <3> QED BY <1>u, <2>f, <3>1, SavedFacts DEF At2, Saving
  <2>4. CASE Apply(h)
    <3>1. req'[h].pc = "tunnels"
      BY <1>u, <2>4 DEF Apply, Becomes, Request
    <3> QED BY <3>1
  <2>5. CASE Finish(h)
    <3>1. req'[h].pc = "idle"
      BY <1>u, <2>5, AnsweredFacts DEF Finish, Becomes
    <3> QED BY <3>1
  <2>6. ASSUME NEW d \in Devices, CloseTunnel(h, d) \/ ConnectTunnel(h, d)
        PROVE  req'[h].pc = "tunnels"
    <3>1. /\ req[h].pc = "tunnels"
          /\ \/ req'[h] = [req[h] EXCEPT !.close = @ \ {d}]
             \/ req'[h] = [req[h] EXCEPT !.connect = @ \ {d}, !.added = @ \ {d}]
      BY <1>u, <2>6 DEF CloseTunnel, ConnectTunnel, Becomes, At2
    <3> QED BY <1>u, <3>1 DEF Request
  <2> QED BY <1>4, <2>1, <2>2, <2>3, <2>4, <2>5, <2>6 DEF Served
<1> QED BY <1>1, <1>2, <1>3, <1>4 DEF Next

\* A handler that begins has missed nothing: it clones what is current.
LEMMA CloneBegins ==
    ASSUME UpdatesInv, NEW h \in Handlers, Requested(h)
    PROVE  CloneHeld(h)'
<1>u. req \in [Handlers -> Request] /\ cfg \in Config /\ (Readable(disk) => disk \in Config)
  BY UpdateFacts
<1>1. ASSUME NEW kind \in DeviceKinds \cup ServiceKinds, NEW d \in Devices, NEW next \in Config,
             NEW label \in {"open", "apply"}, Becomes(h, Serving(h, kind, d, next, label)),
             kind \in {"put", "delete"} =>
               /\ cfg' = cfg
               /\ \A e \in Devices : e # d => next.dev[e] = cfg.dev[e]
               /\ \A s \in Services : (s \in next.svc) # (s \in cfg.svc) =>
                    kind = "delete" /\ Host[s] = d
      PROVE  CloneHeld(h)'
  <2> DEFINE r == Serving(h, kind, d, next, label)
  <2>1. r \in Request /\ r.kind = kind /\ r.next = next /\ r.dev = d
    BY <1>u, ServingFacts
  <2> HIDE DEF r
  <2>2. req'[h] = r
    BY <1>1, <1>u, <2>1, BecomesFacts DEF r
  <2> QED BY <1>1, <2>1, <2>2 DEF CloneHeld
<1>2. ASSUME NEW d \in Devices, NEW v \in Versions, PutDevice(h, d, v) PROVE CloneHeld(h)'
  <2> DEFINE next == [cfg EXCEPT !.dev[d] = v]
  <2>1. /\ next \in Config /\ next.svc = cfg.svc
        /\ \A e \in Devices : e # d => next.dev[e] = cfg.dev[e]
    BY <1>u DEF Config
  <2>2. Becomes(h, Serving(h, "put", d, next, "open")) /\ cfg' = cfg
    BY <1>2 DEF PutDevice
  <2> HIDE DEF next
  <2> QED BY <1>1, <2>1, <2>2 DEF DeviceKinds
<1>3. ASSUME NEW d \in Devices, DeleteDevice(h, d) PROVE CloneHeld(h)'
  <2> DEFINE next == [dev |-> [cfg.dev EXCEPT ![d] = Absent],
                      svc |-> {s \in cfg.svc : Host[s] # d}]
  <2>1. /\ next \in Config
        /\ \A e \in Devices : e # d => next.dev[e] = cfg.dev[e]
        /\ \A s \in Services : (s \in next.svc) # (s \in cfg.svc) => Host[s] = d
    BY <1>u DEF Config
  <2>2. Becomes(h, Serving(h, "delete", d, next, "open")) /\ cfg' = cfg
    BY <1>3 DEF DeleteDevice
  <2> HIDE DEF next
  <2> QED BY <1>1, <2>1, <2>2 DEF DeviceKinds
<1>4. ASSUME NEW d \in Devices, Reload(h, d) PROVE CloneHeld(h)'
  <2>1. disk \in Config /\ Aliased(disk) \in Config
    BY <1>4, <1>u, ConfigFacts DEF Reload
  <2> QED BY <1>1, <1>4, <2>1 DEF Reload, DeviceKinds
<1>5. ASSUME NEW s \in Services, PersistDeployResult(h, s) \/ RemoveService(h, s)
      PROVE  CloneHeld(h)'
  <2>1. cfg' \in Config /\ Host[s] \in Devices
    BY <1>5, <1>u, HostAssumption DEF PersistDeployResult, RemoveService, Config
  <2> QED BY <1>1, <1>5, <2>1 DEF PersistDeployResult, RemoveService, ServiceKinds
<1> QED BY <1>2, <1>3, <1>4, <1>5 DEF Requested

LEMMA HistoryStep ==
    ASSUME HistoryInv, [HistoryNext]_<<vars, missed>>
    PROVE  HistoryInv'
<1>1. CASE UNCHANGED <<vars, missed>>
  <2>1. UpdatesInv'
    BY <1>1, UpdatesStep DEF HistoryInv
  <2> QED BY <1>1, <2>1 DEF HistoryInv, CloneHeld, vars, updateVars
<1>2. CASE HistoryNext
  <2>u. /\ UpdatesInv' /\ cfg' \in Config /\ req' \in [Handlers -> Request]
        /\ cfg \in Config /\ req \in [Handlers -> Request]
    <3>1. UpdatesInv /\ UpdatesInv'
      BY <1>2, UpdatesStep DEF HistoryInv, HistoryNext
    <3> QED BY <3>1 DEF UpdatesInv, UpdatesSafety, UpdatesTypeOK
  <2>1. \A h \in Handlers : missed'[h] = MissedBy(h) /\ MissedBy(h) \in AllMissed
    BY <1>2 DEF HistoryNext, MissedBy, AllMissed, NothingMissed, Changed, HistoryInv
  <2>2. missed' \in [Handlers -> AllMissed]
    BY <1>2, <2>1 DEF HistoryNext
  <2>3. ASSUME NEW h \in Handlers PROVE CloneHeld(h)'
    <3>1. CASE Requested(h)
      BY <3>1, CloneBegins DEF HistoryInv
    <3>2. CASE ~Requested(h) /\ req'[h].pc \notin {"idle", "tunnels"}
      <4>1. /\ req[h].pc \in Saving \cup {"apply"} /\ req'[h].kind = req[h].kind
            /\ req'[h].dev = req[h].dev /\ req'[h].next = req[h].next
        BY <1>2, <3>2, Carried DEF HistoryInv, HistoryNext
      <4>2. /\ missed'[h].dev = missed[h].dev \cup Changed.dev
            /\ missed'[h].svc = missed[h].svc \cup Changed.svc
        <5>1. ~At2(h, "idle") /\ req'[h].pc \notin {"idle", "tunnels"}
          BY <3>2, <4>1 DEF At2, Saving
        <5>2. MissedBy(h) = [dev |-> missed[h].dev \cup Changed.dev,
                             svc |-> missed[h].svc \cup Changed.svc]
          BY <5>1 DEF MissedBy
        <5> QED BY <2>1, <5>2
      <4>3. /\ \A d \in Devices : cfg'.dev[d] # cfg.dev[d] => d \in missed'[h].dev
            /\ \A s \in Services : (s \in cfg'.svc) # (s \in cfg.svc) => s \in missed'[h].svc
        BY <4>2 DEF Changed
      <4> QED BY <4>1, <4>2, <4>3 DEF HistoryInv, CloneHeld
    <3>3. CASE req'[h].pc \in {"idle", "tunnels"}
      BY <3>3 DEF CloneHeld, Saving
    <3> QED BY <3>1, <3>2, <3>3
  <2> QED BY <2>u, <2>2, <2>3 DEF HistoryInv
<1> QED BY <1>1, <1>2

\* Handlers of any devices and services, any number of them at the same time: a create,
\* update, bootstrap or delete that swaps in its clone changes besides its own device
\* only what became current after it cloned, and a service request one service. What the
\* code loses to overlapping handlers is that and no more.
THEOREM OthersAreUntouched == HistorySpec => OthersUntouched
<1> DEFINE A == \/ UNCHANGED cfg
                \/ restarts' # restarts
                \/ \E h \in Handlers : Swaps(h) /\ (Reloading(h) \/ ChangesItsDevice(h))
                \/ ChangesOneService
<1>1. HistoryInit => HistoryInv
  <2> SUFFICES ASSUME HistoryInit PROVE HistoryInv
    OBVIOUS
  <2>1. \A h \in Handlers : req[h].pc = "idle"
    BY NoRequestFacts DEF HistoryInit, Init, PoolInit
  <2> QED BY <2>1, UpdatesInitially DEF HistoryInit, HistoryInv, CloneHeld, Saving, AllMissed,
                                        NothingMissed
<1>2. ASSUME HistoryInv, HistoryNext PROVE A
  <2>u. /\ req \in [Handlers -> Request] /\ cfg \in Config /\ restarts \in Nat
        /\ \A h \in Handlers : /\ req[h] \in Request /\ req[h].next \in Config
                               /\ req[h].kind \in ServiceKinds => req[h].pc \in Saving
    BY <1>2, UpdateFacts DEF HistoryInv
  <2>1. ASSUME NEW h \in Handlers, Apply(h) PROVE A
    <3>1. /\ At2(h, "apply") /\ cfg' = req[h].next /\ CloneHeld(h)
          /\ req[h].kind \notin ServiceKinds
      BY <1>2, <2>1, <2>u DEF Apply, HistoryInv, At2, Saving
    <3>2. req'[h].pc = "tunnels"
      BY <2>1, <2>u DEF Apply, Becomes, Request
    <3>3. Swaps(h) /\ req[h].kind \in DeviceKinds
      BY <3>1, <3>2 DEF Swaps, CloneHeld, At2
    <3>4. CASE req[h].kind = "reload"
      BY <3>1, <3>3, <3>4 DEF Reloading
    <3>5. CASE req[h].kind \in {"put", "delete"}
      <4>1. ChangesItsDevice(h)
        BY <3>1, <3>5 DEF CloneHeld, ChangesItsDevice, Changed, At2
      <4> QED BY <3>3, <4>1
    <3> QED BY <3>3, <3>4, <3>5 DEF DeviceKinds
  <2>2. CASE Restart
    BY <2>2, <2>u DEF Restart
  <2>3. ASSUME NEW h \in Handlers, NEW s \in Services,
               PersistDeployResult(h, s) \/ RemoveService(h, s)
        PROVE  A
    <3>1. /\ cfg'.dev = cfg.dev /\ lock' = h
          /\ \A t \in Services : t # s => (t \in cfg'.svc) = (t \in cfg.svc)
      BY <2>3, <2>u DEF PersistDeployResult, RemoveService, Config
    <3>2. /\ Changed.dev = {} /\ Changed.svc \subseteq {s}
      BY <3>1 DEF Changed
    <3>3. PICK kind \in ServiceKinds : Becomes(h, Serving(h, kind, Host[s], cfg', "open"))
      BY <2>3 DEF PersistDeployResult, RemoveService, ServiceKinds
    <3>4. req'[h].kind \in ServiceKinds /\ req'[h].dev = Host[s]
      BY <2>u, <3>3 DEF Becomes, Serving, Request
    <3> QED BY <3>1, <3>2, <3>4 DEF ChangesOneService
  <2>4. ASSUME NEW h \in Handlers, NEW d \in Devices,
               \/ \E v \in Versions : PutDevice(h, d, v)
               \/ DeleteDevice(h, d) \/ Reload(h, d)
               \/ CloseTunnel(h, d) \/ ConnectTunnel(h, d)
        PROVE  cfg' = cfg
    BY <2>4 DEF PutDevice, DeleteDevice, Reload, CloseTunnel, ConnectTunnel, OnlyReq
  <2>5. ASSUME NEW h \in Handlers, OpenTmp(h) \/ WriteTmp(h) \/ RenameTmp(h) \/ Finish(h)
        PROVE  cfg' = cfg
    BY <2>5 DEF OpenTmp, WriteTmp, RenameTmp, Finish, SaveFault
  <2>6. CASE PoolRuns
    BY <2>6 DEF PoolRuns, updateVars
  <2> HIDE DEF A
  <2>7. cfg' = cfg => A
    BY DEF A
  <2> QED BY <1>2, <2>1, <2>2, <2>3, <2>4, <2>5, <2>6, <2>7 DEF HistoryNext, Next, Requested, Served
<1>3. HistoryInv /\ [HistoryNext]_<<vars, missed>> => HistoryInv' /\ [A]_<<vars, missed>>
  BY <1>2, HistoryStep
<1> QED BY <1>1, <1>3, PTL DEF HistorySpec, OthersUntouched

-----------------------------------------------------------------------------
\* Streams of logs.

Scanners == {"scan", "send", "report", "done"}
AskedFirst(r, v) == v \in {"idle", "asks"} => r = "idle"
LogsInv ==
    /\ LogsTypeOK /\ scanner \in [Pipes -> Scanners]
    /\ relay \in {"idle", "scan", "send", "report", "closing", "done"} /\ AskedFirst(relay, viewer)

LEMMA LogsStart == ASSUME LogInit PROVE LogsInv
<1>1. 0 \in 0 .. AgentBuffer /\ 0 \in 0 .. RelayBuffer /\ 0 \in 0 .. WireBuffer
  BY BufferAssumption
<1> QED BY <1>1 DEF LogInit, LogsInv, LogsTypeOK, Scanners, AskedFirst

\* What a step of a scanner does to the scanners: the channel is not closed while
\* one of them has not ended, and one that has ended stays so.
LEMMA ScannersKeep ==
    ASSUME LogsInv, NEW p \in Pipes, scanner[p] # "done", NEW x \in Scanners,
           scanner' = [scanner EXCEPT ![p] = x],
           UNCHANGED <<docker, closed, handler, wire, daemonSide>>, logCh' \in 0 .. AgentBuffer
    PROVE  LogsInv'
<1>1. ~closed
  BY DEF LogsInv, LogsTypeOK, AllScanned, ScannerDone
<1>2. scanner' \in [Pipes -> Scanners]
  BY DEF LogsInv
<1> QED BY <1>1, <1>2 DEF LogsInv, LogsTypeOK, daemonSide

LEMMA AgentKeepsLogs ==
    ASSUME LogsInv, AgentStep \/ Accept \/ DockerEnds \/ \E p \in Pipes : ScanLine(p) \/ LongLine(p)
    PROVE  LogsInv'
<1>1. /\ LogsTypeOK /\ AgentBuffer \in Nat /\ WireBuffer \in Nat /\ scanner \in [Pipes -> Scanners]
      /\ logCh \in 0 .. AgentBuffer /\ wire \in 0 .. WireBuffer
  BY BufferAssumption DEF LogsInv, LogsTypeOK
<1>2. ASSUME NEW p \in Pipes, ScanLine(p) \/ LongLine(p) \/ ScanEnds(p) \/ GiveUp(p) PROVE LogsInv'
  <2>1. /\ scanner[p] # "done" /\ UNCHANGED <<closed, handler, wire, daemonSide, docker, logCh>>
        /\ \E x \in Scanners : scanner' = [scanner EXCEPT ![p] = x]
    BY <1>2 DEF ScanLine, LongLine, ScanEnds, GiveUp, Scanners
  <2> QED BY <1>1, <2>1, ScannersKeep
<1>3. ASSUME NEW p \in Pipes, Send(p) PROVE LogsInv'
  <2>1. /\ scanner[p] # "done" /\ UNCHANGED <<closed, handler, wire, daemonSide, docker>>
        /\ scanner' = [scanner EXCEPT ![p] = IF scanner[p] = "send" THEN "scan" ELSE "done"]
        /\ logCh < AgentBuffer /\ logCh' = logCh + 1
    BY <1>3 DEF Send
  <2>2. (IF scanner[p] = "send" THEN "scan" ELSE "done") \in Scanners /\ logCh' \in 0 .. AgentBuffer
    BY <1>1, <2>1 DEF Scanners
  <2> QED BY <2>1, <2>2, ScannersKeep
<1>4. CASE CloseCh
  BY <1>4 DEF CloseCh, LogsInv, LogsTypeOK, AllScanned, ScannerDone, daemonSide
<1>5. CASE Accept \/ Cancel \/ DockerEnds
  BY <1>5 DEF Accept, Cancel, DockerEnds, LogsInv, LogsTypeOK, AllScanned, ScannerDone, daemonSide
<1>6. CASE WriteEvent
  <2>1. /\ logCh' \in 0 .. AgentBuffer /\ wire' \in 0 .. WireBuffer
        /\ UNCHANGED <<docker, scanner, closed, handler, relay, relayCh, relayed, viewer>>
    BY <1>1, <1>6 DEF WriteEvent, daemonSide
  <2> QED BY <2>1 DEF LogsInv, LogsTypeOK, AllScanned, ScannerDone
<1>7. CASE AwaitDocker \/ HandlerReturns
  BY <1>7 DEF AwaitDocker, HandlerReturns, LogsInv, LogsTypeOK, AllScanned, ScannerDone, daemonSide
<1> QED BY <1>2, <1>3, <1>4, <1>5, <1>6, <1>7 DEF AgentStep

LEMMA DaemonKeepsLogs ==
    ASSUME LogsInv, \/ RelayStep \/ ViewerStep \/ TimesOut \/ RelayLongLine
                    \/ ConnectionBreaks \/ AgentHears \/ OpenStream \/ ClientLeaves
    PROVE  LogsInv'
<1>1. /\ LogsTypeOK /\ RelayBuffer \in Nat /\ WireBuffer \in Nat
      /\ relayCh \in 0 .. RelayBuffer /\ wire \in 0 .. WireBuffer /\ 0 \in 0 .. WireBuffer
  BY BufferAssumption DEF LogsInv, LogsTypeOK
<1>2. ASSUME NEW r \in {"idle", "scan", "send", "report", "closing", "done"}, relay' = r,
             relayCh' \in 0 .. RelayBuffer, wire' \in 0 .. WireBuffer, relayed' => r = "done",
             docker' \in {"none", "runs", "ended"}, AskedFirst(r, viewer'),
             UNCHANGED <<scanner, logCh, closed, handler>>
      PROVE  LogsInv'
  BY <1>1, <1>2 DEF LogsInv, LogsTypeOK, AllScanned, ScannerDone
<1>3. /\ docker \in {"none", "runs", "ended"} /\ (relayed => relay = "done") /\ AskedFirst(relay, viewer)
      /\ relay \in {"idle", "scan", "send", "report", "closing", "done"}
  BY <1>1 DEF LogsInv, LogsTypeOK
<1>4. CASE RelayLine
  <2>1. wire' \in 0 .. WireBuffer
    BY <1>1, <1>4 DEF RelayLine
  <2> QED BY <1>1, <1>2, <1>3, <1>4, <2>1 DEF RelayLine, agentSide, AskedFirst
<1>5. CASE RelaySend
  <2>1. relayCh' \in 0 .. RelayBuffer
    BY <1>1, <1>5 DEF RelaySend
  <2> QED BY <1>1, <1>2, <1>3, <1>5, <2>1 DEF RelaySend, agentSide, AskedFirst
<1>6. CASE RelayScanEnds \/ RelayLongLine \/ RelayCloses \/ ClientLeaves
  BY <1>1, <1>2, <1>3, <1>6 DEF RelayScanEnds, RelayLongLine, RelayCloses, ClientLeaves, agentSide,
                                AskedFirst
<1>7. CASE TimesOut \/ ConnectionBreaks \/ AgentHears
  BY <1>1, <1>2, <1>3, <1>7 DEF TimesOut, ConnectionBreaks, AgentHears, agentSide, daemonSide,
                                AskedFirst
<1>8. CASE ShowLine
  <2>1. relayCh' \in 0 .. RelayBuffer
    BY <1>1, <1>8 DEF ShowLine
  <2> QED BY <1>1, <1>2, <1>3, <1>8, <2>1 DEF ShowLine, agentSide, AskedFirst
<1>9. CASE OpenStream \/ AnswerArrives \/ AskFails \/ ViewerReturns
  BY <1>1, <1>2, <1>3, <1>9 DEF OpenStream, AnswerArrives, AskFails, ViewerReturns, agentSide,
                                AskedFirst
<1> QED BY <1>4, <1>5, <1>6, <1>7, <1>8, <1>9 DEF RelayStep, ViewerStep

\* For channels of any capacity nobody sends on one that was closed: the agent
\* closes its channel only when both scanners are through, and neither scans again,
\* and the daemon's relay closes its own as its last step (handleContainerLogs,
\* StreamLogs).
THEOREM LogsAreTyped == LogSpec => []LogsTypeOK
<1>1. ASSUME LogsInv, [LogNext]_logVars PROVE LogsInv'
  <2>1. CASE LogNext
    BY <1>1, <2>1, AgentKeepsLogs, DaemonKeepsLogs DEF LogNext
  <2>2. CASE UNCHANGED logVars
    BY <1>1, <2>2 DEF logVars, agentSide, daemonSide, LogsInv, LogsTypeOK, AllScanned, ScannerDone
  <2> QED BY <1>1, <2>1, <2>2
<1>2. LogsInv => LogsTypeOK
  BY DEF LogsInv
<1> QED BY <1>1, <1>2, LogsStart, PTL DEF LogSpec
=============================================================================
