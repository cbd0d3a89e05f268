------------------------ MODULE NativeSupervisorProofs ------------------------
(***************************************************************************)
(* What the supervisor of the recipe on two nodes keeps, for any resources,*)
(* requests, launches and ends of the agent.                               *)
(*                                                                         *)
(* The argument.  A stop and a launch hold the mutex over their steps, so  *)
(* the record is for them what they left it (StopOK, LaunchOK); whoever    *)
(* observes without the mutex knows only that what it read is the record   *)
(* as long as it is fresh (ReadOK), and every write of a record ages it.   *)
(* A launch keeps its record until nothing of it is alive and nothing of it*)
(* is on the nodes, or it is accounted for (Released).                     *)
(***************************************************************************)
EXTENDS NativeSupervisor, FiniteSetTheorems, TLAPS

\* Steps of a stop, and of a launch, that hold the mutex.
StopHolds == {"fence", "inspect", "clear", "settle"}
LaunchHolds == {"record", "start"}

\* What a step is a step of.
OpFits(op, pc) ==
    /\ pc \in {"preflight", "create"} => op = "create"
    /\ pc = "observe" => op \in {"stop", "restart", "remove", "test"}
    /\ pc = "observed" => op \in {"stop", "restart", "remove", "test", "supervise"}
    /\ pc = "decide" => op \in {"restart", "remove"}
    /\ pc \in {"stop", "expired"} \cup StopHolds =>
         op \in {"stop", "restart", "remove", "supervise", "wait"}
    /\ pc \in {"probe", "ready"} => op = "test"
    /\ pc = "remove" => op = "remove"
    /\ pc = "relaunch" => op = "restart"
    /\ pc \in LaunchHolds => op \in {"create", "restart"}
    /\ pc = "release" => op = "supervise"
    /\ pc = "waiting" => op = "wait"

\* Whoever stops has the record at "stopping" and, once it has fenced, no process
\* of the launch is left; whoever launches has the newest launch, and a creation
\* finds no record.
StopOK(j) ==
    j.pc \in StopHolds =>
        /\ j.name \in Heads /\ record[j.name] # NoRecord /\ record[j.name].status = "stopping"
        /\ j.pc # "fence" => ~Alive(record[j.name].launch)
LaunchOK(j) ==
    j.pc \in LaunchHolds =>
        /\ j.name \in Heads /\ j.launch = starts /\ starts # 0
        /\ j.pc = "record" /\ j.op = "create" => \A n \in Resources : record[n] = NoRecord
        /\ j.pc = "start" => /\ record[j.name] # NoRecord /\ record[j.name].launch = starts
                             /\ record[j.name].status = "starting"

\* What is read and still fresh is the record; a stop that is done is not undone.
ReadOK(j) ==
    /\ j.pc = "observed" => j.status # "stopped"
    /\ j.pc = "release" => j.name \in Heads
    /\ j.pc \in {"observed", "release"} /\ j.fresh =>
         record[j.name] # NoRecord /\ record[j.name].status # "stopped"

JobOK(a) ==
    LET j == job[a] IN
    j.pc # "rest" =>
        /\ OpFits(j.op, j.pc) /\ (j.pc \in StopHolds \cup LaunchHolds => mutex = a)
        /\ StopOK(j) /\ LaunchOK(j) /\ ReadOK(j)

HeadLaunches == \A n \in Heads : record[n] # NoRecord => record[n].launch # 0
OneRecord ==
    ~revived => \A m, n \in Resources : record[m] # NoRecord /\ record[n] # NoRecord => m = n
LastLaunch == recipeEnv = starts /\ (launchers \cup strays # {} => starts # 0)
Escaped == \A c \in arriving : c.by \in late

\* The part that is not about the actors.
HostOK ==
    HeadLaunches /\ OneRecord /\ LastLaunch /\ Escaped /\ FencedBeforeRelease /\ StoppedIsClean

SupervisorInv == SupervisorTypeOK /\ HostOK /\ \A a \in Actors : JobOK(a)

-----------------------------------------------------------------------------
LEMMA RestFacts ==
    /\ Resting.pc = "rest" /\ Resting \notin Job
    /\ \A j \in Job : j.pc # "rest"
BY DEF Resting, Job

LEMMA SupervisorFacts ==
    ASSUME SupervisorInv
    PROVE  /\ record \in [Resources -> Record \cup {NoRecord}]
           /\ recipeEnv \in 0 .. MaxStarts /\ memory \in [Resources -> 0 .. MaxStarts]
           /\ launchers \subseteq Launches /\ strays \subseteq Launches
           /\ arriving \subseteq [node: Nodes, launch: Launches, by: Launches]
           /\ onNode \in [Nodes -> NodeContainer \cup {NoRecord}]
           /\ job \in [Actors -> Job \cup {Resting}] /\ mutex \in Actors \cup {Unlocked}
           /\ starts \in 0 .. MaxStarts /\ asks \in Nat /\ revived \in BOOLEAN /\ mishaps \in Nat
           /\ orphaned \subseteq Launches /\ late \subseteq Launches /\ unverified \subseteq Launches
           /\ \A a \in Actors : job[a] \in Job <=> job[a].pc # "rest"
           /\ \A a \in Actors : JobOK(a)
<1>1. SupervisorTypeOK
  BY DEF SupervisorInv
<1>2. /\ record \in [Resources -> Record \cup {NoRecord}]
      /\ recipeEnv \in 0 .. MaxStarts /\ memory \in [Resources -> 0 .. MaxStarts]
      /\ launchers \subseteq Launches /\ strays \subseteq Launches
      /\ arriving \subseteq [node: Nodes, launch: Launches, by: Launches]
      /\ onNode \in [Nodes -> NodeContainer \cup {NoRecord}]
      /\ job \in [Actors -> Job \cup {Resting}] /\ mutex \in Actors \cup {Unlocked}
      /\ starts \in 0 .. MaxStarts /\ asks \in Nat /\ revived \in BOOLEAN /\ mishaps \in Nat
      /\ orphaned \subseteq Launches /\ late \subseteq Launches /\ unverified \subseteq Launches
  BY <1>1 DEF SupervisorTypeOK
<1>3. \A a \in Actors : job[a] \in Job <=> job[a].pc # "rest"
  BY <1>2, RestFacts
<1> QED BY <1>2, <1>3 DEF SupervisorInv

\* What is known of an actor that another one leaves alone, but for the age of
\* what it has read.
Kept(b) ==
    /\ job'[b].pc = job[b].pc
    /\ job[b].pc # "rest" =>
         /\ job'[b].op = job[b].op /\ job'[b].name = job[b].name /\ job'[b].launch = job[b].launch
         /\ job'[b].status = job[b].status /\ (job'[b].fresh => job[b].fresh)
Aged(b) ==
    job[b].pc \in {"observed", "release"} /\ record'[job[b].name] # record[job[b].name]
        => ~job'[b].fresh

\* A step under the mutex, or while it is free.
LEMMA ExclusiveKeeps ==
    ASSUME SupervisorInv, NEW a \in Actors, NEW b \in Actors, a # b, Free \/ mutex = a,
           Kept(b), Aged(b)
    PROVE  JobOK(b)'
<1>1. JobOK(b) /\ Unlocked \notin Actors
  BY AbsenceAssumption DEF SupervisorInv
<1>2. job[b].pc # "rest" => job[b].pc \notin StopHolds \cup LaunchHolds
  BY <1>1 DEF JobOK, Free
<1>3. job[b].pc # "rest" => StopOK(job[b])' /\ LaunchOK(job[b])'
  BY <1>2 DEF Kept, StopOK, LaunchOK
<1>4. job[b].pc # "rest" => ReadOK(job[b])'
  BY <1>1 DEF Kept, Aged, ReadOK, JobOK
<1> QED BY <1>1, <1>2, <1>3, <1>4 DEF JobOK, Kept

\* A step that writes no record.
LEMMA QuietKeeps ==
    ASSUME SupervisorInv, NEW b \in Actors, job'[b] = job[b], UNCHANGED <<record, mutex, starts>>,
           launchers' \cup strays' \subseteq launchers \cup strays
    PROVE  JobOK(b)'
<1>1. JobOK(b)
  BY DEF SupervisorInv
<1>2. ASSUME job[b].pc # "rest" PROVE StopOK(job[b])' /\ LaunchOK(job[b])' /\ ReadOK(job[b])'
  <2>1. StopOK(job[b]) /\ LaunchOK(job[b]) /\ ReadOK(job[b])
    BY <1>1, <1>2 DEF JobOK
  <2>2. StopOK(job[b])'
    <3>1. job[b].pc \in StopHolds => record[job[b].name].launch \in Launches
      <4>1. HeadLaunches /\ Heads \subseteq Resources
        BY DEF SupervisorInv, HostOK, Resources
      <4> QED BY <2>1, <4>1, SupervisorFacts, SupervisorAssumption
              DEF StopOK, HeadLaunches, Record, Launches
    <3> QED BY <2>1, <3>1 DEF StopOK, Alive
  <2> QED BY <2>1, <2>2 DEF LaunchOK, ReadOK
<1> QED BY <1>1, <1>2 DEF JobOK

LEMMA StaleFacts ==
    ASSUME SupervisorInv, NEW n \in Resources
    PROVE  /\ Stale(job, n) \in [Actors -> Job \cup {Resting}]
           /\ \A b \in Actors :
                /\ Stale(job, n)[b].pc = job[b].pc
                /\ job[b].pc # "rest" =>
                     /\ Stale(job, n)[b].op = job[b].op /\ Stale(job, n)[b].name = job[b].name
                     /\ Stale(job, n)[b].launch = job[b].launch
                     /\ Stale(job, n)[b].status = job[b].status
                     /\ Stale(job, n)[b].saw = job[b].saw
                     /\ Stale(job, n)[b].fresh => job[b].fresh
                     /\ job[b].pc \in {"observed", "release"} /\ job[b].name = n
                          => ~Stale(job, n)[b].fresh
<1>1. ASSUME NEW j \in Job PROVE LET k == [j EXCEPT !.fresh = FALSE] IN
        k \in Job /\ k.pc = j.pc /\ k.op = j.op /\ k.name = j.name /\ k.launch = j.launch
        /\ k.status = j.status /\ k.saw = j.saw /\ ~k.fresh
  BY DEF Job
<1>2. \A b \in Actors : Stale(job, n)[b] = IF job[b].pc \in {"observed", "release"} /\ job[b].name = n
                                           THEN [job[b] EXCEPT !.fresh = FALSE] ELSE job[b]
  BY DEF Stale
<1>3. \A b \in Actors : job[b] \in Job \cup {Resting} /\ (job[b] \in Job <=> job[b].pc # "rest")
  BY SupervisorFacts
<1>4. ASSUME NEW b \in Actors
      PROVE  /\ Stale(job, n)[b] \in Job \cup {Resting} /\ Stale(job, n)[b].pc = job[b].pc
             /\ job[b].pc # "rest" =>
                  /\ Stale(job, n)[b].op = job[b].op /\ Stale(job, n)[b].name = job[b].name
                  /\ Stale(job, n)[b].launch = job[b].launch
                  /\ Stale(job, n)[b].status = job[b].status
                  /\ Stale(job, n)[b].saw = job[b].saw
                  /\ Stale(job, n)[b].fresh => job[b].fresh
                  /\ job[b].pc \in {"observed", "release"} /\ job[b].name = n
                       => ~Stale(job, n)[b].fresh
  <2>1. CASE job[b].pc \in {"observed", "release"} /\ job[b].name = n
    <3> DEFINE k == [job[b] EXCEPT !.fresh = FALSE]
    <3>1. job[b] \in Job /\ Stale(job, n)[b] = k
      BY <1>2, <1>3, <2>1
    <3>2. /\ k \in Job /\ k.pc = job[b].pc /\ k.op = job[b].op /\ k.name = job[b].name
          /\ k.launch = job[b].launch /\ k.status = job[b].status /\ k.saw = job[b].saw /\ ~k.fresh
      BY <1>1, <3>1
    <3> HIDE DEF k
    <3> QED BY <3>1, <3>2
  <2>2. CASE ~(job[b].pc \in {"observed", "release"} /\ job[b].name = n)
    BY <1>2, <1>3, <2>2
  <2> QED BY <2>1, <2>2
<1>5. Stale(job, n) \in [Actors -> Job \cup {Resting}]
  BY <1>4 DEF Stale
<1> QED BY <1>4, <1>5

LEMMA WroteOthers ==
    ASSUME SupervisorInv, NEW a \in Actors, NEW n \in Resources, Free \/ mutex = a,
           \A b \in Actors \ {a} : job'[b] = Stale(job, n)[b],
           \A m \in Resources \ {n} : record'[m] = record[m]
    PROVE  \A b \in Actors \ {a} : JobOK(b)'
<1> TAKE b \in Actors \ {a}
<1>1. Kept(b)
  BY StaleFacts DEF Kept
<1>2. job[b].pc # "rest" => job[b].name \in Resources
  BY SupervisorFacts DEF Job
<1>3. Aged(b)
  BY <1>2, StaleFacts DEF Aged
<1> QED BY <1>1, <1>3, ExclusiveKeeps

LEMMA SameOthers ==
    ASSUME SupervisorInv, NEW a \in Actors, Free \/ mutex = a, record' = record,
           \A b \in Actors \ {a} : job'[b] = job[b]
    PROVE  \A b \in Actors \ {a} : JobOK(b)'
<1> TAKE b \in Actors \ {a}
<1>1. Kept(b) /\ Aged(b)
  BY DEF Kept, Aged
<1> QED BY <1>1, ExclusiveKeeps

\* Processes and containers may go, ghosts may grow.
Loses ==
    /\ launchers' \cup strays' \subseteq launchers \cup strays
    /\ \A nd \in Nodes :
         onNode'[nd] # NoRecord => onNode[nd] # NoRecord /\ onNode'[nd].by = onNode[nd].by
    /\ orphaned \subseteq orphaned' /\ late \subseteq late' /\ unverified \subseteq unverified'
    /\ \A c \in arriving' : c.by \in late'

\* A launch whose record no longer holds the nodes is orphaned, or nothing of it lives.
Released(l) ==
    \/ l \in orphaned'
    \/ /\ l \notin launchers' \cup strays'
       /\ \A nd \in Nodes : onNode'[nd] # NoRecord /\ onNode'[nd].by = l => l \in unverified'

LEMMA ContainmentKeeps ==
    ASSUME SupervisorInv, Loses, \A l \in Launches : Holds(l) => Holds(l)' \/ Released(l)
    PROVE  FencedBeforeRelease' /\ StoppedIsClean' /\ Escaped'
<1>1. FencedBeforeRelease /\ StoppedIsClean
  BY DEF SupervisorInv, HostOK
<1>2. \A nd \in Nodes : onNode[nd] # NoRecord => onNode[nd].by \in Launches
  BY SupervisorFacts DEF NodeContainer
<1>3. FencedBeforeRelease'
  <2> SUFFICES ASSUME NEW l \in Launches, Alive(l)' PROVE (Holds(l) \/ l \in orphaned)'
    BY DEF FencedBeforeRelease, Launches
  <2>1. Holds(l) \/ l \in orphaned
    BY <1>1 DEF FencedBeforeRelease, Loses, Alive
  <2> QED BY <2>1 DEF Released, Loses, Alive
<1>4. StoppedIsClean'
  <2> SUFFICES ASSUME NEW nd \in Nodes, onNode'[nd] # NoRecord
               PROVE  (Holds(onNode[nd].by) \/ onNode[nd].by \in orphaned \cup late \cup unverified)'
    BY DEF StoppedIsClean
  <2>1. onNode[nd] # NoRecord /\ onNode'[nd].by = onNode[nd].by /\ onNode[nd].by \in Launches
    BY <1>2 DEF Loses
  <2>2. Holds(onNode[nd].by) \/ onNode[nd].by \in orphaned \cup late \cup unverified
    BY <1>1, <2>1 DEF StoppedIsClean
  <2>3. CASE Holds(onNode[nd].by)
    BY <2>1, <2>3 DEF Released
  <2>4. CASE onNode[nd].by \in orphaned \cup late \cup unverified
    BY <2>1, <2>4 DEF Loses
  <2> QED BY <2>2, <2>3, <2>4
<1> QED BY <1>3, <1>4 DEF Escaped, Loses

LEMMA StatusFacts ==
    ASSUME SupervisorInv, NEW n \in Resources, record[n] # NoRecord, NEW status \in Statuses,
           Writes(n, status)
    PROVE  /\ record' \in [Resources -> Record \cup {NoRecord}]
           /\ record'[n] # NoRecord /\ record'[n].status = status
           /\ record'[n].launch = record[n].launch
           /\ \A m \in Resources : m # n => record'[m] = record[m]
<1> DEFINE r == [record[n] EXCEPT !.status = status]
<1>1. record[n] \in Record
  BY SupervisorFacts
<1>2. r \in Record /\ r.status = status /\ r.launch = record[n].launch
  BY <1>1 DEF Record
<1>3. record' = [record EXCEPT ![n] = r]
  BY DEF Writes
<1> HIDE DEF r
<1> QED BY <1>2, <1>3, SupervisorFacts, AbsenceAssumption

\* Another status of a record that is there.
LEMMA StatusKeepsHost ==
    ASSUME SupervisorInv, NEW n \in Resources, record[n] # NoRecord, NEW status \in Statuses,
           Writes(n, status), UNCHANGED <<recipeEnv, starts, revived>>, Loses,
           n \in Heads /\ status = "stopped" => Released(record[n].launch)
    PROVE  HostOK'
<1>1. /\ record'[n] # NoRecord /\ record'[n].status = status /\ record'[n].launch = record[n].launch
      /\ \A m \in Resources : m # n => record'[m] = record[m]
  BY StatusFacts
<1>2. HostOK /\ Heads \subseteq Resources
  BY DEF SupervisorInv, Resources
<1>3. HeadLaunches' /\ OneRecord'
  BY <1>1, <1>2 DEF HostOK, HeadLaunches, OneRecord
<1>4. LastLaunch'
  BY <1>2, SupervisorFacts DEF HostOK, LastLaunch, Loses, Alive
<1>5. \A l \in Launches : Holds(l) => Holds(l)' \/ Released(l)
  BY <1>1, <1>2 DEF Holds
<1> QED BY <1>3, <1>4, <1>5, ContainmentKeeps DEF HostOK

-----------------------------------------------------------------------------
\* What an actor's next step does to its own job.

Labels == {"preflight", "observe", "observed", "decide", "stop", "fence", "inspect", "clear",
           "settle", "create", "remove", "relaunch", "record", "start", "probe", "ready",
           "release", "waiting", "expired"}
Jobs == [Actors -> Job \cup {Resting}]

Turns(jobs, a, label, launch, status, fresh, saw) ==
    /\ job' \in Jobs /\ job'[a] \in Job /\ job'[a].pc = label
    /\ job'[a].op = jobs[a].op /\ job'[a].name = jobs[a].name
    /\ job'[a].launch = launch /\ job'[a].status = status /\ job'[a].fresh = fresh
    /\ job'[a].saw = saw
    /\ \A b \in Actors \ {a} : job'[b] = jobs[b]

LEMMA FieldFacts ==
    ASSUME NEW j \in Job
    PROVE  /\ \A x \in Labels : LET k == [j EXCEPT !.pc = x] IN
                k \in Job /\ k.pc = x /\ k.op = j.op /\ k.name = j.name /\ k.launch = j.launch
                /\ k.status = j.status /\ k.fresh = j.fresh /\ k.saw = j.saw
           /\ \A x \in 0 .. MaxStarts : LET k == [j EXCEPT !.launch = x] IN
                k \in Job /\ k.pc = j.pc /\ k.op = j.op /\ k.name = j.name /\ k.launch = x
                /\ k.status = j.status /\ k.fresh = j.fresh /\ k.saw = j.saw
           /\ \A x \in Statuses : LET k == [j EXCEPT !.status = x] IN
                k \in Job /\ k.pc = j.pc /\ k.op = j.op /\ k.name = j.name /\ k.launch = j.launch
                /\ k.status = x /\ k.fresh = j.fresh /\ k.saw = j.saw
           /\ \A x \in BOOLEAN : LET k == [j EXCEPT !.fresh = x] IN
                k \in Job /\ k.pc = j.pc /\ k.op = j.op /\ k.name = j.name /\ k.launch = j.launch
                /\ k.status = j.status /\ k.fresh = x /\ k.saw = j.saw
           /\ \A x \in SUBSET Nodes : LET k == [j EXCEPT !.saw = x] IN
                k \in Job /\ k.pc = j.pc /\ k.op = j.op /\ k.name = j.name /\ k.launch = j.launch
                /\ k.status = j.status /\ k.fresh = j.fresh /\ k.saw = x
<1>1. \A x \in Labels : LET k == [j EXCEPT !.pc = x] IN
        k \in Job /\ k.pc = x /\ k.op = j.op /\ k.name = j.name /\ k.launch = j.launch
        /\ k.status = j.status /\ k.fresh = j.fresh /\ k.saw = j.saw
  BY DEF Job, Labels
<1>2. \A x \in 0 .. MaxStarts : LET k == [j EXCEPT !.launch = x] IN
        k \in Job /\ k.pc = j.pc /\ k.op = j.op /\ k.name = j.name /\ k.launch = x
        /\ k.status = j.status /\ k.fresh = j.fresh /\ k.saw = j.saw
  BY DEF Job
<1>3. \A x \in Statuses : LET k == [j EXCEPT !.status = x] IN
        k \in Job /\ k.pc = j.pc /\ k.op = j.op /\ k.name = j.name /\ k.launch = j.launch
        /\ k.status = x /\ k.fresh = j.fresh /\ k.saw = j.saw
  BY DEF Job
<1>4. \A x \in BOOLEAN : LET k == [j EXCEPT !.fresh = x] IN
        k \in Job /\ k.pc = j.pc /\ k.op = j.op /\ k.name = j.name /\ k.launch = j.launch
        /\ k.status = j.status /\ k.fresh = x /\ k.saw = j.saw
  BY DEF Job
<1>5. \A x \in SUBSET Nodes : LET k == [j EXCEPT !.saw = x] IN
        k \in Job /\ k.pc = j.pc /\ k.op = j.op /\ k.name = j.name /\ k.launch = j.launch
        /\ k.status = j.status /\ k.fresh = j.fresh /\ k.saw = x
  BY DEF Job
<1> QED BY <1>1, <1>2, <1>3, <1>4, <1>5

LEMMA JobUpdated ==
    ASSUME NEW jobs \in Jobs, NEW a \in Actors, NEW k \in Job \cup {Resting},
           job' = [jobs EXCEPT ![a] = k]
    PROVE  job' \in Jobs /\ job'[a] = k /\ \A b \in Actors \ {a} : job'[b] = jobs[b]
BY DEF Jobs

LEMMA Rests ==
    ASSUME NEW jobs \in Jobs, NEW a \in Actors, job' = Ending(a, jobs)
    PROVE  /\ job' \in Jobs /\ job'[a].pc = "rest" /\ job'[a] = Resting
           /\ \A b \in Actors \ {a} : job'[b] = jobs[b]
BY JobUpdated, RestFacts DEF Ending

LEMMA TurnsTo ==
    ASSUME NEW jobs \in Jobs, NEW a \in Actors, jobs[a] \in Job, NEW x \in Labels,
           job' = [jobs EXCEPT ![a].pc = x]
    PROVE  Turns(jobs, a, x, jobs[a].launch, jobs[a].status, jobs[a].fresh, jobs[a].saw)
<1> DEFINE k == [jobs[a] EXCEPT !.pc = x]
<1>1. /\ k \in Job /\ k.pc = x /\ k.op = jobs[a].op /\ k.name = jobs[a].name
      /\ k.launch = jobs[a].launch /\ k.status = jobs[a].status /\ k.fresh = jobs[a].fresh
      /\ k.saw = jobs[a].saw
  BY FieldFacts
<1>2. job' = [jobs EXCEPT ![a] = k]
  OBVIOUS
<1> HIDE DEF k
<1>3. k \in Job \cup {Resting}
  BY <1>1
<1>4. job' \in Jobs /\ job'[a] = k /\ \A b \in Actors \ {a} : job'[b] = jobs[b]
  BY <1>2, <1>3, JobUpdated
<1> QED BY <1>1, <1>4 DEF Turns

LEMMA TurnsWithLaunch ==
    ASSUME NEW jobs \in Jobs, NEW a \in Actors, jobs[a] \in Job, NEW x \in Labels,
           NEW l \in 0 .. MaxStarts, job' = [jobs EXCEPT ![a].pc = x, ![a].launch = l]
    PROVE  Turns(jobs, a, x, l, jobs[a].status, jobs[a].fresh, jobs[a].saw)
<1> DEFINE j == [jobs[a] EXCEPT !.pc = x]
           k == [j EXCEPT !.launch = l]
<1>1. /\ j \in Job /\ j.pc = x /\ j.op = jobs[a].op /\ j.name = jobs[a].name
      /\ j.launch = jobs[a].launch /\ j.status = jobs[a].status /\ j.fresh = jobs[a].fresh
      /\ j.saw = jobs[a].saw
  BY FieldFacts
<1>2. job' = [jobs EXCEPT ![a] = [j EXCEPT !.launch = l]]
  OBVIOUS
<1> HIDE DEF j
<1>3. /\ k \in Job /\ k.pc = x /\ k.op = jobs[a].op /\ k.name = jobs[a].name
      /\ k.launch = l /\ k.status = jobs[a].status /\ k.fresh = jobs[a].fresh
      /\ k.saw = jobs[a].saw
  BY <1>1, FieldFacts
<1>4. job' = [jobs EXCEPT ![a] = k]
  BY <1>2, Zenon
<1> HIDE DEF k
<1>5. k \in Job \cup {Resting}
  BY <1>3
<1>6. job' \in Jobs /\ job'[a] = k /\ \A b \in Actors \ {a} : job'[b] = jobs[b]
  BY <1>4, <1>5, JobUpdated
<1> QED BY <1>3, <1>6 DEF Turns

LEMMA TurnsWithSaw ==
    ASSUME NEW jobs \in Jobs, NEW a \in Actors, jobs[a] \in Job, NEW x \in Labels,
           NEW S \in SUBSET Nodes, job' = [jobs EXCEPT ![a].pc = x, ![a].saw = S]
    PROVE  Turns(jobs, a, x, jobs[a].launch, jobs[a].status, jobs[a].fresh, S)
<1> DEFINE j == [jobs[a] EXCEPT !.pc = x]
           k == [j EXCEPT !.saw = S]
<1>1. /\ j \in Job /\ j.pc = x /\ j.op = jobs[a].op /\ j.name = jobs[a].name
      /\ j.launch = jobs[a].launch /\ j.status = jobs[a].status /\ j.fresh = jobs[a].fresh
      /\ j.saw = jobs[a].saw
  BY FieldFacts
<1>2. job' = [jobs EXCEPT ![a] = [j EXCEPT !.saw = S]]
  OBVIOUS
<1> HIDE DEF j
<1>3. /\ k \in Job /\ k.pc = x /\ k.op = jobs[a].op /\ k.name = jobs[a].name
      /\ k.launch = jobs[a].launch /\ k.status = jobs[a].status /\ k.fresh = jobs[a].fresh
      /\ k.saw = S
  BY <1>1, FieldFacts
<1>4. job' = [jobs EXCEPT ![a] = k]
  BY <1>2, Zenon
<1> HIDE DEF k
<1>5. k \in Job \cup {Resting}
  BY <1>3
<1>6. job' \in Jobs /\ job'[a] = k /\ \A b \in Actors \ {a} : job'[b] = jobs[b]
  BY <1>4, <1>5, JobUpdated
<1> QED BY <1>3, <1>6 DEF Turns

\* What was observed: the two orders in which the code above states the fields.
LEMMA TurnsWithReading ==
    ASSUME NEW jobs \in Jobs, NEW a \in Actors, jobs[a] \in Job, NEW x \in Labels,
           NEW l \in 0 .. MaxStarts, NEW st \in Statuses, NEW f \in BOOLEAN,
           \/ job' = [jobs EXCEPT ![a].pc = x, ![a].launch = l, ![a].fresh = f, ![a].status = st]
           \/ job' = [jobs EXCEPT ![a].pc = x, ![a].launch = l, ![a].status = st, ![a].fresh = f]
    PROVE  Turns(jobs, a, x, l, st, f, jobs[a].saw)
<1> DEFINE i == [jobs[a] EXCEPT !.pc = x]
           j == [i EXCEPT !.launch = l]
           m == [j EXCEPT !.status = st]
           k == [m EXCEPT !.fresh = f]
<1>1. job' = [jobs EXCEPT ![a] = k]
  OBVIOUS
<1>2. /\ i \in Job /\ i.pc = x /\ i.op = jobs[a].op /\ i.name = jobs[a].name /\ i.saw = jobs[a].saw
  BY FieldFacts
<1> HIDE DEF i
<1>3. /\ j \in Job /\ j.pc = x /\ j.op = jobs[a].op /\ j.name = jobs[a].name /\ j.saw = jobs[a].saw
      /\ j.launch = l
  BY <1>2, FieldFacts
<1> HIDE DEF j
<1>4. /\ m \in Job /\ m.pc = x /\ m.op = jobs[a].op /\ m.name = jobs[a].name /\ m.saw = jobs[a].saw
      /\ m.launch = l /\ m.status = st
  BY <1>3, FieldFacts
<1> HIDE DEF m
<1>5. /\ k \in Job /\ k.pc = x /\ k.op = jobs[a].op /\ k.name = jobs[a].name /\ k.saw = jobs[a].saw
      /\ k.launch = l /\ k.status = st /\ k.fresh = f
  BY <1>4, FieldFacts
<1> HIDE DEF k
<1>6. k \in Job \cup {Resting}
  BY <1>5
<1>7. job' \in Jobs /\ job'[a] = k /\ \A b \in Actors \ {a} : job'[b] = jobs[b]
  BY <1>1, <1>6, JobUpdated
<1> QED BY <1>5, <1>7 DEF Turns

-----------------------------------------------------------------------------
\* Steps that only move an actor.

LEMMA RestingOK == ASSUME NEW a \in Actors, job'[a].pc = "rest" PROVE JobOK(a)'
BY DEF JobOK

\* Steps at which an actor has nothing it relies on.
LightLabels == {"preflight", "create", "observe", "decide", "stop", "expired", "probe", "ready",
                "remove", "relaunch", "waiting"}
LEMMA LightOK ==
    ASSUME NEW a \in Actors, job'[a].pc \in LightLabels, OpFits(job'[a].op, job'[a].pc)
    PROVE  JobOK(a)'
BY DEF JobOK, LightLabels, StopHolds, LaunchHolds, StopOK, LaunchOK, ReadOK

LEMMA JobOnly ==
    ASSUME SupervisorInv, NEW a \in Actors,
           UNCHANGED <<record, recipeEnv, memory, nodeVars, mutex, starts, orphaned, late, unverified,
                       revived>>,
           asks' \in Nat, mishaps' \in Nat, job' \in Jobs,
           \A b \in Actors \ {a} : job'[b] = job[b], JobOK(a)'
    PROVE  SupervisorInv'
<1>1. /\ UNCHANGED <<record, recipeEnv, memory, mutex, starts, orphaned, late, unverified, revived>>
      /\ UNCHANGED <<launchers, strays, arriving, onNode>>
  BY DEF nodeVars
<1>2. \A b \in Actors : JobOK(b)'
  BY <1>1, QuietKeeps
<1>3. SupervisorTypeOK'
  BY <1>1 DEF SupervisorInv, SupervisorTypeOK, Jobs
<1>4. HostOK'
  BY <1>1 DEF SupervisorInv, HostOK, HeadLaunches, OneRecord, LastLaunch, Escaped,
              FencedBeforeRelease, StoppedIsClean, Holds, Alive
<1> QED BY <1>2, <1>3, <1>4 DEF SupervisorInv

LEMMA JobFacts ==
    ASSUME SupervisorInv, NEW a \in Actors, job[a].pc # "rest"
    PROVE  /\ job \in Jobs /\ job[a] \in Job /\ JobOK(a) /\ OpFits(job[a].op, job[a].pc)
           /\ job[a].name \in Resources /\ job[a].launch \in 0 .. MaxStarts
           /\ job[a].status \in Statuses /\ job[a].fresh \in BOOLEAN /\ job[a].saw \in SUBSET Nodes
           /\ record[job[a].name] \in Record \cup {NoRecord}
<1>1. job[a] \in Job /\ JobOK(a) /\ job \in Jobs
  BY SupervisorFacts DEF Jobs
<1> QED BY <1>1, SupervisorFacts DEF JobOK, Job

LEMMA RestsOnly ==
    ASSUME SupervisorInv, NEW a \in Actors, Finish(a),
           UNCHANGED <<record, recipeEnv, memory, nodeVars, mutex, starts, orphaned, late, unverified,
                       revived>>,
           asks' \in Nat, mishaps' \in Nat
    PROVE  SupervisorInv'
<1>1. job \in Jobs
  BY SupervisorFacts DEF Jobs
<1>2. job' \in Jobs /\ job'[a].pc = "rest" /\ \A b \in Actors \ {a} : job'[b] = job[b]
  BY <1>1, Rests DEF Finish
<1> QED BY <1>2, RestingOK, JobOnly

StopOps == {"stop", "remove", "restart", "supervise", "wait"}
LEMMA StopDoneFacts ==
    ASSUME NEW a \in Actors, NEW jobs \in Jobs, jobs[a] \in Job, jobs[a].op = job[a].op,
           job[a].op \in StopOps, job' = StopDone(a, jobs)
    PROVE  job' \in Jobs /\ JobOK(a)' /\ \A b \in Actors \ {a} : job'[b] = jobs[b]
<1>1. CASE job[a].op \in {"stop", "supervise", "wait"}
  <2>1. job' = Ending(a, jobs)
    BY <1>1 DEF StopDone, AfterStop
  <2> QED BY <2>1, Rests, RestingOK
<1>2. ASSUME NEW x \in {"remove", "relaunch"}, OpFits(job[a].op, x), AfterStop(job[a].op) = x
      PROVE  job' \in Jobs /\ JobOK(a)' /\ \A b \in Actors \ {a} : job'[b] = jobs[b]
  <2>1. job' = [jobs EXCEPT ![a].pc = x]
    BY <1>2 DEF StopDone
  <2>2. Turns(jobs, a, x, jobs[a].launch, jobs[a].status, jobs[a].fresh, jobs[a].saw)
    BY <2>1, TurnsTo DEF Labels
  <2> QED BY <1>2, <2>2, LightOK DEF Turns, LightLabels
<1>3. CASE job[a].op = "remove"
  <2>1. AfterStop(job[a].op) = "remove" /\ OpFits(job[a].op, "remove")
    BY <1>3 DEF AfterStop, OpFits, StopHolds, LaunchHolds
  <2> QED BY <1>2, <2>1
<1>4. CASE job[a].op = "restart"
  <2>1. AfterStop(job[a].op) = "relaunch" /\ OpFits(job[a].op, "relaunch")
    BY <1>4 DEF AfterStop, OpFits, StopHolds, LaunchHolds
  <2> QED BY <1>2, <2>1
<1> QED BY <1>1, <1>3, <1>4 DEF StopOps

LEMMA AskKeeps ==
    ASSUME SupervisorInv, NEW t \in Requesters, NEW n \in Resources,
           NEW op \in {"create", "stop", "restart", "remove", "test"}, Ask(t, op, n)
    PROVE  SupervisorInv'
<1> DEFINE j == [op |-> op, pc |-> IF op = "create" THEN "preflight" ELSE "observe", name |-> n,
                 launch |-> 0, status |-> "stopped", fresh |-> FALSE, saw |-> {}]
<1>1. t \in Actors /\ job \in Jobs /\ asks' \in Nat /\ mishaps' \in Nat
  BY SupervisorFacts DEF Actors, Jobs, Ask
<1>2. j \in Job /\ j.pc \in {"preflight", "observe"} /\ OpFits(j.op, j.pc)
  <2>1. /\ j.pc = IF op = "create" THEN "preflight" ELSE "observe"
        /\ j.op = op /\ j \in Job
    BY SupervisorAssumption DEF Job, Statuses
  <2> QED BY <2>1 DEF OpFits, StopHolds, LaunchHolds
<1>3. job' = [job EXCEPT ![t] = j]
  BY DEF Ask
<1> HIDE DEF j
<1>4. job' \in Jobs /\ job'[t] = j /\ \A b \in Actors \ {t} : job'[b] = job[b]
  BY <1>1, <1>2, <1>3, JobUpdated
<1>5. JobOK(t)'
  BY <1>1, <1>2, <1>4, LightOK DEF LightLabels
<1> QED BY <1>1, <1>4, <1>5, JobOnly DEF Ask

LEMMA AfterObservingFacts ==
    ASSUME NEW op \in {"stop", "restart", "remove", "test"}
    PROVE  /\ AfterObserving(op) \in LightLabels /\ AfterObserving(op) \in Labels
           /\ OpFits(op, AfterObserving(op))
<1>1. CASE op = "stop"
  BY <1>1 DEF AfterObserving, LightLabels, Labels, OpFits, StopHolds, LaunchHolds
<1>2. CASE op \in {"restart", "remove"}
  BY <1>2 DEF AfterObserving, LightLabels, Labels, OpFits, StopHolds, LaunchHolds
<1>3. CASE op = "test"
  BY <1>3 DEF AfterObserving, LightLabels, Labels, OpFits, StopHolds, LaunchHolds
<1> QED BY <1>1, <1>2, <1>3

LEMMA ObserveKeeps ==
    ASSUME SupervisorInv, NEW t \in Requesters, Observe(t)
    PROVE  SupervisorInv'
<1>1. t \in Actors /\ job[t].pc # "rest" /\ asks' \in Nat /\ mishaps' \in Nat
  BY SupervisorFacts DEF Actors, Observe, At, ghosts, ghostsOnly
<1>2. /\ job \in Jobs /\ job[t] \in Job /\ job[t].name \in Resources
      /\ job[t].op \in {"stop", "restart", "remove", "test"}
      /\ record[job[t].name] \in Record \cup {NoRecord}
  BY <1>1, JobFacts DEF OpFits, Observe, At
<1>3. CASE Finish(t)
  BY <1>1, <1>3, RestsOnly DEF Observe, ghosts, ghostsOnly
<1>4. CASE record[job[t].name] = NoRecord
  BY <1>3, <1>4 DEF Observe, Rec
<1> DEFINE l == record[job[t].name].launch
           x == AfterObserving(job[t].op)
<1>5. CASE record[job[t].name] # NoRecord /\ job' = [job EXCEPT ![t].pc = x, ![t].launch = l]
  <2>1. l \in 0 .. MaxStarts /\ x \in Labels /\ x \in LightLabels /\ OpFits(job[t].op, x)
    BY <1>2, <1>5, AfterObservingFacts DEF Record
  <2> HIDE DEF l, x
  <2>2. Turns(job, t, x, l, job[t].status, job[t].fresh, job[t].saw)
    BY <1>1, <1>2, <1>5, <2>1, TurnsWithLaunch
  <2>3. job' \in Jobs /\ JobOK(t)' /\ \A b \in Actors \ {t} : job'[b] = job[b]
    BY <1>1, <2>1, <2>2, LightOK DEF Turns
  <2> QED BY <1>1, <2>3, JobOnly DEF Observe, ghosts, ghostsOnly
<1>6. ASSUME NEW st \in Statuses \ {"stopped"}, record[job[t].name] # NoRecord,
             record[job[t].name].status # "stopped",
             job' = [job EXCEPT ![t].pc = "observed", ![t].launch = l, ![t].fresh = TRUE,
                                ![t].status = st]
      PROVE  SupervisorInv'
  <2>1. l \in 0 .. MaxStarts
    BY <1>2, <1>6 DEF Record
  <2> HIDE DEF l
  <2>2. Turns(job, t, "observed", l, st, TRUE, job[t].saw)
    BY <1>1, <1>2, <1>6, <2>1, TurnsWithReading DEF Labels
  <2>3. UNCHANGED record
    BY DEF Observe
  <2>4. OpFits(job[t].op, "observed")
    BY <1>2 DEF OpFits, StopHolds, LaunchHolds
  <2>5. JobOK(t)'
    BY <1>2, <1>6, <2>2, <2>3, <2>4 DEF Turns, JobOK, StopHolds, LaunchHolds, StopOK, LaunchOK, ReadOK
  <2>6. job' \in Jobs /\ \A b \in Actors \ {t} : job'[b] = job[b]
    BY <2>2 DEF Turns
  <2> QED BY <1>1, <2>5, <2>6, JobOnly DEF Observe, ghosts, ghostsOnly
<1>7. CASE /\ record[job[t].name] # NoRecord /\ record[job[t].name].status \in {"starting", "running"}
           /\ ~Finish(t)
           /\ ~(job' = [job EXCEPT ![t].pc = x, ![t].launch = l])
  <2> DEFINE st == IF BothUp THEN "running"
                   ELSE IF record[job[t].name].status = "running" THEN "failed"
                   ELSE record[job[t].name].status
  <2>1. st \in Statuses \ {"stopped"}
    BY <1>7 DEF Statuses
  <2>2. job' = [job EXCEPT ![t].pc = "observed", ![t].launch = l, ![t].fresh = TRUE, ![t].status = st]
    BY <1>7 DEF Observe, Rec
  <2> HIDE DEF st
  <2> QED BY <1>6, <1>7, <2>1, <2>2
<1> QED BY <1>3, <1>4, <1>5, <1>7 DEF Observe, Rec

\* Other parts, typed.
RestTyped ==
    /\ memory' \in [Resources -> 0 .. MaxStarts]
    /\ launchers' \subseteq Launches /\ strays' \subseteq Launches
    /\ arriving' \subseteq [node: Nodes, launch: Launches, by: Launches]
    /\ onNode' \in [Nodes -> NodeContainer \cup {NoRecord}]
    /\ orphaned' \subseteq Launches /\ late' \subseteq Launches /\ unverified' \subseteq Launches
    /\ asks' \in Nat /\ mishaps' \in Nat

LEMMA RestSame ==
    ASSUME SupervisorInv, UNCHANGED <<launchers, strays, arriving, onNode, orphaned, late, unverified, asks>>,
           memory' \in [Resources -> 0 .. MaxStarts], mishaps' \in Nat
    PROVE  RestTyped /\ Loses
<1>1. RestTyped
  BY SupervisorFacts DEF RestTyped
<1>2. Escaped
  BY DEF SupervisorInv, HostOK
<1> QED BY <1>1, <1>2 DEF Loses, Escaped

\* A step that writes the status of a record that is there.
LEMMA WritesKeep ==
    ASSUME SupervisorInv, NEW a \in Actors, Free \/ mutex = a, NEW n \in Resources,
           record[n] # NoRecord, NEW status \in Statuses, Writes(n, status),
           n \in Heads /\ status = "stopped" => Released(record[n].launch),
           Loses, RestTyped, UNCHANGED <<recipeEnv, starts, revived>>, mutex' \in Actors \cup {Unlocked},
           job' \in Jobs, \A b \in Actors \ {a} : job'[b] = Stale(job, n)[b], JobOK(a)'
    PROVE  SupervisorInv'
<1>1. /\ record' \in [Resources -> Record \cup {NoRecord}]
      /\ \A m \in Resources \ {n} : record'[m] = record[m]
  BY StatusFacts
<1>2. \A b \in Actors : JobOK(b)'
  BY <1>1, WroteOthers
<1>3. HostOK'
  BY StatusKeepsHost
<1>4. SupervisorTypeOK'
  BY <1>1, SupervisorFacts DEF SupervisorTypeOK, RestTyped, Jobs
<1> QED BY <1>2, <1>3, <1>4 DEF SupervisorInv

\* A step that puts another record, or none, in the place of one.
LEMMA ReplacesKeep ==
    ASSUME SupervisorInv, NEW a \in Actors, Free \/ mutex = a, NEW n \in Resources,
           NEW r \in Record \cup {NoRecord}, record' = [record EXCEPT ![n] = r],
           n \in Heads /\ r # NoRecord => r.launch # 0,
           ~revived' => \/ ~revived /\ (r # NoRecord => record[n] # NoRecord)
                        \/ \A m \in Resources \ {n} : record[m] = NoRecord,
           \A l \in Launches : Holds(l) => Holds(l)' \/ Released(l),
           Loses, RestTyped, UNCHANGED <<recipeEnv, starts>>, revived' \in BOOLEAN,
           mutex' \in Actors \cup {Unlocked},
           job' \in Jobs, \A b \in Actors \ {a} : job'[b] = Stale(job, n)[b], JobOK(a)'
    PROVE  SupervisorInv'
<1>1. /\ record' \in [Resources -> Record \cup {NoRecord}] /\ record'[n] = r
      /\ \A m \in Resources \ {n} : record'[m] = record[m]
  BY SupervisorFacts
<1>2. \A b \in Actors : JobOK(b)'
  BY <1>1, WroteOthers
<1>3. HostOK'
  <2>1. HostOK /\ Heads \subseteq Resources
    BY DEF SupervisorInv, Resources
  <2>2. HeadLaunches'
    BY <1>1, <2>1 DEF HostOK, HeadLaunches
  <2>3. OneRecord'
    BY <1>1, <2>1 DEF HostOK, OneRecord
  <2>4. LastLaunch'
    BY <2>1 DEF HostOK, LastLaunch, Loses
  <2> QED BY <2>2, <2>3, <2>4, ContainmentKeeps DEF HostOK
<1>4. SupervisorTypeOK'
  BY <1>1, SupervisorFacts DEF SupervisorTypeOK, RestTyped, Jobs
<1> QED BY <1>2, <1>3, <1>4 DEF SupervisorInv

LEMMA ContinuesFacts ==
    ASSUME SupervisorInv, NEW a \in Actors, NEW jobs \in Jobs, jobs[a] \in Job, jobs[a].op = job[a].op,
           job[a].op \in {"stop", "restart", "remove", "test", "supervise"}, job[a].name \in Resources,
           Rec(a) # NoRecord, job' = Continues(a, jobs)
    PROVE  job' \in Jobs /\ JobOK(a)' /\ \A b \in Actors \ {a} : job'[b] = jobs[b]
<1>1. CASE job[a].op = "supervise"
  <2>1. job' = Ending(a, jobs)
    BY <1>1 DEF Continues
  <2> QED BY <2>1, Rests, RestingOK
<1>2. CASE job[a].op # "supervise"
  <2> DEFINE x == AfterObserving(job[a].op)
             l == Rec(a).launch
  <2>1. /\ x \in Labels /\ x \in LightLabels /\ OpFits(job[a].op, x) /\ l \in 0 .. MaxStarts
        /\ "stopped" \in Statuses
    BY <1>2, SupervisorFacts, AfterObservingFacts DEF Record, Rec, Statuses
  <2>2. job' = [jobs EXCEPT ![a].pc = x, ![a].launch = l, ![a].status = "stopped", ![a].fresh = FALSE]
    BY <1>2 DEF Continues
  <2> HIDE DEF x, l
  <2>3. Turns(jobs, a, x, l, "stopped", FALSE, jobs[a].saw)
    BY <2>1, <2>2, TurnsWithReading
  <2> QED BY <2>1, <2>3, LightOK DEF Turns
<1> QED BY <1>1, <1>2

LEMMA CompareAndWriteKeeps ==
    ASSUME SupervisorInv, NEW a \in Actors, CompareAndWrite(a)
    PROVE  SupervisorInv'
<1> DEFINE n == job[a].name
<1>1. /\ job[a].pc = "observed" /\ Free
      /\ UNCHANGED <<recipeEnv, memory, nodeVars, mutex, starts, asks, orphaned, late, unverified,
                     revived, mishaps>>
      /\ UNCHANGED <<launchers, strays, arriving, onNode>>
  BY DEF CompareAndWrite, At, ghosts, ghostsOnly, nodeVars
<1>2. /\ job \in Jobs /\ job[a] \in Job /\ n \in Resources /\ JobOK(a)
      /\ job[a].op \in {"stop", "restart", "remove", "test", "supervise"} /\ job[a].status \in Statuses
      /\ asks' \in Nat /\ mishaps' \in Nat
  BY <1>1, JobFacts, SupervisorFacts DEF OpFits
<1>3. CASE Finish(a) /\ UNCHANGED record
  BY <1>1, <1>2, <1>3, RestsOnly
<1>4. CASE Rec(a) # NoRecord /\ job' = Continues(a, job) /\ UNCHANGED record
  <2>1. job' \in Jobs /\ JobOK(a)' /\ \A b \in Actors \ {a} : job'[b] = job[b]
    BY <1>2, <1>4, ContinuesFacts
  <2> QED BY <1>1, <1>2, <1>4, <2>1, JobOnly
<1>5. CASE /\ Rec(a) # NoRecord /\ job[a].fresh
           /\ Writes(n, job[a].status) /\ job' = Continues(a, Stale(job, n))
  <2>1. Stale(job, n) \in Jobs /\ Stale(job, n)[a] \in Job /\ Stale(job, n)[a].op = job[a].op
    BY <1>1, <1>2, StaleFacts, RestFacts DEF Jobs
  <2>2. job' \in Jobs /\ JobOK(a)' /\ \A b \in Actors \ {a} : job'[b] = Stale(job, n)[b]
    BY <1>2, <1>5, <2>1, ContinuesFacts
  <2>3. RestTyped /\ Loses
    BY <1>1, <1>2, RestSame, SupervisorFacts
  <2>4. job[a].status # "stopped" /\ mutex' \in Actors \cup {Unlocked} /\ record[n] # NoRecord
    BY <1>1, <1>2, <1>5, SupervisorFacts DEF JobOK, ReadOK, Rec
  <2> QED BY <1>1, <1>2, <1>5, <2>2, <2>3, <2>4, WritesKeep
<1> QED BY <1>3, <1>4, <1>5 DEF CompareAndWrite

LEMMA DecideKeeps ==
    ASSUME SupervisorInv, NEW t \in Requesters, Decide(t)
    PROVE  SupervisorInv'
<1>1. t \in Actors /\ job[t].pc = "decide" /\ asks' \in Nat /\ mishaps' \in Nat
  BY SupervisorFacts DEF Actors, Decide, At, ghosts, ghostsOnly
<1>2. /\ job \in Jobs /\ job[t] \in Job /\ job[t].op \in {"restart", "remove"}
      /\ Rec(t) \in Record \cup {NoRecord}
  BY <1>1, JobFacts DEF OpFits, Rec
<1> DEFINE l == Rec(t).launch
           k == [job[t] EXCEPT !.launch = l]
           read == [job EXCEPT ![t] = k]
<1>3. CASE Rec(t) = NoRecord
  BY <1>1, <1>3, RestsOnly DEF Decide, Finish, ghosts, ghostsOnly
<1>4. CASE Rec(t) # NoRecord
  <2>1. job' = (IF Rec(t).status = "stopped" THEN StopDone(t, read) ELSE [read EXCEPT ![t].pc = "stop"])
    BY <1>4 DEF Decide
  <2>2. l \in 0 .. MaxStarts
    BY <1>2, <1>4 DEF Record
  <2> HIDE DEF l
  <2>3. k \in Job /\ k.op = job[t].op
    BY <1>2, <2>2, FieldFacts
  <2> HIDE DEF k
  <2>4. read \in Jobs /\ read[t] = k /\ \A b \in Actors \ {t} : read[b] = job[b]
    BY <1>1, <1>2, <2>3 DEF Jobs
  <2> HIDE DEF read
  <2>5. job' \in Jobs /\ JobOK(t)' /\ \A b \in Actors \ {t} : job'[b] = read[b]
    <3>1. CASE Rec(t).status = "stopped"
      BY <1>1, <1>2, <2>1, <2>3, <2>4, <3>1, StopDoneFacts DEF StopOps
    <3>2. CASE Rec(t).status # "stopped"
      <4>1. job' = [read EXCEPT ![t].pc = "stop"]
        BY <2>1, <3>2
      <4>2. Turns(read, t, "stop", read[t].launch, read[t].status, read[t].fresh, read[t].saw)
        BY <1>1, <2>3, <2>4, <4>1, TurnsTo DEF Labels
      <4>3. OpFits(job[t].op, "stop")
        BY <1>2 DEF OpFits, StopHolds, LaunchHolds
      <4> QED BY <1>1, <2>3, <2>4, <4>2, <4>3, LightOK DEF Turns, LightLabels
    <3> QED BY <3>1, <3>2
  <2> QED BY <1>1, <2>4, <2>5, JobOnly DEF Decide, ghosts, ghostsOnly
<1> QED BY <1>3, <1>4

LEMMA RemoveKeeps ==
    ASSUME SupervisorInv, NEW t \in Requesters, Remove(t)
    PROVE  SupervisorInv'
<1> DEFINE n == job[t].name
<1>1. /\ t \in Actors /\ job[t].pc = "remove" /\ Free
      /\ UNCHANGED <<recipeEnv, memory, nodeVars, mutex, starts, asks, orphaned, late, unverified,
                     revived, mishaps>>
      /\ UNCHANGED <<launchers, strays, arriving, onNode>>
  BY DEF Remove, Actors, At, ghosts, ghostsOnly, nodeVars
<1>2. job \in Jobs /\ job[t] \in Job /\ n \in Resources /\ asks' \in Nat /\ mishaps' \in Nat
  BY <1>1, JobFacts, SupervisorFacts
<1>3. CASE record' = record /\ job' = Ending(t, job)
  BY <1>1, <1>2, <1>3, RestsOnly DEF Finish
<1>4. CASE /\ Rec(t) # NoRecord /\ Rec(t).status = "stopped"
           /\ record' = [record EXCEPT ![n] = NoRecord] /\ job' = Ending(t, Stale(job, n))
  <2>1. job' \in Jobs /\ JobOK(t)' /\ \A b \in Actors \ {t} : job'[b] = Stale(job, n)[b]
    BY <1>1, <1>2, <1>4, StaleFacts, Rests, RestingOK DEF Jobs
  <2>2. RestTyped /\ Loses
    BY <1>1, <1>2, RestSame, SupervisorFacts
  <2>3. \A l \in Launches : Holds(l) => Holds(l)'
    BY <1>2, <1>4, SupervisorFacts DEF Holds, Rec, Resources
  <2>4. /\ ~revived' => ~revived /\ revived' \in BOOLEAN
        /\ revived' \in BOOLEAN /\ mutex' \in Actors \cup {Unlocked}
    BY <1>1, SupervisorFacts
  <2> QED BY <1>1, <1>2, <1>4, <2>1, <2>2, <2>3, <2>4, ReplacesKeep
<1> QED BY <1>3, <1>4 DEF Remove

LEMMA ProbeKeeps ==
    ASSUME SupervisorInv, NEW t \in Requesters, Probe(t)
    PROVE  SupervisorInv'
<1>1. t \in Actors /\ job[t].pc = "probe" /\ asks' \in Nat /\ mishaps' \in Nat
  BY SupervisorFacts DEF Actors, Probe, At, ghosts, ghostsOnly
<1>2. job \in Jobs /\ job[t] \in Job /\ job[t].op = "test"
  BY <1>1, JobFacts DEF OpFits
<1>3. CASE Finish(t)
  BY <1>1, <1>3, RestsOnly DEF Probe, ghosts, ghostsOnly
<1>4. CASE To(t, "ready")
  <2>1. Turns(job, t, "ready", job[t].launch, job[t].status, job[t].fresh, job[t].saw)
    BY <1>1, <1>2, <1>4, TurnsTo DEF To, Labels
  <2>2. job' \in Jobs /\ JobOK(t)' /\ \A b \in Actors \ {t} : job'[b] = job[b]
    BY <1>1, <1>2, <2>1, LightOK DEF Turns, LightLabels, OpFits, StopHolds, LaunchHolds
  <2> QED BY <1>1, <2>2, JobOnly DEF Probe, ghosts, ghostsOnly
<1> QED BY <1>3, <1>4 DEF Probe

LEMMA PreflightKeeps ==
    ASSUME SupervisorInv, NEW t \in Requesters, Preflight(t)
    PROVE  SupervisorInv'
<1>1. t \in Actors /\ job[t].pc = "preflight" /\ asks' \in Nat /\ mishaps' \in Nat
  BY SupervisorFacts DEF Actors, Preflight, At, ghosts, ghostsOnly
<1>2. job \in Jobs /\ job[t] \in Job /\ job[t].op = "create"
  BY <1>1, JobFacts DEF OpFits
<1>3. CASE Finish(t)
  BY <1>1, <1>3, RestsOnly DEF Preflight, ghosts, ghostsOnly
<1>4. CASE To(t, "create")
  <2>1. Turns(job, t, "create", job[t].launch, job[t].status, job[t].fresh, job[t].saw)
    BY <1>1, <1>2, <1>4, TurnsTo DEF To, Labels
  <2>2. job' \in Jobs /\ JobOK(t)' /\ \A b \in Actors \ {t} : job'[b] = job[b]
    BY <1>1, <1>2, <2>1, LightOK DEF Turns, LightLabels, OpFits, StopHolds, LaunchHolds
  <2> QED BY <1>1, <2>2, JobOnly DEF Preflight, ghosts, ghostsOnly
<1> QED BY <1>3, <1>4 DEF Preflight

LEMMA MarkReadyKeeps ==
    ASSUME SupervisorInv, NEW t \in Requesters, MarkReady(t)
    PROVE  SupervisorInv'
<1> DEFINE n == job[t].name
           r == [record[n] EXCEPT !.deadline = FALSE]
<1>1. /\ t \in Actors /\ job[t].pc = "ready" /\ Free
      /\ UNCHANGED <<recipeEnv, memory, nodeVars, mutex, starts, asks, orphaned, late, unverified,
                     revived, mishaps>>
      /\ UNCHANGED <<launchers, strays, arriving, onNode>>
  BY DEF MarkReady, Actors, At, ghosts, ghostsOnly, nodeVars
<1>2. job \in Jobs /\ job[t] \in Job /\ n \in Resources /\ asks' \in Nat /\ mishaps' \in Nat
  BY <1>1, JobFacts, SupervisorFacts
<1>3. CASE record' = record /\ Finish(t)
  BY <1>1, <1>2, <1>3, RestsOnly
<1>4. CASE /\ record[n] # NoRecord /\ record' = [record EXCEPT ![n].deadline = FALSE]
           /\ job' = Ending(t, Stale(job, n))
  <2>1. job' \in Jobs /\ JobOK(t)' /\ \A b \in Actors \ {t} : job'[b] = Stale(job, n)[b]
    BY <1>1, <1>2, <1>4, StaleFacts, Rests, RestingOK DEF Jobs
  <2>2. RestTyped /\ Loses
    BY <1>1, <1>2, RestSame, SupervisorFacts
  <2>3. record[n] \in Record
    BY <1>2, <1>4, SupervisorFacts
  <2>4. r \in Record /\ r.launch = record[n].launch /\ r.status = record[n].status
    BY <2>3 DEF Record
  <2>5. record' = [record EXCEPT ![n] = r]
    BY <1>4
  <2> HIDE DEF r
  <2>6. \A l \in Launches : Holds(l) => Holds(l)'
    BY <1>2, <2>4, <2>5, SupervisorFacts, AbsenceAssumption DEF Holds, Resources
  <2>7. /\ n \in Heads => r.launch # 0
        /\ revived' = revived /\ revived' \in BOOLEAN /\ mutex' \in Actors \cup {Unlocked}
    BY <1>1, <1>4, <2>4, SupervisorFacts DEF SupervisorInv, HostOK, HeadLaunches
  <2>8. /\ r \in Record \cup {NoRecord} /\ n \in Resources /\ Free
        /\ n \in Heads /\ r # NoRecord => r.launch # 0
        /\ ~revived' => ~revived /\ (r # NoRecord => record[n] # NoRecord)
        /\ UNCHANGED <<recipeEnv, starts>>
    BY <1>1, <1>2, <1>4, <2>4, <2>7
  <2> HIDE DEF n
  <2> QED BY <1>1, <2>1, <2>2, <2>5, <2>6, <2>7, <2>8, ReplacesKeep
<1> QED BY <1>3, <1>4 DEF MarkReady, Rec

LEMMA LookKeeps ==
    ASSUME SupervisorInv, NEW n \in Resources, Look(n)
    PROVE  SupervisorInv'
<1>1. /\ Supervisor \in Actors /\ n \in Heads /\ record[n] # NoRecord /\ record[n].status # "stopped"
      /\ asks' \in Nat /\ mishaps' \in Nat /\ job \in Jobs
      /\ UNCHANGED <<record, recipeEnv, memory, nodeVars, mutex, starts, orphaned, late, unverified,
                     revived>>
  BY SupervisorFacts DEF Actors, Look, Jobs, ghosts, ghostsOnly
<1>2. record[n].launch \in 0 .. MaxStarts /\ record[n].status \in Statuses
  BY <1>1, SupervisorFacts DEF Record
<1>3. ASSUME NEW pc \in {"stop", "expired", "observed", "release"}, NEW status \in Statuses,
             pc = "observed" => status # "stopped", Supervises(pc, n, status)
      PROVE  SupervisorInv'
  <2> DEFINE j == [op |-> "supervise", pc |-> pc, name |-> n, launch |-> record[n].launch,
                   status |-> status, fresh |-> pc \notin {"stop", "expired"}, saw |-> {}]
  <2>1. /\ j \in Job /\ j.pc = pc /\ j.op = "supervise" /\ j.name = n /\ j.status = status
    BY <1>2, <1>3 DEF Job
  <2>2. job' = [job EXCEPT ![Supervisor] = j]
    BY <1>3 DEF Supervises
  <2> HIDE DEF j
  <2>3. job' \in Jobs /\ job'[Supervisor] = j /\ \A b \in Actors \ {Supervisor} : job'[b] = job[b]
    BY <1>1, <2>1, <2>2, JobUpdated
  <2>4. OpFits("supervise", pc) /\ pc \notin StopHolds \cup LaunchHolds
    BY <1>3 DEF OpFits, StopHolds, LaunchHolds
  <2>5. JobOK(Supervisor)'
    BY <1>1, <1>3, <2>1, <2>3, <2>4 DEF JobOK, StopOK, LaunchOK, ReadOK
  <2> QED BY <1>1, <2>3, <2>5, JobOnly
<1>4. \/ Supervises("expired", n, "stopped")
      \/ Supervises("observed", n, IF BothUp THEN "running" ELSE record[n].status)
      \/ Supervises("stop", n, "stopped") \/ Supervises("release", n, "stopped")
  BY DEF Look
<1>5. (IF BothUp THEN "running" ELSE record[n].status) \in Statuses \ {"stopped"} /\ "stopped" \in Statuses
  BY <1>1, <1>2 DEF Statuses
<1> QED BY <1>3, <1>4, <1>5

-----------------------------------------------------------------------------
\* Steps of a stop, and the release of what the nodes do not show.

LEMMA HeadLaunch ==
    ASSUME SupervisorInv, NEW n \in Heads, record[n] # NoRecord
    PROVE  n \in Resources /\ record[n] \in Record /\ record[n].launch \in Launches
<1>1. n \in Resources /\ record[n] \in Record
  BY SupervisorFacts DEF Resources
<1>2. record[n].launch # 0
  BY DEF SupervisorInv, HostOK, HeadLaunches
<1> QED BY <1>1, <1>2, SupervisorAssumption DEF Record, Launches

\* What Docker creates for a killed process is accounted for.
LEMMA KilledFacts ==
    ASSUME SupervisorInv, NEW ls \in SUBSET Launches, Killed(ls)
    PROVE  /\ late \subseteq late' /\ late' \subseteq Launches /\ mishaps' \in Nat
           /\ arriving' \subseteq [node: Nodes, launch: Launches, by: Launches]
           /\ \A c \in arriving' : c.by \in late'
<1>1. PICK escaping \in SUBSET {l \in ls : Alive(l)}, nds \in SUBSET Nodes :
        /\ IF escaping = {} THEN nds = {} /\ UNCHANGED mishaps ELSE nds # {} /\ Mishap
        /\ late' = late \cup escaping
        /\ arriving' = arriving \cup [node: nds, launch: escaping, by: escaping]
  BY DEF Killed
<1>2. escaping \subseteq Launches /\ mishaps' \in Nat
  BY <1>1, SupervisorFacts DEF Mishap
<1>3. \A c \in arriving : c.by \in late
  BY DEF SupervisorInv, HostOK, Escaped
<1>4. /\ [node: nds, launch: escaping, by: escaping] \subseteq [node: Nodes, launch: Launches, by: Launches]
      /\ \A c \in [node: nds, launch: escaping, by: escaping] : c.by \in escaping
  BY <1>2
<1> QED BY <1>1, <1>2, <1>3, <1>4, SupervisorFacts

LEMMA StopFailsKeeps ==
    ASSUME SupervisorInv, NEW a \in Actors, job[a].pc \in StopHolds, StopFails(a), Loses, RestTyped,
           UNCHANGED <<recipeEnv, starts, revived>>
    PROVE  SupervisorInv'
<1> DEFINE n == job[a].name
<1>1. job \in Jobs /\ n \in Resources /\ JobOK(a) /\ job[a].pc # "rest"
  BY JobFacts DEF StopHolds
<1>2. mutex = a /\ record[n] # NoRecord
  BY <1>1 DEF JobOK, StopOK
<1>3. /\ Writes(n, "failed") /\ job' = Ending(a, Stale(job, n)) /\ mutex' \in Actors \cup {Unlocked}
  BY DEF StopFails, Unlock
<1>4. job' \in Jobs /\ JobOK(a)' /\ \A b \in Actors \ {a} : job'[b] = Stale(job, n)[b]
  BY <1>1, <1>3, StaleFacts, Rests, RestingOK DEF Jobs
<1>5. "failed" \in Statuses
  BY DEF Statuses
<1> HIDE DEF n
<1> QED BY <1>1, <1>2, <1>3, <1>4, <1>5, WritesKeep

LEMMA ReleaseKeeps ==
    ASSUME SupervisorInv, Release
    PROVE  SupervisorInv'
<1> DEFINE a == Supervisor
           n == job[a].name
<1>1. a \in Actors /\ job[a].pc = "release" /\ Free
  BY DEF Actors, Release, At
<1>2. /\ UNCHANGED <<recipeEnv, memory, onNode, mutex, starts, asks, orphaned, revived>>
      /\ asks' \in Nat /\ job \in Jobs /\ JobOK(a) /\ n \in Heads /\ n \in Resources
  BY <1>1, SupervisorFacts, JobFacts DEF Release, JobOK, ReadOK
<1>3. CASE Finish(a) /\ UNCHANGED <<record, launchers, strays, late, arriving, unverified, mishaps>>
  <2>1. mishaps' \in Nat
    BY <1>3, SupervisorFacts
  <2> QED BY <1>1, <1>2, <1>3, <2>1, RestsOnly DEF nodeVars
<1>4. CASE /\ record[n] # NoRecord /\ Writes(n, "stopped") /\ job' = Ending(a, Stale(job, n))
           /\ launchers' = launchers \ {record[n].launch} /\ strays' = strays \ {record[n].launch}
           /\ Killed({record[n].launch}) /\ unverified' = unverified \cup {record[n].launch}
  <2> HIDE DEF n, a
  <2>1. job' \in Jobs /\ JobOK(a)' /\ \A b \in Actors \ {a} : job'[b] = Stale(job, n)[b]
    BY <1>1, <1>2, <1>4, StaleFacts, Rests, RestingOK DEF Jobs
  <2> DEFINE l == record[n].launch
  <2>2. l \in Launches
    BY <1>2, <1>4, HeadLaunch
  <2> HIDE DEF l
  <2>3. /\ late \subseteq late' /\ late' \subseteq Launches /\ mishaps' \in Nat
        /\ arriving' \subseteq [node: Nodes, launch: Launches, by: Launches]
        /\ \A c \in arriving' : c.by \in late'
    BY <1>4, <2>2, KilledFacts DEF l
  <2>4. /\ launchers' = launchers \ {l} /\ strays' = strays \ {l} /\ unverified' = unverified \cup {l}
    BY <1>4 DEF l
  <2>5. RestTyped
    BY <1>2, <2>2, <2>3, <2>4, SupervisorFacts DEF RestTyped
  <2>6. Loses
    BY <1>2, <2>3, <2>4 DEF Loses
  <2>7. Released(l)
    BY <2>4 DEF Released
  <2>8. "stopped" \in Statuses /\ mutex' \in Actors \cup {Unlocked}
    BY <1>2, SupervisorFacts DEF Statuses
  <2> QED BY <1>1, <1>2, <1>4, <2>1, <2>5, <2>6, <2>7, <2>8, WritesKeep DEF l
<1> QED BY <1>3, <1>4 DEF Release

LEMMA StopBeginKeeps ==
    ASSUME SupervisorInv, NEW a \in Actors, StopBegin(a)
    PROVE  SupervisorInv'
<1> DEFINE n == job[a].name
<1>1. /\ job[a].pc \in {"stop", "expired"} /\ Free
      /\ UNCHANGED <<recipeEnv, memory, nodeVars, starts, asks, orphaned, late, unverified, revived, mishaps>>
      /\ UNCHANGED <<launchers, strays, arriving, onNode>>
  BY DEF StopBegin, ghosts, ghostsOnly, nodeVars
<1>2. /\ job \in Jobs /\ job[a] \in Job /\ n \in Resources /\ job[a].op \in StopOps
      /\ asks' \in Nat /\ mishaps' \in Nat
  BY <1>1, JobFacts, SupervisorFacts DEF OpFits, StopOps
<1>3. CASE Finish(a) /\ UNCHANGED <<record, mutex>>
  BY <1>1, <1>2, <1>3, RestsOnly
<1>4. CASE job' = StopDone(a, job) /\ UNCHANGED <<record, mutex>>
  <2>1. job' \in Jobs /\ JobOK(a)' /\ \A b \in Actors \ {a} : job'[b] = job[b]
    BY <1>2, <1>4, StopDoneFacts
  <2> QED BY <1>1, <1>2, <1>4, <2>1, JobOnly
<1> DEFINE s == Stale(job, n)
<1>5. /\ s \in Jobs /\ s[a] \in Job /\ s[a].op = job[a].op /\ s[a].name = n
      /\ \A b \in Actors \ {a} : s[b] = Stale(job, n)[b]
  BY <1>1, <1>2, StaleFacts, RestFacts DEF Jobs
<1>6. RestTyped /\ Loses
  BY <1>1, <1>2, RestSame, SupervisorFacts
<1>7. CASE /\ record[n] # NoRecord /\ n \in Workers /\ Writes(n, "stopped") /\ UNCHANGED mutex
           /\ job' = StopDone(a, s)
  <2>1. job' \in Jobs /\ JobOK(a)' /\ \A b \in Actors \ {a} : job'[b] = s[b]
    BY <1>2, <1>5, <1>7, StopDoneFacts
  <2>2. "stopped" \in Statuses /\ mutex' \in Actors \cup {Unlocked} /\ n \notin Heads
    BY <1>7, SupervisorFacts, SupervisorAssumption DEF Statuses
  <2> HIDE DEF n
  <2> QED BY <1>1, <1>2, <1>6, <1>7, <2>1, <2>2, WritesKeep
<1>8. CASE /\ record[n] # NoRecord /\ n \in Heads /\ Writes(n, "stopping") /\ mutex' = a
           /\ job' = [s EXCEPT ![a].pc = "fence"]
  <2> HIDE DEF s
  <2>1. Turns(s, a, "fence", s[a].launch, s[a].status, s[a].fresh, s[a].saw)
    BY <1>5, <1>8, TurnsTo DEF Labels
  <2>2. "stopping" \in Statuses /\ mutex' \in Actors \cup {Unlocked}
    BY <1>8 DEF Statuses
  <2>3. job' \in Jobs /\ \A b \in Actors \ {a} : job'[b] = Stale(job, n)[b]
    BY <1>5, <2>1 DEF Turns
  <2>4. /\ job'[a].pc = "fence" /\ job'[a].op \in StopOps /\ job'[a].name = n
    BY <1>2, <1>5, <2>1 DEF Turns
  <2>5. record'[n] # NoRecord /\ record'[n].status = "stopping"
    BY <1>2, <1>8, <2>2, StatusFacts
  <2>6. OpFits(job'[a].op, "fence")
    BY <2>4 DEF OpFits, StopHolds, LaunchHolds, StopOps
  <2>7. JobOK(a)'
    BY <1>8, <2>4, <2>5, <2>6 DEF JobOK, StopHolds, LaunchHolds, StopOK, LaunchOK, ReadOK
  <2> HIDE DEF n
  <2> QED BY <1>1, <1>2, <1>6, <1>8, <2>2, <2>3, <2>7, WritesKeep
<1>9. \/ Finish(a) /\ UNCHANGED <<record, mutex>>
      \/ job' = StopDone(a, job) /\ UNCHANGED <<record, mutex>>
      \/ /\ record[n] # NoRecord
         /\ IF n \in Workers
            THEN Writes(n, "stopped") /\ job' = StopDone(a, s) /\ UNCHANGED mutex
            ELSE Writes(n, "stopping") /\ mutex' = a /\ job' = [s EXCEPT ![a].pc = "fence"]
  BY DEF StopBegin, Rec
<1>10. n \in Workers \/ n \in Heads
  BY <1>2 DEF Resources
<1> HIDE DEF s, n
<1> QED BY <1>3, <1>4, <1>7, <1>8, <1>9, <1>10

\* A step that leaves the records alone and takes processes or containers away.
LEMMA QuietStep ==
    ASSUME SupervisorInv, UNCHANGED <<record, recipeEnv, mutex, starts, revived>>, Loses, RestTyped,
           job' \in Jobs, \A b \in Actors : JobOK(b)'
    PROVE  SupervisorInv'
<1>1. SupervisorTypeOK'
  BY SupervisorFacts DEF SupervisorTypeOK, RestTyped, Jobs
<1>2. \A l \in Launches : Holds(l) => Holds(l)'
  BY DEF Holds
<1>3. HeadLaunches' /\ OneRecord' /\ LastLaunch'
  BY DEF SupervisorInv, HostOK, HeadLaunches, OneRecord, LastLaunch, Loses
<1> QED BY <1>1, <1>2, <1>3, ContainmentKeeps DEF SupervisorInv, HostOK

\* The next step of a stop, whose own record is still "stopping".
LEMMA StopMovesOn ==
    ASSUME SupervisorInv, NEW a \in Actors, NEW x \in {"inspect", "clear", "settle"},
           job[a].pc \in StopHolds, UNCHANGED <<record, mutex>>,
           job'[a].pc = x, job'[a].op = job[a].op, job'[a].name = job[a].name,
           record[job[a].name].launch \notin launchers' \cup strays'
    PROVE  JobOK(a)'
<1>1. StopOK(job[a]) /\ OpFits(job[a].op, job[a].pc) /\ mutex = a
  BY JobFacts DEF JobOK, StopHolds
<1>2. StopOK(job[a])'
  BY <1>1 DEF StopOK, StopHolds, Alive
<1>3. OpFits(job[a].op, x) /\ x \in StopHolds
  BY <1>1 DEF OpFits, StopHolds, LaunchHolds
<1> QED BY <1>1, <1>2, <1>3 DEF JobOK, LaunchOK, ReadOK, StopHolds, LaunchHolds

LEMMA StoppingFacts ==
    ASSUME SupervisorInv, NEW a \in Actors, job[a].pc \in StopHolds
    PROVE  /\ job \in Jobs /\ job[a] \in Job /\ job[a].name \in Heads /\ job[a].name \in Resources
           /\ mutex = a /\ Rec(a) = record[job[a].name] /\ record[job[a].name] # NoRecord
           /\ record[job[a].name] \in Record /\ record[job[a].name].launch \in Launches
           /\ record[job[a].name].status = "stopping" /\ job[a].op \in StopOps
           /\ job[a].pc # "fence" => record[job[a].name].launch \notin launchers \cup strays
<1>1. /\ StopOK(job[a]) /\ OpFits(job[a].op, job[a].pc) /\ mutex = a /\ job \in Jobs
      /\ job[a] \in Job
  BY JobFacts DEF JobOK, StopHolds
<1>2. job[a].name \in Heads /\ record[job[a].name] # NoRecord
  BY <1>1 DEF StopOK
<1>3. /\ job[a].name \in Resources /\ record[job[a].name] \in Record
      /\ record[job[a].name].launch \in Launches
  BY <1>2, HeadLaunch
<1> QED BY <1>1, <1>2, <1>3 DEF StopOK, Alive, OpFits, StopOps, Rec

LEMMA FenceKeeps ==
    ASSUME SupervisorInv, NEW a \in Actors, Fence(a)
    PROVE  SupervisorInv'
<1> DEFINE n == job[a].name
           l == record[n].launch
<1>1. /\ job[a].pc = "fence" /\ job[a].pc \in StopHolds
      /\ UNCHANGED <<recipeEnv, onNode, starts, asks, orphaned, unverified, revived>>
  BY DEF Fence, At, StopHolds
<1>2. /\ job \in Jobs /\ job[a] \in Job /\ n \in Resources /\ l \in Launches /\ Rec(a) = record[n]
      /\ asks' \in Nat /\ launchers \subseteq Launches /\ strays \subseteq Launches
      /\ memory \in [Resources -> 0 .. MaxStarts]
  BY <1>1, StoppingFacts, SupervisorFacts
<1>3. \/ /\ launchers' = launchers \ {l} /\ strays' = strays \ {l}
         /\ memory' = IF memory[n] = l THEN [memory EXCEPT ![n] = 0] ELSE memory
         /\ Killed({l})
         /\ To(a, "inspect") /\ UNCHANGED <<record, mutex>>
      \/ /\ UNCHANGED <<launchers, memory, late, arriving, strays>> /\ Mishap /\ StopFails(a)
      \/ /\ launchers' = launchers \ {l} /\ memory' = [memory EXCEPT ![n] = 0] /\ Killed({l})
         /\ StopFails(a) /\ UNCHANGED strays
  BY <1>2 DEF Fence
<1>4. MaxStarts \in Nat
  BY SupervisorAssumption
<1> HIDE DEF n, l
<1>5. ASSUME UNCHANGED <<launchers, memory, late, arriving, strays>>, Mishap
      PROVE  Loses /\ RestTyped
  <2>1. mishaps' \in Nat
    BY <1>5, SupervisorFacts DEF Mishap
  <2> QED BY <1>1, <1>2, <1>5, <2>1, RestSame
<1>6. ASSUME Killed({l}), launchers' = launchers \ {l}, strays' = strays \ {l} \/ strays' = strays,
             memory' = memory \/ memory' = [memory EXCEPT ![n] = 0]
      PROVE  Loses /\ RestTyped
  <2>1. /\ late \subseteq late' /\ late' \subseteq Launches /\ mishaps' \in Nat
        /\ arriving' \subseteq [node: Nodes, launch: Launches, by: Launches]
        /\ \A c \in arriving' : c.by \in late'
    BY <1>2, <1>6, KilledFacts
  <2>2. memory' \in [Resources -> 0 .. MaxStarts]
    BY <1>2, <1>4, <1>6
  <2>3. RestTyped
    BY <1>1, <1>2, <1>6, <2>1, <2>2, SupervisorFacts DEF RestTyped
  <2>4. Loses
    BY <1>1, <1>6, <2>1 DEF Loses
  <2> QED BY <2>3, <2>4
<1>7. CASE UNCHANGED <<launchers, memory, late, arriving, strays>> /\ Mishap /\ StopFails(a)
  BY <1>1, <1>5, <1>7, StopFailsKeeps
<1>8. CASE /\ launchers' = launchers \ {l} /\ memory' = [memory EXCEPT ![n] = 0] /\ Killed({l})
           /\ StopFails(a) /\ UNCHANGED strays
  BY <1>1, <1>6, <1>8, StopFailsKeeps
<1>9. CASE /\ launchers' = launchers \ {l} /\ strays' = strays \ {l}
           /\ memory' = IF memory[n] = l THEN [memory EXCEPT ![n] = 0] ELSE memory
           /\ Killed({l}) /\ To(a, "inspect") /\ UNCHANGED <<record, mutex>>
  <2>1. Loses /\ RestTyped
    BY <1>6, <1>9
  <2>2. Turns(job, a, "inspect", job[a].launch, job[a].status, job[a].fresh, job[a].saw)
    BY <1>2, <1>9, TurnsTo DEF To, Labels
  <2>3. /\ job' \in Jobs /\ \A b \in Actors \ {a} : job'[b] = job[b]
        /\ job'[a].pc = "inspect" /\ job'[a].op = job[a].op /\ job'[a].name = job[a].name
    BY <2>2 DEF Turns
  <2>4. JobOK(a)'
    BY <1>1, <1>9, <2>3, StopMovesOn DEF l, n
  <2>5. \A b \in Actors \ {a} : JobOK(b)'
    BY <1>1, <1>9, <2>1, <2>3, QuietKeeps DEF Loses
  <2> QED BY <1>1, <1>9, <2>1, <2>3, <2>4, <2>5, QuietStep
<1> QED BY <1>3, <1>7, <1>8, <1>9

LEMMA InspectNodesKeeps ==
    ASSUME SupervisorInv, NEW a \in Actors, InspectNodes(a)
    PROVE  SupervisorInv'
<1> DEFINE n == job[a].name
           s == Stale(job, n)
<1>1. /\ job[a].pc = "inspect" /\ job[a].pc \in StopHolds
      /\ UNCHANGED <<recipeEnv, memory, nodeVars, starts, asks, orphaned, late, unverified, revived>>
      /\ UNCHANGED <<launchers, strays, arriving, onNode>>
  BY DEF InspectNodes, At, StopHolds, ghostsOnly, nodeVars
<1>2. /\ job \in Jobs /\ job[a] \in Job /\ n \in Resources /\ mutex = a
      /\ record[n].launch \notin launchers \cup strays
  BY <1>1, StoppingFacts
<1>3. \/ /\ job' = [s EXCEPT ![a].pc = "clear", ![a].saw = Present]
         /\ UNCHANGED <<record, mutex, mishaps>>
      \/ StopFails(a) /\ (Mishap \/ UNCHANGED mishaps)
  BY DEF InspectNodes
<1>4. mishaps' \in Nat
  BY <1>3, SupervisorFacts DEF Mishap
<1>5. Loses /\ RestTyped
  BY <1>1, <1>4, RestSame, SupervisorFacts
<1>6. CASE StopFails(a)
  BY <1>1, <1>5, <1>6, StopFailsKeeps
<1>7. CASE /\ job' = [s EXCEPT ![a].pc = "clear", ![a].saw = Present]
           /\ UNCHANGED <<record, mutex, mishaps>>
  <2>1. /\ s \in Jobs /\ s[a] \in Job /\ s[a].op = job[a].op /\ s[a].name = n
    BY <1>1, <1>2, StaleFacts, RestFacts DEF Jobs
  <2>2. Present \in SUBSET Nodes
    BY DEF Present
  <2> HIDE DEF s
  <2>3. Turns(s, a, "clear", s[a].launch, s[a].status, s[a].fresh, Present)
    BY <1>7, <2>1, <2>2, TurnsWithSaw DEF Labels
  <2>4. /\ job' \in Jobs /\ \A b \in Actors \ {a} : job'[b] = Stale(job, n)[b]
        /\ job'[a].pc = "clear" /\ job'[a].op = job[a].op /\ job'[a].name = job[a].name
    BY <2>1, <2>3 DEF Turns, s
  <2>5. JobOK(a)'
    BY <1>1, <1>2, <1>7, <2>4, StopMovesOn
  <2>6. \A b \in Actors \ {a} : JobOK(b)'
    <3> HIDE DEF n
    <3> QED BY <1>2, <1>7, <2>4, WroteOthers
  <2> QED BY <1>1, <1>5, <1>7, <2>4, <2>5, <2>6, QuietStep
<1> QED BY <1>3, <1>6, <1>7

LEMMA ClearNodesKeeps ==
    ASSUME SupervisorInv, NEW a \in Actors, ClearNodes(a)
    PROVE  SupervisorInv'
<1> DEFINE n == job[a].name
<1>1. /\ job[a].pc = "clear" /\ job[a].pc \in StopHolds
      /\ UNCHANGED <<recipeEnv, memory, launchers, strays, arriving, starts, asks, orphaned, late,
                     unverified, revived>>
  BY DEF ClearNodes, At, StopHolds, ghostsOnly
<1>2. /\ job \in Jobs /\ job[a] \in Job /\ n \in Resources /\ mutex = a
      /\ record[n].launch \notin launchers \cup strays
  BY <1>1, StoppingFacts
<1>3. PICK cleared \in SUBSET job[a].saw :
        /\ onNode' = [nd \in Nodes |-> IF nd \in cleared THEN NoRecord ELSE onNode[nd]]
        /\ \/ To(a, "settle") /\ UNCHANGED <<record, mutex, mishaps>>
           \/ StopFails(a) /\ Mishap
  BY DEF ClearNodes
<1>4. mishaps' \in Nat
  BY <1>3, SupervisorFacts DEF Mishap
<1>5. /\ onNode' \in [Nodes -> NodeContainer \cup {NoRecord}]
      /\ \A nd \in Nodes : onNode'[nd] # NoRecord => onNode'[nd] = onNode[nd]
  BY <1>3, SupervisorFacts
<1>6. RestTyped
  BY <1>1, <1>4, <1>5, SupervisorFacts DEF RestTyped
<1>7. Loses
  BY <1>1, <1>5 DEF Loses, SupervisorInv, HostOK, Escaped
<1>8. CASE StopFails(a)
  BY <1>1, <1>6, <1>7, <1>8, StopFailsKeeps
<1>9. CASE To(a, "settle") /\ UNCHANGED <<record, mutex, mishaps>>
  <2>1. Turns(job, a, "settle", job[a].launch, job[a].status, job[a].fresh, job[a].saw)
    BY <1>2, <1>9, TurnsTo DEF To, Labels
  <2>2. /\ job' \in Jobs /\ \A b \in Actors \ {a} : job'[b] = job[b]
        /\ job'[a].pc = "settle" /\ job'[a].op = job[a].op /\ job'[a].name = job[a].name
    BY <2>1 DEF Turns
  <2>3. JobOK(a)'
    BY <1>1, <1>2, <1>9, <2>2, StopMovesOn
  <2>4. \A b \in Actors \ {a} : JobOK(b)'
    BY <1>2, <1>9, <2>2, SameOthers
  <2> QED BY <1>1, <1>6, <1>7, <1>9, <2>2, <2>3, <2>4, QuietStep
<1> QED BY <1>3, <1>8, <1>9

LEMMA SettleKeeps ==
    ASSUME SupervisorInv, NEW a \in Actors, Settle(a)
    PROVE  SupervisorInv'
<1> DEFINE n == job[a].name
           s == Stale(job, n)
<1>1. /\ job[a].pc = "settle" /\ job[a].pc \in StopHolds
      /\ UNCHANGED <<recipeEnv, memory, nodeVars, starts, asks, orphaned, late, unverified, revived>>
      /\ UNCHANGED <<launchers, strays, arriving, onNode>>
  BY DEF Settle, At, StopHolds, ghostsOnly, nodeVars
<1>2. /\ job \in Jobs /\ job[a] \in Job /\ n \in Resources /\ mutex = a /\ record[n] # NoRecord
      /\ record[n].launch \notin launchers \cup strays /\ job[a].op \in StopOps
  BY <1>1, StoppingFacts
<1>3. \/ /\ Present = {} /\ Writes(n, "stopped") /\ Unlock /\ job' = StopDone(a, s) /\ UNCHANGED mishaps
      \/ StopFails(a) /\ (Mishap \/ UNCHANGED mishaps)
  BY DEF Settle
<1>4. mishaps' \in Nat
  BY <1>3, SupervisorFacts DEF Mishap
<1>5. Loses /\ RestTyped
  BY <1>1, <1>4, RestSame, SupervisorFacts
<1>6. CASE StopFails(a)
  BY <1>1, <1>5, <1>6, StopFailsKeeps
<1>7. CASE Present = {} /\ Writes(n, "stopped") /\ Unlock /\ job' = StopDone(a, s)
  <2>1. /\ s \in Jobs /\ s[a] \in Job /\ s[a].op = job[a].op
    BY <1>1, <1>2, StaleFacts, RestFacts DEF Jobs
  <2>2. job' \in Jobs /\ JobOK(a)' /\ \A b \in Actors \ {a} : job'[b] = s[b]
    BY <1>2, <1>7, <2>1, StopDoneFacts
  <2>3. Released(record[n].launch)
    BY <1>1, <1>2, <1>7 DEF Released, Present
  <2>4. "stopped" \in Statuses /\ mutex' \in Actors \cup {Unlocked}
    BY <1>7 DEF Statuses, Unlock
  <2> HIDE DEF n
  <2> QED BY <1>1, <1>2, <1>5, <1>7, <2>2, <2>3, <2>4, WritesKeep
<1> QED BY <1>3, <1>6, <1>7

-----------------------------------------------------------------------------
\* Launches.

\* A step that leaves the records alone, and may take the mutex or a new number.
LEMMA SameRecords ==
    ASSUME SupervisorInv, UNCHANGED <<record, revived>>, Loses, RestTyped, LastLaunch',
           starts' \in 0 .. MaxStarts, mutex' \in Actors \cup {Unlocked},
           job' \in Jobs, \A b \in Actors : JobOK(b)'
    PROVE  SupervisorInv'
<1>1. recipeEnv' \in 0 .. MaxStarts
  BY DEF LastLaunch
<1>2. SupervisorTypeOK'
  BY <1>1, SupervisorFacts DEF SupervisorTypeOK, RestTyped, Jobs
<1>3. \A l \in Launches : Holds(l) => Holds(l)'
  BY DEF Holds
<1>4. HeadLaunches' /\ OneRecord'
  BY DEF SupervisorInv, HostOK, HeadLaunches, OneRecord
<1> QED BY <1>2, <1>3, <1>4, ContainmentKeeps DEF SupervisorInv, HostOK

LEMMA PreparesKeeps ==
    ASSUME SupervisorInv, NEW t \in Actors, Free, Prepares(t), job[t].pc \in {"create", "relaunch"},
           UNCHANGED <<memory, nodeVars, asks, orphaned, late, unverified, mishaps>>,
           job[t].pc = "create" => \A n \in Resources : record[n] = NoRecord
    PROVE  SupervisorInv'
<1> DEFINE l == starts'
<1>1. /\ job[t].name \in Heads /\ starts' = starts + 1 /\ recipeEnv' = starts' /\ mutex' = t
      /\ starts < MaxStarts /\ job' = [job EXCEPT ![t].pc = "record", ![t].launch = l]
      /\ UNCHANGED <<record, revived>> /\ UNCHANGED <<launchers, strays, arriving, onNode>>
  BY DEF Prepares, nodeVars
<1>2. /\ job \in Jobs /\ job[t] \in Job /\ OpFits(job[t].op, job[t].pc) /\ asks' \in Nat
      /\ mishaps' \in Nat /\ starts \in 0 .. MaxStarts /\ memory' \in [Resources -> 0 .. MaxStarts]
  BY JobFacts, SupervisorFacts
<1>3. l \in 0 .. MaxStarts /\ l # 0
  BY <1>1, <1>2, SupervisorAssumption
<1>4. LastLaunch'
  BY <1>1, <1>3 DEF LastLaunch
<1> HIDE DEF l
<1>5. Turns(job, t, "record", l, job[t].status, job[t].fresh, job[t].saw)
  BY <1>1, <1>2, <1>3, TurnsWithLaunch DEF Labels
<1>6. /\ job' \in Jobs /\ \A b \in Actors \ {t} : job'[b] = job[b]
      /\ job'[t].pc = "record" /\ job'[t].op = job[t].op /\ job'[t].name = job[t].name
      /\ job'[t].launch = l
  BY <1>5 DEF Turns
<1>7. OpFits(job[t].op, "record") /\ (job[t].op = "create" => \A n \in Resources : record[n] = NoRecord)
  BY <1>2 DEF OpFits, StopHolds, LaunchHolds
<1>8. LaunchOK(job[t])'
  BY <1>1, <1>3, <1>6, <1>7 DEF LaunchOK, l
<1>9. JobOK(t)'
  BY <1>1, <1>6, <1>7, <1>8 DEF JobOK, StopOK, ReadOK, StopHolds
<1>10. \A b \in Actors \ {t} : JobOK(b)'
  BY <1>1, <1>6, SameOthers
<1>11. RestTyped /\ Loses
  BY <1>1, <1>2, RestSame
<1>12. mutex' \in Actors \cup {Unlocked}
  BY <1>1
<1> QED BY <1>1, <1>3, <1>4, <1>6, <1>9, <1>10, <1>11, <1>12, SameRecords DEF l

LEMMA ReservesKeeps ==
    ASSUME SupervisorInv, NEW t \in Actors, Free, Reserves(t), job[t].pc \in {"create", "relaunch"},
           UNCHANGED <<memory, nodeVars, asks, orphaned, late, unverified, mishaps>>,
           job[t].pc = "create" => \A m \in Resources : record[m] = NoRecord
    PROVE  SupervisorInv'
<1> DEFINE n == job[t].name
           r == [launch |-> 0, status |-> "running", deadline |-> FALSE]
<1>1. /\ n \in Workers /\ record' = [record EXCEPT ![n] = r] /\ job' = Ending(t, Stale(job, n))
      /\ revived' = (revived \/ (job[t].op = "restart" /\ record[n] = NoRecord))
      /\ UNCHANGED <<starts, recipeEnv, mutex>> /\ UNCHANGED <<launchers, strays, arriving, onNode>>
  BY DEF Reserves, nodeVars
<1>2. /\ job \in Jobs /\ n \in Resources /\ OpFits(job[t].op, job[t].pc) /\ asks' \in Nat
      /\ mishaps' \in Nat /\ memory' \in [Resources -> 0 .. MaxStarts] /\ revived \in BOOLEAN
      /\ mutex' \in Actors \cup {Unlocked}
  BY <1>1, JobFacts, SupervisorFacts
<1>3. r \in Record
  BY SupervisorAssumption DEF Record, Statuses
<1>4. ~revived' => \/ ~revived /\ record[n] # NoRecord
                   \/ \A m \in Resources \ {n} : record[m] = NoRecord
  <2>1. job[t].pc = "relaunch" => job[t].op = "restart"
    BY <1>2 DEF OpFits
  <2> QED BY <1>1, <2>1
<1>5. n \notin Heads
  BY <1>1, SupervisorAssumption
<1>6. \A l \in Launches : Holds(l) => Holds(l)'
  BY <1>1, <1>5, SupervisorFacts DEF Holds, Resources
<1>7. job' \in Jobs /\ JobOK(t)' /\ \A b \in Actors \ {t} : job'[b] = Stale(job, n)[b]
  BY <1>1, <1>2, StaleFacts, Rests, RestingOK DEF Jobs
<1>8. RestTyped /\ Loses
  BY <1>1, <1>2, RestSame
<1>9. revived' \in BOOLEAN /\ r \in Record \cup {NoRecord}
  BY <1>1, <1>2, <1>3
<1> HIDE DEF n, r
<1> QED BY <1>1, <1>2, <1>4, <1>5, <1>6, <1>7, <1>8, <1>9, ReplacesKeep

LEMMA CreateKeeps ==
    ASSUME SupervisorInv, NEW t \in Requesters, Create(t)
    PROVE  SupervisorInv'
<1>1. /\ t \in Actors /\ Free /\ job[t].pc = "create"
      /\ UNCHANGED <<memory, nodeVars, asks, orphaned, late, unverified, mishaps>>
      /\ asks' \in Nat /\ mishaps' \in Nat
  BY SupervisorFacts DEF Create, At, Actors
<1>2. CASE Finish(t) /\ UNCHANGED <<record, recipeEnv, mutex, starts, revived>>
  BY <1>1, <1>2, RestsOnly
<1>3. CASE Rec(t) = NoRecord /\ NoOther(job[t].name) /\ (Prepares(t) \/ Reserves(t))
  <2>1. \A n \in Resources : record[n] = NoRecord
    BY <1>3 DEF NoOther, Rec
  <2> QED BY <1>1, <1>3, <2>1, PreparesKeeps, ReservesKeeps
<1> QED BY <1>2, <1>3 DEF Create

LEMMA RelaunchKeeps ==
    ASSUME SupervisorInv, NEW t \in Requesters, Relaunch(t)
    PROVE  SupervisorInv'
<1>1. /\ t \in Actors /\ Free /\ job[t].pc = "relaunch"
      /\ UNCHANGED <<memory, nodeVars, asks, orphaned, late, unverified, mishaps>>
      /\ asks' \in Nat /\ mishaps' \in Nat
  BY SupervisorFacts DEF Relaunch, At, Actors
<1>2. CASE Finish(t) /\ UNCHANGED <<record, recipeEnv, mutex, starts, revived>>
  BY <1>1, <1>2, RestsOnly
<1>3. CASE Prepares(t) \/ Reserves(t)
  BY <1>1, <1>3, PreparesKeeps, ReservesKeeps
<1> QED BY <1>2, <1>3 DEF Relaunch

LEMMA LaunchingFacts ==
    ASSUME SupervisorInv, NEW t \in Actors, job[t].pc \in LaunchHolds
    PROVE  /\ job \in Jobs /\ job[t] \in Job /\ job[t].name \in Heads /\ job[t].name \in Resources
           /\ mutex = t /\ job[t].launch = starts /\ starts \in Launches /\ LaunchOK(job[t])
           /\ job[t].op \in {"create", "restart"}
<1>1. /\ LaunchOK(job[t]) /\ OpFits(job[t].op, job[t].pc) /\ mutex = t /\ job \in Jobs
      /\ job[t] \in Job /\ job[t].name \in Resources
  BY JobFacts DEF JobOK, LaunchHolds
<1>2. starts \in 0 .. MaxStarts
  BY SupervisorFacts
<1> QED BY <1>1, <1>2 DEF LaunchOK, OpFits, Launches

LEMMA WriteLaunchKeeps ==
    ASSUME SupervisorInv, NEW t \in Requesters, WriteLaunch(t)
    PROVE  SupervisorInv'
<1> DEFINE n == job[t].name
           r == [launch |-> job[t].launch, status |-> "starting", deadline |-> TRUE]
           s == Stale(job, n)
<1>1. /\ t \in Actors /\ job[t].pc = "record" /\ job[t].pc \in LaunchHolds
      /\ UNCHANGED <<recipeEnv, memory, nodeVars, starts, asks, late, unverified>>
      /\ UNCHANGED <<launchers, strays, arriving, onNode>>
  BY DEF WriteLaunch, At, Actors, LaunchHolds, nodeVars
<1>2. /\ job \in Jobs /\ job[t] \in Job /\ n \in Heads /\ n \in Resources /\ mutex = t
      /\ job[t].launch = starts /\ starts \in Launches /\ job[t].op \in {"create", "restart"}
      /\ job[t].op = "create" => \A m \in Resources : record[m] = NoRecord
  BY <1>1, LaunchingFacts DEF LaunchOK
<1>3. CASE Finish(t) /\ Unlock /\ Mishap /\ UNCHANGED <<record, orphaned, revived>>
  <2>1. /\ mishaps' \in Nat /\ starts' \in 0 .. MaxStarts /\ mutex' \in Actors \cup {Unlocked}
        /\ memory' \in [Resources -> 0 .. MaxStarts]
    BY <1>1, <1>3, SupervisorFacts DEF Mishap, Unlock
  <2>2. job' \in Jobs /\ JobOK(t)' /\ \A b \in Actors \ {t} : job'[b] = job[b]
    BY <1>1, <1>2, <1>3, Rests, RestingOK DEF Finish
  <2>3. \A b \in Actors \ {t} : JobOK(b)'
    BY <1>1, <1>2, <1>3, <2>2, SameOthers
  <2>4. RestTyped /\ Loses
    BY <1>1, <1>3, <2>1, RestSame
  <2>5. LastLaunch'
    BY <1>1 DEF LastLaunch, SupervisorInv, HostOK
  <2> QED BY <1>1, <1>3, <2>1, <2>2, <2>3, <2>4, <2>5, SameRecords
<1>4. CASE /\ record' = [record EXCEPT ![n] = r]
           /\ orphaned' = IF record[n] # NoRecord /\ record[n].status # "stopped"
                          THEN orphaned \cup {record[n].launch} ELSE orphaned
           /\ revived' = (revived \/ (job[t].op = "restart" /\ record[n] = NoRecord))
           /\ job' = [s EXCEPT ![t].pc = "start"] /\ UNCHANGED <<mutex, mishaps>>
  <2>1. /\ s \in Jobs /\ s[t] \in Job /\ s[t].op = job[t].op /\ s[t].name = n
        /\ s[t].launch = job[t].launch
    BY <1>1, <1>2, StaleFacts, RestFacts DEF Jobs
  <2>2. r \in Record /\ r.launch = starts /\ r.status = "starting"
    BY <1>2 DEF Record, Statuses, Launches
  <2>3. record[n] # NoRecord => record[n].launch \in Launches
    BY <1>2, HeadLaunch
  <2>4. mutex' \in Actors \cup {Unlocked} /\ mishaps' \in Nat /\ revived' \in BOOLEAN /\ Escaped
        /\ orphaned' \subseteq Launches /\ orphaned \subseteq orphaned'
    BY <1>2, <1>4, <2>3, SupervisorFacts DEF SupervisorInv, HostOK
  <2>5. RestTyped /\ Loses
    BY <1>1, <2>4, SupervisorFacts DEF RestTyped, Loses, Escaped
  <2> HIDE DEF s, r
  <2>6. record'[n] = r /\ \A m \in Resources \ {n} : record'[m] = record[m]
    BY <1>2, <1>4, SupervisorFacts
  <2>7. Turns(s, t, "start", s[t].launch, s[t].status, s[t].fresh, s[t].saw)
    BY <1>1, <1>4, <2>1, TurnsTo DEF Labels
  <2>8. /\ job' \in Jobs /\ \A b \in Actors \ {t} : job'[b] = Stale(job, n)[b]
        /\ job'[t].pc = "start" /\ job'[t].op = job[t].op /\ job'[t].name = n
        /\ job'[t].launch = starts
    BY <1>2, <2>1, <2>7 DEF Turns, s
  <2>9. JobOK(t)'
    <3>1. OpFits(job[t].op, "start")
      BY <1>2 DEF OpFits, StopHolds, LaunchHolds
    <3>2. r # NoRecord
      BY <2>2, AbsenceAssumption
    <3>3. starts # 0
      BY <1>2 DEF Launches
    <3>4. LaunchOK(job[t])'
      BY <1>1, <1>2, <2>2, <2>6, <2>8, <3>2, <3>3 DEF LaunchOK
    <3> QED BY <1>2, <1>4, <2>8, <3>1, <3>4 DEF JobOK, StopOK, ReadOK, StopHolds
  <2>10. \A l \in Launches : Holds(l) => Holds(l)' \/ Released(l)
    <3> TAKE l \in Launches
    <3> HAVE Holds(l)
    <3>1. PICK m \in Heads : record[m] # NoRecord /\ record[m].launch = l /\ record[m].status # "stopped"
      BY DEF Holds
    <3>2. CASE m = n
      BY <1>4, <3>1, <3>2 DEF Released
    <3>3. CASE m # n
      <4>1. record'[m] = record[m]
        BY <2>6, <3>3 DEF Resources
      <4> QED BY <3>1, <4>1 DEF Holds
    <3> QED BY <3>2, <3>3
  <2>11. ~revived' => \/ ~revived /\ (r # NoRecord => record[n] # NoRecord)
                      \/ \A m \in Resources \ {n} : record[m] = NoRecord
    BY <1>2, <1>4
  <2>12. r \in Record \cup {NoRecord} /\ r.launch # 0
    BY <1>2, <2>2 DEF Launches
  <2> HIDE DEF n
  <2> QED BY <1>1, <1>2, <1>4, <2>4, <2>5, <2>8, <2>9, <2>10, <2>11, <2>12, ReplacesKeep
<1> QED BY <1>3, <1>4 DEF WriteLaunch, Rec

\* A launcher runs for the launch whose record holds the nodes.
LEMMA StartLauncherKeeps ==
    ASSUME SupervisorInv, NEW t \in Requesters, StartLauncher(t)
    PROVE  SupervisorInv'
<1> DEFINE n == job[t].name
           l == job[t].launch
           k == [op |-> "wait", pc |-> "waiting", name |-> n, launch |-> l, status |-> "failed",
                 fresh |-> FALSE, saw |-> {}]
<1>1. /\ t \in Actors /\ job[t].pc = "start" /\ job[t].pc \in LaunchHolds /\ Unlock
      /\ UNCHANGED <<recipeEnv, strays, arriving, onNode, starts, asks, orphaned, late, unverified, revived>>
  BY DEF StartLauncher, At, Actors, LaunchHolds, ghostsOnly
<1>2. /\ job \in Jobs /\ job[t] \in Job /\ n \in Heads /\ n \in Resources /\ mutex = t
      /\ l = starts /\ l \in Launches
      /\ record[n] # NoRecord /\ record[n].launch = l /\ record[n].status = "starting"
  BY <1>1, LaunchingFacts DEF LaunchOK
<1>3. /\ mutex' \in Actors \cup {Unlocked} /\ l \in Actors /\ l \in 0 .. MaxStarts /\ asks' \in Nat
      /\ memory \in [Resources -> 0 .. MaxStarts]
  BY <1>1, <1>2, SupervisorFacts DEF Unlock, Actors, Launches
<1>4. CASE Writes(n, "failed") /\ job' = Ending(t, Stale(job, n)) /\ Mishap /\ UNCHANGED <<launchers, memory>>
  <2>1. job' \in Jobs /\ JobOK(t)' /\ \A b \in Actors \ {t} : job'[b] = Stale(job, n)[b]
    BY <1>1, <1>2, <1>4, StaleFacts, Rests, RestingOK DEF Jobs
  <2>2. mishaps' \in Nat /\ "failed" \in Statuses
    BY <1>4, SupervisorFacts DEF Mishap, Statuses
  <2>3. RestTyped /\ Loses
    BY <1>1, <1>3, <1>4, <2>2, RestSame
  <2> HIDE DEF n
  <2> QED BY <1>1, <1>2, <1>3, <1>4, <2>1, <2>2, <2>3, WritesKeep
<1>5. CASE /\ launchers' = launchers \cup {l} /\ memory' = [memory EXCEPT ![n] = l]
           /\ job' = [Ending(t, job) EXCEPT ![l] = k] /\ UNCHANGED <<record, mishaps>>
  <2>1. k \in Job /\ k.pc = "waiting" /\ k.op = "wait"
    BY <1>2, <1>3 DEF Job, Statuses
  <2> HIDE DEF k, n, l
  <2>2. /\ Ending(t, job) \in Jobs /\ Ending(t, job)[t] = Resting
        /\ \A b \in Actors \ {t} : Ending(t, job)[b] = job[b]
    BY <1>1, <1>2 DEF Ending, Jobs
  <2>3. job' \in Jobs /\ job'[l] = k /\ \A b \in Actors \ {l} : job'[b] = Ending(t, job)[b]
    BY <1>3, <1>5, <2>1, <2>2, JobUpdated
  <2>4. OpFits("wait", "waiting")
    BY DEF OpFits, StopHolds, LaunchHolds
  <2>5. ASSUME NEW b \in Actors, b = l PROVE JobOK(b)'
    BY <1>3, <2>1, <2>3, <2>4, <2>5, LightOK DEF LightLabels
  <2>6. ASSUME t # l PROVE JobOK(t)'
    BY <1>1, <2>2, <2>3, <2>6, RestFacts, RestingOK
  <2>7. ASSUME NEW b \in Actors, b # t, b # l PROVE JobOK(b)'
    <3>1. job'[b] = job[b]
      BY <2>2, <2>3, <2>7
    <3>2. Kept(b) /\ Aged(b)
      BY <1>5, <3>1 DEF Kept, Aged
    <3> QED BY <1>1, <1>2, <2>7, <3>2, ExclusiveKeeps
  <2>8. \A b \in Actors : JobOK(b)'
    BY <2>5, <2>6, <2>7
  <2>9. HostOK /\ HostOK'
    <3>1. HostOK
      BY DEF SupervisorInv
    <3>2. \A m \in Launches : Holds(m)' <=> Holds(m)
      BY <1>5 DEF Holds
    <3>3. Holds(l)
      BY <1>2 DEF Holds
    <3>4. FencedBeforeRelease'
      BY <1>1, <1>5, <3>1, <3>2, <3>3 DEF HostOK, FencedBeforeRelease, Alive, Launches
    <3>5. StoppedIsClean'
      BY <1>1, <1>5, <3>1 DEF HostOK, StoppedIsClean, Holds
    <3>6. LastLaunch'
      BY <1>1, <1>2, <3>1, SupervisorAssumption DEF HostOK, LastLaunch, Launches
    <3>7. HeadLaunches' /\ OneRecord' /\ Escaped'
      BY <1>1, <1>5, <3>1 DEF HostOK, HeadLaunches, OneRecord, Escaped
    <3> QED BY <3>1, <3>4, <3>5, <3>6, <3>7 DEF HostOK
  <2>10. memory' \in [Resources -> 0 .. MaxStarts] /\ launchers' \subseteq Launches
    BY <1>2, <1>3, <1>5, SupervisorFacts
  <2>11. SupervisorTypeOK'
    BY <1>1, <1>3, <1>5, <2>3, <2>10, SupervisorFacts DEF SupervisorTypeOK, Jobs
  <2> QED BY <2>8, <2>9, <2>11 DEF SupervisorInv
<1>6. \/ /\ launchers' = launchers \cup {l} /\ memory' = [memory EXCEPT ![n] = l]
         /\ job' = [Ending(t, job) EXCEPT ![l] = k] /\ UNCHANGED <<record, mishaps>>
      \/ /\ Writes(n, "failed") /\ job' = Ending(t, Stale(job, n)) /\ Mishap
         /\ UNCHANGED <<launchers, memory>>
  BY DEF StartLauncher
<1> QED BY <1>4, <1>5, <1>6

LEMMA LauncherWaitedKeeps ==
    ASSUME SupervisorInv, NEW l \in Launches, LauncherWaited(l)
    PROVE  SupervisorInv'
<1> DEFINE n == job[l].name
           s == Stale(job, n)
<1>1. /\ l \in Actors /\ job[l].pc = "waiting" /\ Free
      /\ UNCHANGED <<recipeEnv, nodeVars, mutex, starts, asks, orphaned, late, unverified, revived, mishaps>>
      /\ UNCHANGED <<launchers, strays, arriving, onNode>>
      /\ memory' = IF memory[n] = l THEN [memory EXCEPT ![n] = 0] ELSE memory
  BY DEF LauncherWaited, At, Actors, nodeVars, ghosts, ghostsOnly
<1>2. /\ job \in Jobs /\ job[l] \in Job /\ n \in Resources /\ job[l].op = "wait"
      /\ asks' \in Nat /\ mishaps' \in Nat /\ memory \in [Resources -> 0 .. MaxStarts]
      /\ mutex' \in Actors \cup {Unlocked} /\ MaxStarts \in Nat
  BY <1>1, JobFacts, SupervisorFacts, SupervisorAssumption DEF OpFits
<1>3. memory' \in [Resources -> 0 .. MaxStarts]
  BY <1>1, <1>2
<1>4. RestTyped /\ Loses
  BY <1>1, <1>2, <1>3, RestSame
<1>5. CASE Finish(l) /\ UNCHANGED record
  <2>1. job' \in Jobs /\ JobOK(l)' /\ \A b \in Actors \ {l} : job'[b] = job[b]
    BY <1>1, <1>2, <1>5, Rests, RestingOK DEF Finish
  <2>2. \A b \in Actors \ {l} : JobOK(b)'
    BY <1>1, <1>5, <2>1, SameOthers
  <2> QED BY <1>1, <1>4, <1>5, <2>1, <2>2, QuietStep
<1>6. ASSUME NEW status \in {"failed", "exited"}, Writes(n, status), record[n] # NoRecord,
             job' = [s EXCEPT ![l].pc = "stop"]
      PROVE  SupervisorInv'
  <2>1. s \in Jobs /\ s[l] \in Job /\ s[l].op = "wait"
    BY <1>1, <1>2, StaleFacts, RestFacts DEF Jobs
  <2> HIDE DEF s
  <2>2. Turns(s, l, "stop", s[l].launch, s[l].status, s[l].fresh, s[l].saw)
    BY <1>1, <1>6, <2>1, TurnsTo DEF Labels
  <2>3. /\ job' \in Jobs /\ \A b \in Actors \ {l} : job'[b] = Stale(job, n)[b]
        /\ job'[l].pc = "stop" /\ job'[l].op = "wait"
    BY <2>1, <2>2 DEF Turns, s
  <2>4. OpFits("wait", "stop")
    BY DEF OpFits, StopHolds, LaunchHolds
  <2>5. JobOK(l)'
    BY <1>1, <2>3, <2>4, LightOK DEF LightLabels
  <2>6. status \in Statuses /\ status # "stopped"
    BY DEF Statuses
  <2> HIDE DEF n
  <2> QED BY <1>1, <1>2, <1>4, <1>6, <2>3, <2>5, <2>6, WritesKeep
<1>7. \/ Finish(l) /\ UNCHANGED record
      \/ /\ record[n] # NoRecord /\ \E status \in {"failed", "exited"} : Writes(n, status)
         /\ job' = [s EXCEPT ![l].pc = "stop"]
  BY DEF LauncherWaited
<1> QED BY <1>5, <1>6, <1>7

-----------------------------------------------------------------------------
\* The nodes.

LEMMA NodeStepKeeps ==
    ASSUME SupervisorInv, UNCHANGED <<record, recipeEnv, memory, job, mutex, starts, orphaned, late,
                                      unverified, revived>>,
           asks' \in Nat, mishaps' \in Nat, launchers' \cup strays' \subseteq launchers \cup strays,
           arriving' \subseteq arriving, onNode' \in [Nodes -> NodeContainer \cup {NoRecord}],
           \A nd \in Nodes : onNode'[nd] # NoRecord =>
             LET l == onNode'[nd].by IN Holds(l) \/ l \in orphaned \cup late \cup unverified
    PROVE  SupervisorInv'
<1>1. \A b \in Actors : JobOK(b)'
  BY QuietKeeps
<1>2. RestTyped
  BY SupervisorFacts DEF RestTyped
<1>3. SupervisorTypeOK'
  BY <1>2, SupervisorFacts DEF SupervisorTypeOK, RestTyped
<1>4. HostOK
  BY DEF SupervisorInv
<1>5. FencedBeforeRelease' /\ StoppedIsClean'
  BY <1>4 DEF HostOK, FencedBeforeRelease, StoppedIsClean, Alive, Holds, Launches
<1>6. HeadLaunches' /\ OneRecord' /\ LastLaunch' /\ Escaped'
  BY <1>4 DEF HostOK, HeadLaunches, OneRecord, LastLaunch, Escaped
<1> QED BY <1>1, <1>3, <1>5, <1>6 DEF SupervisorInv, HostOK

LEMMA LauncherCreatesKeeps ==
    ASSUME SupervisorInv, NEW l \in Launches, NEW nd \in Nodes, LauncherCreates(l, nd)
    PROVE  SupervisorInv'
<1>1. PICK label \in {l, recipeEnv} :
        onNode' = [onNode EXCEPT ![nd] = [launch |-> label, by |-> l, up |-> TRUE]]
  BY DEF LauncherCreates
<1>2. /\ UNCHANGED <<record, recipeEnv, memory, job, mutex, starts, orphaned, late, unverified, revived>>
      /\ UNCHANGED <<launchers, strays, arriving>> /\ asks' \in Nat /\ mishaps' \in Nat /\ Alive(l)
  BY SupervisorFacts DEF LauncherCreates, ghosts, ghostsOnly
<1>3. HostOK
  BY DEF SupervisorInv
<1>4. label \in Launches
  <2>1. recipeEnv # 0
    BY <1>2, <1>3 DEF HostOK, LastLaunch, Alive
  <2> QED BY <1>1, <2>1, SupervisorFacts, SupervisorAssumption DEF Launches
<1> DEFINE c == [launch |-> label, by |-> l, up |-> TRUE]
<1>5. c \in NodeContainer /\ c.by = l
  BY <1>4 DEF NodeContainer
<1>6. onNode' = [onNode EXCEPT ![nd] = c]
  BY <1>1
<1> HIDE DEF c
<1>7. onNode' \in [Nodes -> NodeContainer \cup {NoRecord}]
  BY <1>5, <1>6, SupervisorFacts
<1>8. Holds(l) \/ l \in orphaned
  BY <1>2, <1>3 DEF HostOK, FencedBeforeRelease
<1>9. ASSUME NEW d \in Nodes, onNode'[d] # NoRecord
      PROVE  LET m == onNode'[d].by IN Holds(m) \/ m \in orphaned \cup late \cup unverified
  <2>1. CASE d = nd
    BY <1>5, <1>6, <1>8, <2>1, SupervisorFacts
  <2>2. CASE d # nd
    <3>1. onNode'[d] = onNode[d]
      BY <1>6, <2>2, SupervisorFacts
    <3> QED BY <1>3, <1>9, <3>1 DEF HostOK, StoppedIsClean
  <2> QED BY <2>1, <2>2
<1> QED BY <1>2, <1>7, <1>9, NodeStepKeeps

LEMMA DockerFinishesKeeps ==
    ASSUME SupervisorInv, NEW c \in arriving, DockerFinishes(c)
    PROVE  SupervisorInv'
<1> DEFINE d == [launch |-> c.launch, by |-> c.by, up |-> FALSE]
<1>1. /\ UNCHANGED <<record, recipeEnv, memory, job, mutex, starts, orphaned, late, unverified, revived>>
      /\ UNCHANGED <<launchers, strays>> /\ asks' \in Nat /\ mishaps' \in Nat
      /\ arriving' \subseteq arriving
      /\ onNode' = IF onNode[c.node] # NoRecord THEN onNode ELSE [onNode EXCEPT ![c.node] = d]
  BY SupervisorFacts DEF DockerFinishes, ghosts, ghostsOnly
<1>2. HostOK
  BY DEF SupervisorInv
<1>3. d \in NodeContainer /\ d.by \in late /\ c.node \in Nodes
  BY <1>2, SupervisorFacts DEF NodeContainer, HostOK, Escaped
<1> HIDE DEF d
<1>4. onNode' \in [Nodes -> NodeContainer \cup {NoRecord}]
  BY <1>1, <1>3, SupervisorFacts
<1>5. ASSUME NEW nd \in Nodes, onNode'[nd] # NoRecord
      PROVE  LET m == onNode'[nd].by IN Holds(m) \/ m \in orphaned \cup late \cup unverified
  <2>1. onNode'[nd] = onNode[nd] \/ onNode'[nd] = d
    BY <1>1, <1>3, SupervisorFacts
  <2>2. CASE onNode'[nd] = onNode[nd]
    BY <1>2, <1>5, <2>2 DEF HostOK, StoppedIsClean
  <2>3. CASE onNode'[nd] = d
    BY <1>3, <2>3
  <2> QED BY <2>1, <2>2, <2>3
<1> QED BY <1>1, <1>4, <1>5, NodeStepKeeps

LEMMA ContainerEndsKeeps ==
    ASSUME SupervisorInv, NEW nd \in Nodes, ContainerEnds(nd)
    PROVE  SupervisorInv'
<1> DEFINE d == [onNode[nd] EXCEPT !.up = FALSE]
<1>1. /\ UNCHANGED <<record, recipeEnv, memory, job, mutex, starts, orphaned, late, unverified, revived>>
      /\ UNCHANGED <<launchers, strays, arriving>> /\ asks' \in Nat /\ mishaps' \in Nat
      /\ onNode[nd] # NoRecord /\ onNode' = [onNode EXCEPT ![nd] = d]
  BY SupervisorFacts DEF ContainerEnds, ghostsOnly, Mishap
<1>2. onNode[nd] \in NodeContainer
  BY <1>1, SupervisorFacts
<1>3. d \in NodeContainer /\ d.by = onNode[nd].by
  BY <1>2 DEF NodeContainer
<1> HIDE DEF d
<1>4. onNode' \in [Nodes -> NodeContainer \cup {NoRecord}]
  BY <1>1, <1>3, SupervisorFacts
<1>5. ASSUME NEW e \in Nodes, onNode'[e] # NoRecord
      PROVE  LET m == onNode'[e].by IN Holds(m) \/ m \in orphaned \cup late \cup unverified
  <2>1. onNode[e] # NoRecord /\ onNode'[e].by = onNode[e].by
    BY <1>1, <1>3, <1>5, SupervisorFacts
  <2> QED BY <2>1 DEF SupervisorInv, HostOK, StoppedIsClean
<1> QED BY <1>1, <1>4, <1>5, NodeStepKeeps

LEMMA LauncherEndsKeeps ==
    ASSUME SupervisorInv, NEW l \in Launches, LauncherEnds(l)
    PROVE  SupervisorInv'
<1>1. /\ UNCHANGED <<record, recipeEnv, memory, job, mutex, starts, orphaned, late, unverified, revived>>
      /\ UNCHANGED <<arriving, onNode>> /\ asks' \in Nat /\ mishaps' \in Nat
      /\ launchers' \cup strays' \subseteq launchers \cup strays
      /\ onNode' \in [Nodes -> NodeContainer \cup {NoRecord}]
  BY SupervisorFacts DEF LauncherEnds, ghostsOnly, Mishap
<1>2. StoppedIsClean
  BY DEF SupervisorInv, HostOK
<1> QED BY <1>1, <1>2, NodeStepKeeps DEF StoppedIsClean

LEMMA SupervisorEndsKeeps ==
    ASSUME SupervisorInv, SupervisorEnds
    PROVE  SupervisorInv'
<1>1. /\ UNCHANGED <<record, recipeEnv, strays, arriving, onNode, starts, asks, orphaned, late,
                     unverified, revived>>
      /\ launchers' \subseteq launchers /\ mishaps' \in Nat /\ mutex' \in Actors \cup {Unlocked}
      /\ memory' = [n \in Resources |-> 0] /\ job' = [a \in Actors |-> Resting]
  BY SupervisorFacts DEF SupervisorEnds, ghostsOnly, Mishap, Unlock
<1>2. job' \in Jobs /\ \A b \in Actors : JobOK(b)'
  BY <1>1, RestFacts, RestingOK DEF Jobs
<1>3. memory' \in [Resources -> 0 .. MaxStarts]
  BY <1>1, SupervisorAssumption
<1>4. RestTyped
  BY <1>1, <1>3, SupervisorFacts DEF RestTyped
<1>5. Loses
  BY <1>1 DEF Loses, SupervisorInv, HostOK, Escaped
<1>6. LastLaunch' /\ starts' \in 0 .. MaxStarts
  BY <1>1, SupervisorFacts DEF LastLaunch, SupervisorInv, HostOK
<1> QED BY <1>1, <1>2, <1>4, <1>5, <1>6, SameRecords

-----------------------------------------------------------------------------
LEMMA SupervisorStarts == ASSUME SupervisorInit PROVE SupervisorInv
<1>1. SupervisorTypeOK
  <2>1. 0 \in 0 .. MaxStarts
    BY SupervisorAssumption
  <2>2. /\ memory \in [Resources -> 0 .. MaxStarts] /\ recipeEnv \in 0 .. MaxStarts
        /\ record \in [Resources -> Record \cup {NoRecord}]
        /\ onNode \in [Nodes -> NodeContainer \cup {NoRecord}]
        /\ job \in [Actors -> Job \cup {Resting}] /\ starts \in 0 .. MaxStarts
    BY <2>1 DEF SupervisorInit
  <2>3. /\ launchers = {} /\ strays = {} /\ arriving = {} /\ orphaned = {} /\ late = {}
        /\ unverified = {} /\ mutex = Unlocked /\ revived = FALSE /\ asks = 0 /\ mishaps = 0
    BY DEF SupervisorInit
  <2> QED BY <2>2, <2>3 DEF SupervisorTypeOK
<1>2. HostOK
  BY DEF SupervisorInit, HostOK, HeadLaunches, OneRecord, LastLaunch, Escaped, FencedBeforeRelease,
         StoppedIsClean, Alive, Resources
<1>3. \A a \in Actors : JobOK(a)
  BY RestFacts DEF SupervisorInit, JobOK
<1> QED BY <1>1, <1>2, <1>3 DEF SupervisorInv

LEMMA SupervisorStutters ==
    ASSUME SupervisorInv, UNCHANGED supervisorVars
    PROVE  SupervisorInv'
<1>1. UNCHANGED <<record, recipeEnv, memory, nodeVars, job, mutex, starts, asks, orphaned, late,
                  unverified, revived, mishaps>>
  BY DEF supervisorVars, nodeVars
<1>2. \A b \in Actors : JobOK(b)'
  BY <1>1, QuietKeeps DEF nodeVars
<1>3. SupervisorTypeOK' /\ HostOK'
  BY <1>1 DEF SupervisorInv, SupervisorTypeOK, HostOK, HeadLaunches, OneRecord, LastLaunch, Escaped,
              FencedBeforeRelease, StoppedIsClean, Holds, Alive, nodeVars
<1> QED BY <1>2, <1>3 DEF SupervisorInv

LEMMA SupervisorSteps ==
    ASSUME SupervisorInv, [SupervisorNext]_supervisorVars
    PROVE  SupervisorInv'
<1>1. ASSUME NEW t \in Requesters, ResourceStep(t) PROVE SupervisorInv'
  BY <1>1, AskKeeps, ObserveKeeps, DecideKeeps, RemoveKeeps, ProbeKeeps, MarkReadyKeeps, PreflightKeeps,
     CreateKeeps, RelaunchKeeps, WriteLaunchKeeps, StartLauncherKeeps DEF ResourceStep
<1>2. ASSUME NEW a \in Actors, CompareAndWrite(a) \/ StopStep(a) PROVE SupervisorInv'
  BY <1>2, CompareAndWriteKeeps, StopBeginKeeps, FenceKeeps, InspectNodesKeeps, ClearNodesKeeps,
     SettleKeeps DEF StopStep
<1>3. ASSUME NodeStep PROVE SupervisorInv'
  BY <1>3, LauncherCreatesKeeps, DockerFinishesKeeps, ContainerEndsKeeps, LauncherEndsKeeps DEF NodeStep
<1> QED BY <1>1, <1>2, <1>3, LauncherWaitedKeeps, LookKeeps, ReleaseKeeps, SupervisorEndsKeeps,
           SupervisorStutters DEF SupervisorNext

\* Records, launchers and containers of the native supervisor agree for every
\* number of resources, requests, launches and agent restarts: a process of a
\* launch lives only while the record holds the nodes, a stop leaves no container,
\* one record reserves the node (tensorFoldManager.create, stopResourceLocked,
\* reconcile, waitForProcess).
THEOREM SupervisorIsSafe == SupervisorSpec => []SupervisorSafety
<1>1. ASSUME SupervisorInv PROVE SupervisorSafety
  <2>1. SupervisorTypeOK /\ HostOK
    BY <1>1 DEF SupervisorInv
  <2>2. ReservedOnce
    <3> SUFFICES ASSUME ~revived PROVE Cardinality({n \in Resources : record[n] # NoRecord}) <= 1
      BY DEF ReservedOnce
    <3> DEFINE S == {n \in Resources : record[n] # NoRecord}
    <3>1. \A m, n \in S : m = n
      BY <2>1 DEF HostOK, OneRecord
    <3>2. CASE S = {}
      BY <3>2, FS_EmptySet
    <3>3. CASE S # {}
      <4>1. PICK n \in S : S = {n}
        BY <3>1, <3>3
      <4> HIDE DEF S
      <4> QED BY <4>1, FS_Singleton DEF S
    <3> QED BY <3>2, <3>3
  <2> QED BY <2>1, <2>2 DEF SupervisorSafety, HostOK
<1> QED BY <1>1, SupervisorStarts, SupervisorSteps, PTL DEF SupervisorSpec

-----------------------------------------------------------------------------
\* A stop that is done is not undone.

Stays ==
    \A n \in Heads :
      record[n] # NoRecord /\ record'[n] # NoRecord =>
        /\ record[n].status = "stopped" => record'[n].status \in {"stopped", "starting"}
        /\ ~Free /\ job[mutex].name = n /\ record'[n].status # record[n].status
           => job'[mutex] # job[mutex]

\* One record is written, by whoever has the mutex and goes on, or while it is free.
LEMMA OneWriteStays ==
    ASSUME SupervisorInv, NEW n \in Resources, \A m \in Resources \ {n} : record'[m] = record[m],
           Free \/ job'[mutex] # job[mutex],
           n \in Heads /\ record[n] # NoRecord /\ record'[n] # NoRecord /\ record[n].status = "stopped"
             => record'[n].status \in {"stopped", "starting"}
    PROVE  Stays
BY DEF Stays, Resources

LEMMA StatusStays ==
    ASSUME SupervisorInv, NEW n \in Resources, record[n] # NoRecord, NEW status \in Statuses,
           Writes(n, status), Free \/ job'[mutex] # job[mutex],
           record[n].status # "stopped" \/ status = "stopped" \/ n \notin Heads
    PROVE  Stays
BY StatusFacts, OneWriteStays

LEMMA SameStays == ASSUME record' = record PROVE Stays
BY DEF Stays

LEMMA RequestsStay ==
    ASSUME SupervisorInv, NEW t \in Requesters, ResourceStep(t)
    PROVE  Stays
<1> DEFINE n == job[t].name
<1>0. t \in Actors
  BY DEF Actors
<1>1. CASE record' = record
  BY <1>1, SameStays
<1>2. CASE Remove(t) /\ record' # record
  <2>1. job[t].pc # "rest" /\ Free /\ record' = [record EXCEPT ![n] = NoRecord]
    BY <1>2 DEF Remove, At
  <2>2. n \in Resources
    BY <1>0, <2>1, JobFacts
  <2> HIDE DEF n
  <2> QED BY <2>1, <2>2, SupervisorFacts, OneWriteStays
<1>3. CASE MarkReady(t) /\ record' # record
  <2>1. /\ job[t].pc # "rest" /\ Free /\ record[n] # NoRecord
        /\ record' = [record EXCEPT ![n].deadline = FALSE]
    BY <1>3 DEF MarkReady, At, Rec
  <2>2. n \in Resources /\ record[n] \in Record
    BY <1>0, <2>1, JobFacts
  <2>3. [record[n] EXCEPT !.deadline = FALSE].status = record[n].status
    BY <2>2 DEF Record
  <2> HIDE DEF n
  <2>4. /\ record'[n].status = record[n].status
        /\ \A m \in Resources \ {n} : record'[m] = record[m]
    BY <2>1, <2>2, <2>3, SupervisorFacts
  <2> QED BY <2>1, <2>2, <2>4, OneWriteStays
<1>4. CASE (Create(t) \/ Relaunch(t)) /\ record' # record
  <2>1. job[t].pc # "rest" /\ Free /\ Reserves(t)
    BY <1>4 DEF Create, Relaunch, Prepares, At
  <2>2. n \in Resources /\ n \notin Heads /\ \A m \in Resources \ {n} : record'[m] = record[m]
    BY <1>0, <2>1, JobFacts, SupervisorFacts, SupervisorAssumption DEF Reserves
  <2> HIDE DEF n
  <2> QED BY <2>1, <2>2, OneWriteStays
<1>5. CASE WriteLaunch(t) /\ record' # record
  <2> DEFINE r == [launch |-> job[t].launch, status |-> "starting", deadline |-> TRUE]
             s == Stale(job, n)
  <2>1. /\ job[t].pc = "record" /\ job[t].pc \in LaunchHolds
        /\ record' = [record EXCEPT ![n] = r] /\ job' = [s EXCEPT ![t].pc = "start"]
    BY <1>5 DEF WriteLaunch, At, LaunchHolds
  <2>2. job \in Jobs /\ n \in Resources /\ mutex = t
    BY <1>0, <2>1, LaunchingFacts
  <2>3. s \in Jobs /\ s[t] \in Job
    BY <1>0, <2>1, <2>2, StaleFacts, RestFacts DEF Jobs
  <2>4. r.status = "starting"
    OBVIOUS
  <2> HIDE DEF s, r
  <2>5. Turns(s, t, "start", s[t].launch, s[t].status, s[t].fresh, s[t].saw)
    BY <1>0, <2>1, <2>3, TurnsTo DEF Labels
  <2>6. job'[mutex] # job[mutex]
    BY <2>1, <2>2, <2>5 DEF Turns
  <2> HIDE DEF n
  <2> QED BY <2>1, <2>2, <2>4, <2>6, SupervisorFacts, OneWriteStays
<1>6. CASE StartLauncher(t) /\ record' # record
  <2>1. /\ job[t].pc = "start" /\ job[t].pc \in LaunchHolds /\ Writes(n, "failed")
        /\ job' = Ending(t, Stale(job, n))
    BY <1>6 DEF StartLauncher, At, LaunchHolds
  <2>2. /\ job \in Jobs /\ n \in Resources /\ mutex = t /\ record[n] # NoRecord
        /\ record[n].status = "starting"
    BY <1>0, <2>1, LaunchingFacts DEF LaunchOK
  <2>3. job'[mutex] # job[mutex]
    BY <1>0, <2>1, <2>2, StaleFacts, Rests DEF Jobs
  <2>4. "failed" \in Statuses
    BY DEF Statuses
  <2> HIDE DEF n
  <2> QED BY <2>1, <2>2, <2>3, <2>4, StatusStays
<1>7. ASSUME record' # record
      PROVE  Remove(t) \/ MarkReady(t) \/ Create(t) \/ Relaunch(t) \/ WriteLaunch(t) \/ StartLauncher(t)
  <2>1. /\ \A m \in Resources, op \in {"create", "stop", "restart", "remove", "test"} : ~Ask(t, op, m)
        /\ ~Observe(t) /\ ~Decide(t) /\ ~Probe(t) /\ ~Preflight(t)
    BY <1>7 DEF Ask, Observe, Decide, Probe, Preflight
  <2> QED BY <2>1 DEF ResourceStep
<1> QED BY <1>1, <1>2, <1>3, <1>4, <1>5, <1>6, <1>7

LEMMA StopFailsStays ==
    ASSUME SupervisorInv, NEW a \in Actors, job[a].pc \in StopHolds, StopFails(a)
    PROVE  Stays
<1> DEFINE n == job[a].name
<1>1. /\ job \in Jobs /\ n \in Resources /\ mutex = a /\ record[n] # NoRecord
      /\ record[n].status = "stopping" /\ job[a].pc # "rest"
  BY StoppingFacts DEF StopHolds
<1>2. Writes(n, "failed") /\ job' = Ending(a, Stale(job, n)) /\ "failed" \in Statuses
  BY DEF StopFails, Statuses
<1>3. job'[mutex] # job[mutex]
  BY <1>1, <1>2, StaleFacts, Rests DEF Jobs
<1> HIDE DEF n
<1> QED BY <1>1, <1>2, <1>3, StatusStays

LEMMA StopStepsStay ==
    ASSUME SupervisorInv, NEW a \in Actors, StopStep(a)
    PROVE  Stays
<1> DEFINE n == job[a].name
           s == Stale(job, n)
<1>1. CASE record' = record
  BY <1>1, SameStays
<1>2. CASE StopBegin(a) /\ record' # record
  <2>1. /\ job[a].pc # "rest" /\ Free /\ record[n] # NoRecord /\ record[n].status # "stopped"
        /\ \E status \in {"stopping", "stopped"} : Writes(n, status)
    BY <1>2 DEF StopBegin, Rec
  <2>2. n \in Resources /\ {"stopping", "stopped"} \subseteq Statuses
    BY <2>1, JobFacts DEF Statuses
  <2> HIDE DEF n
  <2> QED BY <2>1, <2>2, StatusStays
<1>3. CASE StopFails(a) /\ job[a].pc \in StopHolds
  BY <1>3, StopFailsStays
<1>4. CASE Settle(a) /\ ~StopFails(a)
  <2>1. /\ job[a].pc = "settle" /\ job[a].pc \in StopHolds /\ Writes(n, "stopped")
        /\ job' = StopDone(a, s)
    BY <1>4 DEF Settle, At, StopHolds
  <2>2. /\ job \in Jobs /\ job[a] \in Job /\ n \in Resources /\ mutex = a /\ record[n] # NoRecord
        /\ job[a].op \in StopOps
    BY <2>1, StoppingFacts
  <2>3. s \in Jobs /\ s[a] \in Job /\ s[a].op = job[a].op
    BY <2>1, <2>2, StaleFacts, RestFacts DEF Jobs
  <2> HIDE DEF s
  <2>4. job'[a].pc # "settle"
    <3>1. CASE AfterStop(job[a].op) = "done"
      BY <2>1, <2>3, <3>1, Rests DEF StopDone
    <3>2. ASSUME NEW x \in {"remove", "relaunch"}, AfterStop(job[a].op) = x PROVE job'[a].pc # "settle"
      <4>1. job' = [s EXCEPT ![a].pc = x]
        BY <2>1, <3>2 DEF StopDone
      <4>2. Turns(s, a, x, s[a].launch, s[a].status, s[a].fresh, s[a].saw)
        BY <2>3, <4>1, TurnsTo DEF Labels
      <4> QED BY <4>2 DEF Turns
    <3>3. AfterStop(job[a].op) \in {"done", "remove", "relaunch"}
      BY <2>2 DEF AfterStop, StopOps
    <3> QED BY <3>1, <3>2, <3>3
  <2>5. job'[mutex] # job[mutex] /\ "stopped" \in Statuses
    BY <2>1, <2>2, <2>4 DEF Statuses
  <2> HIDE DEF n
  <2> QED BY <2>1, <2>2, <2>5, StatusStays
<1>5. Fence(a) \/ InspectNodes(a) \/ ClearNodes(a) \/ Settle(a) => job[a].pc \in StopHolds
  BY DEF Fence, InspectNodes, ClearNodes, Settle, At, StopHolds
<1>6. /\ Fence(a) => record' = record \/ StopFails(a)
      /\ InspectNodes(a) => record' = record \/ StopFails(a)
      /\ ClearNodes(a) => record' = record \/ StopFails(a)
  BY DEF Fence, InspectNodes, ClearNodes
<1> QED BY <1>1, <1>2, <1>3, <1>4, <1>5, <1>6 DEF StopStep

LEMMA ObserversStay ==
    ASSUME SupervisorInv,
           \/ \E a \in Actors : CompareAndWrite(a)
           \/ \E l \in Launches : LauncherWaited(l)
           \/ Release
    PROVE  Stays
<1>1. ASSUME NEW a \in Actors, CompareAndWrite(a), record' # record PROVE Stays
  <2> DEFINE n == job[a].name
  <2>1. /\ job[a].pc = "observed" /\ Free /\ record[n] # NoRecord /\ job[a].fresh
        /\ Writes(n, job[a].status)
    BY <1>1 DEF CompareAndWrite, At, Rec
  <2>2. n \in Resources /\ job[a].status \in Statuses /\ record[n].status # "stopped"
    BY <2>1, JobFacts DEF JobOK, ReadOK
  <2> HIDE DEF n
  <2> QED BY <2>1, <2>2, StatusStays
<1>2. ASSUME NEW l \in Launches, LauncherWaited(l), record' # record PROVE Stays
  <2> DEFINE n == job[l].name
  <2>1. /\ l \in Actors /\ job[l].pc # "rest" /\ Free /\ record[n] # NoRecord
        /\ record[n].status # "stopped" /\ \E status \in {"failed", "exited"} : Writes(n, status)
    BY <1>2 DEF LauncherWaited, At, Actors
  <2>2. n \in Resources /\ {"failed", "exited"} \subseteq Statuses
    BY <2>1, JobFacts DEF Statuses
  <2> HIDE DEF n
  <2> QED BY <2>1, <2>2, StatusStays
<1>3. ASSUME Release, record' # record PROVE Stays
  <2> DEFINE n == job[Supervisor].name
  <2>1. /\ Supervisor \in Actors /\ job[Supervisor].pc # "rest" /\ Free /\ record[n] # NoRecord
        /\ Writes(n, "stopped")
    BY <1>3 DEF Release, At, Actors
  <2>2. n \in Resources /\ "stopped" \in Statuses
    BY <2>1, JobFacts DEF Statuses
  <2> HIDE DEF n
  <2> QED BY <2>1, <2>2, StatusStays
<1> QED BY <1>1, <1>2, <1>3, SameStays

\* A stop that is done is not undone, neither by an observation whose answer comes
\* late nor by the goroutine that waits for the launcher, and while a stop or a
\* launch holds the mutex nobody else writes its record (compareAndWriteResource,
\* waitForProcess, stopResourceLocked).
THEOREM StopsStay == SupervisorSpec => StopIsNotUndone
<1>1. ASSUME SupervisorInv, [SupervisorNext]_supervisorVars PROVE [Stays]_supervisorVars
  <2>1. CASE SupervisorNext
    <3>1. NodeStep \/ SupervisorEnds \/ (\E n \in Resources : Look(n)) => record' = record
      BY DEF NodeStep, LauncherCreates, DockerFinishes, ContainerEnds, LauncherEnds, SupervisorEnds, Look
    <3> QED BY <1>1, <2>1, <3>1, RequestsStay, StopStepsStay, ObserversStay, SameStays
            DEF SupervisorNext
  <2> QED BY <1>1, <2>1
<1>2. [][Stays]_supervisorVars => StopIsNotUndone
  BY PTL DEF StopIsNotUndone, Stays
<1> QED BY <1>1, <1>2, SupervisorStarts, SupervisorSteps, PTL DEF SupervisorSpec
=============================================================================
