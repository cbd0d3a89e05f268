--------------------------- MODULE NativeSupervisor ---------------------------
(***************************************************************************)
(* The agent's supervisor of the recipe that runs on two nodes: a record   *)
(* per resource, a launcher process that creates one container of a fixed  *)
(* name on each node, and the requests, the supervision pass and the       *)
(* goroutines that wait for launchers, which all work on the records.      *)
(* They exclude each other by one mutex, which a stop or a launch holds    *)
(* over several steps; observations are made without it.                   *)
(*                                                                         *)
(* A launcher, and a process it left behind, outlives the agent.  What     *)
(* Docker has accepted on a node it carries out although the launcher is   *)
(* killed.  The recipe's scripts are not part of the repository.           *)
(***************************************************************************)
EXTENDS Naturals, FiniteSets

CONSTANTS
    Heads, Workers,   \* names of resources, by role
    Requesters,       \* requests that may be in progress at the same time
    Supervisor,       \* the goroutine of supervise
    Unlocked,         \* tensorFoldManager.mu is free
    NoRecord,
    MaxStarts,        \* bound on launches
    MaxAsks,          \* bound on requests
    MaxMishaps        \* bound on failures, strays and ends of containers and agents

ASSUME SupervisorAssumption ==
    /\ Heads \cap Workers = {} /\ MaxStarts \in Nat /\ MaxAsks \in Nat /\ MaxMishaps \in Nat
    /\ Supervisor \notin Requesters

VARIABLES
    record,     \* [Resources -> Record \cup {NoRecord}], in files
    recipeEnv,  \* the launch the recipe's environment file is for
    memory,     \* m.processes: [Resources -> launch or 0]
    launchers, strays, \* launches with a live launcher, with a process it left
    arriving,   \* containers Docker has accepted and not yet created
    onNode,     \* [Nodes -> container or NoRecord]: the fixed name
    job, mutex,
    starts, asks, \* numbers of launches and of requests
    orphaned,   \* launches whose record another launch of the name replaced
    late,       \* launches fenced while Docker was creating a container
    unverified, \* launches released without a look at the nodes after the fence
    revived,    \* a restart wrote a record that had been removed
    mishaps

supervisorVars == <<record, recipeEnv, memory, launchers, strays, arriving, onNode, job, mutex,
                    starts, asks, orphaned, late, unverified, revived, mishaps>>
ghostsOnly == <<asks, orphaned, late, unverified, revived>>
ghosts == <<ghostsOnly, mishaps>>
Mishap == mishaps < MaxMishaps /\ mishaps' = mishaps + 1
nodeVars == <<launchers, strays, arriving, onNode>>

-----------------------------------------------------------------------------
Resources == Heads \cup Workers
Launches == 1 .. MaxStarts
Nodes == {"head", "worker"}
Statuses == {"starting", "running", "stopping", "stopped", "failed", "exited"}
Record == [launch: 0 .. MaxStarts, status: Statuses, deadline: BOOLEAN]
NodeContainer == [launch: Launches, by: Launches, up: BOOLEAN]
\* A launch's number also names the goroutine that waits for its process.
Actors == Requesters \cup Launches \cup {Supervisor}
\* `launch` and `status` are what the actor read or will write, `fresh` that the
\* record has not been written since, `saw` the nodes with a container.
Job == [op: {"create", "stop", "restart", "remove", "test", "supervise", "wait"},
        pc: {"preflight", "observe", "observed", "decide", "stop", "fence", "inspect", "clear",
             "settle", "create", "remove", "relaunch", "record", "start", "probe", "ready",
             "release", "waiting", "expired"},
        name: Resources, launch: 0 .. MaxStarts, status: Statuses, fresh: BOOLEAN,
        saw: SUBSET Nodes]
Resting == [pc |-> "rest"]

\* What stands for a free mutex, and for no record, is not taken for either.
ASSUME AbsenceAssumption == Unlocked \notin Actors /\ NoRecord \notin Record \cup NodeContainer

At(a, label) == job[a].pc = label
Free == mutex = Unlocked
Rec(a) == record[job[a].name]
To(a, label) == job' = [job EXCEPT ![a].pc = label]
Ending(a, jobs) == [jobs EXCEPT ![a] = Resting]
Finish(a) == job' = Ending(a, job)

\* writeResource: whoever has read the record before holds an older version.
Stale(jobs, n) ==
    [b \in Actors |-> IF jobs[b].pc \in {"observed", "release"} /\ jobs[b].name = n
                      THEN [jobs[b] EXCEPT !.fresh = FALSE] ELSE jobs[b]]
Writes(n, status) == record' = [record EXCEPT ![n].status = status]

\* inspectRecipeContainerIdentity: the fixed names hold nothing or this launch.
Own(l) == \A nd \in Nodes : onNode[nd] # NoRecord => onNode[nd].launch = l
Present == {nd \in Nodes : onNode[nd] # NoRecord}
BothUp == \A nd \in Nodes : onNode[nd] # NoRecord /\ onNode[nd].up
Alive(l) == l \in launchers \cup strays
Active(n) == memory[n] # 0 /\ memory[n] = record[n].launch /\ memory[n] \in launchers

-----------------------------------------------------------------------------
\* Requests.

Ask(t, op, n) ==
    /\ At(t, "rest") /\ asks < MaxAsks /\ asks' = asks + 1
    /\ job' = [job EXCEPT ![t] =
         [op |-> op, pc |-> IF op = "create" THEN "preflight" ELSE "observe", name |-> n,
          launch |-> 0, status |-> "stopped", fresh |-> FALSE, saw |-> {}]]
    /\ UNCHANGED <<record, recipeEnv, memory, nodeVars, mutex, starts, orphaned, late, unverified,
                   revived, mishaps>>

AfterObserving(op) == [stop |-> "stop", test |-> "probe", restart |-> "decide",
                       remove |-> "decide", supervise |-> "done"][op]

\* authorizedResource: an observation before every request but create.
Observe(t) ==
    LET rec == Rec(t) IN
    /\ At(t, "observe") /\ Free
    /\ IF rec = NoRecord THEN Finish(t)
       ELSE IF job[t].name \in Workers \/ rec.status \notin {"starting", "running"}
       THEN job' = [job EXCEPT ![t].pc = AfterObserving(job[t].op), ![t].launch = rec.launch]
       ELSE \/ /\ Own(rec.launch)
               /\ job' = [job EXCEPT ![t].pc = "observed", ![t].launch = rec.launch,
                    ![t].fresh = TRUE,
                    ![t].status = IF BothUp THEN "running"
                                  ELSE IF rec.status = "running" THEN "failed" ELSE rec.status]
            \/ Finish(t)
    /\ UNCHANGED <<record, recipeEnv, memory, nodeVars, mutex, starts, ghosts>>

Continues(a, jobs) ==
    IF job[a].op = "supervise" THEN Ending(a, jobs)
    ELSE [jobs EXCEPT ![a].pc = AfterObserving(job[a].op), ![a].launch = Rec(a).launch,
                        ![a].status = "stopped", ![a].fresh = FALSE]

\* Mutant of CompareAndWrite: the record's version is not compared.
CompareAnyway(a) ==
    /\ At(a, "observed") /\ Free /\ Rec(a) # NoRecord
    /\ Writes(job[a].name, job[a].status) /\ job' = Continues(a, Stale(job, job[a].name))
    /\ UNCHANGED <<recipeEnv, memory, nodeVars, mutex, starts, ghosts>>

\* compareAndWriteResource: what was observed is written to the record it was
\* observed for, and to no later one.
CompareAndWrite(a) ==
    /\ At(a, "observed") /\ Free
    /\ \/ Rec(a) = NoRecord /\ Finish(a) /\ UNCHANGED record
       \/ /\ Rec(a) # NoRecord /\ job[a].fresh
          /\ Writes(job[a].name, job[a].status) /\ job' = Continues(a, Stale(job, job[a].name))
       \/ Rec(a) # NoRecord /\ ~job[a].fresh /\ job' = Continues(a, job) /\ UNCHANGED record
    /\ UNCHANGED <<recipeEnv, memory, nodeVars, mutex, starts, ghosts>>

AfterStop(op) == [stop |-> "done", remove |-> "remove", restart |-> "relaunch",
                  supervise |-> "done", wait |-> "done"][op]
StopDone(a, jobs) ==
    IF AfterStop(job[a].op) = "done" THEN Ending(a, jobs)
    ELSE [jobs EXCEPT ![a].pc = AfterStop(job[a].op)]

\* remove and restart read the record and stop it unless it is stopped.
Decide(t) ==
    /\ At(t, "decide") /\ Free
    /\ job' = IF Rec(t) = NoRecord THEN Ending(t, job)
              ELSE LET read == [job EXCEPT ![t].launch = Rec(t).launch]
                   IN IF Rec(t).status = "stopped" THEN StopDone(t, read)
                      ELSE [read EXCEPT ![t].pc = "stop"]
    /\ UNCHANGED <<record, recipeEnv, memory, nodeVars, mutex, starts, ghosts>>

Remove(t) ==
    LET n == job[t].name
        same == Rec(t) # NoRecord /\ Rec(t).launch = job[t].launch /\ Rec(t).status = "stopped"
    IN /\ At(t, "remove") /\ Free
       /\ record' = IF same THEN [record EXCEPT ![n] = NoRecord] ELSE record
       /\ job' = Ending(t, IF same THEN Stale(job, n) ELSE job)
       /\ UNCHANGED <<recipeEnv, memory, nodeVars, mutex, starts, ghosts>>

\* testResource: the containers of the launch, then the probes, then markReady.
Probe(t) ==
    /\ At(t, "probe")
    /\ \/ BothUp /\ Own(job[t].launch) /\ To(t, "ready")
       \/ Finish(t)
    /\ UNCHANGED <<record, recipeEnv, memory, nodeVars, mutex, starts, ghosts>>

MarkReady(t) ==
    LET n == job[t].name
        same == Rec(t) # NoRecord /\ Rec(t).launch = job[t].launch
    IN /\ At(t, "ready") /\ Free
       /\ IF same /\ Rec(t).deadline
          THEN /\ record' = [record EXCEPT ![n].deadline = FALSE]
               /\ job' = Ending(t, Stale(job, n))
          ELSE Finish(t) /\ UNCHANGED record
       /\ UNCHANGED <<recipeEnv, memory, nodeVars, mutex, starts, ghosts>>

-----------------------------------------------------------------------------
\* stopResourceLocked, for a request, the supervision pass or a waiting goroutine.

Generic(a) == job[a].op \in {"supervise", "wait"}
Unlock == mutex' = Unlocked

\* stopGeneration leaves another launch alone.
StopBegin(a) ==
    LET n == job[a].name
        matches == Rec(a) # NoRecord /\ (Generic(a) => Rec(a).launch = job[a].launch)
    IN /\ job[a].pc \in {"stop", "expired"} /\ Free
       /\ \/ ~matches /\ Finish(a) /\ UNCHANGED <<record, mutex>>
          \/ /\ matches /\ Rec(a).status = "stopped"
             /\ job' = StopDone(a, job) /\ UNCHANGED <<record, mutex>>
          \/ /\ matches /\ Rec(a).status # "stopped"
             /\ IF n \in Workers
                THEN Writes(n, "stopped") /\ job' = StopDone(a, Stale(job, n)) /\ UNCHANGED mutex
                ELSE /\ Writes(n, "stopping") /\ mutex' = a
                     /\ job' = [Stale(job, n) EXCEPT ![a].pc = "fence"]
       /\ UNCHANGED <<recipeEnv, memory, nodeVars, starts, ghosts>>

StopFails(a) ==
    /\ Writes(job[a].name, "failed") /\ Unlock /\ job' = Ending(a, Stale(job, job[a].name))

\* The processes of the launches are killed, perhaps while Docker is creating a
\* container for one of them.
Killed(ls) ==
    \E escaping \in SUBSET {l \in ls : Alive(l)}, nds \in SUBSET Nodes :
      /\ IF escaping = {} THEN nds = {} /\ UNCHANGED mishaps ELSE nds # {} /\ Mishap
      /\ late' = late \cup escaping
      /\ arriving' = arriving \cup [node: nds, launch: escaping, by: escaping]

\* The launcher is killed and waited for, then every process of its launch; an
\* error leaves some of them.
Fence(a) ==
    LET n == job[a].name
        l == Rec(a).launch
    IN /\ At(a, "fence")
       /\ \/ /\ launchers' = launchers \ {l} /\ strays' = strays \ {l}
             /\ memory' = IF memory[n] = l THEN [memory EXCEPT ![n] = 0] ELSE memory
             /\ Killed({l})
             /\ To(a, "inspect") /\ UNCHANGED <<record, mutex>>
          \/ /\ \/ UNCHANGED <<launchers, memory, late, arriving>> /\ Mishap
                \/ launchers' = launchers \ {l} /\ memory' = [memory EXCEPT ![n] = 0] /\ Killed({l})
             /\ StopFails(a) /\ UNCHANGED strays
       /\ UNCHANGED <<recipeEnv, onNode, starts, asks, orphaned, unverified, revived>>

\* The environment must be this launch's, and so must what has the fixed names.
InspectNodes(a) ==
    LET ours == recipeEnv = Rec(a).launch /\ Own(Rec(a).launch) IN
    /\ At(a, "inspect")
    /\ \/ /\ ours
          /\ job' = [Stale(job, job[a].name) EXCEPT ![a].pc = "clear", ![a].saw = Present]
          /\ UNCHANGED <<record, mutex, mishaps>>
       \/ StopFails(a) /\ IF ours THEN Mishap ELSE UNCHANGED mishaps
    /\ UNCHANGED <<recipeEnv, memory, nodeVars, starts, ghostsOnly>>

\* stop.sh for two containers, docker stop and rm for one; a failure may come
\* after part of it.
ClearNodes(a) ==
    /\ At(a, "clear")
    /\ \E cleared \in SUBSET job[a].saw :
         /\ onNode' = [nd \in Nodes |-> IF nd \in cleared THEN NoRecord ELSE onNode[nd]]
         /\ \/ cleared = job[a].saw /\ To(a, "settle") /\ UNCHANGED <<record, mutex, mishaps>>
            \/ StopFails(a) /\ Mishap
    /\ UNCHANGED <<recipeEnv, memory, launchers, strays, arriving, starts, ghostsOnly>>

\* verifyRecipeContainerAbsent on both nodes.
Settle(a) ==
    /\ At(a, "settle")
    /\ \/ /\ Present = {} /\ Writes(job[a].name, "stopped") /\ Unlock
          /\ job' = StopDone(a, Stale(job, job[a].name)) /\ UNCHANGED mishaps
       \/ StopFails(a) /\ IF Present = {} THEN Mishap ELSE UNCHANGED mishaps
    /\ UNCHANGED <<recipeEnv, memory, nodeVars, starts, ghostsOnly>>

StopStep(a) == StopBegin(a) \/ Fence(a) \/ InspectNodes(a) \/ ClearNodes(a) \/ Settle(a)

-----------------------------------------------------------------------------
\* Launches.

NoOther(n) == \A m \in Resources \ {n} : record[m] = NoRecord

\* preflight, without the mutex for most of it; any check may fail.
Preflight(t) ==
    LET n == job[t].name IN
    /\ At(t, "preflight")
    /\ \/ /\ Free /\ record[n] = NoRecord /\ NoOther(n)
          /\ n \in Heads => Present = {}
          /\ To(t, "create")
       \/ Finish(t)
    /\ UNCHANGED <<record, recipeEnv, memory, nodeVars, mutex, starts, ghosts>>

\* A head: the fixed names must be free, and a new launch gets its environment.
Prepares(t) ==
    /\ job[t].name \in Heads /\ Present = {}
    /\ starts < MaxStarts /\ starts' = starts + 1 /\ recipeEnv' = starts' /\ mutex' = t
    /\ job' = [job EXCEPT ![t].pc = "record", ![t].launch = starts']
    /\ UNCHANGED <<record, revived>>

\* A worker's record only reserves its node.
Reserves(t) ==
    LET n == job[t].name IN
    /\ n \in Workers
    /\ record' = [record EXCEPT ![n] = [launch |-> 0, status |-> "running", deadline |-> FALSE]]
    /\ revived' = (revived \/ (job[t].op = "restart" /\ record[n] = NoRecord))
    /\ job' = Ending(t, Stale(job, n)) /\ UNCHANGED <<starts, recipeEnv, mutex>>

Create(t) ==
    /\ At(t, "create") /\ Free
    /\ \/ Rec(t) = NoRecord /\ NoOther(job[t].name) /\ (Prepares(t) \/ Reserves(t))
       \/ Finish(t) /\ UNCHANGED <<record, recipeEnv, mutex, starts, revived>>
    /\ UNCHANGED <<memory, nodeVars, asks, orphaned, late, unverified, mishaps>>

\* restart does not look at the record again.
Relaunch(t) ==
    /\ At(t, "relaunch") /\ Free
    /\ \/ Prepares(t) \/ Reserves(t)
       \/ Finish(t) /\ UNCHANGED <<record, recipeEnv, mutex, starts, revived>>
    /\ UNCHANGED <<memory, nodeVars, asks, orphaned, late, unverified, mishaps>>

\* The record is written, unless the transport or the log cannot be.
WriteLaunch(t) ==
    LET n == job[t].name IN
    /\ At(t, "record")
    /\ \/ /\ record' = [record EXCEPT ![n] = [launch |-> job[t].launch, status |-> "starting",
                                              deadline |-> TRUE]]
          /\ orphaned' = IF Rec(t) # NoRecord /\ Rec(t).status # "stopped"
                         THEN orphaned \cup {Rec(t).launch} ELSE orphaned
          /\ revived' = (revived \/ (job[t].op = "restart" /\ Rec(t) = NoRecord))
          /\ job' = [Stale(job, n) EXCEPT ![t].pc = "start"] /\ UNCHANGED <<mutex, mishaps>>
       \/ Finish(t) /\ Unlock /\ Mishap /\ UNCHANGED <<record, orphaned, revived>>
    /\ UNCHANGED <<recipeEnv, memory, nodeVars, starts, asks, late, unverified>>

StartLauncher(t) ==
    LET n == job[t].name
        l == job[t].launch
    IN /\ At(t, "start") /\ Unlock
       /\ \/ /\ launchers' = launchers \cup {l} /\ memory' = [memory EXCEPT ![n] = l]
             /\ job' = [Ending(t, job) EXCEPT ![l] =
                  [op |-> "wait", pc |-> "waiting", name |-> n, launch |-> l, status |-> "failed",
                   fresh |-> FALSE, saw |-> {}]]
             /\ UNCHANGED <<record, mishaps>>
          \/ /\ Writes(n, "failed") /\ job' = Ending(t, Stale(job, n)) /\ Mishap
             /\ UNCHANGED <<launchers, memory>>
       /\ UNCHANGED <<recipeEnv, strays, arriving, onNode, starts, ghostsOnly>>

\* waitForProcess: the launcher has ended.
LauncherWaited(l) ==
    LET n == job[l].name
        rec == record[n]
        ours == memory[n] = l
        open == ours /\ rec # NoRecord /\ rec.launch = l /\ rec.status \notin {"stopping", "stopped"}
    IN /\ l \in Launches /\ At(l, "waiting") /\ l \notin launchers /\ Free
       /\ memory' = IF ours THEN [memory EXCEPT ![n] = 0] ELSE memory
       /\ IF open
          THEN /\ \E status \in {"failed", "exited"} : Writes(n, status)
               /\ job' = [Stale(job, n) EXCEPT ![l].pc = "stop"]
          ELSE Finish(l) /\ UNCHANGED record
       /\ UNCHANGED <<recipeEnv, nodeVars, mutex, starts, ghosts>>

-----------------------------------------------------------------------------
\* reconcile, for one resource.

Supervises(pc, n, status) ==
    job' = [job EXCEPT ![Supervisor] =
       [op |-> "supervise", pc |-> pc, name |-> n, launch |-> record[n].launch,
        status |-> status, fresh |-> pc \notin {"stop", "expired"}, saw |-> {}]]

\* The record, whose deadline may have passed, and what the nodes show; a failed inspection leaves the resource.
Look(n) ==
    LET rec == record[n] IN
    /\ At(Supervisor, "rest") /\ Free
    /\ n \in Heads /\ rec # NoRecord /\ rec.status # "stopped"
    /\ \/ rec.deadline /\ Supervises("expired", n, "stopped")
       \/ /\ Own(rec.launch)
          /\ IF Active(n) \/ BothUp
             THEN Supervises("observed", n, IF BothUp THEN "running" ELSE rec.status)
             ELSE Supervises(IF Present # {} THEN "stop" ELSE "release", n, "stopped")
    /\ UNCHANGED <<record, recipeEnv, memory, nodeVars, mutex, starts, ghosts>>

\* Mutant of Release: the launcher is not fenced.
ReleaseUnfenced ==
    /\ At(Supervisor, "release") /\ Free
    /\ Rec(Supervisor) # NoRecord /\ job[Supervisor].fresh
    /\ Writes(job[Supervisor].name, "stopped")
    /\ job' = Ending(Supervisor, Stale(job, job[Supervisor].name))
    /\ unverified' = unverified \cup {Rec(Supervisor).launch}
    /\ UNCHANGED <<recipeEnv, memory, nodeVars, mutex, starts, asks, orphaned, late, revived, mishaps>>

\* fenceAndMarkStopped: nothing was seen on the nodes, and no launcher is left.
Release ==
    LET n == job[Supervisor].name
        rec == record[n]
        releases == rec # NoRecord /\ job[Supervisor].fresh /\ ~Active(n)
    IN /\ At(Supervisor, "release") /\ Free
       /\ \/ /\ releases /\ Writes(n, "stopped") /\ job' = Ending(Supervisor, Stale(job, n))
             /\ launchers' = launchers \ {rec.launch} /\ strays' = strays \ {rec.launch}
             /\ Killed({rec.launch})
             /\ unverified' = unverified \cup {rec.launch}
          \/ Finish(Supervisor) /\ UNCHANGED <<record, launchers, strays, late, arriving, unverified, mishaps>>
       /\ UNCHANGED <<recipeEnv, memory, onNode, mutex, starts, asks, orphaned, revived>>

-----------------------------------------------------------------------------
\* Launchers, Docker, time and the end of the agent.

\* start.sh reads the environment file once it runs; a container of the name
\* must not exist.
LauncherCreates(l, nd) ==
    /\ Alive(l) /\ onNode[nd] = NoRecord
    /\ \E label \in {l, recipeEnv} :
         onNode' = [onNode EXCEPT ![nd] = [launch |-> label, by |-> l, up |-> TRUE]]
    /\ UNCHANGED <<record, recipeEnv, memory, launchers, strays, arriving, job, mutex, starts, ghosts>>

\* Docker finishes what a killed command had asked for, without starting it.
DockerFinishes(c) ==
    /\ c \in arriving /\ arriving' = arriving \ {c}
    /\ onNode' = IF onNode[c.node] # NoRecord THEN onNode
                 ELSE [onNode EXCEPT ![c.node] = [launch |-> c.launch, by |-> c.by, up |-> FALSE]]
    /\ UNCHANGED <<record, recipeEnv, memory, launchers, strays, job, mutex, starts, ghosts>>

ContainerEnds(nd) ==
    /\ onNode[nd] # NoRecord /\ onNode[nd].up /\ onNode' = [onNode EXCEPT ![nd].up = FALSE] /\ Mishap
    /\ UNCHANGED <<record, recipeEnv, memory, launchers, strays, arriving, job, mutex, starts, ghostsOnly>>

\* A launcher may leave processes outside its process group.
LauncherEnds(l) ==
    /\ l \in launchers /\ launchers' = launchers \ {l}
    /\ \/ UNCHANGED <<strays, mishaps>>
       \/ strays' = strays \cup {l} /\ Mishap
    /\ UNCHANGED <<record, recipeEnv, memory, arriving, onNode, job, mutex, starts, ghostsOnly>>

\* The agent ends, and with it perhaps the launchers.
SupervisorEnds ==
    /\ Mishap /\ launchers' \in {launchers, {}}
    /\ job' = [a \in Actors |-> Resting] /\ Unlock /\ memory' = [n \in Resources |-> 0]
    /\ UNCHANGED <<record, recipeEnv, strays, arriving, onNode, starts, ghostsOnly>>

SupervisorInit ==
    /\ record = [n \in Resources |-> NoRecord] /\ recipeEnv = 0
    /\ memory = [n \in Resources |-> 0] /\ launchers = {} /\ strays = {} /\ arriving = {}
    /\ onNode = [nd \in Nodes |-> NoRecord]
    /\ job = [a \in Actors |-> Resting] /\ mutex = Unlocked /\ starts = 0
    /\ orphaned = {} /\ late = {} /\ unverified = {} /\ revived = FALSE
    /\ asks = 0 /\ mishaps = 0

ResourceStep(t) ==
    \/ \E n \in Resources, op \in {"create", "stop", "restart", "remove", "test"} :
         (op = "test" => n \in Heads) /\ Ask(t, op, n)
    \/ Observe(t) \/ Decide(t) \/ Remove(t) \/ Probe(t) \/ MarkReady(t)
    \/ Preflight(t) \/ Create(t) \/ Relaunch(t) \/ WriteLaunch(t) \/ StartLauncher(t)

NodeStep ==
    \/ \E l \in Launches, nd \in Nodes : LauncherCreates(l, nd)
    \/ \E c \in arriving : DockerFinishes(c)
    \/ \E nd \in Nodes : ContainerEnds(nd)
    \/ \E l \in Launches : LauncherEnds(l)

SupervisorNext ==
    \/ \E t \in Requesters : ResourceStep(t)
    \/ \E a \in Actors : CompareAndWrite(a) \/ StopStep(a)
    \/ \E l \in Launches : LauncherWaited(l)
    \/ (\E n \in Resources : Look(n)) \/ Release
    \/ NodeStep \/ SupervisorEnds

SupervisorSpec == SupervisorInit /\ [][SupervisorNext]_supervisorVars

-----------------------------------------------------------------------------
\* Properties.

SupervisorTypeOK ==
    /\ record \in [Resources -> Record \cup {NoRecord}]
    /\ recipeEnv \in 0 .. MaxStarts /\ memory \in [Resources -> 0 .. MaxStarts]
    /\ launchers \subseteq Launches /\ strays \subseteq Launches
    /\ arriving \subseteq [node: Nodes, launch: Launches, by: Launches]
    /\ onNode \in [Nodes -> NodeContainer \cup {NoRecord}]
    /\ job \in [Actors -> Job \cup {Resting}] /\ mutex \in Actors \cup {Unlocked}
    /\ starts \in 0 .. MaxStarts /\ asks \in Nat /\ revived \in BOOLEAN /\ mishaps \in Nat
    /\ \A ls \in {orphaned, late, unverified} : ls \subseteq Launches

Holds(l) == \E n \in Heads : record[n] # NoRecord /\ record[n].launch = l /\ record[n].status # "stopped"

\* fenceLauncherLocked: a launcher "could otherwise create fixed-name containers
\* after cleanup".  While a process of a launch is alive its record holds the
\* node, across agent restarts, unless two restarts of the resource overlapped.
FencedBeforeRelease == \A l \in Launches : Alive(l) => Holds(l) \/ l \in orphaned

\* A released launch has left no container, unless Docker was creating it when
\* the processes were fenced.
ReleasedIsClean ==
    \A nd \in Nodes :
      onNode[nd] # NoRecord => LET l == onNode[nd].by IN Holds(l) \/ l \in orphaned \cup late

\* The same of the launches that a stop released, which looks at the nodes after
\* it has fenced the launcher.
StoppedIsClean ==
    \A nd \in Nodes :
      onNode[nd] # NoRecord =>
        LET l == onNode[nd].by IN Holds(l) \/ l \in orphaned \cup late \cup unverified

\* A node is reserved by one resource, however creations interleave with stops,
\* removals and observations; only a restart that overlaps a removal may bring a
\* second record.
ReservedOnce == ~revived => Cardinality({n \in Resources : record[n] # NoRecord}) <= 1

\* Records, launchers and containers agree across agent restarts: one record holds
\* a node, a launcher lives only under it, and a stop releases the node clean
\* (tensorFoldManager.create, reconcile, fenceLauncherLocked).
SupervisorSafety ==
    SupervisorTypeOK /\ FencedBeforeRelease /\ StoppedIsClean /\ ReservedOnce

\* A stop that is done is not undone by an observation or by a launcher's end,
\* and while one is in progress only itself writes the record.
StopIsNotUndone ==
    [][\A n \in Heads :
         record[n] # NoRecord /\ record'[n] # NoRecord =>
           /\ record[n].status = "stopped" => record'[n].status \in {"stopped", "starting"}
           /\ ~Free /\ job[mutex].name = n /\ record'[n].status # record[n].status
              => job'[mutex] # job[mutex]]_supervisorVars
=============================================================================
