----------------------- MODULE AgentContainersProofs -----------------------
(***************************************************************************)
(* What the container handlers of an agent keep, for any names, groups,    *)
(* handlers and numbers of requests.                                       *)
(*                                                                         *)
(* The argument.  Launches are numbered in the order in which they register*)
(* and a number is a launch's alone (OwnNumbers).  A grouped launch holds  *)
(* its name's barrier until it ends, and Docker owes nothing to a launch   *)
(* that has ended unless its number is in `unguarded` (Owed): a deletion   *)
(* that has waited for the barrier it found is thus followed only by       *)
(* launches with higher numbers (Overtaken), which is what makes its answer*)
(* stay true.  A handler that names a container by an ID names one launch, *)
(* whose container, once Docker has created it, never changes its group    *)
(* (Settled).                                                              *)
(***************************************************************************)
EXTENDS AgentContainers, TLAPS

PreparePcs == {"prepare", "admitted"}
DeployPcs == PreparePcs \cup {"docker run", "cleanup", "remove own"}
MutatePcs == {"await launch", "await stop", "check", "act", "docker stop"}

Deploys(t) == task[t].pc \in DeployPcs
Prepares(t) == task[t].pc \in PreparePcs
Mutates(t) == task[t].pc \in MutatePcs

\* Docker has created the container of launch i, or never will.
Settled(i) ==
    /\ i \in 1 .. launched
    /\ \A a \in accepted : a.id # i
    /\ \A t \in Tasks : Prepares(t) => task[t].id # i

\* The container of launch i, if there is one, is of group g.
OfGroup(i, g) == \A n \in Existing : docker[n].id = i => docker[n].group = g

\* What each stage of a handler implies for the handler's own record.
Shape ==
    /\ \A t \in Tasks : Deploys(t) => task[t].op = "deploy" /\ task[t].id \in 1 .. launched
    /\ \A t \in Tasks : Mutates(t) =>
         /\ task[t].op \in {"delete", "stop", "restart"}
         /\ task[t].op = "delete" => task[t].id <= launched
         /\ task[t].op = "restart" => task[t].id <= stopCount
         /\ Member(t) /\ task[t].key[1] = "name" => task[t].key = <<"name", task[t].name>>
         /\ On(t, "await launch") => task[t].op = "delete" /\ Member(t)
         /\ On(t, "await stop") => task[t].op # "stop"
         /\ On(t, "docker stop") => task[t].op = "stop"

\* A launch is one handler's, one of what Docker has accepted, or a container.
OwnNumbers ==
    /\ \A t, u \in Tasks : Deploys(t) /\ Deploys(u) /\ task[t].id = task[u].id => t = u
    /\ \A t \in Tasks : Prepares(t) =>
         /\ \A a \in accepted : a.id # task[t].id
         /\ \A n \in Existing : docker[n].id # task[t].id
    /\ \A a \in accepted : a.id <= launched /\ \A n \in Existing : docker[n].id # a.id
    /\ \A a, b \in accepted : a.id = b.id => a = b
    /\ \A n \in Existing : docker[n].id <= launched
    /\ \A m, n \in Existing : docker[m].id = docker[n].id => m = n

\* A grouped launch holds the barrier of its name and came after every deletion
\* of it that was answered; deletions speak of launches that have registered.
Barred ==
    /\ \A t \in Tasks : Deploys(t) /\ Member(t) =>
         /\ launchGate[task[t].name] = task[t].id
         /\ cut[task[t].name][task[t].group] < task[t].id
    /\ \A n \in Names, g \in Groups : cut[n][g] <= launched

\* Docker owes a grouped launch a container only while its handler is at work.
Owed ==
    \A a \in accepted : a.group \in Groups =>
      \/ a.id \in unguarded
      \/ \E t \in Tasks : /\ Deploys(t) /\ task[t].id = a.id
                          /\ task[t].name = a.name /\ task[t].group = a.group

\* The launches of a name that a deletion of a member finds at work: the one it
\* waits for, and when it has waited only later ones.
Overtaken ==
    \A t, u \in Tasks :
      /\ Mutates(t) /\ task[t].op = "delete" /\ Member(t)
      /\ Deploys(u) /\ Member(u) /\ task[u].name = task[t].name
      => IF On(t, "await launch") THEN task[u].id <= task[t].id => task[u].id = task[t].gate
         ELSE task[u].id > task[t].id

\* The handler has looked at its container and may act on it.
FoundIt(t) ==
    /\ task[t].pc \in {"await stop", "act"}
    /\ Member(t) => task[t].op # "delete" \/ On(t, "act")

\* A handler that was given an ID acts on the container of one launch.
Named ==
    /\ \A t \in Tasks : Mutates(t) /\ task[t].key[1] = "id" =>
         /\ Settled(task[t].key[2])
         /\ FoundIt(t) => OfGroup(task[t].key[2], task[t].group)
    /\ \A t \in Tasks : On(t, "remove own") =>
         /\ task[t].key[1] = "id" /\ Settled(task[t].key[2])
         /\ OfGroup(task[t].key[2], task[t].group)
         /\ task[t].group = Legacy => task[t].key[2] = task[t].id

\* A stop holds its barrier, and one that nobody may kill holds it until Docker is
\* done; a restart that was asked for later waits for that barrier.
StopsBarred ==
    /\ \A t \in Tasks : task[t].pc \in {"act", "docker stop"} /\ task[t].op = "stop" =>
         stopGate[task[t].key] = t
    /\ \A s \in stopping : s.no <= stopCount
    /\ \A s \in stopping : s.by = Legacy /\ agentEnds = 0 =>
         LET u == stopGate[s.key]
         IN u \in Tasks /\ On(u, "docker stop") /\ ~Member(u) /\ task[u].key = s.key
    /\ \A t \in Tasks, s \in stopping :
         /\ Mutates(t) /\ task[t].op = "restart" /\ s.key = task[t].key /\ s.no <= task[t].id
         /\ s.by = Legacy /\ agentEnds = 0
         => /\ ~On(t, "act")
            /\ On(t, "await stop") => task[t].stopper = stopGate[s.key]

ContInv ==
    /\ ContainersTypeOK /\ Shape /\ OwnNumbers /\ Barred /\ Owed /\ Overtaken /\ Named
    /\ StopsBarred /\ DeletedStaysGone /\ AdmittedAlone

-----------------------------------------------------------------------------
\* How a step changes the handlers.

SameWork(t) ==
    /\ task'[t].op = task[t].op /\ task'[t].name = task[t].name
    /\ task'[t].group = task[t].group /\ task'[t].id = task[t].id

\* Nobody begins anything; who goes on keeps what it was asked for.
Continued ==
    \A t \in Tasks :
      /\ Deploys(t)' => Deploys(t) /\ SameWork(t)
      /\ Prepares(t)' => Prepares(t)
      /\ Mutates(t)' => Mutates(t) /\ SameWork(t) /\ task'[t].key = task[t].key

LEMMA TaskIsWork ==
    ASSUME ContainersTypeOK, NEW t \in Tasks, ~On(t, "idle")
    PROVE  task[t] \in Work
BY DEF ContainersTypeOK, On, Idling

LEMMA TaskSet ==
    ASSUME ContainersTypeOK, NEW t \in Tasks, NEW w, task' = [task EXCEPT ![t] = w]
    PROVE  task'[t] = w /\ \A u \in Tasks \ {t} : task'[u] = task[u]
BY DEF ContainersTypeOK

\* Only the place of one handler changes.
LEMMA GoesTo ==
    ASSUME ContainersTypeOK, NEW t \in Tasks, NEW label \in Steps, ~On(t, "idle"), Goes(t, label)
    PROVE  /\ task' \in [Tasks -> Work \cup {Idling}]
           /\ task'[t].pc = label /\ SameWork(t)
           /\ task'[t].key = task[t].key /\ task'[t].gate = task[t].gate
           /\ task'[t].stopper = task[t].stopper
           /\ \A u \in Tasks \ {t} : task'[u] = task[u]
BY TaskIsWork DEF ContainersTypeOK, Goes, Work, SameWork

LEMMA EndsWork ==
    ASSUME ContainersTypeOK, NEW t \in Tasks, Ends(t)
    PROVE  /\ task' \in [Tasks -> Work \cup {Idling}]
           /\ task'[t] = Idling
           /\ \A u \in Tasks \ {t} : task'[u] = task[u]
BY DEF ContainersTypeOK, Ends

Works(t) ==
    \/ PrepareFails(t) \/ Admit(t) \/ DockerRun(t) \/ RunSucceeds(t) \/ RunFails(t)
    \/ InspectOwn(t) \/ RemoveOwn(t)
    \/ AwaitLaunch(t) \/ AwaitStop(t) \/ WaitExpires(t) \/ Check(t)
    \/ ActDelete(t) \/ ActRestart(t) \/ ActStop(t) \/ StopReturns(t)

BeginsMutation(t) ==
    \/ \E n \in Names, g \in Groups, key \in Keys : BeginMember(t, n, g, key)
    \/ \E key \in Keys : BeginLegacy(t, key)

Begun ==
    \E t \in Tasks : BeginsMutation(t) \/ \E n \in Names, g \in Owners : BeginDeploy(t, n, g)

Rest == (\E t \in Tasks : Works(t)) \/ DockerActs \/ AgentEnds \/ UNCHANGED containerVars

LEMMA Kinds == [ContainersNext]_containerVars => Begun \/ Rest
BY Zenon DEF ContainersNext, Deploying, Mutating, Begun, BeginsMutation, Works, Rest

Edge(from, to) ==
    \/ from = "prepare" /\ to \in {"admitted", "docker run"}
    \/ from = "admitted" /\ to = "docker run"
    \/ from = "docker run" /\ to = "cleanup"
    \/ from = "cleanup" /\ to = "remove own"
    \/ from = "remove own" /\ to = "cleanup"
    \/ from = "await launch" /\ to = "await stop"
    \/ from = "await stop" /\ to \in {"check", "act"}
    \/ from = "check" /\ to \in {"await stop", "act"}
    \/ from = "act" /\ to = "docker stop"

\* What one handler's step does to the handlers.
Moves(t) ==
    /\ \A u \in Tasks \ {t} : task'[u] = task[u]
    /\ task[t] \in Work
    /\ \/ task'[t] = Idling
       \/ /\ task'[t] \in Work /\ SameWork(t) /\ Edge(task[t].pc, task'[t].pc)
          /\ task'[t].key = task[t].key \/ On(t, "cleanup")

LEMMA Working ==
    ASSUME ContainersTypeOK, NEW t \in Tasks, Works(t)
    PROVE  Moves(t)
<1> USE DEF Moves, On
<1>a. ASSUME NEW label \in Steps, ~On(t, "idle"), Goes(t, label), Edge(task[t].pc, label)
      PROVE  Moves(t)
  BY <1>a, GoesTo, TaskIsWork DEF ContainersTypeOK
<1>b. ASSUME ~On(t, "idle"), Ends(t) PROVE Moves(t)
  BY <1>b, EndsWork, TaskIsWork
<1>1. CASE PrepareFails(t)
  BY <1>1, <1>b DEF PrepareFails, DeployEnds
<1>2. CASE Admit(t)
  BY <1>2, <1>a DEF Admit, Steps, Edge
<1>3. CASE DockerRun(t)
  BY <1>3, <1>a DEF DockerRun, Steps, Edge
<1>4. CASE RunSucceeds(t)
  BY <1>4, <1>b DEF RunSucceeds, DeployEnds
<1>5. CASE RunFails(t)
  BY <1>5, <1>a DEF RunFails, Steps, Edge
<1>6. CASE InspectOwn(t)
  <2>1. ASSUME NEW n \in Names, On(t, "cleanup"), n \in Existing, n = task[t].name,
               task' = [task EXCEPT ![t].pc = "remove own", ![t].key = <<"id", docker[n].id>>]
        PROVE  Moves(t)
    <3>1. <<"id", docker[n].id>> \in Keys
      BY <2>1 DEF ContainersTypeOK, Existing, Container, Keys
    <3>2. task[t] \in Work
      BY <2>1, TaskIsWork
    <3>3. /\ task'[t] \in Work /\ SameWork(t) /\ task'[t].pc = "remove own"
          /\ \A u \in Tasks \ {t} : task'[u] = task[u]
      BY <2>1, <3>1, <3>2 DEF ContainersTypeOK, Work, Steps, SameWork
    <3> QED BY <2>1, <3>2, <3>3 DEF Edge
  <2>2. CASE DeployEnds(t)
    BY <1>6, <2>2, <1>b DEF InspectOwn, DeployEnds
  <2> QED BY <1>6, <2>1, <2>2 DEF InspectOwn, Existing
<1>7. CASE RemoveOwn(t)
  BY <1>7, <1>a, <1>b DEF RemoveOwn, DeployEnds, Steps, Edge
<1>8. CASE AwaitLaunch(t)
  <2>0. 0 \in 0 .. MaxLaunches
    BY ContainerAssumption
  <2>1. task[t] \in Work /\ task[t].key \in Keys
    BY <1>8, TaskIsWork DEF AwaitLaunch, Work
  <2>2. stopGate[task[t].key] \in Tasks \cup {NoTask}
    BY <2>1 DEF ContainersTypeOK
  <2>3. /\ task'[t] \in Work /\ SameWork(t) /\ task'[t].pc = "await stop"
        /\ task'[t].key = task[t].key
        /\ \A u \in Tasks \ {t} : task'[u] = task[u]
    BY <1>8, <2>0, <2>1, <2>2
      DEF AwaitLaunch, ContainersTypeOK, Work, Steps, SameWork, OnlyTask
  <2> QED BY <1>8, <2>1, <2>3 DEF AwaitLaunch, Edge
<1>9. CASE AwaitStop(t)
  <2>1. task[t] \in Work
    BY <1>9, TaskIsWork DEF AwaitStop
  <2>2. /\ task'[t] \in Work /\ SameWork(t) /\ task'[t].pc \in {"check", "act"}
        /\ task'[t].key = task[t].key
        /\ \A u \in Tasks \ {t} : task'[u] = task[u]
    BY <1>9, <2>1 DEF AwaitStop, Resumes, ContainersTypeOK, Work, Steps, SameWork
  <2> QED BY <1>9, <2>1, <2>2 DEF AwaitStop, Edge
<1>10. CASE WaitExpires(t)
  BY <1>10, <1>b DEF WaitExpires, Refused
<1>11. CASE Check(t)
  <2>0. task[t] \in Work /\ task[t].key \in Keys
    BY <1>11, TaskIsWork DEF Check, Work
  <2>1. ASSUME task' = [task EXCEPT ![t].pc = "await stop", ![t].stopper = stopGate[task[t].key]]
        PROVE  Moves(t)
    <3>1. stopGate[task[t].key] \in Tasks \cup {NoTask}
      BY <2>0 DEF ContainersTypeOK
    <3>2. /\ task'[t] \in Work /\ SameWork(t) /\ task'[t].pc = "await stop"
          /\ task'[t].key = task[t].key
          /\ \A u \in Tasks \ {t} : task'[u] = task[u]
      BY <2>0, <2>1, <3>1 DEF ContainersTypeOK, Work, Steps, SameWork
    <3> QED BY <1>11, <2>0, <3>2 DEF Check, Edge
  <2>2. CASE Goes(t, "act")
    BY <1>11, <2>2, <1>a DEF Check, Steps, Edge
  <2>3. CASE Ends(t)
    BY <1>11, <2>3, <1>b DEF Check
  <2> QED BY <1>11, <2>1, <2>2, <2>3 DEF Check, Checked, Goes
<1>12. CASE ActDelete(t)
  BY <1>12, <1>b DEF ActDelete
<1>13. CASE ActRestart(t)
  BY <1>13, <1>b DEF ActRestart
<1>14. CASE ActStop(t)
  BY <1>14, <1>a DEF ActStop, Steps, Edge
<1>15. CASE StopReturns(t)
  BY <1>15, <1>b DEF StopReturns
<1> QED BY <1>1, <1>2, <1>3, <1>4, <1>5, <1>6, <1>7, <1>8, <1>9, <1>10, <1>11, <1>12, <1>13,
           <1>14, <1>15 DEF Works

LEMMA Continuing == ASSUME ContainersTypeOK, Rest PROVE Continued
<1> USE DEF Deploys, Prepares, Mutates, DeployPcs, PreparePcs, MutatePcs
<1>1. ASSUME NEW t \in Tasks, Works(t) PROVE Continued
  <2>1. Moves(t)
    BY <1>1, Working
  <2>2. CASE task'[t] = Idling
    <3>1. ~Deploys(t)' /\ ~Prepares(t)' /\ ~Mutates(t)'
      BY <2>2 DEF Idling
    <3> QED BY <2>1, <3>1 DEF Moves, Continued, SameWork
  <2>3. CASE Edge(task[t].pc, task'[t].pc) /\ SameWork(t) /\ (task'[t].key = task[t].key \/ On(t, "cleanup"))
    <3>1. Deploys(t)' => Deploys(t)
      BY <2>3 DEF Edge
    <3>2. Prepares(t)' => Prepares(t)
      BY <2>3 DEF Edge
    <3>3. Mutates(t)' => Mutates(t) /\ task'[t].key = task[t].key
      BY <2>3 DEF Edge, On
    <3> QED BY <2>1, <2>3, <3>1, <3>2, <3>3 DEF Moves, Continued, SameWork
  <2> QED BY <2>1, <2>2, <2>3 DEF Moves
<1>2. CASE task' = task
  BY <1>2 DEF Continued, SameWork
<1>3. CASE AgentEnds
  BY <1>3 DEF AgentEnds, Continued, Idling
<1>4. DockerActs \/ UNCHANGED containerVars => task' = task
  BY DEF DockerActs, DockerCreates, BecomesTenant, DockerStops, containerVars
<1> QED BY <1>1, <1>2, <1>3, <1>4 DEF Rest

-----------------------------------------------------------------------------
\* How a step that begins nothing changes the rest.

LEMMA Counting == ASSUME ContainersTypeOK, Rest PROVE launched' = launched /\ stopCount <= stopCount'
<1>0. stopCount \in Nat
  BY DEF ContainersTypeOK
<1>1. ASSUME NEW t \in Tasks, Works(t) PROVE launched' = launched /\ stopCount <= stopCount'
  <2>1. CASE DeployEnds(t) \/ OnlyTask
    BY <1>0, <2>1 DEF DeployEnds, OnlyTask
  <2>2. CASE Admit(t) \/ DockerRun(t) \/ Check(t) \/ ActDelete(t) \/ ActRestart(t) \/ StopReturns(t)
    <3>1. UNCHANGED <<launched, stopCount>>
      BY <2>2, Zenon DEF Admit, DockerRun, Check, ActDelete, ActRestart, StopReturns
    <3> QED BY <1>0, <3>1
  <2>3. CASE ActStop(t)
    <3>1. launched' = launched /\ stopCount' = stopCount + 1
      BY <2>3, Zenon DEF ActStop
    <3> QED BY <1>0, <3>1
  <2> QED BY <1>1, <2>1, <2>2, <2>3 DEF Works, PrepareFails, RunSucceeds, RunFails, InspectOwn, RemoveOwn,
       AwaitLaunch, AwaitStop, Resumes, WaitExpires, Refused
<1>2. DockerActs \/ AgentEnds \/ UNCHANGED containerVars => launched' = launched /\ stopCount' = stopCount
  BY DEF DockerActs, DockerCreates, BecomesTenant, DockerStops, AgentEnds, containerVars
<1> QED BY <1>0, <1>1, <1>2 DEF Rest

LEMMA StopsCounted == ASSUME ContainersTypeOK, Rest PROVE stopCount' \in Nat
<1>1. ASSUME NEW t \in Tasks, Works(t), ~ActStop(t) PROVE stopCount' = stopCount
  BY <1>1, Zenon DEF Works, PrepareFails, DeployEnds, Admit, DockerRun, RunSucceeds, RunFails, OnlyTask,
     InspectOwn, RemoveOwn, AwaitLaunch, AwaitStop, Resumes, WaitExpires, Refused, Check, ActDelete,
     ActRestart, StopReturns
<1>2. ASSUME NEW t \in Tasks, ActStop(t) PROVE stopCount' = stopCount + 1
  BY <1>2, Zenon DEF ActStop
<1>3. DockerActs \/ AgentEnds \/ UNCHANGED containerVars => stopCount' = stopCount
  BY DEF DockerActs, DockerCreates, BecomesTenant, DockerStops, AgentEnds, containerVars
<1> QED BY <1>1, <1>2, <1>3 DEF Rest, ContainersTypeOK

\* Containers disappear, or change without changing their launch or group.
Thins ==
    \A n \in Existing' :
      n \in Existing /\ docker'[n].id = docker[n].id /\ docker'[n].group = docker[n].group

LEMMA Updating ==
    ASSUME ContainersTypeOK, NEW key,
           docker' \in {Update(key, Deleted), Update(key, Down), Update(key, Up)}
    PROVE  docker' \in [Names -> Container \cup {Gone}] /\ Thins
<1>0. \A n \in Existing : docker[n] \in Container
  BY DEF ContainersTypeOK, Existing
<1>1. CASE docker' = Update(key, Deleted)
  BY <1>1 DEF Update, Deleted, ContainersTypeOK, Thins, Existing, Selected
<1>2. CASE docker' = Update(key, Down)
  <2>1. \A c \in Container : Down(c) \in Container /\ Down(c).id = c.id /\ Down(c).group = c.group
    BY DEF Down, Container
  <2>2. \A n \in Names : docker'[n] = IF n \in Selected(key) THEN Down(docker[n]) ELSE docker[n]
    BY <1>2 DEF Update
  <2>3. docker' \in [Names -> Container \cup {Gone}]
    BY <1>0, <1>2, <2>1 DEF Update, ContainersTypeOK, Selected
  <2> QED BY <1>0, <2>1, <2>2, <2>3 DEF ContainersTypeOK, Thins, Existing, Selected
<1>3. CASE docker' = Update(key, Up)
  <2>1. \A c \in Container : Up(c) \in Container /\ Up(c).id = c.id /\ Up(c).group = c.group
    BY DEF Up, Container
  <2>2. \A n \in Names : docker'[n] = IF n \in Selected(key) THEN Up(docker[n]) ELSE docker[n]
    BY <1>3 DEF Update
  <2>3. docker' \in [Names -> Container \cup {Gone}]
    BY <1>0, <1>3, <2>1 DEF Update, ContainersTypeOK, Selected
  <2> QED BY <1>0, <2>1, <2>2, <2>3 DEF ContainersTypeOK, Thins, Existing, Selected
<1> QED BY <1>1, <1>2, <1>3

\* Only Docker creates a container.
LEMMA Handling ==
    ASSUME ContainersTypeOK, NEW t \in Tasks, Works(t)
    PROVE  docker' \in [Names -> Container \cup {Gone}] /\ Thins
<1>1. CASE UNCHANGED docker
  BY <1>1 DEF ContainersTypeOK, Thins, Existing
<1>2. CASE RemoveOwn(t)
  <2>1. \/ docker' = Update(task[t].key, Deleted)
        \/ UNCHANGED docker
    BY <1>2 DEF RemoveOwn, OnlyTask
  <2> QED BY <1>1, <2>1, Updating
<1>3. CASE ActDelete(t)
  BY <1>1, <1>3, Updating DEF ActDelete
<1>4. CASE ActRestart(t)
  BY <1>1, <1>4, Updating DEF ActRestart
<1> QED BY <1>1, <1>2, <1>3, <1>4 DEF Works, PrepareFails, Admit, DockerRun, RunSucceeds, RunFails,
     OnlyTask, InspectOwn, AwaitLaunch, AwaitStop, Resumes, WaitExpires, Refused, Check, ActStop,
     StopReturns

\* What Docker has accepted becomes a container where there is none.
Creates(n) ==
    /\ n \notin Existing /\ task' = task
    /\ \E a \in accepted \ accepted' :
         a.name = n /\ a.id = docker'[n].id /\ a.group = docker'[n].group

LEMMA Creating ==
    ASSUME ContainersTypeOK, NEW a \in accepted, DockerCreates(a)
    PROVE  /\ docker' \in [Names -> Container \cup {Gone}]
           /\ \A n \in Existing' :
                Creates(n) \/ (n \in Existing /\ docker'[n] = docker[n])
<1>1. a \in [id: Ids, name: Names, group: Owners]
  BY DEF ContainersTypeOK
<1>2. [id |-> a.id, group |-> a.group, state |-> "running", tenant |-> FALSE] \in Container
  BY <1>1 DEF Container
<1>3. CASE a.name \in Existing
  BY <1>3 DEF DockerCreates, ContainersTypeOK, Existing
<1>4. CASE a.name \notin Existing
  BY <1>1, <1>2, <1>4 DEF DockerCreates, ContainersTypeOK, Existing, Creates
<1> QED BY <1>3, <1>4

LEMMA Appearing ==
    ASSUME ContainersTypeOK, Rest
    PROVE  /\ docker' \in [Names -> Container \cup {Gone}]
           /\ \A n \in Existing' :
                \/ Creates(n)
                \/ n \in Existing /\ docker'[n].id = docker[n].id /\ docker'[n].group = docker[n].group
<1>1. CASE UNCHANGED docker
  BY <1>1 DEF ContainersTypeOK, Existing
<1>2. ASSUME NEW n \in Names, BecomesTenant(n)
      PROVE  docker' \in [Names -> Container \cup {Gone}] /\ Thins
  BY <1>2 DEF BecomesTenant, ContainersTypeOK, Container, Existing, Thins
<1>3. ASSUME NEW s \in stopping, DockerStops(s)
      PROVE  docker' \in [Names -> Container \cup {Gone}] /\ Thins
  BY <1>3, Updating DEF DockerStops
<1> QED BY <1>1, <1>2, <1>3, Handling, Creating DEF Rest, DockerActs, AgentEnds, containerVars, Thins

\* A handler that runs docker run adds its own launch to what Docker has accepted.
Accepts(a) ==
    \E t \in Tasks :
      /\ Prepares(t) /\ Deploys(t)' /\ ~Prepares(t)' /\ SameWork(t)
      /\ a = [id |-> task[t].id, name |-> task[t].name, group |-> task[t].group]

LEMMA Accepting ==
    ASSUME ContainersTypeOK, Rest
    PROVE  \A a \in accepted' : a \in accepted \/ Accepts(a)
<1>1. ASSUME NEW t \in Tasks, DockerRun(t), NEW a \in accepted' PROVE a \in accepted \/ Accepts(a)
  <2>1. Prepares(t) /\ ~On(t, "idle")
    BY <1>1 DEF DockerRun, Prepares, PreparePcs, On
  <2>2. task'[t].pc = "docker run" /\ SameWork(t)
    BY <1>1, <2>1, GoesTo DEF DockerRun, Steps
  <2>3. Deploys(t)' /\ ~Prepares(t)'
    BY <2>2 DEF Deploys, DeployPcs, Prepares, PreparePcs
  <2> QED BY <1>1, <2>1, <2>2, <2>3 DEF DockerRun, Accepts
<1>2. ASSUME NEW t \in Tasks, Works(t), ~DockerRun(t) PROVE accepted' = accepted
  BY <1>2 DEF Works, PrepareFails, Admit, RunSucceeds, RunFails, OnlyTask, InspectOwn, RemoveOwn,
     AwaitLaunch, AwaitStop, Resumes, WaitExpires, Refused, Check, ActDelete, ActRestart, ActStop,
     StopReturns
<1>3. DockerActs \/ AgentEnds \/ UNCHANGED containerVars => accepted' \subseteq accepted
  BY DEF DockerActs, DockerCreates, BecomesTenant, DockerStops, AgentEnds, containerVars
<1> QED BY <1>1, <1>2, <1>3 DEF Rest

\* A handler that ends its launch.
LEMMA LaunchEnds ==
    ASSUME ContainersTypeOK, NEW t \in Tasks, Works(t), UNCHANGED <<launchGate, unguarded>> => FALSE
    PROVE  Deploys(t) /\ DeployEnds(t)
<1>1. CASE DeployEnds(t)
  BY <1>1 DEF Works, PrepareFails, Admit, DockerRun, RunSucceeds, RunFails, OnlyTask, InspectOwn, RemoveOwn,
     AwaitLaunch, AwaitStop, Resumes, WaitExpires, Refused, Check, ActDelete, ActRestart, ActStop,
     StopReturns, Deploys, DeployPcs, PreparePcs, On
<1>2. CASE ~DeployEnds(t)
  BY <1>2, Zenon DEF Works, PrepareFails, Admit, DockerRun, RunSucceeds, RunFails, OnlyTask, InspectOwn,
     RemoveOwn, AwaitLaunch, AwaitStop, Resumes, WaitExpires, Refused, Check, ActDelete, ActRestart,
     ActStop, StopReturns
<1> QED BY <1>1, <1>2

\* Nobody but a launch itself, and the agent's end, takes its name's barrier away.
LEMMA GateKept ==
    ASSUME ContainersTypeOK, OwnNumbers, Rest,
           NEW u \in Tasks, Deploys(u), task'[u].pc \in DeployPcs,
           launchGate[task[u].name] = task[u].id
    PROVE  launchGate'[task[u].name] = task[u].id
<1>0. task[u] \in Work /\ task[u].name \in Names
  <2>1. ~On(u, "idle")
    BY DEF Deploys, DeployPcs, PreparePcs, On
  <2> QED BY <2>1, TaskIsWork DEF Work
<1>1. ASSUME NEW t \in Tasks, Works(t), launchGate' # launchGate
      PROVE  launchGate'[task[u].name] = task[u].id
  <2>1. Deploys(t) /\ DeployEnds(t)
    BY <1>1, LaunchEnds
  <2>2. task'[t] = Idling
    BY <2>1, EndsWork DEF DeployEnds
  <2>3. t # u
    <3>0. Idling.pc = "idle"
      BY DEF Idling
    <3>1. task'[u] # Idling
      BY <3>0 DEF DeployPcs, PreparePcs
    <3> QED BY <2>2, <3>1
  <2>4. task[t].id # task[u].id
    BY <2>1, <2>3 DEF OwnNumbers
  <2> QED BY <1>0, <2>1, <2>4 DEF DeployEnds, Lifted, ContainersTypeOK
<1>2. CASE AgentEnds
  BY <1>2 DEF AgentEnds, Deploys, DeployPcs, PreparePcs, Idling
<1>3. DockerActs \/ UNCHANGED containerVars => launchGate' = launchGate
  BY DEF DockerActs, DockerCreates, BecomesTenant, DockerStops, containerVars
<1> QED BY <1>1, <1>2, <1>3 DEF Rest

\* What Docker still owes a launch that ends is no longer guarded.
LEMMA Unguarding ==
    ASSUME ContainersTypeOK, OwnNumbers, Rest
    PROVE  /\ unguarded \subseteq unguarded' /\ unguarded' \subseteq Ids
           /\ \A t \in Tasks, a \in accepted :
                Deploys(t) /\ task[t].id = a.id /\ ~Deploys(t)' => a.id \in unguarded'
<1>0. \A a \in accepted : a.id \in Ids
  BY DEF ContainersTypeOK
<1>1. ASSUME NEW t \in Tasks, Works(t), NEW u \in Tasks, Deploys(u), ~Deploys(u)'
      PROVE  u = t /\ DeployEnds(t)
  <2>1. Moves(t)
    BY <1>1, Working
  <2>2. u = t
    BY <1>1, <2>1 DEF Moves, Deploys
  <2>3. CASE ~DeployEnds(t)
    <3>1. \/ Admit(t) \/ DockerRun(t) \/ RunFails(t)
          \/ task' = [task EXCEPT ![t].pc = "remove own",
                                  ![t].key = <<"id", docker[task[t].name].id>>]
          \/ Goes(t, "cleanup") \/ task[t].pc \in MutatePcs
      BY <1>1, <2>3, Zenon DEF Works, PrepareFails, RunSucceeds, InspectOwn, RemoveOwn, AwaitLaunch,
         AwaitStop, WaitExpires, Check, ActDelete, ActRestart, ActStop, StopReturns, MutatePcs, On
    <3>2. task[t].pc \notin MutatePcs /\ ~On(t, "idle")
      BY <1>1, <2>2 DEF Deploys, DeployPcs, PreparePcs, MutatePcs, On
    <3>3. \A label \in DeployPcs : ~Goes(t, label)
      <4>1. ASSUME NEW label \in DeployPcs, Goes(t, label) PROVE FALSE
        <5>1. label \in Steps
          BY DEF DeployPcs, PreparePcs, Steps
        <5>2. task'[t].pc = label
          BY <3>2, <4>1, <5>1, GoesTo
        <5> QED BY <1>1, <2>2, <5>2 DEF Deploys
      <4> QED BY <4>1
    <3>4. ~(Admit(t) \/ DockerRun(t) \/ RunFails(t) \/ Goes(t, "cleanup"))
      BY <3>3 DEF Admit, DockerRun, RunFails, DeployPcs, PreparePcs
    <3>5. task' = [task EXCEPT ![t].pc = "remove own", ![t].key = <<"id", docker[task[t].name].id>>]
      BY <3>1, <3>2, <3>4
    <3>6. task'[t].pc = "remove own"
      BY <2>1, <3>5 DEF ContainersTypeOK, Moves, Work
    <3> QED BY <1>1, <2>2, <3>6 DEF Deploys, DeployPcs
  <2> QED BY <2>2, <2>3
<1>2. ASSUME NEW t \in Tasks, Works(t)
      PROVE  /\ unguarded \subseteq unguarded' /\ unguarded' \subseteq Ids
             /\ \A u \in Tasks, a \in accepted :
                  Deploys(u) /\ task[u].id = a.id /\ ~Deploys(u)' => a.id \in unguarded'
  <2>1. unguarded \subseteq unguarded' /\ unguarded' \subseteq Ids
    BY <1>0, <1>2, LaunchEnds DEF DeployEnds, ContainersTypeOK
  <2> QED BY <1>1, <1>2, <2>1 DEF DeployEnds
<1>3. CASE AgentEnds
  BY <1>0, <1>3 DEF AgentEnds, ContainersTypeOK
<1>4. DockerActs \/ UNCHANGED containerVars => task' = task /\ unguarded' = unguarded
  BY DEF DockerActs, DockerCreates, BecomesTenant, DockerStops, containerVars
<1> QED BY <1>2, <1>3, <1>4 DEF Rest, Deploys, ContainersTypeOK

\* The deletion of a member, asked for by its name, is answered.
Answers(t) ==
    /\ Mutates(t) /\ ~On(t, "await launch") /\ task[t].op = "delete" /\ Member(t)
    /\ cut' = [cut EXCEPT ![task[t].name][task[t].group] = task[t].id]
    /\ docker'[task[t].name] = Gone

LEMMA Answering ==
    ASSUME ContainersTypeOK, Shape, Rest
    PROVE  cut' = cut \/ \E t \in Tasks : Answers(t)
<1>1. ASSUME NEW t \in Tasks, Check(t) \/ ActDelete(t), cut' # cut PROVE Answers(t)
  <2>1. /\ AnsweredGone(t) /\ Member(t) /\ task[t].op = "delete" /\ (On(t, "check") \/ On(t, "act"))
        /\ \/ Selected(task[t].key) = {} /\ docker' = docker
           \/ docker' = Update(task[t].key, Deleted)
    BY <1>1, Zenon DEF Check, ActDelete
  <2>2. Mutates(t) /\ ~On(t, "await launch")
    BY <2>1 DEF Mutates, MutatePcs, On
  <2>3. task[t].key[1] = "name" /\ cut' = [cut EXCEPT ![task[t].name][task[t].group] = task[t].id]
    BY <1>1, <2>1 DEF AnsweredGone
  <2>4. task[t].key = <<"name", task[t].name>>
    BY <2>1, <2>2, <2>3 DEF Shape
  <2>5. task[t].name \in Names
    BY <2>2, TaskIsWork DEF Mutates, MutatePcs, On, Work
  <2>6. docker'[task[t].name] = Gone
    BY <2>1, <2>4, <2>5 DEF Selected, Update, Deleted, Existing, ContainersTypeOK
  <2> QED BY <2>1, <2>2, <2>3, <2>6 DEF Answers
<1>2. ASSUME NEW t \in Tasks, Works(t), ~Check(t), ~ActDelete(t) PROVE cut' = cut
  BY <1>2, Zenon DEF Works, PrepareFails, DeployEnds, Admit, DockerRun, RunSucceeds, RunFails, OnlyTask,
     InspectOwn, RemoveOwn, AwaitLaunch, AwaitStop, Resumes, WaitExpires, Refused, ActRestart, ActStop,
     StopReturns
<1>3. DockerActs \/ AgentEnds \/ UNCHANGED containerVars => cut' = cut
  BY DEF DockerActs, DockerCreates, BecomesTenant, DockerStops, AgentEnds, containerVars
<1> QED BY <1>1, <1>2, <1>3 DEF Rest

-----------------------------------------------------------------------------
\* A step that begins nothing preserves the invariant, part by part.

LEMMA IdlingIsIdle == Idling.pc = "idle"
BY DEF Idling

\* The step of a handler that goes on is the one of its stage.
LEMMA StageSteps ==
    ASSUME NEW t \in Tasks, Works(t)
    PROVE  /\ On(t, "cleanup") => InspectOwn(t)
           /\ On(t, "remove own") => RemoveOwn(t)
           /\ On(t, "await launch") => AwaitLaunch(t) \/ WaitExpires(t)
           /\ On(t, "await stop") => AwaitStop(t) \/ WaitExpires(t)
           /\ On(t, "check") => Check(t)
           /\ On(t, "act") => ActDelete(t) \/ ActRestart(t) \/ ActStop(t)
           /\ On(t, "docker stop") => StopReturns(t)
           /\ On(t, "docker run") => RunSucceeds(t) \/ RunFails(t)
           /\ Prepares(t) => PrepareFails(t) \/ Admit(t) \/ DockerRun(t)
<1>1. \/ /\ PrepareFails(t) \/ Admit(t) \/ DockerRun(t)
         /\ Prepares(t)
      \/ On(t, "docker run") /\ (RunSucceeds(t) \/ RunFails(t))
      \/ On(t, "cleanup") /\ InspectOwn(t)
      \/ On(t, "remove own") /\ RemoveOwn(t)
      \/ On(t, "await launch") /\ AwaitLaunch(t)
      \/ On(t, "await stop") /\ AwaitStop(t)
      \/ (On(t, "await launch") \/ On(t, "await stop")) /\ WaitExpires(t)
      \/ On(t, "check") /\ Check(t)
      \/ On(t, "act") /\ (ActDelete(t) \/ ActRestart(t) \/ ActStop(t))
      \/ On(t, "docker stop") /\ StopReturns(t)
  <2>1. PrepareFails(t) \/ Admit(t) \/ DockerRun(t) => Prepares(t)
    BY DEF PrepareFails, Admit, DockerRun, Prepares, PreparePcs, On
  <2>2. /\ RunSucceeds(t) \/ RunFails(t) => On(t, "docker run")
        /\ InspectOwn(t) => On(t, "cleanup")
        /\ RemoveOwn(t) => On(t, "remove own")
        /\ AwaitLaunch(t) => On(t, "await launch")
        /\ AwaitStop(t) => On(t, "await stop")
        /\ Check(t) => On(t, "check")
        /\ ActDelete(t) \/ ActRestart(t) \/ ActStop(t) => On(t, "act")
        /\ StopReturns(t) => On(t, "docker stop")
    BY Zenon DEF RunSucceeds, RunFails, InspectOwn, RemoveOwn, AwaitLaunch, AwaitStop, Check, ActDelete,
       ActRestart, ActStop, StopReturns
  <2>3. WaitExpires(t) => On(t, "await launch") \/ On(t, "await stop")
    BY DEF WaitExpires, On
  <2> QED BY <2>1, <2>2, <2>3 DEF Works
<1> QED BY <1>1 DEF On, Prepares, PreparePcs

\* A handler that waits for a launch, or is still in its stage, has not moved.
LEMMA StaysOrMoves ==
    ASSUME ContainersTypeOK, Rest, NEW t \in Tasks, task'[t].pc # "idle"
    PROVE  \/ task'[t] = task[t]
           \/ Works(t) /\ Moves(t) /\ Edge(task[t].pc, task'[t].pc)
<1>1. ASSUME NEW u \in Tasks, Works(u)
      PROVE  \/ task'[t] = task[t]
             \/ Works(t) /\ Moves(t) /\ Edge(task[t].pc, task'[t].pc)
  <2>1. Moves(u)
    BY <1>1, Working
  <2>2. CASE u = t
    BY <1>1, <2>1, <2>2, IdlingIsIdle DEF Moves
  <2>3. CASE u # t
    BY <2>1, <2>3 DEF Moves
  <2> QED BY <2>2, <2>3
<1>2. CASE AgentEnds
  BY <1>2, IdlingIsIdle DEF AgentEnds
<1>3. DockerActs \/ UNCHANGED containerVars => task' = task
  BY DEF DockerActs, DockerCreates, BecomesTenant, DockerStops, containerVars
<1> QED BY <1>1, <1>2, <1>3 DEF Rest


LEMMA OwnNumbersKept == ASSUME ContainersTypeOK, Shape, OwnNumbers, Rest PROVE OwnNumbers'
<1>1. Continued /\ launched' = launched
  BY Continuing, Counting
<1>2. \A a \in accepted' : a \in accepted \/ Accepts(a)
  BY Accepting
<1>3. \A n \in Existing' :
        \/ Creates(n)
        \/ n \in Existing /\ docker'[n].id = docker[n].id /\ docker'[n].group = docker[n].group
  BY Appearing
<1>4. \A t, u \in Tasks : Deploys(t)' /\ Deploys(u)' /\ task'[t].id = task'[u].id => t = u
  BY <1>1 DEF OwnNumbers, Continued, SameWork
<1>5. ASSUME NEW a \in accepted', Accepts(a)
      PROVE  /\ \A t \in Tasks : Prepares(t)' => a.id # task'[t].id
             /\ a.id <= launched /\ (\A n \in Existing : docker[n].id # a.id)
             /\ \A n \in Names : ~Creates(n)
             /\ \A b \in accepted : b.id # a.id
             /\ \A b \in accepted' : Accepts(b) /\ a.id = b.id => a = b
  <2>1. PICK u \in Tasks :
          /\ Prepares(u) /\ Deploys(u)' /\ ~Prepares(u)' /\ SameWork(u)
          /\ a = [id |-> task[u].id, name |-> task[u].name, group |-> task[u].group]
    BY <1>5 DEF Accepts
  <2>2. a.id = task[u].id /\ Deploys(u)
    BY <2>1 DEF Prepares, Deploys, DeployPcs
  <2>3. \A t \in Tasks : Prepares(t) => Deploys(t)
    BY DEF Prepares, Deploys, DeployPcs
  <2>4. \A t \in Tasks : Prepares(t)' => a.id # task'[t].id
    <3>1. ASSUME NEW t \in Tasks, Prepares(t)' PROVE t # u /\ Prepares(t) /\ task'[t].id = task[t].id
      <4>1. Deploys(t)'
        BY <3>1 DEF Prepares, Deploys, DeployPcs
      <4> QED BY <1>1, <2>1, <3>1, <4>1 DEF Continued, SameWork
    <3> QED BY <2>2, <2>3, <3>1 DEF OwnNumbers
  <2>5. a.id <= launched /\ (\A n \in Existing : docker[n].id # a.id) /\ \A b \in accepted : b.id # a.id
    <3>1. task[u].id \in 1 .. launched
      BY <2>2 DEF Shape
    <3> QED BY <2>1, <2>2, <3>1 DEF OwnNumbers, ContainersTypeOK
  <2>6. \A n \in Names : ~Creates(n)
    BY <2>1 DEF Creates, Prepares
  <2>7. ASSUME NEW b \in accepted', Accepts(b), a.id = b.id PROVE a = b
    <3>1. PICK v \in Tasks :
            /\ Prepares(v)
            /\ b = [id |-> task[v].id, name |-> task[v].name, group |-> task[v].group]
      BY <2>7 DEF Accepts
    <3>2. u = v
      BY <2>1, <2>2, <2>3, <2>7, <3>1 DEF OwnNumbers
    <3> QED BY <2>1, <3>1, <3>2
  <2> QED BY <2>4, <2>5, <2>6, <2>7
<1>6. \A t \in Tasks : Prepares(t)' =>
         /\ \A a \in accepted' : a.id # task'[t].id
         /\ \A n \in Existing' : docker'[n].id # task'[t].id
  <2>1. ASSUME NEW t \in Tasks, Prepares(t)'
        PROVE  /\ task'[t].id = task[t].id /\ Prepares(t)
    <3>1. Deploys(t)'
      BY <2>1 DEF Prepares, Deploys, DeployPcs
    <3> QED BY <1>1, <2>1, <3>1 DEF Continued, SameWork
  <2> QED BY <1>2, <1>3, <1>5, <2>1 DEF OwnNumbers, Creates
<1>7. \A a \in accepted' : a.id <= launched /\ \A n \in Existing' : docker'[n].id # a.id
  <2>1. Existing' \subseteq Names
    BY DEF Existing
  <2> QED BY <1>2, <1>3, <1>5, <2>1 DEF OwnNumbers, Creates
<1>8. \A a, b \in accepted' : a.id = b.id => a = b
  BY <1>2, <1>5 DEF OwnNumbers
<1>9. \A n \in Existing' : docker'[n].id <= launched
  BY <1>3 DEF OwnNumbers, Creates
<1>10. \A m, n \in Existing' : docker'[m].id = docker'[n].id => m = n
  BY <1>3 DEF OwnNumbers, Creates
<1> QED BY <1>1, <1>4, <1>6, <1>7, <1>8, <1>9, <1>10 DEF OwnNumbers

LEMMA ShapeKept == ASSUME ContainersTypeOK, Shape, Rest PROVE Shape'
<1>0. Continued /\ launched' = launched /\ stopCount <= stopCount' /\ stopCount \in Nat
  BY Continuing, Counting DEF ContainersTypeOK
<1>1. \A t \in Tasks : Deploys(t)' => task'[t].op = "deploy" /\ task'[t].id \in 1 .. launched'
  BY <1>0 DEF Shape, Continued, SameWork
<1>2. ASSUME NEW t \in Tasks, Mutates(t)'
      PROVE  /\ Mutates(t) /\ SameWork(t) /\ task'[t].key = task[t].key
             /\ task'[t].op \in {"delete", "stop", "restart"}
             /\ task'[t].op = "delete" => task'[t].id <= launched'
             /\ task'[t].op = "restart" => task'[t].id <= stopCount
             /\ Member(t)' /\ task'[t].key[1] = "name" => task'[t].key = <<"name", task'[t].name>>
  BY <1>0, <1>2 DEF Shape, Continued, SameWork, Member
<1>3. ASSUME NEW t \in Tasks, Mutates(t)', task'[t].op = "restart" PROVE task'[t].id <= stopCount'
  <2>1. task[t] \in Work /\ task'[t].id = task[t].id /\ task[t].id <= stopCount
    <3>1. ~On(t, "idle")
      BY <1>2, <1>3 DEF Mutates, MutatePcs, On
    <3> QED BY <1>2, <1>3, <3>1, TaskIsWork DEF SameWork
  <2>2. stopCount' \in Nat /\ task[t].id \in Nat
    BY <1>0, <2>1, StopsCounted DEF Work
  <2> QED BY <1>0, <2>1, <2>2
<1>4. ASSUME NEW t \in Tasks, Mutates(t)'
      PROVE  /\ On(t, "await launch")' => task'[t].op = "delete" /\ Member(t)'
             /\ On(t, "await stop")' => task'[t].op # "stop"
             /\ On(t, "docker stop")' => task'[t].op = "stop"
  <2>0. task'[t].pc # "idle"
    BY <1>4 DEF Mutates, MutatePcs
  <2>1. CASE task'[t] = task[t]
    BY <1>2, <1>4, <2>1 DEF Shape, On, Member
  <2>2. CASE Works(t) /\ Moves(t) /\ Edge(task[t].pc, task'[t].pc)
    <3>1. ~On(t, "await launch")'
      BY <2>2 DEF On, Edge
    <3>2. ASSUME On(t, "await stop")' PROVE task'[t].op # "stop"
      <4>1. On(t, "await launch") \/ On(t, "check")
        BY <2>2, <3>2 DEF On, Edge
      <4>2. CASE On(t, "await launch")
        BY <1>2, <1>4, <4>2 DEF Shape, SameWork
      <4>3. CASE On(t, "check")
        <5>1. Check(t)
          BY <2>2, <4>3, StageSteps
        <5>2. task[t].op = "stop" => Goes(t, "act") \/ Ends(t)
          BY <5>1, Zenon DEF Check, Checked
        <5>3. ~On(t, "idle") /\ "act" \in Steps
          BY <4>3 DEF On, Steps
        <5>4. Goes(t, "act") => task'[t].pc = "act"
          BY <5>3, GoesTo
        <5>5. Ends(t) => task'[t].pc = "idle"
          BY EndsWork, IdlingIsIdle
        <5>6. task'[t].pc = "await stop"
          BY <3>2 DEF On
        <5>7. task'[t].op = task[t].op
          BY <1>2, <1>4 DEF SameWork
        <5> QED BY <5>2, <5>4, <5>5, <5>6, <5>7
      <4> QED BY <4>1, <4>2, <4>3
    <3>3. ASSUME On(t, "docker stop")' PROVE task'[t].op = "stop"
      <4>1. On(t, "act")
        BY <2>2, <3>3 DEF On, Edge
      <4>2. ActDelete(t) \/ ActRestart(t) \/ ActStop(t)
        BY <2>2, <4>1, StageSteps
      <4>3. Ends(t) \/ task[t].op = "stop"
        BY <4>2, Zenon DEF ActDelete, ActRestart, ActStop
      <4>4. Ends(t) => task'[t].pc = "idle"
        BY EndsWork, IdlingIsIdle
      <4> QED BY <1>2, <1>4, <3>3, <4>3, <4>4 DEF On, SameWork
    <3> QED BY <3>1, <3>2, <3>3
  <2> QED BY <2>0, <2>1, <2>2, StaysOrMoves
<1> QED BY <1>1, <1>2, <1>3, <1>4 DEF Shape

LEMMA BarredKept ==
    ASSUME ContainersTypeOK, Shape, OwnNumbers, Barred, Overtaken, Rest
    PROVE  Barred'
<1>0. \A n \in Names, g \in Groups : cut'[n][g] <= launched'
  <2>1. ASSUME NEW t \in Tasks, Answers(t), NEW n \in Names, NEW g \in Groups
        PROVE  cut'[n][g] <= launched
    <3>1. task[t].id <= launched
      BY <2>1 DEF Answers, Shape
    <3>2. cut'[n][g] \in {cut[n][g], task[t].id}
      BY <2>1 DEF Answers, ContainersTypeOK
    <3> QED BY <3>1, <3>2 DEF Barred
  <2> QED BY <2>1, Answering, Counting DEF Barred
<1>1. SUFFICES ASSUME NEW u \in Tasks, Deploys(u)', Member(u)'
               PROVE  /\ launchGate'[task'[u].name] = task'[u].id
                      /\ cut'[task'[u].name][task'[u].group] < task'[u].id
  BY <1>0 DEF Barred
<1>2. Deploys(u) /\ SameWork(u) /\ Member(u)
  BY <1>1, Continuing DEF Continued, Member, SameWork
<1>3. task'[u].pc \in DeployPcs
  BY <1>1 DEF Deploys
<1>4. launchGate[task[u].name] = task[u].id /\ cut[task[u].name][task[u].group] < task[u].id
  BY <1>2 DEF Barred
<1>5. launchGate'[task[u].name] = task[u].id
  BY <1>2, <1>3, <1>4, GateKept
<1>6. ~On(u, "idle") /\ task[u] \in Work
  BY <1>2, TaskIsWork DEF Deploys, DeployPcs, PreparePcs, On
<1>7. task[u].name \in Names /\ task[u].group \in Groups
  BY <1>2, <1>6 DEF Work, Owners, Member
<1>8. ASSUME NEW t \in Tasks, Answers(t) PROVE cut'[task[u].name][task[u].group] < task[u].id
  <2>1. CASE task[u].name = task[t].name /\ task[u].group = task[t].group
    <3>1. task[u].id > task[t].id
      BY <1>2, <1>8, <2>1 DEF Answers, Overtaken
    <3>2. cut'[task[u].name][task[u].group] = task[t].id
      BY <1>7, <1>8, <2>1 DEF Answers, ContainersTypeOK
    <3> QED BY <3>1, <3>2
  <2>2. CASE ~(task[u].name = task[t].name /\ task[u].group = task[t].group)
    <3>1. cut'[task[u].name][task[u].group] = cut[task[u].name][task[u].group]
      BY <1>7, <1>8, <2>2 DEF Answers, ContainersTypeOK
    <3> QED BY <1>4, <3>1
  <2> QED BY <2>1, <2>2
<1>9. cut'[task[u].name][task[u].group] < task[u].id
  BY <1>4, <1>8, Answering
<1> QED BY <1>2, <1>5, <1>9 DEF SameWork

LEMMA OwedKept ==
    ASSUME ContainersTypeOK, OwnNumbers, Owed, Rest
    PROVE  Owed'
<1>1. SUFFICES ASSUME NEW a \in accepted', a.group \in Groups, a.id \notin unguarded'
               PROVE  \E t \in Tasks : /\ Deploys(t)' /\ task'[t].id = a.id
                                       /\ task'[t].name = a.name /\ task'[t].group = a.group
  BY DEF Owed
<1>2. CASE a \in accepted
  <2>1. PICK t \in Tasks : /\ Deploys(t) /\ task[t].id = a.id
                           /\ task[t].name = a.name /\ task[t].group = a.group
    BY <1>1, <1>2, Unguarding DEF Owed
  <2>2. Deploys(t)'
    BY <1>1, <1>2, <2>1, Unguarding
  <2>3. SameWork(t)
    BY <2>2, Continuing DEF Continued
  <2> QED BY <2>1, <2>2, <2>3 DEF SameWork
<1>3. CASE Accepts(a)
  BY <1>3 DEF Accepts, SameWork
<1> QED BY <1>2, <1>3, Accepting

LEMMA DeletedStaysGoneKept ==
    ASSUME ContainersTypeOK, Shape, Barred, Owed, DeletedStaysGone, OwnNumbers, Rest
    PROVE  DeletedStaysGone'
<1>1. SUFFICES ASSUME NEW n \in Existing', docker'[n].group \in Groups,
                      docker'[n].id <= cut'[n][docker'[n].group]
               PROVE  docker'[n].id \in unguarded'
  BY DEF DeletedStaysGone
<1>2. n \in Names /\ docker'[n] # Gone
  BY DEF Existing
<1>3. cut'[n][docker'[n].group] = cut[n][docker'[n].group]
  <2>1. ASSUME NEW t \in Tasks, Answers(t) PROVE cut'[n] = cut[n]
    <3>1. n # task[t].name
      BY <1>2, <2>1 DEF Answers
    <3> QED BY <1>2, <2>1, <3>1 DEF Answers, ContainersTypeOK
  <2> QED BY <2>1, Answering
<1>4. CASE n \in Existing /\ docker'[n].id = docker[n].id /\ docker'[n].group = docker[n].group
  BY <1>1, <1>3, <1>4, Unguarding DEF DeletedStaysGone
<1>5. CASE Creates(n)
  <2>1. PICK a \in accepted : a.name = n /\ a.id = docker'[n].id /\ a.group = docker'[n].group
    BY <1>5 DEF Creates
  <2>2. CASE a.id \in unguarded
    BY <2>1, <2>2, Unguarding
  <2>3. ASSUME NEW t \in Tasks, Deploys(t), task[t].id = a.id, task[t].name = a.name,
               task[t].group = a.group
        PROVE  FALSE
    <3>1. Member(t)
      BY <1>1, <2>1, <2>3, ContainerAssumption DEF Member
    <3>2. cut[n][a.group] < a.id
      BY <2>1, <2>3, <3>1 DEF Barred
    <3>3. cut[n][a.group] \in Nat /\ a.id \in Nat
      BY <1>1, <1>2, <2>1, ContainerAssumption DEF ContainersTypeOK, Ids
    <3> QED BY <1>1, <1>3, <2>1, <3>2, <3>3
  <2> QED BY <1>1, <2>1, <2>2, <2>3 DEF Owed
<1> QED BY <1>4, <1>5, Appearing

LEMMA OvertakenKept ==
    ASSUME ContainersTypeOK, Shape, OwnNumbers, Barred, Overtaken, Rest
    PROVE  Overtaken'
<1>1. SUFFICES ASSUME NEW t \in Tasks, NEW u \in Tasks, Mutates(t)', task'[t].op = "delete", Member(t)',
                      Deploys(u)', Member(u)', task'[u].name = task'[t].name
               PROVE  IF task'[t].pc = "await launch"
                      THEN task'[u].id <= task'[t].id => task'[u].id = task'[t].gate
                      ELSE task'[u].id > task'[t].id
  BY DEF Overtaken, On
<1>2. /\ Mutates(t) /\ SameWork(t) /\ Deploys(u) /\ SameWork(u)
      /\ task[t].op = "delete" /\ Member(t) /\ Member(u) /\ task[u].name = task[t].name
  BY <1>1, Continuing DEF Continued, SameWork, Member
<1>3. task[u].id \in Nat \ {0}
  <2>1. task[u].id \in 1 .. launched
    BY <1>2 DEF Shape
  <2>2. launched \in Nat
    BY ContainerAssumption DEF ContainersTypeOK
  <2> QED BY <2>1, <2>2
<1>4. task[t].id \in Nat
  <2>1. ~On(t, "idle")
    BY <1>2 DEF Mutates, MutatePcs, On
  <2> QED BY <2>1, TaskIsWork DEF Work
<1>5. task'[t].pc # "idle"
  BY <1>1 DEF Mutates, MutatePcs
<1>6. CASE task'[t] = task[t]
  BY <1>2, <1>6 DEF Overtaken, On, SameWork
<1>7. CASE Works(t) /\ Moves(t) /\ Edge(task[t].pc, task'[t].pc)
  <2>1. task'[t].pc # "await launch"
    BY <1>7 DEF Edge
  <2>2. CASE On(t, "await launch")
    <3>1. AwaitLaunch(t)
      <4>1. WaitExpires(t) => task'[t].pc = "idle"
        BY EndsWork, IdlingIsIdle DEF WaitExpires, Refused
      <4> QED BY <1>5, <1>7, <2>2, <4>1, StageSteps
    <3>2. task[t].gate = 0 \/ launchGate[task[t].name] # task[t].gate
      BY <3>1 DEF AwaitLaunch
    <3>3. launchGate[task[u].name] = task[u].id
      BY <1>2 DEF Barred
    <3>4. task[u].id <= task[t].id => task[u].id = task[t].gate
      BY <1>2, <2>2 DEF Overtaken
    <3>5. task[u].id > task[t].id
      BY <1>2, <1>3, <1>4, <3>2, <3>3, <3>4
    <3> QED BY <1>2, <2>1, <3>5 DEF SameWork
  <2>3. CASE ~On(t, "await launch")
    <3>1. task[u].id > task[t].id
      BY <1>2, <2>3 DEF Overtaken
    <3> QED BY <1>2, <2>1, <3>1 DEF SameWork
  <2> QED BY <2>2, <2>3
<1> QED BY <1>5, <1>6, <1>7, StaysOrMoves

\* What Docker has settled stays so, and what it created stays the group's.
LEMMA SettledKept ==
    ASSUME ContainersTypeOK, Rest, NEW i, Settled(i)
    PROVE  Settled(i)' /\ \A g : OfGroup(i, g) => OfGroup(i, g)'
<1>1. Continued /\ launched' = launched
  BY Continuing, Counting
<1>2. \A t \in Tasks : Prepares(t)' => Prepares(t) /\ task'[t].id = task[t].id
  BY <1>1 DEF Continued, SameWork, Prepares, Deploys, DeployPcs
<1>3. ASSUME NEW a \in accepted' PROVE a.id # i
  BY Accepting DEF Settled, Accepts
<1>4. Settled(i)'
  BY <1>1, <1>2, <1>3 DEF Settled
<1>5. ASSUME NEW g, OfGroup(i, g), NEW n \in Existing', docker'[n].id = i PROVE docker'[n].group = g
  <2>1. ~Creates(n)
    BY <1>5 DEF Creates, Settled
  <2> QED BY <1>5, <2>1, Appearing DEF OfGroup
<1> QED BY <1>4, <1>5 DEF OfGroup

LEMMA NamedKept ==
    ASSUME ContainersTypeOK, Shape, OwnNumbers, Named, Rest
    PROVE  Named'
<1>1. ASSUME NEW t \in Tasks, Mutates(t)', task'[t].key[1] = "id"
      PROVE  /\ Settled(task[t].key[2])'
             /\ FoundIt(t)' => OfGroup(task[t].key[2], task[t].group)'
  <2>1. /\ Mutates(t) /\ SameWork(t) /\ task'[t].key = task[t].key
        /\ Settled(task[t].key[2])
    BY <1>1, Continuing DEF Continued, Named
  <2> DEFINE i == task[t].key[2]
             g == task[t].group
  <2>2. ASSUME NEW j, j = i, NEW h, h = g
        PROVE  Settled(j)' /\ (OfGroup(j, h) => OfGroup(j, h)') /\ j = i' /\ h = g'
    BY <2>1, <2>2, SettledKept DEF SameWork
  <2>3. ASSUME FoundIt(t)' PROVE OfGroup(i, g)
    <3>0. task'[t].pc # "idle" /\ task'[t].pc \in {"await stop", "act"}
      BY <2>3 DEF FoundIt
    <3>1. CASE FoundIt(t)
      BY <1>1, <2>1, <3>1 DEF Named
    <3>2. ASSUME Works(t), Moves(t), Edge(task[t].pc, task'[t].pc), ~FoundIt(t)
          PROVE  OfGroup(i, g)
      <4>1. ~On(t, "await launch")
        <5>1. SUFFICES ASSUME On(t, "await launch") PROVE FALSE
          OBVIOUS
        <5>2. task'[t].pc = "await stop" /\ task[t].op = "delete" /\ Member(t)
          BY <2>1, <3>2, <5>1 DEF Edge, On, Shape
        <5> QED BY <2>1, <2>3, <5>2 DEF FoundIt, Member, SameWork, On
      <4>2. ~On(t, "await stop")
        <5>1. SUFFICES ASSUME On(t, "await stop") PROVE FALSE
          OBVIOUS
        <5>2. task[t].op = "delete" /\ Member(t)
          BY <3>2, <5>1 DEF FoundIt, On
        <5>3. AwaitStop(t)
          <6>1. WaitExpires(t) => task'[t].pc = "idle"
            BY EndsWork, IdlingIsIdle DEF WaitExpires, Refused
          <6> QED BY <3>0, <3>2, <5>1, <6>1, StageSteps
        <5>4. task'[t].pc = "check"
          <6>1. task' = [task EXCEPT ![t].stopper = NoTask, ![t].pc = "check"]
            BY <5>2, <5>3 DEF AwaitStop, Resumes
          <6>2. task'[t] = [task[t] EXCEPT !.stopper = NoTask, !.pc = "check"] /\ task[t] \in Work
            BY <3>2, <6>1 DEF Moves, ContainersTypeOK
          <6> QED BY <6>2 DEF Work
        <5> QED BY <3>0, <5>4
      <4>3. On(t, "check")
        BY <3>0, <3>2, <4>1, <4>2 DEF Edge, On
      <4>4. Check(t) /\ ~Ends(t)
        <5>1. Ends(t) => task'[t].pc = "idle"
          BY EndsWork, IdlingIsIdle
        <5> QED BY <3>0, <3>2, <4>3, <5>1, StageSteps
      <4>5. \A n \in Selected(task[t].key) : Fits(t, docker[n])
        BY <4>4, Zenon DEF Check
      <4>6. \A n \in Existing : docker[n].id = i => n \in Selected(task[t].key)
        BY <1>1, <2>1 DEF Selected
      <4> QED BY <4>5, <4>6 DEF Fits, OfGroup
    <3>3. task'[t] = task[t] => FoundIt(t)
      BY <2>3 DEF FoundIt, On, Member
    <3> QED BY <3>0, <3>1, <3>2, <3>3, StaysOrMoves
  <2> HIDE DEF i, g
  <2>4. Settled(i)' /\ (FoundIt(t)' => OfGroup(i, g)')
    BY <2>2, <2>3 DEF Settled, OfGroup
  <2> QED BY <2>4 DEF i, g
<1>2. ASSUME NEW t \in Tasks, On(t, "remove own")'
      PROVE  /\ task'[t].key[1] = "id" /\ Settled(task[t].key[2])'
             /\ OfGroup(task[t].key[2], task[t].group)'
             /\ task'[t].group = Legacy => task'[t].key[2] = task'[t].id
  <2>0. task'[t].pc = "remove own"
    BY <1>2 DEF On
  <2>1. PICK i, g : i = task'[t].key[2] /\ g = task'[t].group
    OBVIOUS
  <2>2. /\ task'[t].key[1] = "id" /\ Settled(i) /\ OfGroup(i, g)
        /\ task'[t].group = Legacy => task'[t].key[2] = task'[t].id
    <3>1. CASE task'[t] = task[t]
      BY <2>0, <2>1, <3>1 DEF Named, On
    <3>2. CASE Works(t) /\ Moves(t) /\ Edge(task[t].pc, task'[t].pc)
      <4>1. On(t, "cleanup") /\ InspectOwn(t) /\ ~DeployEnds(t)
        <5>1. DeployEnds(t) => task'[t].pc = "idle"
          BY EndsWork, IdlingIsIdle DEF DeployEnds
        <5> QED BY <2>0, <3>2, <5>1, StageSteps DEF Edge, On
      <4>2. PICK n \in Existing :
              /\ OwnContainer(t, docker[n])
              /\ task' = [task EXCEPT ![t].pc = "remove own", ![t].key = <<"id", docker[n].id>>]
        BY <4>1 DEF InspectOwn
      <4>3. task'[t].key = <<"id", docker[n].id>> /\ SameWork(t)
        BY <3>2, <4>2 DEF Moves, ContainersTypeOK, Work, SameWork
      <4>4. docker[n] \in Container
        BY DEF Existing, ContainersTypeOK
      <4>5. /\ docker[n].group = task[t].group
            /\ task[t].group = Legacy => docker[n].id = task[t].id
        BY <4>2, <4>4 DEF OwnContainer, Member
      <4>6. Settled(docker[n].id)
        BY <4>4, ContainerAssumption DEF Settled, OwnNumbers, Container, Ids, ContainersTypeOK
      <4>7. \A m \in Existing : docker[m].id = docker[n].id => docker[m].group = docker[n].group
        BY DEF OwnNumbers
      <4> QED BY <2>1, <4>3, <4>5, <4>6, <4>7 DEF OfGroup, SameWork
    <3> QED BY <2>0, <3>1, <3>2, StaysOrMoves
  <2>3. Settled(i)' /\ OfGroup(i, g)'
    BY <2>2, SettledKept
  <2> QED BY <2>1, <2>2, <2>3 DEF Settled, OfGroup
<1> QED BY <1>1, <1>2 DEF Named

\* A handler that runs docker stop adds to what Docker will stop.
Stops(t, s) ==
    /\ ActStop(t) /\ stopCount' = stopCount + 1 /\ stopGate' = stopGate
    /\ \E n \in Existing : s = [id |-> docker[n].id, key |-> task[t].key, by |-> task[t].group,
                                no |-> stopCount + 1]

LEMMA Stopping ==
    ASSUME Rest
    PROVE  \A s \in stopping' : s \in stopping \/ \E t \in Tasks : Stops(t, s)
<1>1. ASSUME NEW t \in Tasks, ActStop(t), NEW s \in stopping', s \notin stopping PROVE Stops(t, s)
  <2>1. stopCount' = stopCount + 1 /\ stopGate' = stopGate
    BY <1>1, Zenon DEF ActStop
  <2>2. PICK n \in Selected(task[t].key) :
          s = [id |-> docker[n].id, key |-> task[t].key, by |-> task[t].group, no |-> stopCount']
    BY <1>1, Zenon DEF ActStop
  <2>3. n \in Existing
    BY <2>2 DEF Selected
  <2> QED BY <1>1, <2>1, <2>2, <2>3, Zenon DEF Stops
<1>2. ASSUME NEW t \in Tasks, Works(t), ~ActStop(t) PROVE stopping' = stopping
  BY <1>2, Zenon DEF Works, PrepareFails, DeployEnds, Admit, DockerRun, RunSucceeds, RunFails, OnlyTask,
     InspectOwn, RemoveOwn, AwaitLaunch, AwaitStop, Resumes, WaitExpires, Refused, Check, ActDelete,
     ActRestart, StopReturns
<1>3. DockerActs \/ AgentEnds \/ UNCHANGED containerVars => stopping' \subseteq stopping
  <2>1. ASSUME NEW s \in stopping, DockerStops(s) PROVE stopping' \subseteq stopping
    <3>1. stopping' = stopping \ {s}
      BY <2>1, Zenon DEF DockerStops
    <3> QED BY <3>1
  <2> QED BY <2>1 DEF DockerActs, DockerCreates, BecomesTenant, AgentEnds, containerVars
<1> QED BY <1>1, <1>2, <1>3 DEF Rest

\* The stop barriers change when a stop registers or returns, and at the agent's end.
Registers(t) ==
    /\ On(t, "check") /\ task[t].op = "stop" /\ Goes(t, "act")
    /\ stopGate[task[t].key] = NoTask /\ stopGate' = [stopGate EXCEPT ![task[t].key] = t]

LEMMA Gating ==
    ASSUME Rest
    PROVE  \/ AgentEnds
           \/ /\ agentEnds' = agentEnds
              /\ \/ UNCHANGED stopGate
                 \/ \E t \in Tasks : Works(t) /\ (Registers(t) \/ StopReturns(t))
<1>1. ASSUME NEW t \in Tasks, Works(t) PROVE agentEnds' = agentEnds
  BY <1>1, Zenon DEF Works, PrepareFails, DeployEnds, Admit, DockerRun, RunSucceeds, RunFails, OnlyTask,
     InspectOwn, RemoveOwn, AwaitLaunch, AwaitStop, Resumes, WaitExpires, Refused, Check, ActDelete,
     ActRestart, ActStop, StopReturns
<1>2. ASSUME NEW t \in Tasks, Works(t), ~Registers(t), ~StopReturns(t) PROVE UNCHANGED stopGate
  BY <1>2, Zenon DEF Works, PrepareFails, DeployEnds, Admit, DockerRun, RunSucceeds, RunFails, OnlyTask,
     InspectOwn, RemoveOwn, AwaitLaunch, AwaitStop, Resumes, WaitExpires, Refused, Check, Checked, ActDelete,
     ActRestart, ActStop, Registers
<1>3. DockerActs \/ UNCHANGED containerVars => agentEnds' = agentEnds /\ UNCHANGED stopGate
  BY DEF DockerActs, DockerCreates, BecomesTenant, DockerStops, containerVars
<1> QED BY <1>1, <1>2, <1>3 DEF Rest

\* Nothing ends the barrier of a stop that Docker is not done with and nobody may kill.
LEMMA BarrierHolds ==
    ASSUME ContainersTypeOK, Shape, StopsBarred, Rest, NEW s \in stopping, s.by = Legacy,
           agentEnds' = 0
    PROVE  /\ agentEnds = 0 /\ stopGate[s.key] \in Tasks
           /\ stopGate'[s.key] = stopGate[s.key]
           /\ task'[stopGate[s.key]] = task[stopGate[s.key]]
<1>0. ~AgentEnds
  BY DEF AgentEnds, ContainersTypeOK
<1>1. agentEnds = 0 /\ agentEnds' = agentEnds
  BY <1>0, Gating
<1> DEFINE u == stopGate[s.key]
<1>2. u \in Tasks /\ On(u, "docker stop") /\ ~Member(u) /\ task[u].key = s.key /\ s.key \in Keys
  BY <1>1 DEF StopsBarred, ContainersTypeOK
<1> HIDE DEF u
<1>3. ASSUME NEW t \in Tasks, Works(t), StopReturns(t), task[t].key = s.key PROVE FALSE
  <2>1. On(t, "docker stop") /\ (Member(t) \/ \A r \in stopping : r.key # task[t].key)
    BY <1>3 DEF StopReturns
  <2>2. task[t].op = "stop"
    BY <2>1 DEF Shape, Mutates, MutatePcs, On
  <2>3. stopGate[task[t].key] = t
    BY <2>1, <2>2 DEF StopsBarred, On
  <2> QED BY <1>2, <1>3, <2>1, <2>3 DEF u
<1>4. stopGate'[s.key] = u
  <2>1. ASSUME NEW t \in Tasks, Registers(t) PROVE stopGate'[s.key] = u
    <3>1. task[t].key # s.key
      BY <1>2, <2>1, ContainerAssumption DEF Registers, u
    <3> QED BY <1>2, <2>1, <3>1 DEF Registers, u, ContainersTypeOK
  <2>2. ASSUME NEW t \in Tasks, Works(t), StopReturns(t) PROVE stopGate'[s.key] = u
    <3>1. task[t].key # s.key
      BY <1>3, <2>2
    <3> QED BY <1>2, <2>2, <3>1 DEF StopReturns, u, ContainersTypeOK
  <2> QED BY <1>0, <2>1, <2>2, Gating DEF u
<1>5. task'[u] = task[u]
  <2>1. ASSUME NEW t \in Tasks, Works(t) PROVE task'[u] = task[u]
    <3>1. CASE t = u
      BY <1>2, <1>3, <2>1, <3>1, StageSteps
    <3>2. CASE t # u
      BY <1>2, <2>1, <3>2, Working DEF Moves
    <3> QED BY <3>1, <3>2
  <2>2. DockerActs \/ UNCHANGED containerVars => task' = task
    BY DEF DockerActs, DockerCreates, BecomesTenant, DockerStops, containerVars
  <2> QED BY <1>0, <2>1, <2>2 DEF Rest
<1> QED BY <1>1, <1>2, <1>4, <1>5 DEF u

\* A handler at these stages of a stop came there by registering its barrier.
LEMMA StopperKept ==
    ASSUME ContainersTypeOK, Shape, StopsBarred, Rest,
           NEW t \in Tasks, task'[t].pc \in {"act", "docker stop"}, task'[t].op = "stop"
    PROVE  stopGate'[task'[t].key] = t
<1>0. task'[t].pc # "idle" /\ Mutates(t)'
  BY DEF Mutates, MutatePcs
<1>1. Mutates(t) /\ SameWork(t) /\ task'[t].key = task[t].key /\ task[t].op = "stop"
  BY <1>0, Continuing DEF Continued, SameWork
<1>2. task[t] \in Work /\ task[t].key \in Keys
  BY <1>1, TaskIsWork DEF Mutates, MutatePcs, On, Work
<1>3. ~AgentEnds
  BY <1>0, IdlingIsIdle DEF AgentEnds
<1>4. ASSUME task[t].pc \in {"act", "docker stop"} PROVE stopGate'[task[t].key] = t
  <2>1. stopGate[task[t].key] = t
    BY <1>1, <1>4 DEF StopsBarred
  <2>2. ASSUME NEW v \in Tasks, Registers(v) PROVE stopGate'[task[t].key] = t
    <3>1. task[v].key # task[t].key
      BY <2>1, <2>2, ContainerAssumption DEF Registers
    <3> QED BY <1>2, <2>1, <2>2, <3>1 DEF Registers, ContainersTypeOK
  <2>3. ASSUME NEW v \in Tasks, Works(v), StopReturns(v) PROVE stopGate'[task[t].key] = t
    <3>1. On(v, "docker stop") /\ Ends(v)
      BY <2>3 DEF StopReturns
    <3>2. v # t
      BY <1>0, <3>1, EndsWork, IdlingIsIdle
    <3>3. task[v].op = "stop"
      BY <3>1 DEF Shape, Mutates, MutatePcs, On
    <3>4. stopGate[task[v].key] = v
      BY <3>1, <3>3 DEF StopsBarred, On
    <3> QED BY <1>2, <2>1, <2>3, <3>2, <3>4 DEF StopReturns, ContainersTypeOK
  <2> QED BY <1>3, <2>1, <2>2, <2>3, Gating
<1>5. ASSUME Works(t), Edge(task[t].pc, task'[t].pc), task[t].pc \notin {"act", "docker stop"}
      PROVE  stopGate'[task[t].key] = t
  <2>1. On(t, "check") \/ On(t, "await stop")
    BY <1>5 DEF Edge, On
  <2>2. On(t, "check")
    BY <1>1, <2>1 DEF Shape
  <2>3. Check(t) /\ ~Ends(t)
    BY <1>0, <1>5, <2>2, StageSteps, EndsWork, IdlingIsIdle
  <2>4. Registers(t)
    BY <1>1, <2>3, Zenon DEF Check, Checked, Registers
  <2> QED BY <1>2, <2>4 DEF Registers, ContainersTypeOK
<1> QED BY <1>0, <1>1, <1>4, <1>5, StaysOrMoves

LEMMA StopsBarredKept ==
    ASSUME ContainersTypeOK, Shape, StopsBarred, Rest
    PROVE  StopsBarred'
<1>0. stopCount <= stopCount' /\ stopCount \in Nat /\ stopCount' \in Nat
  BY Counting, StopsCounted DEF ContainersTypeOK
<1>1. \A t \in Tasks : task'[t].pc \in {"act", "docker stop"} /\ task'[t].op = "stop" =>
         stopGate'[task'[t].key] = t
  BY StopperKept
<1>2. \A s \in stopping' : s.no <= stopCount'
  <2>1. \A s \in stopping : s.no \in Nat /\ s.no <= stopCount
    BY DEF StopsBarred, ContainersTypeOK
  <2>2. ASSUME NEW t \in Tasks, NEW s, Stops(t, s) PROVE s.no <= stopCount'
    BY <1>0, <2>2 DEF Stops
  <2> QED BY <1>0, <2>1, <2>2, Stopping
<1>3. ASSUME NEW t \in Tasks, NEW s, Stops(t, s)
      PROVE  /\ stopGate'[s.key] = t /\ task'[t].pc = "docker stop"
             /\ task'[t].key = s.key /\ task'[t].group = s.by /\ s.no = stopCount + 1
  <2>0. On(t, "act") /\ task[t].op = "stop" /\ Goes(t, "docker stop")
    BY <1>3, Zenon DEF Stops, ActStop
  <2>1. /\ s.key = task[t].key /\ s.by = task[t].group /\ s.no = stopCount + 1
        /\ stopGate' = stopGate
    BY <1>3 DEF Stops
  <2>2. "docker stop" \in Steps /\ ~On(t, "idle")
    BY <2>0 DEF Steps, On
  <2>3. task'[t].pc = "docker stop" /\ SameWork(t) /\ task'[t].key = task[t].key
    BY <2>0, <2>2, GoesTo
  <2>4. stopGate[task[t].key] = t
    BY <2>0 DEF StopsBarred, On
  <2> QED BY <2>1, <2>3, <2>4 DEF SameWork
<1>4. ASSUME NEW s \in stopping', s.by = Legacy, agentEnds' = 0, NEW u, u = stopGate'[s.key]
      PROVE  u \in Tasks /\ task'[u].pc = "docker stop" /\ task'[u].group = Legacy /\ task'[u].key = s.key
  <2>1. CASE s \in stopping
    <3>1. agentEnds = 0 /\ u = stopGate[s.key] /\ task'[u] = task[u]
      BY <1>4, <2>1, BarrierHolds
    <3>2. u \in Tasks /\ On(u, "docker stop") /\ ~Member(u) /\ task[u].key = s.key
      BY <1>4, <2>1, <3>1, Zenon DEF StopsBarred
    <3> QED BY <3>1, <3>2 DEF On, Member
  <2>2. ASSUME NEW t \in Tasks, Stops(t, s)
        PROVE  u \in Tasks /\ task'[u].pc = "docker stop" /\ task'[u].group = Legacy /\ task'[u].key = s.key
    <3>1. u = t /\ task'[t].pc = "docker stop" /\ task'[t].key = s.key /\ task'[t].group = s.by
      BY <1>3, <1>4, <2>2, Zenon
    <3> QED BY <1>4, <3>1
  <2> QED BY <2>1, <2>2, Stopping
<1>5. ASSUME NEW t \in Tasks, NEW s \in stopping', Mutates(t)', task'[t].op = "restart",
             s.key = task'[t].key, s.no <= task'[t].id, s.by = Legacy, agentEnds' = 0
      PROVE  /\ task'[t].pc # "act"
             /\ task'[t].pc = "await stop" => task'[t].stopper = stopGate'[s.key]
  <2>1. Mutates(t) /\ SameWork(t) /\ task'[t].key = task[t].key /\ task[t].op = "restart"
    BY <1>5, Continuing DEF Continued, SameWork
  <2>2. task[t] \in Work /\ task[t].id <= stopCount /\ task[t].id \in Nat
    BY <2>1, TaskIsWork DEF Shape, Mutates, MutatePcs, On, Work
  <2>3. s \in stopping
    <3>1. ASSUME NEW v \in Tasks, Stops(v, s) PROVE FALSE
      <4>1. s.no = stopCount + 1 /\ task'[t].id = task[t].id
        BY <1>3, <2>1, <3>1 DEF SameWork
      <4> QED BY <1>0, <1>5, <2>2, <4>1
    <3> QED BY <3>1, Stopping
  <2>4. agentEnds = 0 /\ stopGate[s.key] \in Tasks /\ stopGate'[s.key] = stopGate[s.key]
    BY <1>5, <2>3, BarrierHolds
  <2>5. ~On(t, "act") /\ (On(t, "await stop") => task[t].stopper = stopGate[s.key])
    BY <1>5, <2>1, <2>3, <2>4 DEF StopsBarred, SameWork
  <2>6. CASE task'[t] = task[t]
    BY <2>4, <2>5, <2>6 DEF On
  <2>7. CASE Works(t) /\ Moves(t) /\ Edge(task[t].pc, task'[t].pc)
    <3>1. ASSUME On(t, "await stop") PROVE FALSE
      <4>1. AwaitStop(t)
        <5>1. WaitExpires(t) => task'[t].pc = "idle"
          BY EndsWork, IdlingIsIdle DEF WaitExpires, Refused
        <5> QED BY <1>5, <2>7, <3>1, <5>1, StageSteps DEF Mutates, MutatePcs
      <4> QED BY <1>5, <2>1, <2>4, <2>5, <3>1, <4>1, ContainerAssumption DEF AwaitStop
    <3>2. ~On(t, "await launch")
      BY <2>1 DEF Shape
    <3>3. CASE On(t, "check")
      <4>1. Check(t) /\ ~Ends(t)
        BY <1>5, <2>7, <3>3, StageSteps, EndsWork, IdlingIsIdle DEF Mutates, MutatePcs
      <4>2. task' = [task EXCEPT ![t].pc = "await stop", ![t].stopper = stopGate[task[t].key]]
        BY <2>1, <4>1, Zenon DEF Check, Checked
      <4>3. task'[t] = [task[t] EXCEPT !.pc = "await stop", !.stopper = stopGate[task[t].key]]
        BY <4>2 DEF ContainersTypeOK
      <4>4. task'[t].pc = "await stop" /\ task'[t].stopper = stopGate[task[t].key]
        BY <2>2, <4>3 DEF Work
      <4> QED BY <1>5, <2>1, <2>4, <4>4
    <3> QED BY <2>5, <2>7, <3>1, <3>2, <3>3 DEF Edge, On
  <2> QED BY <1>5, <2>6, <2>7, StaysOrMoves DEF Mutates, MutatePcs
<1> QED BY <1>1, <1>2, <1>4, <1>5 DEF StopsBarred, On, Member

LEMMA AdmittedAloneKept ==
    ASSUME ContainersTypeOK, AdmittedAlone, Rest
    PROVE  AdmittedAlone'
<1>1. SUFFICES ASSUME NEW u \in Tasks, task'[u].group \in GPUGroups,
                      task'[u].pc \in {"admitted", "docker run", "cleanup", "remove own"}
               PROVE  admission' = u
  BY DEF AdmittedAlone, NeedsGPU
<1>2. task'[u].pc # "idle" /\ Deploys(u)'
  BY <1>1 DEF Deploys, DeployPcs, PreparePcs
<1>3. Deploys(u) /\ SameWork(u)
  BY <1>2, Continuing DEF Continued
<1>4. ASSUME admission = u PROVE admission' = u
  <2>1. ASSUME NEW v \in Tasks, Works(v), DeployEnds(v) PROVE admission' = u
    <3>1. v # u
      BY <1>2, <2>1, EndsWork, IdlingIsIdle DEF DeployEnds
    <3> QED BY <1>4, <2>1, <3>1 DEF DeployEnds
  <2>2. ASSUME NEW v \in Tasks, Admit(v) PROVE FALSE
    BY <1>4, <2>2, ContainerAssumption DEF Admit
  <2>3. ASSUME NEW v \in Tasks, Works(v), ~DeployEnds(v), ~Admit(v) PROVE admission' = admission
    BY <2>3, Zenon DEF Works, PrepareFails, DockerRun, RunSucceeds, RunFails, OnlyTask, InspectOwn,
       RemoveOwn, AwaitLaunch, AwaitStop, Resumes, WaitExpires, Refused, Check, ActDelete, ActRestart,
       ActStop, StopReturns
  <2>4. CASE AgentEnds
    BY <1>2, <2>4, IdlingIsIdle DEF AgentEnds
  <2>5. DockerActs \/ UNCHANGED containerVars => admission' = admission
    BY DEF DockerActs, DockerCreates, BecomesTenant, DockerStops, containerVars
  <2> QED BY <1>4, <2>1, <2>2, <2>3, <2>4, <2>5 DEF Rest
<1>5. ASSUME ~On(u, "prepare") PROVE admission = u
  BY <1>1, <1>3, <1>5 DEF AdmittedAlone, NeedsGPU, SameWork, Deploys, DeployPcs, PreparePcs, On
<1>6. ASSUME On(u, "prepare") PROVE admission' = u
  <2>1. Works(u) /\ task'[u] # Idling
    BY <1>1, <1>2, <1>6, StaysOrMoves, IdlingIsIdle DEF On
  <2>2. PrepareFails(u) \/ Admit(u) \/ DockerRun(u)
    BY <1>6, <2>1, StageSteps DEF Prepares, PreparePcs, On
  <2>3. ~PrepareFails(u)
    BY <2>1, EndsWork DEF PrepareFails, DeployEnds
  <2>4. ~DockerRun(u)
    BY <1>1, <1>3, <1>6 DEF DockerRun, On, NeedsGPU, SameWork
  <2> QED BY <2>2, <2>3, <2>4 DEF Admit
<1> QED BY <1>4, <1>5, <1>6

LEMMA TaskTyped ==
    ASSUME ContainersTypeOK, Rest
    PROVE  task' \in [Tasks -> Work \cup {Idling}]
<1>1. ASSUME NEW t \in Tasks, Works(t) PROVE task' \in [Tasks -> Work \cup {Idling}]
  <2>1. \E w : task' = [task EXCEPT ![t] = w]
    <3>1. ASSUME NEW label, Goes(t, label) PROVE task' = [task EXCEPT ![t] = [task[t] EXCEPT !.pc = label]]
      BY <3>1 DEF Goes
    <3>2. ASSUME NEW label, NEW key, task' = [task EXCEPT ![t].pc = label, ![t].key = key]
          PROVE  task' = [task EXCEPT ![t] = [task[t] EXCEPT !.pc = label, !.key = key]]
      BY <3>2, ContainersTypeOK DEF ContainersTypeOK
    <3>3. ASSUME NEW u, NEW label, task' = [task EXCEPT ![t].pc = label, ![t].stopper = u]
          PROVE  task' = [task EXCEPT ![t] = [task[t] EXCEPT !.pc = label, !.stopper = u]]
      BY <3>3, ContainersTypeOK DEF ContainersTypeOK
    <3>4. ASSUME NEW u, NEW label, task' = [task EXCEPT ![t].stopper = u, ![t].pc = label]
          PROVE  task' = [task EXCEPT ![t] = [task[t] EXCEPT !.stopper = u, !.pc = label]]
      BY <3>4, ContainersTypeOK DEF ContainersTypeOK
    <3>5. ASSUME NEW u, task' = [task EXCEPT ![t].pc = "await stop", ![t].gate = 0, ![t].stopper = u]
          PROVE  task' = [task EXCEPT ![t] = [task[t] EXCEPT !.pc = "await stop", !.gate = 0, !.stopper = u]]
      BY <3>5, ContainersTypeOK DEF ContainersTypeOK
    <3>6. \/ Ends(t) \/ \E label : Goes(t, label)
          \/ \E label, key : task' = [task EXCEPT ![t].pc = label, ![t].key = key]
          \/ \E u, label : task' = [task EXCEPT ![t].pc = label, ![t].stopper = u]
          \/ \E u, label : task' = [task EXCEPT ![t].stopper = u, ![t].pc = label]
          \/ \E u : task' = [task EXCEPT ![t].pc = "await stop", ![t].gate = 0, ![t].stopper = u]
          \/ task' = [task EXCEPT ![t].pc = "act"]
      BY <1>1, Zenon DEF Works, PrepareFails, DeployEnds, Admit, DockerRun, RunSucceeds, RunFails, InspectOwn,
         RemoveOwn, AwaitLaunch, AwaitStop, Resumes, WaitExpires, Refused, Check, Checked, ActDelete,
         ActRestart, ActStop, StopReturns
    <3> QED BY <3>1, <3>2, <3>3, <3>4, <3>5, <3>6, Zenon DEF Ends, Goes
  <2>2. PICK w : task' = [task EXCEPT ![t] = w]
    BY <2>1
  <2>3. task'[t] \in Work \cup {Idling}
    BY <1>1, Working DEF Moves
  <2> QED BY <2>2, <2>3 DEF ContainersTypeOK
<1>2. CASE AgentEnds
  BY <1>2 DEF AgentEnds
<1>3. DockerActs \/ UNCHANGED containerVars => task' = task
  BY DEF DockerActs, DockerCreates, BecomesTenant, DockerStops, containerVars
<1> QED BY <1>1, <1>2, <1>3 DEF Rest, ContainersTypeOK

LEMMA TypeKept == ASSUME ContainersTypeOK, Shape, Rest PROVE ContainersTypeOK'
<1>0. 0 \in 0 .. MaxLaunches /\ MaxLaunches \in Nat
  BY ContainerAssumption
<1>1. launched' \in 0 .. MaxLaunches /\ stopCount' \in Nat
  BY Counting, StopsCounted DEF ContainersTypeOK
<1>2. ASSUME NEW a \in accepted' PROVE a \in [id: Ids, name: Names, group: Owners]
  <2>1. ASSUME NEW t \in Tasks, Prepares(t) PROVE task[t] \in Work /\ task[t].id \in Ids
    <3>1. ~On(t, "idle") /\ Deploys(t)
      BY <2>1 DEF Prepares, PreparePcs, Deploys, DeployPcs, On
    <3>2. task[t].id \in 1 .. launched
      BY <3>1 DEF Shape
    <3> QED BY <1>0, <3>1, <3>2, TaskIsWork DEF ContainersTypeOK, Ids
  <2> QED BY <2>1, Accepting DEF Accepts, Work, ContainersTypeOK
<1>3. ASSUME NEW s \in stopping' PROVE s \in [id: Ids, key: Keys, by: Owners, no: Nat]
  <2>1. ASSUME NEW t \in Tasks, Stops(t, s) PROVE s \in [id: Ids, key: Keys, by: Owners, no: Nat]
    <3>1. On(t, "act")
      BY <2>1, Zenon DEF Stops, ActStop
    <3>2. task[t] \in Work
      BY <3>1, TaskIsWork DEF On
    <3>3. PICK n \in Existing : s = [id |-> docker[n].id, key |-> task[t].key, by |-> task[t].group,
                                     no |-> stopCount + 1]
      BY <2>1 DEF Stops
    <3>4. docker[n] \in Container /\ stopCount + 1 \in Nat
      BY DEF Existing, ContainersTypeOK
    <3> QED BY <3>2, <3>3, <3>4 DEF Work, Container
  <2> QED BY <2>1, Stopping DEF ContainersTypeOK
<1>4. launchGate' \in [Names -> 0 .. MaxLaunches]
  <2>1. ASSUME NEW t \in Tasks, Works(t) PROVE launchGate' \in [Names -> 0 .. MaxLaunches]
    BY <1>0, <2>1, LaunchEnds DEF DeployEnds, Lifted, ContainersTypeOK
  <2>2. DockerActs \/ UNCHANGED containerVars => launchGate' = launchGate
    BY DEF DockerActs, DockerCreates, BecomesTenant, DockerStops, containerVars
  <2> QED BY <1>0, <2>1, <2>2 DEF Rest, AgentEnds, ContainersTypeOK
<1>5. stopGate' \in [Keys -> Tasks \cup {NoTask}]
  BY Gating DEF AgentEnds, Registers, StopReturns, ContainersTypeOK
<1>6. admission' \in Tasks \cup {NoTask} /\ mutations' \in Nat
  <2>1. ASSUME NEW v \in Tasks, Works(v), ~DeployEnds(v), ~Admit(v)
        PROVE  admission' = admission /\ mutations' = mutations
    BY <2>1, Zenon DEF Works, PrepareFails, DockerRun, RunSucceeds, RunFails, OnlyTask, InspectOwn,
       RemoveOwn, AwaitLaunch, AwaitStop, Resumes, WaitExpires, Refused, Check, ActDelete, ActRestart,
       ActStop, StopReturns
  <2>2. DockerActs \/ UNCHANGED containerVars => admission' = admission /\ mutations' = mutations
    BY DEF DockerActs, DockerCreates, BecomesTenant, DockerStops, containerVars
  <2> QED BY <2>1, <2>2 DEF Rest, DeployEnds, Admit, AgentEnds, ContainersTypeOK
<1>7. cut' \in [Names -> [Groups -> 0 .. MaxLaunches]]
  <2>1. ASSUME NEW t \in Tasks, Answers(t) PROVE cut' \in [Names -> [Groups -> 0 .. MaxLaunches]]
    <3>1. task[t].id <= launched /\ ~On(t, "idle")
      BY <2>1 DEF Answers, Shape, Mutates, MutatePcs, On
    <3>2. task[t].id \in 0 .. MaxLaunches
      BY <1>0, <3>1, TaskIsWork DEF Work, ContainersTypeOK
    <3> QED BY <2>1, <3>2 DEF Answers, ContainersTypeOK
  <2> QED BY <2>1, Answering DEF ContainersTypeOK
<1>8. agentEnds' \in Nat
  BY Gating DEF AgentEnds, ContainersTypeOK
<1>9. unguarded' \subseteq Ids
  <2>1. \A a \in accepted : a.id \in Ids
    BY DEF ContainersTypeOK
  <2>2. ASSUME NEW t \in Tasks, Works(t) PROVE unguarded' \subseteq Ids
    BY <2>1, <2>2, LaunchEnds DEF DeployEnds, ContainersTypeOK
  <2>3. DockerActs \/ UNCHANGED containerVars => unguarded' = unguarded
    BY DEF DockerActs, DockerCreates, BecomesTenant, DockerStops, containerVars
  <2> QED BY <2>1, <2>2, <2>3 DEF Rest, AgentEnds, ContainersTypeOK
<1>10. accepted' \subseteq [id: Ids, name: Names, group: Owners]
       /\ stopping' \subseteq [id: Ids, key: Keys, by: Owners, no: Nat]
  BY <1>2, <1>3
<1>11. docker' \in [Names -> Container \cup {Gone}] /\ task' \in [Tasks -> Work \cup {Idling}]
  BY Appearing, TaskTyped
<1> QED BY <1>1, <1>4, <1>5, <1>6, <1>7, <1>8, <1>9, <1>10, <1>11 DEF ContainersTypeOK

-----------------------------------------------------------------------------
\* A step that begins a launch, or a request, preserves the invariant.

LEMMA LaunchBegins ==
    ASSUME ContInv, NEW t \in Tasks, NEW n \in Names, NEW g \in Owners, BeginDeploy(t, n, g)
    PROVE  ContInv'
<1> DEFINE w == [op |-> "deploy", pc |-> "prepare", name |-> n, group |-> g, key |-> <<"name", n>>,
                 id |-> launched + 1, gate |-> 0, stopper |-> NoTask]
<1>0. ContainersTypeOK /\ launched \in Nat /\ launched \in 0 .. MaxLaunches /\ launched + 1 \in 1 .. MaxLaunches
  BY ContainerAssumption DEF ContInv, ContainersTypeOK, BeginDeploy
<1>1. /\ On(t, "idle") /\ task' = [task EXCEPT ![t] = w] /\ launched' = launched + 1
      /\ UNCHANGED <<docker, accepted, stopping, stopGate, admission, cut, unguarded, agentEnds,
                     stopCount, mutations>>
  BY DEF BeginDeploy, Begins
<1>2. task'[t] = w /\ \A u \in Tasks \ {t} : task'[u] = task[u]
  BY <1>0, <1>1, TaskSet
<1>3. w \in Work
  <2>1. <<"name", n>> \in Keys /\ 0 \in 0 .. MaxLaunches /\ launched + 1 \in Nat
    BY <1>0, ContainerAssumption DEF Keys
  <2> QED BY <2>1 DEF Work, Ops, Steps
<1>4. /\ w.op = "deploy" /\ w.pc = "prepare" /\ w.name = n /\ w.group = g /\ w.id = launched + 1
  OBVIOUS
<1> HIDE DEF w
<1>5. /\ g # Legacy => launchGate[n] = 0 /\ launchGate' = [launchGate EXCEPT ![n] = launched + 1]
      /\ g = Legacy => launchGate' = launchGate
  BY <1>1 DEF BeginDeploy
<1>6. /\ Deploys(t)' /\ ~Deploys(t) /\ ~Mutates(t)' /\ ~Mutates(t)
      /\ \A u \in Tasks \ {t} : /\ Deploys(u)' <=> Deploys(u)
                                /\ Mutates(u)' <=> Mutates(u)
                                /\ Prepares(u)' <=> Prepares(u)
  BY <1>1, <1>2, <1>4 DEF Deploys, DeployPcs, Mutates, MutatePcs, Prepares, PreparePcs, On
<1>7. \A u \in Tasks : Deploys(u) =>
         task[u].op = "deploy" /\ task[u].id \in Nat /\ 1 <= task[u].id /\ task[u].id <= launched
  <2>1. \A u \in Tasks : Deploys(u) => task[u].op = "deploy" /\ task[u].id \in 1 .. launched
    BY Zenon DEF ContInv, Shape
  <2>2. launched \in Nat
    BY <1>0
  <2> QED BY <2>1, <2>2
<1>a. ContainersTypeOK'
  <2>1. task' \in [Tasks -> Work \cup {Idling}]
    BY <1>0, <1>1, <1>3 DEF ContainersTypeOK
  <2>2. launchGate' \in [Names -> 0 .. MaxLaunches]
    BY <1>0, <1>5 DEF ContainersTypeOK
  <2> QED BY <1>0, <1>1, <2>1, <2>2 DEF ContainersTypeOK
<1>b. Shape'
  <2>1. \A u \in Tasks : Deploys(u)' => task'[u].op = "deploy" /\ task'[u].id \in 1 .. launched'
    <3>1. ASSUME NEW u \in Tasks, Deploys(u)'
          PROVE  task'[u].op = "deploy" /\ task'[u].id \in 1 .. launched + 1
      <4>1. CASE u = t
        BY <1>0, <1>2, <1>4, <4>1
      <4>2. CASE u # t
        BY <1>0, <1>2, <1>6, <1>7, <3>1, <4>2
      <4> QED BY <4>1, <4>2
    <3> QED BY <1>1, <3>1
  <2>2. ASSUME NEW u \in Tasks, Mutates(u)' PROVE u # t /\ Mutates(u) /\ task'[u] = task[u]
    BY <1>2, <1>6, <2>2
  <2>3. \A u \in Tasks : Mutates(u) => task[u].id \in Nat
    BY <1>0, TaskIsWork DEF Mutates, MutatePcs, On, Work
  <2>4. Shape
    BY DEF ContInv
  <2>5. ASSUME NEW u \in Tasks, Mutates(u)'
        PROVE  /\ task'[u].op \in {"delete", "stop", "restart"}
               /\ task'[u].op = "delete" => task'[u].id <= launched + 1
               /\ task'[u].op = "restart" => task'[u].id <= stopCount
               /\ task'[u].group # Legacy /\ task'[u].key[1] = "name" =>
                    task'[u].key = <<"name", task'[u].name>>
               /\ task'[u].pc = "await launch" => task'[u].op = "delete" /\ task'[u].group # Legacy
               /\ task'[u].pc = "await stop" => task'[u].op # "stop"
               /\ task'[u].pc = "docker stop" => task'[u].op = "stop"
    <3>1. /\ task'[u] = task[u] /\ task[u].id \in Nat
          /\ task[u].op \in {"delete", "stop", "restart"}
          /\ task[u].op = "delete" => task[u].id <= launched
          /\ task[u].op = "restart" => task[u].id <= stopCount
          /\ task[u].group # Legacy /\ task[u].key[1] = "name" =>
               task[u].key = <<"name", task[u].name>>
          /\ task[u].pc = "await launch" => task[u].op = "delete" /\ task[u].group # Legacy
          /\ task[u].pc = "await stop" => task[u].op # "stop"
          /\ task[u].pc = "docker stop" => task[u].op = "stop"
      BY <2>2, <2>3, <2>4, <2>5, Zenon DEF Shape, On, Member
    <3>2. task[u].id <= launched => task[u].id <= launched + 1
      <4>1. launched \in Nat /\ task[u].id \in Nat
        BY <1>0, <3>1
      <4> QED BY <4>1
    <3> QED BY <3>1, <3>2, Zenon
  <2> QED BY <1>1, <2>1, <2>5 DEF Shape, On, Member
<1>c. OwnNumbers'
  <2>1. Existing' = Existing
    BY <1>1 DEF Existing
  <2>2. \A a \in accepted : a.id <= launched /\ a.id \in Nat
    BY <1>0, ContainerAssumption DEF ContInv, OwnNumbers, ContainersTypeOK, Ids
  <2>3. \A m \in Existing : docker[m].id <= launched /\ docker[m].id \in Nat
    <3>1. \A m \in Existing : docker[m] \in Container
      BY <1>0 DEF ContainersTypeOK, Existing
    <3>2. \A m \in Existing : docker[m].id <= launched
      BY DEF ContInv, OwnNumbers
    <3> QED BY <3>1, <3>2, ContainerAssumption DEF Container, Ids
  <2>4. \A u, v \in Tasks : Deploys(u)' /\ Deploys(v)' /\ task'[u].id = task'[v].id => u = v
    BY <1>0, <1>2, <1>4, <1>6, <1>7 DEF ContInv, OwnNumbers
  <2>5. \A u \in Tasks : Prepares(u)' =>
          /\ \A a \in accepted : a.id # task'[u].id
          /\ \A m \in Existing : docker[m].id # task'[u].id
    BY <1>0, <1>2, <1>4, <1>6, <2>2, <2>3 DEF ContInv, OwnNumbers
  <2>6. /\ \A a \in accepted : a.id <= launched + 1 /\ \A m \in Existing : docker[m].id # a.id
        /\ \A a, b \in accepted : a.id = b.id => a = b
        /\ \A m \in Existing : docker[m].id <= launched + 1
        /\ \A m, k \in Existing : docker[m].id = docker[k].id => m = k
    BY <1>0, <2>2, <2>3 DEF ContInv, OwnNumbers
  <2> QED BY <1>1, <2>1, <2>4, <2>5, <2>6 DEF OwnNumbers
<1>d. Barred'
  <2>1. \A m \in Names, h \in Groups : cut[m][h] <= launched /\ cut[m][h] \in Nat
    BY <1>0, ContainerAssumption DEF ContInv, Barred, ContainersTypeOK
  <2>2. ASSUME NEW u \in Tasks, Deploys(u)', Member(u)'
        PROVE  /\ launchGate'[task'[u].name] = task'[u].id
               /\ cut'[task'[u].name][task'[u].group] < task'[u].id
    <3>1. CASE u = t
      <4>1. g \in Groups
        BY <1>2, <1>4, <2>2, <3>1 DEF Member, Owners
      <4>2. launchGate'[n] = launched + 1 /\ cut'[n][g] < launched + 1
        BY <1>0, <1>1, <1>5, <2>1, <4>1, ContainerAssumption DEF ContainersTypeOK
      <4> QED BY <1>2, <1>4, <3>1, <4>2
    <3>2. CASE u # t
      <4>1. /\ Deploys(u) /\ Member(u) /\ task'[u] = task[u]
            /\ launchGate[task[u].name] = task[u].id
            /\ cut[task[u].name][task[u].group] < task[u].id
        BY <1>2, <1>6, <2>2, <3>2 DEF ContInv, Barred, Member
      <4>2. launchGate'[task[u].name] = launchGate[task[u].name]
        <5>1. task[u].id # 0 /\ task[u].name \in Names
          <6>1. ~On(u, "idle") /\ 1 <= task[u].id
            BY <1>7, <4>1 DEF Deploys, DeployPcs, PreparePcs, On
          <6>2. task[u] \in Work
            BY <1>0, <6>1, TaskIsWork
          <6> QED BY <6>1, <6>2 DEF Work
        <5>2. g # Legacy => n # task[u].name
          BY <1>5, <4>1, <5>1
        <5> QED BY <1>0, <1>5, <5>1, <5>2 DEF ContainersTypeOK
      <4> QED BY <1>1, <4>1, <4>2
    <3> QED BY <3>1, <3>2
  <2> QED BY <1>0, <1>1, <2>1, <2>2 DEF Barred
<1>e. Owed'
  <2>1. ASSUME NEW u \in Tasks, Deploys(u) PROVE Deploys(u)' /\ task'[u] = task[u]
    BY <1>2, <1>6, <2>1
  <2> QED BY <1>1, <2>1 DEF ContInv, Owed
<1>f. Overtaken'
  <2>1. ASSUME NEW v \in Tasks, Mutates(v)' PROVE v # t /\ Mutates(v) /\ task'[v] = task[v]
    BY <1>2, <1>6, <2>1
  <2>2. ASSUME NEW v \in Tasks, NEW u \in Tasks, Mutates(v)', task'[v].op = "delete", Member(v)',
               Deploys(u)', Member(u)', task'[u].name = task'[v].name
        PROVE  IF task'[v].pc = "await launch"
               THEN task'[u].id <= task'[v].id => task'[u].id = task'[v].gate
               ELSE task'[u].id > task'[v].id
    <3>1. Mutates(v) /\ task'[v] = task[v] /\ task[v].id <= launched /\ task[v].id \in Nat
      BY <1>0, <2>1, <2>2, TaskIsWork DEF ContInv, Shape, Mutates, MutatePcs, On, Work
    <3>2. CASE u = t
      <4>1. task'[u].id = launched + 1
        BY <1>2, <1>4, <3>2
      <4>2. task'[v].id \in Nat /\ task'[v].id <= launched /\ launched \in Nat
        BY <1>0, <3>1
      <4>3. task'[u].id > task'[v].id /\ ~(task'[u].id <= task'[v].id)
        BY <4>1, <4>2
      <4> QED BY <4>3
    <3>3. CASE u # t
      BY <1>2, <1>6, <2>2, <3>1, <3>3 DEF ContInv, Overtaken, On, Member
    <3> QED BY <3>2, <3>3
  <2> QED BY <2>2 DEF Overtaken, On
<1>g. Named'
  <2>1. Existing' = Existing
    BY <1>1 DEF Existing
  <2>2. ASSUME NEW i, Settled(i) PROVE Settled(i)'
    BY <1>0, <1>1, <1>2, <1>4, <1>6, <2>2 DEF Settled
  <2>3. ASSUME NEW i, NEW h, OfGroup(i, h) PROVE OfGroup(i, h)'
    BY <1>1, <2>1, <2>3 DEF OfGroup
  <2>4. ASSUME NEW u \in Tasks, Mutates(u)' \/ task'[u].pc = "remove own"
        PROVE  u # t /\ task'[u] = task[u] /\ (Mutates(u)' => Mutates(u))
    BY <1>2, <1>4, <1>6, <2>4
  <2>5. ASSUME NEW u \in Tasks, Mutates(u)', task'[u].key[1] = "id"
        PROVE  Settled(task[u].key[2])' /\ (FoundIt(u)' => OfGroup(task[u].key[2], task[u].group)')
    <3>1. PICK i, h : i = task[u].key[2] /\ h = task[u].group
      OBVIOUS
    <3>2. Mutates(u) /\ task'[u] = task[u] /\ Named
      BY <2>4, <2>5 DEF ContInv
    <3>3. Settled(i) /\ (FoundIt(u) => OfGroup(i, h)) /\ (FoundIt(u)' => FoundIt(u))
      BY <2>5, <3>1, <3>2 DEF Named, FoundIt, On, Member
    <3>4. Settled(i)' /\ (FoundIt(u)' => OfGroup(i, h)')
      BY <2>2, <2>3, <3>3
    <3> QED BY <3>1, <3>2, <3>4 DEF Settled, OfGroup
  <2>6. ASSUME NEW u \in Tasks, task'[u].pc = "remove own"
        PROVE  /\ task'[u].key[1] = "id" /\ Settled(task[u].key[2])'
               /\ OfGroup(task[u].key[2], task[u].group)'
               /\ task'[u].group = Legacy => task'[u].key[2] = task'[u].id
    <3>1. PICK i, h : i = task[u].key[2] /\ h = task[u].group
      OBVIOUS
    <3>2. task'[u] = task[u] /\ Named
      BY <2>4, <2>6 DEF ContInv
    <3>3. /\ Settled(i) /\ OfGroup(i, h) /\ task[u].key[1] = "id"
          /\ task[u].group = Legacy => task[u].key[2] = task[u].id
      BY <2>6, <3>1, <3>2 DEF Named, On
    <3>4. Settled(i)' /\ OfGroup(i, h)'
      BY <2>2, <2>3, <3>3
    <3> QED BY <3>1, <3>2, <3>3, <3>4 DEF Settled, OfGroup
  <2> QED BY <2>5, <2>6 DEF Named, On
<1>h. StopsBarred'
  <2>1. ASSUME NEW u \in Tasks, task'[u].pc # "prepare" PROVE u # t /\ task'[u] = task[u]
    BY <1>2, <1>4, <2>1
  <2>2. ASSUME NEW u \in Tasks, Mutates(u)' PROVE u # t /\ Mutates(u) /\ task'[u] = task[u]
    BY <1>2, <1>6, <2>2
  <2>3. ASSUME NEW u \in Tasks, task[u].pc = "docker stop" PROVE task'[u] = task[u]
    BY <1>1, <1>2, <2>3 DEF On
  <2>4. StopsBarred
    BY DEF ContInv
  <2>5. \A u \in Tasks : task'[u].pc \in {"act", "docker stop"} /\ task'[u].op = "stop" =>
          stopGate'[task'[u].key] = u
    BY <1>1, <2>1, <2>4 DEF StopsBarred
  <2>6. ASSUME NEW s \in stopping, s.by = Legacy, agentEnds = 0, NEW u, u = stopGate[s.key]
        PROVE  u \in Tasks /\ task'[u].pc = "docker stop" /\ task'[u].group = Legacy /\ task'[u].key = s.key
    BY <2>3, <2>4, <2>6 DEF StopsBarred, On, Member
  <2>7. ASSUME NEW u \in Tasks, NEW s \in stopping, Mutates(u)', task'[u].op = "restart",
               s.key = task'[u].key, s.no <= task'[u].id, s.by = Legacy, agentEnds = 0
        PROVE  /\ task'[u].pc # "act"
               /\ task'[u].pc = "await stop" => task'[u].stopper = stopGate[s.key]
    <3>1. Mutates(u) /\ task'[u] = task[u]
      BY <2>2, <2>7
    <3> QED BY <2>4, <2>7, <3>1 DEF StopsBarred, On
  <2>8. \A s \in stopping : s.no <= stopCount
    BY <2>4 DEF StopsBarred
  <2>9. UNCHANGED <<stopping, stopGate, agentEnds, stopCount>>
    BY <1>1
  <2> QED BY <2>5, <2>6, <2>7, <2>8, <2>9 DEF StopsBarred, On, Member
<1>i. DeletedStaysGone'
  BY <1>1 DEF ContInv, DeletedStaysGone, Existing
<1>j. AdmittedAlone'
  BY <1>1, <1>2, <1>4 DEF ContInv, AdmittedAlone, NeedsGPU
<1> QED BY <1>a, <1>b, <1>c, <1>d, <1>e, <1>f, <1>g, <1>h, <1>i, <1>j DEF ContInv

\* The record of a request that begins.
Request(w) ==
    /\ w \in Work
    /\ w.pc \in {"await launch", "check"} /\ w.op \in {"delete", "stop", "restart"}
    /\ w.op = "delete" => w.id <= launched
    /\ w.op = "restart" => w.id = stopCount
    /\ w.group # Legacy /\ w.key[1] = "name" => w.key = <<"name", w.name>>
    /\ w.group # Legacy /\ w.op = "delete" => w.pc = "await launch" /\ w.gate = launchGate[w.name]
    /\ w.pc = "await launch" => w.op = "delete" /\ w.group # Legacy
    /\ w.key[1] = "id" => w.key[2] \in Nat \ {0} /\ Known(w.key)

LEMMA Asking ==
    ASSUME ContainersTypeOK, NEW t \in Tasks, BeginsMutation(t)
    PROVE  On(t, "idle") /\ Asked /\ \E w : task' = [task EXCEPT ![t] = w] /\ Request(w)
<1>0. launched \in Nat /\ stopCount \in Nat /\ 0 \in 0 .. MaxLaunches
  BY ContainerAssumption DEF ContainersTypeOK
<1>1. \A key \in Keys : key[1] = "id" => key[2] \in Nat \ {0}
  BY ContainerAssumption DEF Keys, Ids
<1>2. ASSUME NEW op \in {"delete", "stop", "restart"}, NEW pc \in {"await launch", "check"},
             NEW n \in Names, NEW g \in Owners, NEW key \in Keys, NEW id \in Nat,
             NEW gate \in 0 .. MaxLaunches, Begins(t, op, pc, n, g, key, id, gate),
             op = "delete" => id <= launched, op = "restart" => id = stopCount,
             g # Legacy => (key[1] = "name" => key = <<"name", n>>),
             g # Legacy /\ op = "delete" => pc = "await launch" /\ gate = launchGate[n],
             pc = "await launch" => op = "delete" /\ g # Legacy, Known(key)
      PROVE  On(t, "idle") /\ \E w : task' = [task EXCEPT ![t] = w] /\ Request(w)
  <2> DEFINE w == [op |-> op, pc |-> pc, name |-> n, group |-> g, key |-> key, id |-> id,
                   gate |-> gate, stopper |-> NoTask]
  <2>1. On(t, "idle") /\ task' = [task EXCEPT ![t] = w]
    BY <1>2 DEF Begins
  <2>2. w \in Work
    BY <1>2 DEF Work, Ops, Steps
  <2>3. /\ w.op = op /\ w.pc = pc /\ w.name = n /\ w.group = g /\ w.key = key /\ w.id = id
        /\ w.gate = gate
    OBVIOUS
  <2> HIDE DEF w
  <2>4. Request(w)
    BY <1>1, <1>2, <2>2, <2>3 DEF Request
  <2> QED BY <2>1, <2>4
<1>3. ASSUME NEW n \in Names, NEW g \in Groups, NEW key \in Keys, BeginMember(t, n, g, key)
      PROVE  On(t, "idle") /\ Asked /\ \E w : task' = [task EXCEPT ![t] = w] /\ Request(w)
  <2>1. /\ Known(key) /\ Asked /\ g # Legacy /\ g \in Owners
        /\ key[1] = "name" => key = <<"name", n>>
    BY <1>3, ContainerAssumption DEF BeginMember, Owners
  <2>2. CASE Begins(t, "delete", "await launch", n, g, key, launched, launchGate[n])
    <3>1. launchGate[n] \in 0 .. MaxLaunches /\ launched <= launched /\ launched \in Nat
      BY <1>0 DEF ContainersTypeOK
    <3>2. "delete" \in {"delete", "stop", "restart"} /\ "await launch" \in {"await launch", "check"}
          /\ "delete" # "restart"
      OBVIOUS
    <3>3. On(t, "idle") /\ \E w : task' = [task EXCEPT ![t] = w] /\ Request(w)
      BY <1>2, <2>1, <2>2, <3>1, <3>2, Zenon
    <3> QED BY <2>1, <3>3
  <2>3. CASE Begins(t, "stop", "check", n, g, key, 0, 0)
    BY <1>0, <1>2, <2>1, <2>3
  <2>4. CASE Begins(t, "restart", "check", n, g, key, stopCount, 0)
    BY <1>0, <1>2, <2>1, <2>4
  <2> QED BY <1>3, <2>2, <2>3, <2>4 DEF BeginMember
<1>4. ASSUME NEW key \in Keys, BeginLegacy(t, key)
      PROVE  On(t, "idle") /\ Asked /\ \E w : task' = [task EXCEPT ![t] = w] /\ Request(w)
  <2>1. PICK op \in {"delete", "stop", "restart"}, n \in {CHOOSE n \in Names : TRUE} :
          Begins(t, op, "check", n, Legacy, key, IF op = "restart" THEN stopCount ELSE 0, 0)
    BY <1>4 DEF BeginLegacy
  <2>2. n \in Names /\ Legacy \in Owners /\ Known(key) /\ Asked
    BY <1>4, <2>1, ContainerAssumption DEF BeginLegacy, Owners
  <2>3. PICK id \in Nat : /\ id = IF op = "restart" THEN stopCount ELSE 0
                          /\ (op = "delete" => id <= launched) /\ (op = "restart" => id = stopCount)
    BY <1>0
  <2> QED BY <1>0, <1>2, <2>1, <2>2, <2>3
<1> QED BY <1>3, <1>4 DEF BeginsMutation

LEMMA RequestBegins ==
    ASSUME ContInv, NEW t \in Tasks, BeginsMutation(t)
    PROVE  ContInv'
<1>0. ContainersTypeOK /\ launched \in Nat /\ stopCount \in Nat
  BY ContainerAssumption DEF ContInv, ContainersTypeOK
<1>1. PICK w : On(t, "idle") /\ Asked /\ task' = [task EXCEPT ![t] = w] /\ Request(w)
  BY <1>0, Asking
<1>2. task'[t] = w /\ \A u \in Tasks \ {t} : task'[u] = task[u]
  BY <1>0, <1>1, TaskSet
<1>3. UNCHANGED <<docker, accepted, stopping, launchGate, stopGate, admission, launched, cut,
                  unguarded, agentEnds, stopCount>> /\ mutations' = mutations + 1
  BY <1>1 DEF Asked
<1>4. /\ ~Deploys(t)' /\ ~Deploys(t) /\ ~Prepares(t)' /\ ~Prepares(t) /\ ~Mutates(t)
      /\ \A u \in Tasks \ {t} : /\ Deploys(u)' <=> Deploys(u)
                                /\ Mutates(u)' <=> Mutates(u)
                                /\ Prepares(u)' <=> Prepares(u)
  BY <1>1, <1>2 DEF Deploys, DeployPcs, Mutates, MutatePcs, Prepares, PreparePcs, On, Request
<1>5. ASSUME NEW u \in Tasks, Deploys(u)' \/ task'[u].pc \notin {"await launch", "check"}
      PROVE  u # t /\ task'[u] = task[u]
  BY <1>1, <1>2, <1>4, <1>5 DEF Request
<1>6. ASSUME NEW u \in Tasks, Deploys(u) \/ task[u].pc # "idle" PROVE u # t /\ task'[u] = task[u]
  BY <1>1, <1>2, <1>4, <1>6 DEF On
<1>a. ContainersTypeOK'
  <2>1. task' \in [Tasks -> Work \cup {Idling}]
    BY <1>0, <1>1 DEF ContainersTypeOK, Request
  <2>2. mutations' \in Nat
    BY <1>0, <1>3 DEF ContainersTypeOK
  <2> QED BY <1>0, <1>3, <2>1, <2>2 DEF ContainersTypeOK
<1>b. Shape'
  <2>0. Shape
    BY DEF ContInv
  <2>1. ASSUME NEW u \in Tasks, Deploys(u)'
        PROVE  task'[u].op = "deploy" /\ task'[u].id \in 1 .. launched
    <3>1. Deploys(u) /\ task'[u] = task[u]
      BY <1>4, <1>5, <2>1
    <3> QED BY <2>0, <3>1, Zenon DEF Shape
  <2>2. ASSUME NEW u \in Tasks, Mutates(u)'
        PROVE  /\ task'[u].op \in {"delete", "stop", "restart"}
               /\ task'[u].op = "delete" => task'[u].id <= launched
               /\ task'[u].op = "restart" => task'[u].id <= stopCount
               /\ task'[u].group # Legacy /\ task'[u].key[1] = "name" =>
                    task'[u].key = <<"name", task'[u].name>>
               /\ task'[u].pc = "await launch" => task'[u].op = "delete" /\ task'[u].group # Legacy
               /\ task'[u].pc = "await stop" => task'[u].op # "stop"
               /\ task'[u].pc = "docker stop" => task'[u].op = "stop"
    <3>1. CASE u = t
      <4>1. stopCount <= stopCount
        BY <1>0
      <4> QED BY <1>1, <1>2, <3>1, <4>1 DEF Request
    <3>2. CASE u # t
      <4>1. Mutates(u) /\ task'[u] = task[u]
        BY <1>2, <1>4, <2>2, <3>2
      <4> QED BY <2>0, <4>1, Zenon DEF Shape, On, Member
    <3> QED BY <3>1, <3>2
  <2> QED BY <1>3, <2>1, <2>2 DEF Shape, On, Member
<1>c. OwnNumbers'
  <2>1. Existing' = Existing
    BY <1>3 DEF Existing
  <2>2. ASSUME NEW u \in Tasks, Prepares(u)' PROVE Prepares(u) /\ task'[u] = task[u]
    BY <1>2, <1>4, <2>2
  <2>3. ASSUME NEW u \in Tasks, Deploys(u)' PROVE Deploys(u) /\ task'[u] = task[u]
    BY <1>2, <1>4, <2>3
  <2> QED BY <1>3, <2>1, <2>2, <2>3 DEF ContInv, OwnNumbers
<1>d. Barred'
  <2>1. ASSUME NEW u \in Tasks, Deploys(u)' PROVE Deploys(u) /\ task'[u] = task[u]
    BY <1>2, <1>4, <2>1
  <2> QED BY <1>3, <2>1 DEF ContInv, Barred, Member
<1>e. Owed'
  <2>1. ASSUME NEW u \in Tasks, Deploys(u) PROVE Deploys(u)' /\ task'[u] = task[u]
    BY <1>2, <1>4, <2>1
  <2> QED BY <1>3, <2>1 DEF ContInv, Owed
<1>f. Overtaken'
  <2>1. ASSUME NEW v \in Tasks, NEW u \in Tasks, Mutates(v)', task'[v].op = "delete", Member(v)',
               Deploys(u)', Member(u)', task'[u].name = task'[v].name
        PROVE  IF task'[v].pc = "await launch"
               THEN task'[u].id <= task'[v].id => task'[u].id = task'[v].gate
               ELSE task'[u].id > task'[v].id
    <3>1. Deploys(u) /\ Member(u) /\ task'[u] = task[u]
      BY <1>2, <1>4, <2>1 DEF Member
    <3>2. CASE v = t
      <4>1. w.group # Legacy /\ w.op = "delete" /\ w.name = task[u].name
        BY <1>2, <2>1, <3>1, <3>2 DEF Member
      <4>2. w.pc = "await launch" /\ w.gate = launchGate[task[u].name]
        BY <1>1, <4>1 DEF Request
      <4>3. launchGate[task[u].name] = task[u].id
        BY <3>1 DEF ContInv, Barred
      <4> QED BY <1>2, <3>1, <3>2, <4>2, <4>3
    <3>3. CASE v # t
      <4>1. Mutates(v) /\ Member(v) /\ task'[v] = task[v]
        BY <1>2, <1>4, <2>1, <3>3 DEF Member
      <4> QED BY <2>1, <3>1, <4>1 DEF ContInv, Overtaken, On
    <3> QED BY <3>2, <3>3
  <2> QED BY <2>1 DEF Overtaken, On
<1>g. Named'
  <2>1. Existing' = Existing
    BY <1>3 DEF Existing
  <2>2. ASSUME NEW i, Settled(i) PROVE Settled(i)'
    BY <1>2, <1>3, <1>4, <2>2 DEF Settled
  <2>3. ASSUME NEW i, NEW h, OfGroup(i, h) PROVE OfGroup(i, h)'
    BY <1>3, <2>1, <2>3 DEF OfGroup
  <2>4. ASSUME NEW u \in Tasks, Mutates(u)', task'[u].key[1] = "id"
        PROVE  Settled(task[u].key[2])' /\ (FoundIt(u)' => OfGroup(task[u].key[2], task[u].group)')
    <3>1. PICK i, h : i = task'[u].key[2] /\ h = task'[u].group
      OBVIOUS
    <3>2. CASE u = t
      <4>1. i = w.key[2] /\ i \in Nat \ {0} /\ Known(w.key) /\ w.key[1] = "id"
        BY <1>1, <1>2, <2>4, <3>1, <3>2 DEF Request
      <4>2. Settled(i)
        BY <1>0, <4>1 DEF Known, Settled, Prepares, PreparePcs
      <4>3. Settled(i)' /\ ~FoundIt(u)'
        BY <1>1, <1>2, <2>2, <3>2, <4>2 DEF Request, FoundIt
      <4> QED BY <3>1, <4>3 DEF Settled
    <3>3. CASE u # t
      <4>1. Mutates(u) /\ task'[u] = task[u] /\ Named
        BY <1>2, <1>4, <2>4, <3>3 DEF ContInv
      <4>2. Settled(i) /\ (FoundIt(u) => OfGroup(i, h)) /\ (FoundIt(u)' => FoundIt(u))
        BY <2>4, <3>1, <4>1 DEF Named, FoundIt, On, Member
      <4>3. Settled(i)' /\ (FoundIt(u)' => OfGroup(i, h)')
        BY <2>2, <2>3, <4>2
      <4> QED BY <3>1, <4>1, <4>3 DEF Settled, OfGroup
    <3> QED BY <3>2, <3>3
  <2>5. ASSUME NEW u \in Tasks, task'[u].pc = "remove own"
        PROVE  /\ task'[u].key[1] = "id" /\ Settled(task[u].key[2])'
               /\ OfGroup(task[u].key[2], task[u].group)'
               /\ task'[u].group = Legacy => task'[u].key[2] = task'[u].id
    <3>1. PICK i, h : i = task[u].key[2] /\ h = task[u].group
      OBVIOUS
    <3>2. task'[u] = task[u] /\ Named
      BY <1>5, <2>5 DEF ContInv
    <3>3. /\ Settled(i) /\ OfGroup(i, h) /\ task[u].key[1] = "id"
          /\ task[u].group = Legacy => task[u].key[2] = task[u].id
      BY <2>5, <3>1, <3>2 DEF Named, On
    <3>4. Settled(i)' /\ OfGroup(i, h)'
      BY <2>2, <2>3, <3>3
    <3> QED BY <3>1, <3>2, <3>3, <3>4 DEF Settled, OfGroup
  <2> QED BY <2>4, <2>5 DEF Named, On
<1>h. StopsBarred'
  <2>1. StopsBarred
    BY DEF ContInv
  <2>2. \A u \in Tasks : task'[u].pc \in {"act", "docker stop"} /\ task'[u].op = "stop" =>
          stopGate'[task'[u].key] = u
    BY <1>3, <1>5, <2>1 DEF StopsBarred
  <2>3. ASSUME NEW s \in stopping, s.by = Legacy, agentEnds = 0, NEW u, u = stopGate[s.key]
        PROVE  u \in Tasks /\ task'[u].pc = "docker stop" /\ task'[u].group = Legacy /\ task'[u].key = s.key
    BY <1>6, <2>1, <2>3 DEF StopsBarred, On, Member
  <2>4. ASSUME NEW u \in Tasks, NEW s \in stopping, Mutates(u)', task'[u].op = "restart",
               s.key = task'[u].key, s.no <= task'[u].id, s.by = Legacy, agentEnds = 0
        PROVE  /\ task'[u].pc # "act"
               /\ task'[u].pc = "await stop" => task'[u].stopper = stopGate[s.key]
    <3>1. CASE u = t
      BY <1>1, <1>2, <3>1 DEF Request
    <3>2. CASE u # t
      <4>1. Mutates(u) /\ task'[u] = task[u]
        BY <1>2, <1>4, <2>4, <3>2
      <4> QED BY <2>1, <2>4, <4>1 DEF StopsBarred, On
    <3> QED BY <3>1, <3>2
  <2>5. \A s \in stopping : s.no <= stopCount
    BY <2>1 DEF StopsBarred
  <2> QED BY <1>3, <2>2, <2>3, <2>4, <2>5 DEF StopsBarred, On, Member
<1>i. DeletedStaysGone'
  BY <1>3 DEF ContInv, DeletedStaysGone, Existing
<1>j. AdmittedAlone'
  BY <1>3, <1>5 DEF ContInv, AdmittedAlone, NeedsGPU
<1> QED BY <1>a, <1>b, <1>c, <1>d, <1>e, <1>f, <1>g, <1>h, <1>i, <1>j DEF ContInv

LEMMA Starting == ContainersInit => ContInv
<1> SUFFICES ASSUME ContainersInit PROVE ContInv
  OBVIOUS
<1>0. 0 \in 0 .. MaxLaunches /\ 0 \in Nat
  BY ContainerAssumption
<1>1. ContainersTypeOK
  BY <1>0 DEF ContainersInit, ContainersTypeOK
<1>2. /\ \A t \in Tasks : ~Deploys(t) /\ ~Mutates(t) /\ ~Prepares(t) /\ task[t].pc = "idle"
      /\ Existing = {} /\ accepted = {} /\ stopping = {}
  BY IdlingIsIdle DEF ContainersInit, Deploys, DeployPcs, Mutates, MutatePcs, Prepares, PreparePcs, Existing
<1>3. Shape /\ OwnNumbers /\ Owed /\ Overtaken /\ Named
  BY <1>2 DEF Shape, OwnNumbers, Owed, Overtaken, Named, On
<1>4. Barred
  <2>1. \A n \in Names, g \in Groups : cut[n][g] = 0 /\ launched = 0
    BY DEF ContainersInit
  <2> QED BY <1>0, <1>2, <2>1 DEF Barred
<1>5. StopsBarred /\ DeletedStaysGone /\ AdmittedAlone
  BY <1>2 DEF StopsBarred, DeletedStaysGone, AdmittedAlone
<1> QED BY <1>1, <1>3, <1>4, <1>5 DEF ContInv

LEMMA Stepping == ContInv /\ [ContainersNext]_containerVars => ContInv'
<1> SUFFICES ASSUME ContInv, [ContainersNext]_containerVars PROVE ContInv'
  OBVIOUS
<1>1. CASE Rest
  <2>1. /\ ContainersTypeOK /\ Shape /\ OwnNumbers /\ Barred /\ Owed /\ Overtaken /\ Named
        /\ StopsBarred /\ DeletedStaysGone /\ AdmittedAlone
    BY DEF ContInv
  <2>2. ContainersTypeOK' /\ Shape' /\ OwnNumbers' /\ Barred' /\ Owed'
    BY <1>1, <2>1, TypeKept, ShapeKept, OwnNumbersKept, BarredKept, OwedKept
  <2>3. Overtaken' /\ Named' /\ StopsBarred' /\ DeletedStaysGone' /\ AdmittedAlone'
    BY <1>1, <2>1, OvertakenKept, NamedKept, StopsBarredKept, DeletedStaysGoneKept, AdmittedAloneKept
  <2> QED BY <2>2, <2>3 DEF ContInv
<1>2. CASE Begun
  BY <1>2, LaunchBegins, RequestBegins DEF Begun
<1> QED BY <1>1, <1>2, Kinds

LEMMA Inductive == ContainersSpec => []ContInv
BY Starting, Stepping, PTL DEF ContainersSpec

\* A handler at work moves in a step of its own, unless the agent ends.
LEMMA WhoMoves ==
    ASSUME ContInv, ContainersNext, NEW t \in Tasks, ~On(t, "idle"), task'[t] # task[t]
    PROVE  Works(t) \/ AgentEnds
<1>0. ContainersTypeOK
  BY DEF ContInv
<1>1. ~Begun
  <2>1. ASSUME NEW u \in Tasks, On(u, "idle"), NEW w, task' = [task EXCEPT ![u] = w] PROVE FALSE
    BY <1>0, <2>1, TaskSet DEF On
  <2>2. ASSUME NEW u \in Tasks, NEW m \in Names, NEW g \in Owners, BeginDeploy(u, m, g) PROVE FALSE
    BY <2>1, <2>2 DEF BeginDeploy, Begins
  <2>3. ASSUME NEW u \in Tasks, BeginsMutation(u) PROVE FALSE
    BY <1>0, <2>1, <2>3, Asking
  <2> QED BY <2>2, <2>3 DEF Begun
<1>2. DockerActs => task' = task
  BY DEF DockerActs, DockerCreates, BecomesTenant, DockerStops
<1>3. ASSUME NEW u \in Tasks, Works(u) PROVE u = t
  BY <1>0, <1>3, Working DEF Moves
<1> QED BY <1>1, <1>2, <1>3, Kinds DEF Rest, containerVars

-----------------------------------------------------------------------------
\* The results.

\* What an answered deletion by name says stays true of every launch that had
\* registered, unless Docker was not done with it when its barrier ended, and a
\* launch that needs an idle GPU is alone until Docker has answered
\* (handleDeploymentMemberDelete, operationBarrierRegistry, qwenGPUAdmission).
THEOREM ContainersAreSafe == ContainersSpec => []ContainersSafety
<1>1. ContInv => ContainersSafety
  BY DEF ContInv, ContainersSafety
<1> QED BY <1>1, Inductive, PTL

\* The cleanup of a failed launch removes no container of another group, and of
\* those outside a group only its own launch's (cleanupFailedManagedRun).
THEOREM CleanupIsCareful == ContainersSpec => CleanupSparesOthers
<1>1. ASSUME ContInv, ContainersNext, NEW t \in Tasks, On(t, "remove own"), task'[t] # task[t],
             NEW n \in Existing, docker'[n] = Gone
      PROVE  docker[n].group = task[t].group /\ (docker[n].group = Legacy => docker[n].id = task[t].id)
  <2>1. ContainersTypeOK /\ Named
    BY <1>1 DEF ContInv
  <2>2. RemoveOwn(t)
    <3>1. ~AgentEnds
      BY <1>1, Zenon DEF AgentEnds, Existing
    <3>2. Works(t)
      BY <1>1, <3>1, WhoMoves DEF On
    <3> QED BY <1>1, <3>2, StageSteps
  <2>3. docker' = Update(task[t].key, Deleted)
    BY <1>1, <2>2, Zenon DEF RemoveOwn, OnlyTask, Existing
  <2>4. n \in Selected(task[t].key)
    BY <1>1, <2>3 DEF Update, Existing
  <2>5. /\ task[t].key[1] = "id" /\ OfGroup(task[t].key[2], task[t].group)
        /\ task[t].group = Legacy => task[t].key[2] = task[t].id
    BY <1>1, <2>1 DEF Named
  <2>6. docker[n].id = task[t].key[2]
    BY <2>4, <2>5 DEF Selected
  <2> QED BY <1>1, <2>5, <2>6 DEF OfGroup
<1>2. ContInv /\ [ContainersNext]_containerVars =>
        [\A t \in Tasks : On(t, "remove own") /\ task'[t] # task[t] =>
           \A n \in Existing : docker'[n] = Gone =>
             /\ docker[n].group = task[t].group
             /\ docker[n].group = Legacy => docker[n].id = task[t].id]_containerVars
  BY <1>1
<1> QED BY <1>2, Inductive, PTL DEF ContainersSpec, CleanupSparesOthers

\* A request that names a container by its ID touches it only when it is of the
\* request's own group (rejectLegacyGroupedMutation, authorizeDeploymentMember).
THEOREM MembersKeepTheirOwnApi == ContainersSpec => MembersKeepTheirApi
<1>1. ASSUME ContInv, ContainersNext, NEW t \in Tasks, On(t, "act"), task'[t] # task[t],
             task[t].key[1] = "id", NEW n \in Existing, docker'[n] # docker[n]
      PROVE  docker[n].group = task[t].group
  <2>1. docker' \in {Update(task[t].key, Deleted), Update(task[t].key, Down), Update(task[t].key, Up)}
    <3>1. ~AgentEnds
      BY <1>1, Zenon DEF AgentEnds
    <3>2. Works(t)
      BY <1>1, <3>1, WhoMoves DEF On
    <3>3. ActDelete(t) \/ ActRestart(t) \/ ActStop(t)
      BY <1>1, <3>2, StageSteps
    <3>4. docker' # docker
      BY <1>1
    <3> QED BY <3>3, <3>4 DEF ActDelete, ActRestart, ActStop
  <2>2. n \in Selected(task[t].key)
    <3>1. n \in Names
      BY DEF Existing
    <3> QED BY <1>1, <2>1, <3>1 DEF Update
  <2>3. docker[n].id = task[t].key[2]
    BY <1>1, <2>2 DEF Selected
  <2>4. OfGroup(task[t].key[2], task[t].group)
    <3>1. Mutates(t) /\ FoundIt(t)
      BY <1>1 DEF Mutates, MutatePcs, FoundIt, On
    <3> QED BY <1>1, <3>1 DEF ContInv, Named
  <2> QED BY <2>3, <2>4 DEF OfGroup
<1>2. ContInv /\ [ContainersNext]_containerVars =>
        [\A t \in Tasks :
           On(t, "act") /\ task'[t] # task[t] /\ task[t].key[1] = "id" =>
             \A n \in Existing : docker'[n] # docker[n] => docker[n].group = task[t].group
        ]_containerVars
  BY <1>1
<1> QED BY <1>2, Inductive, PTL DEF ContainersSpec, MembersKeepTheirApi

\* No stop accepted before a restart was asked for undoes it (containerStops).
THEOREM StopsSettleFirst == ContainersSpec => StopSettlesFirst
<1>1. ASSUME ContInv, NEW t \in Tasks, On(t, "act"), task[t].op = "restart",
             NEW s \in stopping, s.key = task[t].key, s.no <= task[t].id
      PROVE  s.by # Legacy \/ agentEnds > 0
  <2>1. Mutates(t)
    BY <1>1 DEF Mutates, MutatePcs, On
  <2>2. s.by # Legacy \/ agentEnds # 0
    BY <1>1, <2>1 DEF ContInv, StopsBarred
  <2> QED BY <1>1, <2>2 DEF ContInv, ContainersTypeOK
<1>2. ContInv /\ [ContainersNext]_containerVars =>
        [\A t \in Tasks :
           On(t, "act") /\ task[t].op = "restart" /\ docker' # docker =>
             \A s \in stopping :
               s.key = task[t].key /\ s.no <= task[t].id => s.by # Legacy \/ agentEnds > 0
        ]_containerVars
  BY <1>1
<1> QED BY <1>2, Inductive, PTL DEF ContainersSpec, StopSettlesFirst
=============================================================================
