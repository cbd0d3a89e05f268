--------------------------- MODULE AgentContainers ---------------------------
(***************************************************************************)
(* The container handlers of one agent over Docker: deploy with its        *)
(* cleanup, and stop, restart and delete, for containers of their own      *)
(* (`Legacy`) and for members of deployments, which carry the provenance   *)
(* of their group.  Handlers run at the same time; what orders them are    *)
(* two registries of barriers in the agent's memory and the admission of   *)
(* GPU launches.  Docker carries out what it has accepted even when the    *)
(* command that asked was killed, or the agent is gone.                    *)
(*                                                                         *)
(* A container is known by its name or by its ID, which is here the number *)
(* of the launch that created it.                                          *)
(***************************************************************************)
EXTENDS Naturals

CONSTANTS
    Names,
    Groups,      \* provenances: deployment, generation and role
    GPUGroups,   \* those of the recipe whose launches need an idle GPU
    Legacy,      \* a container outside any deployment
    Tasks,       \* handlers that may run at the same time
    NoTask,
    Gone,        \* no container has the name
    MaxLaunches, \* bound on launches
    MaxMutations, \* bound on requests to stop, restart or delete
    MaxAgentEnds \* bound on agent restarts

ASSUME ContainerAssumption ==
    /\ Names # {} /\ GPUGroups \subseteq Groups /\ Legacy \notin Groups /\ NoTask \notin Tasks
    /\ MaxLaunches \in Nat /\ MaxMutations \in Nat /\ MaxAgentEnds \in Nat

VARIABLES
    docker,     \* [Names -> container | Gone]
    accepted,   \* launches Docker will carry out: [id, name, group]
    stopping,   \* stops Docker will carry out: [id, key, by, no]
    task,       \* the handlers' work
    launchGate, \* coordinatedCandidateLaunches: [Names -> launch or 0]
    stopGate,   \* containerStops: [Keys -> Tasks \cup {NoTask}]
    admission,  \* holder of qwenGPUAdmission
    launched,   \* number of launches
    cut,        \* [Names -> [Groups -> launches before an answered deletion]]
    unguarded,  \* launches whose barrier ended before Docker was done with them
    agentEnds, stopCount, mutations

containerVars == <<docker, accepted, stopping, task, launchGate, stopGate, admission,
                   launched, cut, unguarded, agentEnds, stopCount, mutations>>

-----------------------------------------------------------------------------
Ids == 1 .. MaxLaunches
\* The text a request names a container by; barriers of stops are kept by it.
Keys == ({"name"} \X Names) \cup ({"id"} \X Ids)

Owners == Groups \cup {Legacy}
Container == [id: Ids, group: Owners, state: {"running", "stopped"}, tenant: BOOLEAN]
Ops == {"deploy", "delete", "stop", "restart"}
Steps == {"prepare", "admitted", "docker run", "cleanup", "remove own",
          "await launch", "await stop", "check", "act", "docker stop"}
\* `id` is the number of a launch, the launches before a deletion began, or the
\* stops before a restart began;
\* `gate` and `stopper` are the barriers a request found and waits for.
Work == [op: Ops, pc: Steps, name: Names, group: Owners, key: Keys, id: Nat,
         gate: 0 .. MaxLaunches, stopper: Tasks \cup {NoTask}]
Idling == [pc |-> "idle"]

On(t, label) == task[t].pc = label
Goes(t, label) == task' = [task EXCEPT ![t].pc = label]
Ends(t) == task' = [task EXCEPT ![t] = Idling]
Existing == {n \in Names : docker[n] # Gone}

\* The names the key selects: one or none.
Selected(key) ==
    {n \in Existing : IF key[1] = "name" THEN n = key[2] ELSE docker[n].id = key[2]}
Member(t) == task[t].group # Legacy
NeedsGPU(t) == task[t].group \in GPUGroups
NoTenant == \A n \in Existing : ~docker[n].tenant

Update(key, c(_)) == [n \in Names |-> IF n \in Selected(key) THEN c(docker[n]) ELSE docker[n]]
Down(c) == [c EXCEPT !.state = "stopped", !.tenant = FALSE]
Up(c) == [c EXCEPT !.state = "running", !.tenant = FALSE]
Deleted(c) == Gone

OnlyTask == UNCHANGED <<docker, accepted, stopping, launchGate, stopGate, admission, launched,
                        cut, unguarded, agentEnds, stopCount, mutations>>

Begins(t, op, pc, n, g, key, id, gate) ==
    /\ On(t, "idle")
    /\ task' = [task EXCEPT ![t] = [op |-> op, pc |-> pc, name |-> n, group |-> g, key |-> key,
                                    id |-> id, gate |-> gate, stopper |-> NoTask]]

-----------------------------------------------------------------------------
\* Deploy.

\* A grouped launch registers its name before any command runs.
BeginDeploy(t, n, g) ==
    /\ launched < MaxLaunches /\ launched' = launched + 1
    /\ Begins(t, "deploy", "prepare", n, g, <<"name", n>>, launched', 0)
    /\ \/ g = Legacy /\ UNCHANGED launchGate
       \/ g # Legacy /\ launchGate[n] = 0 /\ launchGate' = [launchGate EXCEPT ![n] = launched']
    /\ UNCHANGED <<docker, accepted, stopping, stopGate, admission, cut,
                   unguarded, agentEnds, stopCount, mutations>>

Lifted(n, id) == IF launchGate[n] = id THEN [launchGate EXCEPT ![n] = 0] ELSE launchGate

\* The deferred functions: barrier and admission.
DeployEnds(t) ==
    /\ Ends(t) /\ launchGate' = Lifted(task[t].name, task[t].id)
    /\ admission' = IF admission = t THEN NoTask ELSE admission
    /\ unguarded' = IF \E a \in accepted : a.id = task[t].id
                    THEN unguarded \cup {task[t].id} ELSE unguarded
    /\ UNCHANGED <<stopping, stopGate, launched, cut, agentEnds, stopCount, mutations>>

\* A check, pull or download fails, or its context ends.
PrepareFails(t) ==
    /\ task[t].pc \in {"prepare", "admitted"} /\ DeployEnds(t) /\ UNCHANGED <<docker, accepted>>

\* qwenGPUAdmission, and an inspection that finds no compute tenant.
Admit(t) ==
    /\ On(t, "prepare") /\ NeedsGPU(t)
    /\ admission = NoTask /\ admission' = t /\ Goes(t, "admitted")
    /\ NoTenant
    /\ UNCHANGED <<docker, accepted, stopping, launchGate, stopGate, launched, cut, unguarded,
                   agentEnds, stopCount, mutations>>

DockerRun(t) ==
    /\ On(t, "admitted") \/ (On(t, "prepare") /\ ~NeedsGPU(t))
    /\ accepted' = accepted \cup {[id |-> task[t].id, name |-> task[t].name, group |-> task[t].group]}
    /\ Goes(t, "docker run")
    /\ UNCHANGED <<docker, stopping, launchGate, stopGate, admission, launched, cut, unguarded,
                   agentEnds, stopCount, mutations>>

Created(t) == \E n \in Existing : docker[n].id = task[t].id

RunSucceeds(t) ==
    /\ On(t, "docker run") /\ Created(t) /\ DeployEnds(t) /\ UNCHANGED <<docker, accepted>>

\* docker run fails, or is killed: what Docker did, and will do, is not known.
RunFails(t) == On(t, "docker run") /\ Goes(t, "cleanup") /\ OnlyTask

\* Mutant of OwnContainer: the labels of the container are not compared.
OwnContainerByName(t, c) == TRUE

\* cleanupFailedManagedRun: a member by its whole provenance, a container of its
\* own by the nonce of this launch.
OwnContainer(t, c) ==
    IF Member(t) THEN c.group = task[t].group ELSE c.group = Legacy /\ c.id = task[t].id

\* The container of that name is inspected; one that is not this launch's own
\* is left alone, and a grouped launch looks again until the time is up.
InspectOwn(t) ==
    LET n == task[t].name IN
    /\ On(t, "cleanup")
    /\ \/ /\ n \in Existing /\ OwnContainer(t, docker[n])
          /\ task' = [task EXCEPT ![t].pc = "remove own", ![t].key = <<"id", docker[n].id>>]
          /\ OnlyTask
       \/ DeployEnds(t) /\ UNCHANGED <<docker, accepted>>

RemoveOwn(t) ==
    /\ On(t, "remove own")
    /\ \/ /\ docker' = Update(task[t].key, Deleted)
          /\ DeployEnds(t) /\ UNCHANGED accepted
       \/ IF Member(t) THEN Goes(t, "cleanup") /\ OnlyTask
          ELSE DeployEnds(t) /\ UNCHANGED <<docker, accepted>>

-----------------------------------------------------------------------------
\* Docker.

\* A launch is carried out, unless the name is taken.
DockerCreates(a) ==
    /\ a \in accepted /\ accepted' = accepted \ {a}
    /\ docker' = IF a.name \in Existing THEN docker
                 ELSE [docker EXCEPT ![a.name] = [id |-> a.id, group |-> a.group,
                                                  state |-> "running", tenant |-> FALSE]]
    /\ UNCHANGED <<stopping, task, launchGate, stopGate, admission, launched, cut, unguarded,
                   agentEnds, stopCount, mutations>>

\* A running container becomes a compute tenant when it has loaded its model.
BecomesTenant(n) ==
    /\ n \in Existing /\ docker[n].state = "running" /\ docker[n].group \in GPUGroups
    /\ docker' = [docker EXCEPT ![n].tenant = TRUE]
    /\ UNCHANGED <<accepted, stopping, task, launchGate, stopGate, admission, launched, cut,
                   unguarded, agentEnds, stopCount, mutations>>

DockerStops(s) ==
    /\ s \in stopping /\ stopping' = stopping \ {s}
    /\ docker' = Update(<<"id", s.id>>, Down)
    /\ UNCHANGED <<accepted, task, launchGate, stopGate, admission, launched, cut, unguarded,
                   agentEnds, stopCount, mutations>>

-----------------------------------------------------------------------------
\* Stop, restart and delete.

\* Nobody knows the ID of a container that Docker has not created.
Known(key) ==
    key[1] = "id" =>
      /\ key[2] <= launched /\ \A a \in accepted : a.id # key[2]
      /\ \A t \in Tasks : task[t].pc \in {"prepare", "admitted"} => task[t].id # key[2]

Asked ==
    /\ mutations < MaxMutations /\ mutations' = mutations + 1
    /\ UNCHANGED <<docker, accepted, stopping, launchGate, stopGate, admission, launched, cut,
                   unguarded, agentEnds, stopCount>>

\* A member is asked for with its name and group, by that name or by an ID.
BeginMember(t, n, g, key) ==
    /\ key \in {<<"name", n>>} \cup ({"id"} \X Ids) /\ Known(key) /\ Asked
    /\ \/ Begins(t, "delete", "await launch", n, g, key, launched, launchGate[n])
       \/ Begins(t, "stop", "check", n, g, key, 0, 0)
       \/ Begins(t, "restart", "check", n, g, key, stopCount, 0)

BeginLegacy(t, key) ==
    /\ Known(key)
    /\ \E op \in {"delete", "stop", "restart"}, n \in {CHOOSE n \in Names : TRUE} :
         Begins(t, op, "check", n, Legacy, key, IF op = "restart" THEN stopCount ELSE 0, 0)
    /\ Asked

Refused(t) == Ends(t) /\ OnlyTask

\* Mutant of AwaitLaunch: a deletion does not wait for launches.
AwaitLaunchNot(t) ==
    /\ On(t, "await launch")
    /\ task' = [task EXCEPT ![t].pc = "await stop", ![t].gate = 0,
                           ![t].stopper = stopGate[task[t].key]]
    /\ OnlyTask

\* wait returns when the barrier it found has ended, or with its context.
AwaitLaunch(t) ==
    /\ On(t, "await launch")
    /\ task[t].gate = 0 \/ launchGate[task[t].name] # task[t].gate
    /\ task' = [task EXCEPT ![t].pc = "await stop", ![t].gate = 0,
                           ![t].stopper = stopGate[task[t].key]]
    /\ OnlyTask

Resumes(t) ==
    /\ task' = [task EXCEPT ![t].stopper = NoTask,
                           ![t].pc = IF task[t].op = "delete" /\ Member(t) THEN "check" ELSE "act"]
    /\ OnlyTask

\* Mutant of AwaitStop: nobody waits for a stop.
AwaitStopNot(t) == On(t, "await stop") /\ Resumes(t)

AwaitStop(t) ==
    /\ On(t, "await stop")
    /\ task[t].stopper = NoTask \/ stopGate[task[t].key] # task[t].stopper
    /\ Resumes(t)

WaitExpires(t) == task[t].pc \in {"await launch", "await stop"} /\ Refused(t)

\* Mutant of Fits: any container will do.
FitsAny(t, c) == TRUE

\* rejectLegacyGroupedMutation, or the provenance a member must have.
Fits(t, c) == c.group = task[t].group

\* After the check a stop begins its barrier; a restart, and the deletion of a
\* container of its own, wait for one.
Checked(t) ==
    IF task[t].op = "stop"
    THEN /\ stopGate[task[t].key] = NoTask /\ stopGate' = [stopGate EXCEPT ![task[t].key] = t]
         /\ Goes(t, "act")
    ELSE /\ task' = IF task[t].op = "delete" /\ Member(t) THEN [task EXCEPT ![t].pc = "act"]
                    ELSE [task EXCEPT ![t].pc = "await stop",
                                      ![t].stopper = stopGate[task[t].key]]
         /\ UNCHANGED stopGate

\* A deletion by ID speaks of that container alone.
AnsweredGone(t) ==
    cut' = IF task[t].key[1] = "name"
           THEN [cut EXCEPT ![task[t].name][task[t].group] = task[t].id] ELSE cut

\* A deletion that finds no member answers that it is absent.  An inspection may
\* also fail.
Check(t) ==
    LET found == Selected(task[t].key) IN
    /\ On(t, "check")
    /\ \/ /\ \A n \in found : Fits(t, docker[n])
          /\ found # {} \/ ~Member(t)
          /\ Checked(t) /\ UNCHANGED cut
       \/ /\ found = {} /\ task[t].op = "delete" /\ Member(t)
          /\ Ends(t) /\ AnsweredGone(t) /\ UNCHANGED stopGate
       \/ Ends(t) /\ UNCHANGED <<stopGate, cut>>
    /\ UNCHANGED <<docker, accepted, stopping, launchGate, admission, launched, unguarded,
                   agentEnds, stopCount, mutations>>

\* docker rm -f, after docker stop for a container of its own; it may fail.
ActDelete(t) ==
    LET key == task[t].key IN
    /\ On(t, "act") /\ task[t].op = "delete" /\ Ends(t)
    /\ \/ /\ docker' = Update(key, Deleted)
          /\ IF Member(t) /\ Selected(key) # {} THEN AnsweredGone(t) ELSE UNCHANGED cut
       \/ ~Member(t) /\ docker' = Update(key, Down) /\ UNCHANGED cut
       \/ UNCHANGED <<docker, cut>>
    /\ UNCHANGED <<accepted, stopping, launchGate, stopGate, admission, launched, unguarded,
                   agentEnds, stopCount, mutations>>

\* restartContainerWithDeps: an idle GPU is demanded as for a launch.
ActRestart(t) ==
    LET key == task[t].key
        idle == /\ admission = NoTask /\ NoTenant
        gpu == \E n \in Selected(key) : docker[n].group \in GPUGroups
    IN /\ On(t, "act") /\ task[t].op = "restart" /\ Ends(t)
       /\ \/ (gpu => idle) /\ docker' \in {Update(key, Up), Update(key, Down)}
          \/ UNCHANGED docker
       /\ UNCHANGED <<accepted, stopping, launchGate, stopGate, admission, launched, cut,
                      unguarded, agentEnds, stopCount, mutations>>

ActStop(t) ==
    LET key == task[t].key IN
    /\ On(t, "act") /\ task[t].op = "stop" /\ Goes(t, "docker stop")
    /\ stopCount' = stopCount + 1
    /\ stopping' = stopping \cup
         {[id |-> docker[n].id, key |-> key, by |-> task[t].group,
           no |-> stopCount'] : n \in Selected(key)}
    /\ UNCHANGED <<docker, accepted, launchGate, stopGate, admission, launched, cut, unguarded,
                   agentEnds, mutations>>

\* docker stop returns when the container is stopped; a member's stop is killed
\* with the request it belongs to, another one goes on without its caller.
StopReturns(t) ==
    /\ On(t, "docker stop")
    /\ Member(t) \/ \A s \in stopping : s.key # task[t].key
    /\ Ends(t) /\ stopGate' = [stopGate EXCEPT ![task[t].key] = NoTask]
    /\ UNCHANGED <<docker, accepted, stopping, launchGate, admission, launched, cut, unguarded,
                   agentEnds, stopCount, mutations>>

\* The agent ends and is started again: its barriers are gone.
AgentEnds ==
    /\ agentEnds < MaxAgentEnds /\ agentEnds' = agentEnds + 1
    /\ task' = [t \in Tasks |-> Idling]
    /\ launchGate' = [n \in Names |-> 0] /\ stopGate' = [k \in Keys |-> NoTask]
    /\ admission' = NoTask
    /\ unguarded' = unguarded \cup {a.id : a \in accepted}
    /\ UNCHANGED <<docker, accepted, stopping, launched, cut, stopCount, mutations>>

-----------------------------------------------------------------------------
ContainersInit ==
    /\ docker = [n \in Names |-> Gone] /\ accepted = {} /\ stopping = {}
    /\ task = [t \in Tasks |-> Idling]
    /\ launchGate = [n \in Names |-> 0] /\ stopGate = [k \in Keys |-> NoTask]
    /\ admission = NoTask /\ launched = 0
    /\ cut = [n \in Names |-> [g \in Groups |-> 0]] /\ unguarded = {}
    /\ agentEnds = 0 /\ stopCount = 0 /\ mutations = 0

Deploying(t) ==
    \/ \E n \in Names, g \in Owners : BeginDeploy(t, n, g)
    \/ PrepareFails(t) \/ Admit(t) \/ DockerRun(t) \/ RunSucceeds(t) \/ RunFails(t)
    \/ InspectOwn(t) \/ RemoveOwn(t)

Mutating(t) ==
    \/ \E n \in Names, g \in Groups, key \in Keys : BeginMember(t, n, g, key)
    \/ \E key \in Keys : BeginLegacy(t, key)
    \/ AwaitLaunch(t) \/ AwaitStop(t) \/ WaitExpires(t) \/ Check(t)
    \/ ActDelete(t) \/ ActRestart(t) \/ ActStop(t) \/ StopReturns(t)

DockerActs ==
    \/ \E a \in accepted : DockerCreates(a)
    \/ \E s \in stopping : DockerStops(s)
    \/ \E n \in Names : BecomesTenant(n)

ContainersNext == (\E t \in Tasks : Deploying(t) \/ Mutating(t)) \/ DockerActs \/ AgentEnds

ContainersSpec == ContainersInit /\ [][ContainersNext]_containerVars

-----------------------------------------------------------------------------
\* Properties.

ContainersTypeOK ==
    /\ docker \in [Names -> Container \cup {Gone}]
    /\ accepted \subseteq [id: Ids, name: Names, group: Owners]
    /\ stopping \subseteq [id: Ids, key: Keys, by: Owners, no: Nat]
    /\ task \in [Tasks -> Work \cup {Idling}]
    /\ launchGate \in [Names -> 0 .. MaxLaunches]
    /\ stopGate \in [Keys -> Tasks \cup {NoTask}] /\ admission \in Tasks \cup {NoTask}
    /\ launched \in 0 .. MaxLaunches /\ cut \in [Names -> [Groups -> 0 .. MaxLaunches]]
    /\ unguarded \subseteq Ids /\ agentEnds \in Nat /\ stopCount \in Nat
    /\ mutations \in Nat

\* handleDeploymentMemberDelete: "do not certify it absent before the launch's
\* owned cleanup has completed".  After an answered deletion by name no launch that had
\* registered before the request leaves a container, except one that Docker was
\* not done with when its barrier ended: its cleanup gave up, or the agent ended.
DeletedStaysGone ==
    \A n \in Existing :
      docker[n].group \in Groups /\ docker[n].id <= cut[n][docker[n].group]
        => docker[n].id \in unguarded

\* cleanupFailedManagedRun removes "never an unrelated same-name container":
\* none of another group, and of those outside a group only its launch's own.
CleanupSparesOthers ==
    [][\A t \in Tasks : On(t, "remove own") /\ task'[t] # task[t] =>
         \A n \in Existing : docker'[n] = Gone =>
           /\ docker[n].group = task[t].group
           /\ docker[n].group = Legacy => docker[n].id = task[t].id]_containerVars

\* A restart waits until a stop accepted before it was asked for, for the same container
\* and named the same way, has settled, unless the agent ended or a member's stop
\* was killed with its request: the stop does not undo the restart.
StopSettlesFirst ==
    [][\A t \in Tasks :
         On(t, "act") /\ task[t].op = "restart" /\ docker' # docker =>
           \A s \in stopping :
             s.key = task[t].key /\ s.no <= task[t].id => s.by # Legacy \/ agentEnds > 0]_containerVars

\* A container of a group is touched only by requests that name its group, as
\* long as requests name it by its ID.
MembersKeepTheirApi ==
    [][\A t \in Tasks :
         On(t, "act") /\ task'[t] # task[t] /\ task[t].key[1] = "id" =>
           \A n \in Existing : docker'[n] # docker[n] => docker[n].group = task[t].group
      ]_containerVars

\* A launch, or restart, that needs an idle GPU is between its inspection and
\* Docker's answer only when no other one is.
AdmittedAlone ==
    \A t \in Tasks :
      task[t].pc \in {"admitted", "docker run", "cleanup", "remove own"} /\ NeedsGPU(t)
        => admission = t

\* Launches, deletions and restarts of one name and of one GPU keep apart: what was
\* deleted does not come back, and what needs an idle GPU is alone until Docker has
\* answered (operationBarrierRegistry, handleDeploymentMemberDelete).
ContainersSafety ==
    ContainersTypeOK /\ DeletedStaysGone /\ AdmittedAlone
=============================================================================
