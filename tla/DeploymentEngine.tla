-------------------------- MODULE DeploymentEngine --------------------------
(***************************************************************************)
(* The coordinated deployment engine of internal/deployments/engine.go:    *)
(* one deployment record, its journal, the candidate containers of its     *)
(* members and the previously running containers they replace.             *)
(*                                                                         *)
(* Every lifecycle operation runs under Engine.mu, so at most one is in    *)
(* progress and `ctl` is its control state.  An operation is a sequence of *)
(* steps: a durable write (Persist), an agent call that changes a container*)
(* (Call), or an inspection followed by a local decision.  Between two     *)
(* steps the daemon may crash, containers may exit, and effects an agent   *)
(* accepted although the engine saw the call fail may land (`late`).       *)
(***************************************************************************)
EXTENDS Naturals, FiniteSets

CONSTANTS
    Roles,       \* member roles of the deployment
    Head,        \* rank 0, the role that serves the API
    Worker,      \* the worker role, last to be cleaned up by a head recipe
    BindingPos,  \* [Roles -> Nat]: position of a member in Bindings/Members
    LaunchPos,   \* [Roles -> Nat]: position of a role in LaunchOrder
    Selected,    \* roles for which an old container was selected
    HeadRecipe,  \* TRUE for a recipe whose head owns every rank's container
    RestartOutlivesCaller, \* Docker finishes a restart whose caller has left
    Vanishing,   \* candidates may be removed behind the engine's back
    MaxFaults,   \* bound on failed writes, failed calls and container exits
    MaxCrashes   \* bound on daemon crashes

ASSUME RolesAssumption ==
    /\ Head \in Roles /\ Worker \in Roles /\ IsFiniteSet(Roles)
    /\ Selected \subseteq Roles
    /\ BindingPos \in [Roles -> Nat] /\ LaunchPos \in [Roles -> Nat]
    /\ \A r, s \in Roles :
         BindingPos[r] = BindingPos[s] \/ LaunchPos[r] = LaunchPos[s] => r = s
ASSUME SwitchAssumption ==
    /\ HeadRecipe \in BOOLEAN /\ RestartOutlivesCaller \in BOOLEAN
    /\ Vanishing \in BOOLEAN
ASSUME BoundAssumption == MaxFaults \in Nat /\ MaxCrashes \in Nat

VARIABLES
    journal, \* the record deployments.json holds (state "none": no record)
    dep,     \* the operation's in-memory copy of the record
    ctl,     \* control state of the operation holding Engine.mu
    cand,    \* [Roles -> container state] of the candidates
    old,     \* [Selected -> container state] of the selected old containers
    late,    \* effects accepted by an agent whose call the engine saw fail
    faults, crashes,
    booting  \* the reconciliation loop of a (re)started daemon is running

vars == <<journal, dep, ctl, cand, old, late, faults, crashes, booting>>

-----------------------------------------------------------------------------
\* The record.  `last` is the latest lifecycle action of Progress that
\* unsafeStateRecoveryFor classifies; other progress entries are left out.

States == {"none", "pending", "starting", "running", "stopping", "stopped",
           "failed", "rolled_back", "rollback_failed"}
Lifecycle == {"none", "journal", "pull", "stop_previous", "launch", "readiness",
              "promote", "rollback", "start_group", "stop_group", "verify_running"}
MemberStatus == {"planned", "pulling", "pulled", "launching", "created", "running",
                 "starting", "stopping", "stopped", "removing", "removed"}
PreviousStatus == {"running", "stopped", "stopping", "restarting"}

Deployment == [state: States, last: Lifecycle, mem: [Roles -> MemberStatus],
               prev: [Selected -> PreviousStatus]]

Blank == [state |-> "none", last |-> "none", mem |-> [r \in Roles |-> "planned"],
          prev |-> [r \in Selected |-> "stopped"]]

\* candidateMayExist: could a container of this member be on its device?
MayExist(status) == status \notin {"planned", "pulling", "pulled", "removed"}

\* Mutant of WithMember: the status lands in PreviousMembers.
WithMemberMisfiled(r, status) == [dep EXCEPT !.prev[r] = status]
WithMember(r, status) == [dep EXCEPT !.mem[r] = status]
WithPrevious(r, status) == [dep EXCEPT !.prev[r] = status]

-----------------------------------------------------------------------------
\* Control state of an operation.

Ops == {"none", "create", "replay", "start", "stop", "rollback", "reconcile"}
CreateSteps == {"journal", "pull", "pulling", "stop_previous", "stopping_previous",
                "stopped_previous", "launch", "launching", "launched"}
ReadySteps == {"readiness", "wait_ready", "test", "ready", "promote"}
RollbackSteps == {"rollback", "remove", "removing", "removed", "restore",
                  "inspect_previous", "restart_previous", "restarted_previous",
                  "wait_running", "rollback_result"}
StartSteps == {"verify", "verify_failed", "start_group", "restart", "inspect_restart",
               "restarting", "restarted", "fail_start", "fail_stop", "start_failed"}
StopSteps == {"stop_group", "stop", "inspect_stop", "stopping", "stopped", "stop_result"}
Steps == {"idle", "ok", "err"} \cup CreateSteps \cup ReadySteps \cup RollbackSteps
            \cup StartSteps \cup StopSteps

Control == [op: Ops, pc: Steps,
            todo: SUBSET Roles,     \* members the current loop still has to visit
            safe: BOOLEAN,          \* candidatesSafe of rollbackLocked
            errs: BOOLEAN,          \* result.Errors / stopErrors / needsRecovery
            touched: BOOLEAN,       \* restartMayHaveHappened of Start
            resume: BOOLEAN,        \* failStart was called by Start's verification
            seen: MemberStatus \cup PreviousStatus] \* status before it was overwritten

Idle == [op |-> "none", pc |-> "idle", todo |-> {}, safe |-> TRUE, errs |-> FALSE,
         touched |-> FALSE, resume |-> FALSE, seen |-> "planned"]

At(label) == ctl.pc = label
Goto(label) == [ctl EXCEPT !.pc = label]
Enter(label, members) == [ctl EXCEPT !.pc = label, !.todo = members, !.errs = FALSE,
                                     !.safe = TRUE]
Erring == [ctl EXCEPT !.errs = TRUE]
Unsafe == [ctl EXCEPT !.errs = TRUE, !.safe = FALSE]

\* The loop over members goes on at `label`, or leaves for `exit` after r.
Visit(c, r, label, exit) ==
    IF c.todo \subseteq {r} THEN exit ELSE [c EXCEPT !.pc = label, !.todo = @ \ {r}]

InOrder(r, pos) == r \in ctl.todo /\ \A s \in ctl.todo : pos[r] <= pos[s]
InReverse(r, pos) == r \in ctl.todo /\ \A s \in ctl.todo : pos[s] <= pos[r]

-----------------------------------------------------------------------------
\* Durable writes, agent calls, inspections.

Fault == faults < MaxFaults /\ faults' = faults + 1

containers == <<cand, old, late>>

\* persistProgress and Store.Put: on success the record is durable; a write
\* that fails may have failed before or after the rename made it visible.
Persist(d, good, bad) ==
    /\ dep' = d
    /\ \/ journal' = d /\ ctl' = good /\ UNCHANGED faults
       \/ Fault /\ journal' \in {journal, d} /\ ctl' = bad
    /\ UNCHANGED <<containers, crashes, booting>>

OnPrevious == {"stop_previous", "restart_previous"}
Effects == {"launch", "remove", "stop", "restart"} \cup OnPrevious
ContainerState == {"absent", "running", "stopped"}

Outcome(effect, state) ==
    CASE effect = "launch" -> "running"
      [] effect = "remove" -> "absent"
      [] effect \in {"stop", "stop_previous"} ->
            IF state = "running" THEN "stopped" ELSE state
      [] OTHER -> IF state = "absent" THEN "absent" ELSE "running"

\* The effect happens.  A pending docker stop ends with the container's run.
Apply(effect, r) ==
    IF effect \in OnPrevious
    THEN /\ old' = [old EXCEPT ![r] = Outcome(effect, @)]
         /\ late' = late \ {<<effect, r>>, <<"stop_previous", r>>}
         /\ UNCHANGED cand
    ELSE /\ cand' = [cand EXCEPT ![r] = Outcome(effect, @)]
         /\ late' = late \ {<<effect, r>>, <<"stop", r>>}
         /\ UNCHANGED old

\* Mutant of BarrierOpen: member deletion does not wait for a launch.
BarrierOpenAtDelete(effect, r) ==
    effect = "restart_previous" => <<"stop_previous", r>> \notin late

\* The agent's per-name barriers: member deletion waits for an unfinished
\* launch, and a restart of an ordinary container for an unfinished stop.
BarrierOpen(effect, r) ==
    /\ effect = "remove" => <<"launch", r>> \notin late
    /\ effect = "restart_previous" => <<"stop_previous", r>> \notin late

\* An agent may finish what it accepted although the engine saw an error.
Outlives(effect) == effect = "restart" => RestartOutlivesCaller

\* An agent call: it succeeds; or the engine sees it fail, and it has no
\* effect or its effect is still to come.
Call(effect, r, d, good, bad) ==
    /\ \/ /\ BarrierOpen(effect, r) /\ Apply(effect, r)
          /\ dep' = d /\ ctl' = good /\ UNCHANGED faults
       \/ /\ Fault /\ ctl' = bad /\ UNCHANGED <<dep, cand, old>>
          /\ \/ UNCHANGED late
             \/ /\ BarrierOpen(effect, r) /\ Outlives(effect)
                /\ late' = late \cup {<<effect, r>>}
    /\ UNCHANGED <<journal, crashes, booting>>

\* The agent call the engine is waiting for.
Calling(effect, r) ==
    \/ effect = "stop_previous" /\ At("stopping_previous") /\ InOrder(r, BindingPos)
    \/ effect = "restart_previous" /\ At("restart_previous") /\ InOrder(r, BindingPos)
    \/ effect = "launch" /\ At("launching") /\ InOrder(r, LaunchPos)
    \/ effect = "restart" /\ At("restarting") /\ InOrder(r, LaunchPos)
    \/ effect = "remove" /\ At("removing") /\ InReverse(r, LaunchPos)
    \/ effect = "stop" /\ ctl.pc \in {"fail_stop", "stopping"} /\ InReverse(r, LaunchPos)

\* A local decision, usually after an inspection; `Failed` when the
\* inspection itself fails or the identity it returns is not the member's.
Local(d, c) ==
    /\ dep' = d /\ ctl' = c
    /\ UNCHANGED <<journal, containers, crashes, booting>>
Step(d, c) == Local(d, c) /\ UNCHANGED faults
Failed(c) == Fault /\ Local(dep, c)

-----------------------------------------------------------------------------
\* Create: journal, pull, stop the selected old containers, launch.

ToRollback == Enter("rollback", {})
ToLaunches == Enter("launch", Roles)
AfterPulls == IF Selected = {} THEN ToLaunches ELSE Enter("stop_previous", Selected)

\* Validation, inspection of the selected containers and preflight change
\* nothing; a request they reject is a request never begun.
BeginCreate ==
    /\ At("idle") /\ journal.state = "none"
    /\ Step([Blank EXCEPT !.state = "pending", !.prev = old],
            [Idle EXCEPT !.op = "create", !.pc = "journal"])

JournalPending ==
    /\ At("journal")
    /\ Persist([dep EXCEPT !.last = "journal"], Enter("pull", Roles), Goto("err"))

PullIntent(r) ==
    /\ At("pull") /\ InOrder(r, BindingPos)
    /\ Persist([WithMember(r, "pulling") EXCEPT !.last = "pull"],
               Goto("pulling"), ToRollback)

Pull(r) ==
    /\ At("pulling") /\ InOrder(r, BindingPos)
    /\ \/ Failed(ToRollback)
       \/ Persist([WithMember(r, "pulled") EXCEPT !.last = "pull"],
                  Visit(ctl, r, "pull", AfterPulls), ToRollback)

StopPreviousIntent(r) ==
    /\ At("stop_previous") /\ InOrder(r, BindingPos)
    /\ Persist([WithPrevious(r, "stopping") EXCEPT !.last = "stop_previous"],
               Goto("stopping_previous"), ToRollback)

StopPrevious(r) ==
    /\ Calling("stop_previous", r)
    /\ Call("stop_previous", r, dep, Goto("stopped_previous"), ToRollback)

StopPreviousDone(r) ==
    /\ At("stopped_previous") /\ InOrder(r, BindingPos)
    /\ Persist([WithPrevious(r, "stopped") EXCEPT !.last = "stop_previous"],
               Visit(ctl, r, "stop_previous", ToLaunches), ToRollback)

\* Mutant of LaunchIntent: the launch starts before its intent is durable.
LaunchIntentUnwritten(r) ==
    /\ At("launch") /\ InOrder(r, LaunchPos)
    /\ Step(WithMember(r, "launching"), Goto("launching"))

LaunchIntent(r) ==
    /\ At("launch") /\ InOrder(r, LaunchPos)
    /\ Persist([WithMember(r, "launching") EXCEPT !.last = "launch"],
               Goto("launching"), ToRollback)

Launch(r) ==
    /\ Calling("launch", r)
    /\ Call("launch", r, dep, Goto("launched"), ToRollback)

\* The caller's context is looked at after every launch: it may have ended.
LaunchDone(r) ==
    /\ At("launched") /\ InOrder(r, LaunchPos)
    /\ \E next \in {Visit(ctl, r, "launch", Enter("readiness", {})), ToRollback} :
         Persist([WithMember(r, "created") EXCEPT !.last = "launch"], next, ToRollback)

-----------------------------------------------------------------------------
\* Readiness and promotion, shared by create and start.

ToFailStart == Enter("fail_start", Roles)
Abort == IF ctl.op = "create" THEN ToRollback ELSE ToFailStart
Unpromoted == IF ctl.op = "create" THEN ToRollback ELSE Goto("err")

ReadinessIntent ==
    /\ At("readiness")
    /\ Persist([dep EXCEPT !.last = "readiness"], Enter("wait_ready", Roles), Abort)

\* One poll of waitReady looks at every member; only a poll that finds all of
\* them running goes on to the rank-0 check.
Polled(c, r) ==
    Visit(c, r, "wait_ready", IF c.errs THEN Enter("wait_ready", Roles)
                                        ELSE Enter("test", {}))

WaitReady(r) ==
    /\ At("wait_ready") /\ InOrder(r, BindingPos)
    /\ \/ cand[r] = "running" /\ Step(WithMember(r, "running"), Polled(ctl, r))
       \/ cand[r] = "stopped" /\ Step(WithMember(r, "stopped"), Abort)
       \/ cand[r] = "absent" /\ Step(dep, Polled(Erring, r))
       \/ Failed(Polled(Erring, r))

TestHead ==
    /\ At("test")
    /\ \/ cand[Head] = "running" /\ Step(dep, Goto("ready"))
       \/ Step(dep, Enter("wait_ready", Roles))

\* Mutant of ReadyTimeout: the deadline is looked at only after a test.
ReadyTimeoutAtTest == At("test") /\ Step(dep, Abort)

\* The readiness deadline, the end of the caller's context, a refused key.
ReadyTimeout == ctl.pc \in {"wait_ready", "test"} /\ Step(dep, Abort)

Ready ==
    /\ At("ready")
    /\ Persist([dep EXCEPT !.last = "readiness"], Goto("promote"), Unpromoted)

Promote ==
    /\ At("promote")
    /\ Persist([dep EXCEPT !.state = "running",
                           !.last = IF ctl.op = "create" THEN "promote" ELSE "start_group"],
               Goto("ok"), Unpromoted)

-----------------------------------------------------------------------------
\* rollbackLocked: remove the candidates in reverse launch order, then, only
\* when every candidate is known absent, restore the old containers.

\* Mutant of AfterRemovals: old containers are restored whatever became of the
\* candidates.
AfterRemovalsAnyway(c) ==
    IF Selected # {} THEN [c EXCEPT !.pc = "restore", !.todo = Selected]
                     ELSE [c EXCEPT !.pc = "rollback_result", !.todo = {}]
AfterRemovals(c) ==
    IF c.safe /\ Selected # {} THEN [c EXCEPT !.pc = "restore", !.todo = Selected]
                               ELSE [c EXCEPT !.pc = "rollback_result", !.todo = {}]
NextRemoval(c, r) == Visit(c, r, "remove", AfterRemovals(c))
NextRestore(c, r) ==
    Visit(c, r, "restore", [c EXCEPT !.pc = "rollback_result", !.todo = {}])

RollbackIntent ==
    /\ At("rollback")
    /\ LET remaining == {r \in Roles : MayExist(dep.mem[r])}
           start == Enter("remove", remaining)
       IN Persist([dep EXCEPT !.state = "rollback_failed", !.last = "rollback"],
                  IF remaining = {} THEN AfterRemovals(start) ELSE start, Goto("err"))

\* Mutant of RemovalIntent: a head recipe's worker is removed like any other.
RemovalIntentUnsparing(r) ==
    /\ At("remove") /\ InReverse(r, LaunchPos)
    /\ Persist(WithMember(r, "removing"), Goto("removing"), NextRemoval(Unsafe, r))

RemovalIntent(r) ==
    /\ At("remove") /\ InReverse(r, LaunchPos)
    /\ LET spared == HeadRecipe /\ r = Worker /\ ~ctl.safe IN
       \/ spared /\ Step(dep, AfterRemovals(ctl))
       \/ ~spared /\ Persist(WithMember(r, "removing"), Goto("removing"),
                             NextRemoval(Unsafe, r))

\* An inspection that fails or finds a foreign container counts as the failed
\* call; one that finds nothing still crosses the agent's deletion barrier. The log
\* tails captured before the removal (of a head recipe: before the first one) are
\* diagnostic: whatever becomes of their call and of their write, the loop goes on,
\* and the rest of the record is as the intent has just written it.
RemoveCandidate(r) ==
    /\ Calling("remove", r)
    /\ Call("remove", r, dep, Goto("removed"), NextRemoval(Unsafe, r))

RemovalDone(r) ==
    /\ At("removed") /\ InReverse(r, LaunchPos)
    /\ Persist(WithMember(r, "removed"), NextRemoval(ctl, r), NextRemoval(Erring, r))

RestoreIntent(r) ==
    /\ At("restore") /\ InOrder(r, BindingPos)
    /\ Persist(WithPrevious(r, "restarting"),
               [Goto("inspect_previous") EXCEPT !.seen = dep.prev[r]],
               NextRestore(Erring, r))

\* Mutant of InspectPrevious: a container seen running is left alone although
\* a stop may still be under way.
InspectPreviousTrusting(r) ==
    /\ At("inspect_previous") /\ InOrder(r, BindingPos)
    /\ \/ Failed(NextRestore(Erring, r))
       \/ old[r] # "running" /\ Step(dep, Goto("restart_previous"))
       \/ old[r] = "running" /\ Step(dep, Goto("wait_running"))

InspectPrevious(r) ==
    /\ At("inspect_previous") /\ InOrder(r, BindingPos)
    /\ \/ Failed(NextRestore(Erring, r))
       \/ /\ old[r] # "running" \/ ctl.seen = "stopping"
          /\ Step(dep, Goto("restart_previous"))
       \/ /\ old[r] = "running" /\ ctl.seen = "restarting"
          /\ Step(dep, Goto("restarted_previous"))
       \/ /\ old[r] = "running" /\ ctl.seen \notin {"stopping", "restarting"}
          /\ Step(dep, Goto("wait_running"))

RestartPrevious(r) ==
    /\ Calling("restart_previous", r)
    /\ Call("restart_previous", r, dep, Goto("restarted_previous"), NextRestore(Erring, r))

RestartAudit(r) ==
    /\ At("restarted_previous") /\ InOrder(r, BindingPos)
    /\ Persist(dep, Goto("wait_running"), NextRestore(Erring, r))

WaitRunning(r) ==
    /\ At("wait_running") /\ InOrder(r, BindingPos)
    /\ \/ /\ old[r] = "running"
          /\ Persist(WithPrevious(r, "running"), NextRestore(ctl, r), NextRestore(Erring, r))
       \/ old[r] = "stopped" /\ Step(dep, NextRestore(Erring, r))
       \/ Failed(NextRestore(Erring, r))

\* Members that never had a candidate to remove are recorded stopped.
Swept(mem) == [r \in Roles |-> IF mem[r] = "removed" THEN "removed" ELSE "stopped"]

RollbackResult ==
    /\ At("rollback_result")
    /\ IF ctl.errs
       THEN Persist([dep EXCEPT !.state = "rollback_failed", !.last = "rollback"],
                    Goto("err"), Goto("err"))
       ELSE Persist([dep EXCEPT !.state = "rolled_back", !.last = "rollback",
                                !.mem = Swept(@)],
                    Goto("ok"), Goto("err"))

-----------------------------------------------------------------------------
\* Start, markUnsafeRunning and failStart.

BeginStart ==
    /\ At("idle")
    /\ \/ /\ journal.state = "running"
          /\ Step(journal, [Idle EXCEPT !.op = "start", !.pc = "verify", !.todo = Roles])
       \/ /\ journal.state \in {"stopped", "starting"}
          /\ Step(journal, [Idle EXCEPT !.op = "start", !.pc = "start_group"])

Verified(c, r) ==
    Visit(c, r, "verify", IF c.errs THEN [ToFailStart EXCEPT !.resume = TRUE]
                                    ELSE Goto("ok"))

VerifyMember(r) ==
    /\ At("verify") /\ InOrder(r, BindingPos)
    /\ \/ cand[r] = "running" /\ Step(WithMember(r, "running"), Verified(ctl, r))
       \/ cand[r] = "stopped" /\ Step(WithMember(r, "stopped"), Verified(Erring, r))
       \/ cand[r] = "absent" /\ Step(dep, Goto("verify_failed"))
       \/ Failed(Goto("verify_failed"))

MarkUnsafeRunning ==
    /\ At("verify_failed")
    /\ Persist([dep EXCEPT !.state = "failed", !.last = "verify_running"],
               Goto("err"), Goto("err"))

StartIntent ==
    /\ At("start_group")
    /\ Persist([dep EXCEPT !.state = "starting", !.last = "start_group"],
               Enter("restart", Roles), Goto("err"))

\* Before the first restart a failure just returns; later it needs cleanup.
GiveUp == IF ctl.touched THEN ToFailStart ELSE Goto("err")

RestartIntent(r) ==
    /\ At("restart") /\ InOrder(r, LaunchPos)
    /\ Persist(WithMember(r, "starting"),
               [Goto("inspect_restart") EXCEPT !.seen = dep.mem[r]], GiveUp)

InspectRestart(r) ==
    /\ At("inspect_restart") /\ InOrder(r, LaunchPos)
    /\ \/ \E next \in {GiveUp, ToFailStart} : Failed(next)
       \/ cand[r] = "absent" /\ Step(dep, ToFailStart)
       \/ /\ cand[r] = "stopped" \/ (cand[r] = "running" /\ ctl.seen = "stopping")
          /\ Step(dep, [Goto("restarting") EXCEPT !.touched = TRUE])
       \/ /\ cand[r] = "running" /\ ctl.seen # "stopping"
          /\ Step(dep, Goto("restarted"))

RestartMember(r) ==
    /\ Calling("restart", r)
    /\ Call("restart", r, dep, Goto("restarted"), ToFailStart)

RestartDone(r) ==
    /\ At("restarted") /\ InOrder(r, LaunchPos)
    /\ Persist(WithMember(r, "running"),
               Visit(ctl, r, "restart", Enter("readiness", {})), GiveUp)

\* A head recipe never touches its worker once an earlier member failed.
Spared(r) == HeadRecipe /\ r = Worker /\ ctl.errs
Ended(c, label) == [c EXCEPT !.pc = label, !.todo = {}]
NextFailStart(c, r) == Visit(c, r, "fail_start", Ended(c, "start_failed"))

FailStart(r) ==
    /\ At("fail_start") /\ InReverse(r, LaunchPos)
    /\ \/ Spared(r) /\ Step(dep, Ended(ctl, "start_failed"))
       \/ /\ ~Spared(r)
          /\ \/ cand[r] = "absent" /\ Step(dep, NextFailStart(Erring, r))
             \/ Failed(NextFailStart(Erring, r))
             \/ cand[r] = "stopped" /\ Step(WithMember(r, "stopped"), NextFailStart(ctl, r))
             \/ cand[r] = "running" /\ Step(dep, Goto("fail_stop"))

FailStop(r) ==
    /\ At("fail_stop") /\ InReverse(r, LaunchPos)
    /\ Call("stop", r, WithMember(r, "stopped"), NextFailStart(ctl, r),
            NextFailStart(Erring, r))

\* The callers look at the state of the record failStart returns and not at
\* whether it was written: a group that stopped counts as recovered.
StartFailed ==
    /\ At("start_failed")
    /\ LET state == IF ctl.errs THEN "failed" ELSE "stopped"
           next == IF ctl.errs THEN Goto("err")
                   ELSE IF ctl.resume THEN [Goto("start_group") EXCEPT !.resume = FALSE]
                   ELSE IF ctl.op = "start" THEN Goto("err") ELSE Goto("ok")
       IN Persist([dep EXCEPT !.state = state, !.last = "start_group"], next, next)

-----------------------------------------------------------------------------
\* Stop.

BeginStop ==
    /\ At("idle") /\ journal.state \in {"running", "stopping", "starting", "failed"}
    /\ Step(journal, [Idle EXCEPT !.op = "stop", !.pc = "stop_group"])

StopIntent ==
    /\ At("stop_group")
    /\ Persist([dep EXCEPT !.state = "stopping", !.last = "stop_group"],
               Enter("stop", Roles), Goto("err"))

NextStop(c, r) == Visit(c, r, "stop", Ended(c, "stop_result"))

StopMemberIntent(r) ==
    /\ At("stop") /\ InReverse(r, LaunchPos)
    /\ \/ Spared(r) /\ Step(dep, Ended(ctl, "stop_result"))
       \/ ~Spared(r) /\ Persist(WithMember(r, "stopping"), Goto("inspect_stop"),
                                NextStop(Erring, r))

InspectStop(r) ==
    /\ At("inspect_stop") /\ InReverse(r, LaunchPos)
    /\ \/ cand[r] = "absent" /\ Step(dep, NextStop(Erring, r))
       \/ Failed(NextStop(Erring, r))
       \/ cand[r] = "stopped" /\ Step(dep, Goto("stopped"))
       \/ cand[r] = "running" /\ Step(dep, Goto("stopping"))

StopMember(r) ==
    /\ At("stopping") /\ InReverse(r, LaunchPos)
    /\ Call("stop", r, dep, Goto("stopped"), NextStop(Erring, r))

StopDone(r) ==
    /\ At("stopped") /\ InReverse(r, LaunchPos)
    /\ Persist(WithMember(r, "stopped"), NextStop(ctl, r), NextStop(Erring, r))

\* Mutant of StopResult: success is reported although the write failed.
StopResultUnwritten ==
    /\ At("stop_result")
    /\ IF ctl.errs
       THEN Persist([dep EXCEPT !.state = "failed", !.last = "stop_group"],
                    Goto("err"), Goto("err"))
       ELSE Persist([dep EXCEPT !.state = "stopped", !.last = "stop_group"],
                    Goto("ok"), Goto("ok"))

StopResult ==
    /\ At("stop_result")
    /\ IF ctl.errs
       THEN Persist([dep EXCEPT !.state = "failed", !.last = "stop_group"],
                    Goto("err"), Goto("err"))
       ELSE Persist([dep EXCEPT !.state = "stopped", !.last = "stop_group"],
                    Goto("ok"), Goto("err"))

-----------------------------------------------------------------------------
\* Explicit rollback, reconciliation at daemon start, idempotent replay.

BeginRollback ==
    /\ At("idle") /\ journal.state \notin {"none", "rolled_back"}
    /\ Step(journal, [Idle EXCEPT !.op = "rollback", !.pc = "rollback"])

\* Mutant of RecoveryFor: the latest progress entry decides alone.
RecoveryForByProgress(d) ==
    CASE d.last = "start_group" -> "start"
      [] d.last \in {"stop_group", "verify_running"} -> "stop"
      [] OTHER -> "create"

\* unsafeStateRecoveryFor: which operation an unfinished record belongs to.
RecoveryFor(d) ==
    CASE d.state = "starting" -> "start"
      [] d.state = "stopping" -> "stop"
      [] OTHER -> CASE d.last = "start_group" -> "start"
                    [] d.last \in {"stop_group", "verify_running"} -> "stop"
                    [] OTHER -> "create"

Retryable == {"pending", "rollback_failed"}
Unfinished == {"starting", "stopping", "failed"}

Recovering(op) ==
    LET begin == [Idle EXCEPT !.op = op]
        kind == IF journal.state \in Retryable THEN "create" ELSE RecoveryFor(journal)
    IN CASE kind = "start" -> [begin EXCEPT !.pc = "fail_start", !.todo = Roles]
         [] kind = "stop" -> [begin EXCEPT !.pc = "stop_group"]
         [] OTHER -> [begin EXCEPT !.pc = "rollback"]

\* Mutant of BeginReconcile: only records of unfinished creates are visited.
BeginReconcileCreates ==
    /\ At("idle") /\ booting /\ journal.state \in Retryable
    /\ Step(journal, Recovering("reconcile"))

BeginReconcile ==
    /\ At("idle") /\ booting /\ journal.state \in Retryable \cup Unfinished
    /\ Step(journal, Recovering("reconcile"))

NothingToReconcile ==
    /\ At("idle") /\ booting /\ journal.state \notin Retryable \cup Unfinished
    /\ booting' = FALSE
    /\ UNCHANGED <<journal, dep, ctl, containers, faults, crashes>>

\* A create request that repeats the idempotency key of the record.
BeginReplay ==
    /\ At("idle") /\ journal.state \in Retryable \cup Unfinished
    /\ Step(journal, Recovering("replay"))

\* Mutant of Answer: the reconciliation loop ends with its first attempt.
AnswerOnce ==
    /\ ctl.pc \in {"ok", "err"}
    /\ ctl' = Idle /\ dep' = Blank /\ booting' = (booting /\ ctl.op # "reconcile")
    /\ UNCHANGED <<journal, containers, faults, crashes>>

\* The operation returns and releases Engine.mu; the reconciliation loop ends
\* with its first successful attempt.
Answer ==
    /\ ctl.pc \in {"ok", "err"}
    /\ ctl' = Idle /\ dep' = Blank
    /\ booting' = (booting /\ ~(ctl.op = "reconcile" /\ ctl.pc = "ok"))
    /\ UNCHANGED <<journal, containers, faults, crashes>>

-----------------------------------------------------------------------------
\* The environment.

\* An accepted effect lands, or the agent gives it up.
Land(effect, r) ==
    /\ <<effect, r>> \in late
    /\ \/ Apply(effect, r)
       \/ late' = late \ {<<effect, r>>} /\ UNCHANGED <<cand, old>>
    /\ UNCHANGED <<journal, dep, ctl, faults, crashes, booting>>

Exit(r) ==
    /\ Fault /\ cand[r] = "running"
    /\ cand' = [cand EXCEPT ![r] = "stopped"] /\ late' = late \ {<<"stop", r>>}
    /\ UNCHANGED <<journal, dep, ctl, old, crashes, booting>>

ExitPrevious(r) ==
    /\ Fault /\ old[r] = "running"
    /\ old' = [old EXCEPT ![r] = "stopped"] /\ late' = late \ {<<"stop_previous", r>>}
    /\ UNCHANGED <<journal, dep, ctl, cand, crashes, booting>>

Vanish(r) ==
    /\ Vanishing /\ Fault /\ cand[r] # "absent"
    /\ cand' = [cand EXCEPT ![r] = "absent"] /\ late' = late \ {<<"stop", r>>}
    /\ UNCHANGED <<journal, dep, ctl, old, crashes, booting>>

\* What the agents may still carry out of the call the engine is making.
InFlight == {call \in Effects \X Roles : /\ Calling(call[1], call[2])
                                         /\ BarrierOpen(call[1], call[2])
                                         /\ Outlives(call[1])}

\* The daemon dies and is started again: the operation is lost, the journal
\* and what the agents accepted are not.
Crash ==
    /\ crashes < MaxCrashes /\ crashes' = crashes + 1
    /\ late' \in {late, late \cup InFlight}
    /\ ctl' = Idle /\ dep' = Blank /\ booting' = TRUE
    /\ UNCHANGED <<journal, cand, old, faults>>

-----------------------------------------------------------------------------
Init ==
    /\ journal = Blank /\ dep = Blank /\ ctl = Idle
    /\ cand = [r \in Roles |-> "absent"]
    /\ old \in [Selected -> {"running", "stopped"}]
    /\ late = {} /\ faults = 0 /\ crashes = 0 /\ booting = TRUE

CreateStep ==
    \/ JournalPending
    \/ \E r \in Roles : PullIntent(r) \/ Pull(r) \/ LaunchIntent(r) \/ Launch(r) \/ LaunchDone(r)
    \/ \E r \in Selected : StopPreviousIntent(r) \/ StopPrevious(r) \/ StopPreviousDone(r)

ReadyStep ==
    \/ ReadinessIntent \/ TestHead \/ Ready \/ Promote
    \/ \E r \in Roles : WaitReady(r)

RollbackStep ==
    \/ RollbackIntent \/ RollbackResult
    \/ \E r \in Roles : RemovalIntent(r) \/ RemoveCandidate(r) \/ RemovalDone(r)
    \/ \E r \in Selected : \/ RestoreIntent(r) \/ InspectPrevious(r) \/ RestartPrevious(r)
                           \/ RestartAudit(r) \/ WaitRunning(r)

StartStep ==
    \/ MarkUnsafeRunning \/ StartIntent \/ StartFailed
    \/ \E r \in Roles : \/ VerifyMember(r) \/ RestartIntent(r) \/ InspectRestart(r)
                        \/ RestartMember(r) \/ RestartDone(r) \/ FailStart(r) \/ FailStop(r)

StopStep ==
    \/ StopIntent \/ StopResult
    \/ \E r \in Roles : \/ StopMemberIntent(r) \/ InspectStop(r) \/ StopMember(r)
                        \/ StopDone(r)

EngineStep == CreateStep \/ ReadyStep \/ RollbackStep \/ StartStep \/ StopStep \/ Answer
Request == BeginCreate \/ BeginStart \/ BeginStop \/ BeginRollback \/ BeginReplay
Reconciliation == BeginReconcile \/ NothingToReconcile
Landing == \E effect \in Effects, r \in Roles : Land(effect, r)
Environment ==
    \/ \E r \in Roles : Exit(r) \/ Vanish(r)
    \/ \E r \in Selected : ExitPrevious(r)
    \/ Landing \/ Crash

Next == EngineStep \/ ReadyTimeout \/ Request \/ Reconciliation \/ Environment

Spec == Init /\ [][Next]_vars

\* Every agent call and write returns; a readiness deadline fires; an agent
\* finishes or gives up what it accepted.  The reconciliation goroutine ticks
\* every ten seconds and sync.Mutex does not starve a waiter, so it gets the
\* engine although requests keep taking it.
Fairness ==
    /\ WF_vars(EngineStep) /\ WF_vars(ReadyTimeout) /\ WF_vars(Landing)
    /\ SF_vars(Reconciliation)

FairSpec == Spec /\ Fairness

-----------------------------------------------------------------------------
\* Properties.

\* Record, operation, containers and late effects stay within the values that the
\* record's states and the operations of Engine have.
TypeOK ==
    /\ journal \in Deployment /\ dep \in Deployment /\ ctl \in Control
    /\ cand \in [Roles -> ContainerState]
    /\ old \in [Selected -> {"running", "stopped"}]
    /\ late \subseteq Effects \X Roles
    /\ faults \in Nat /\ crashes \in Nat /\ booting \in BOOLEAN

\* A candidate exists, or an accepted launch may still create it.
Present(r) == cand[r] # "absent" \/ <<"launch", r>> \in late

\* Every candidate container that exists or may still be launched is one the
\* durable record makes candidateMayExist true for: whatever fails and wherever
\* the daemon dies, a later rollback looks for it and removes it.
NoOrphan ==
    \A r \in Roles : Present(r) => journal.state # "none" /\ MayExist(journal.mem[r])

\* The selected old containers and the candidates never run at the same time:
\* Create launches only once every old container was stopped, and rollbackLocked
\* restores old ones only once every candidate is known absent.
CutoverExclusive ==
    (\E r \in Selected : old[r] = "running") => \A r \in Roles : ~Present(r)

\* A promoted group is never rolled back by a failed Start, Stop, verification,
\* a reconciliation or a replayed Create: only by the client's Rollback, or by
\* the Create whose promotion write failed after it became visible.
PromotedGroupKept ==
    [][(journal.state \in {"running", "starting", "stopping", "stopped", "failed"}
          /\ journal'.state = "rollback_failed")
       => \/ ctl.op = "rollback"
          \/ ctl.op = "create" /\ journal.state = "running"]_vars

\* A record in state running was promoted after one poll that saw every member
\* running: no path writes the state over statuses it did not observe.
RunningMeansObserved ==
    journal.state = "running" => \A r \in Roles : journal.mem[r] = "running"

\* A group recorded stopped is quiet: no member runs, and nothing an agent
\* accepted earlier will start one.
StoppedIsQuiet ==
    journal.state = "stopped" =>
        \A r \in Roles : cand[r] # "running" /\ {<<"launch", r>>, <<"restart", r>>} \cap late = {}

\* A record in state rolled_back has no candidate left, neither running nor
\* stopped nor still to be created by an accepted launch.
RolledBackClean == journal.state = "rolled_back" => \A r \in Roles : ~Present(r)

\* What a record says at rest is true of the nodes, after crashes, lost calls and
\* calls that take effect late: a promotion, a Stop and a Rollback settle the nodes
\* before they write their state.
SettledStates ==
    RunningMeansObserved /\ StoppedIsQuiet /\ RolledBackClean

\* Once rolled back, no stop that Create sent to a selected old container is
\* still on its way to take the restored service down again.
RolledBackSettled ==
    journal.state = "rolled_back" => \A r \in Selected : <<"stop_previous", r>> \notin late

\* That much holds as long as one call or write failed and nothing crashed: the
\* restoration intent then still tells rollbackLocked that a stop may be pending.
OneFault == faults <= 1 /\ crashes = 0
RolledBackSettledOnce == OneFault => RolledBackSettled

\* When a group is promoted, no stop that an earlier Stop or failed Start sent
\* to one of its members is still on its way to take it down again, as long as
\* one call or write failed and nothing crashed.
PromotedSettled ==
    OneFault /\ journal.state # "running" /\ journal'.state = "running"
      => \A r \in Roles : <<"stop", r>> \notin late

\* A stop the engine gave up on never takes down what a later operation brought up
\* (the old container after a rollback, the group after a promotion), with the
\* proviso of OneFault.
StopsSettled ==
    [][RolledBackSettledOnce' /\ PromotedSettled]_vars

\* A request that succeeds tells the client the state that is durable.
AnsweredIsDurable ==
    ctl.pc = "ok" /\ ctl.op \in {"create", "start", "stop", "rollback"}
        => dep.state = journal.state

\* The reconciliation loop of a restarted daemon ends only when no record is
\* left in a state that it is there to repair.
ReconciledMeansSettled ==
    [][booting /\ ~booting' => journal.state \notin Retryable \cup Unfinished]_vars

\* Whatever fails meanwhile, calls, members, removals or writes, only one thing
\* ends the loop before that: a failed Start whose group was stopped after all. The
\* write of "stopped" is the one write whose error failStart drops, so the record may
\* still say something else when reconciliation reports success.
ReconciledUnlessUnwritten ==
    [][booting /\ ~booting' /\ journal.state \in Retryable \cup Unfinished
         => dep.state = "stopped"]_vars

\* While the head of a head recipe exists or may still be launched, the engine
\* does not remove the worker's container: it is the head's to remove.
ReservationOutlivesHead ==
    [][\A r \in Roles : Calling("remove", r) /\ r = Worker /\ cand[r] # "absent"
            /\ cand'[r] = "absent" /\ ctl' # ctl
          => ~Present(Head)]_vars

\* A restarted daemon brings the record to a settled state.
ReconciliationEnds == booting ~> ~booting

\* Every operation returns and releases Engine.mu, also when an unfinished
\* launch keeps a deletion waiting or the group never becomes ready.
OperationsEnd == ctl.op # "none" ~> ctl.op = "none"
=============================================================================
