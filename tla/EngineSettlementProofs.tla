------------------------ MODULE EngineSettlementProofs ------------------------
(***************************************************************************)
(* What a record of DeploymentEngine says at rest is true, for any members,*)
(* orders, faults and crashes.                                             *)
(*                                                                         *)
(* The first part is about records: which states the record and an         *)
(* operation's copy of it have at each step, and which operations get to   *)
(* it (Book).  The second part ties the steps to the containers (Nodes).   *)
(***************************************************************************)
EXTENDS DeploymentEngineProofs

USE RolesAssumption, SwitchAssumption, BoundAssumption
USE DEF Steps, CreateSteps, ReadySteps, RollbackSteps, StartSteps, StopSteps

AtRest == {"running", "stopped", "failed", "rolled_back"}

\* Where the copy may be one of a record at rest: what is written next has another
\* state.
Rewriting == {"verify", "verify_failed", "fail_start", "fail_stop", "start_failed",
              "start_group", "stop_group", "rollback", "ok", "err"}
RestartLoop == {"restart", "inspect_restart", "restarting", "restarted"}
RemovalLoop == RollbackSteps \ {"rollback"}
FailLoop == {"fail_start", "fail_stop"}
StopLoop == {"stop", "inspect_stop", "stopping", "stopped"}
HaltLoop == FailLoop \cup StopLoop

Written(state) == dep.state = state /\ journal.state = state

\* The state of the record, and of the copy, at each stage of an operation.
Stages ==
    /\ dep.state \in AtRest => ctl.pc \in Rewriting
    /\ ctl.pc \in BeforeLaunch \cup Launching =>
         /\ ctl.op = "create" /\ dep.state = "pending"
         /\ ~At("journal") => journal.state = "pending"
    /\ ctl.pc \in RestartLoop => Written("starting")
    /\ ctl.pc \in ReadySteps => Written(IF ctl.op = "create" THEN "pending" ELSE "starting")
    /\ ctl.pc \in RemovalLoop => Written("rollback_failed") /\ (~ctl.safe => ctl.errs)
    /\ ctl.pc \in StopLoop => Written("stopping")
    /\ At("verify") => Written("running")

\* The operations that get to each stage; a promoted record is only rolled back by
\* Rollback, or by the Create that has just promoted it.
Callers ==
    /\ At("verify") => ctl.op = "start"
    /\ ctl.pc \in ReadySteps => ctl.op \notin {"stop", "rollback"}
    /\ ctl.pc \in StartSteps => ctl.op \notin {"create", "stop", "rollback"}
    /\ At("rollback") =>
         \/ ctl.op = "rollback"
         \/ ctl.op = "create" /\ journal.state \in {"pending", "running"}
         \/ journal.state \in Retryable
    /\ At("ok") /\ ctl.op = "reconcile" =>
         \/ journal.state \in {"running", "stopped", "rolled_back"}
         \/ dep.state = "stopped"

\* The members a readiness poll has passed, and all of them once it is over, were
\* seen running.
Observed ==
    /\ At("wait_ready") /\ ~ctl.errs =>
         \A r \in Roles : r \notin ctl.todo => dep.mem[r] = "running"
    /\ ctl.pc \in {"test", "ready", "promote"} => \A r \in Roles : dep.mem[r] = "running"

\* A record that failed tells which operation failed.
Blamed ==
    journal.state = "failed" => journal.last \in {"start_group", "stop_group", "verify_running"}

Book ==
    Stages /\ Callers /\ Observed /\ Blamed /\ RunningMeansObserved /\ AnsweredIsDurable

\* A launch that is still to take effect belongs to a create that gave up.
LaunchesLate ==
    (\E r \in Roles : <<"launch", r>> \in late) =>
        journal.state \in Retryable /\ ctl.pc \in {"idle", "err"} \cup RollbackSteps

\* The members that a Stop, or the cleanup of a Start, has passed do not run.
Halted ==
    /\ ctl.pc \in HaltLoop /\ ~ctl.errs =>
         \A r \in Roles : r \notin ctl.todo => cand[r] # "running"
    /\ At("stopped") => \A r \in Roles : InReverse(r, LaunchPos) => cand[r] # "running"
    /\ ctl.pc \in {"start_failed", "stop_result"} /\ ~ctl.errs =>
         \A r \in Roles : cand[r] # "running"

\* A rollback that met no error has left no candidate.
Emptied == At("rollback_result") /\ ~ctl.errs => \A r \in Roles : ~Present(r)

\* A head recipe's worker is removed only while every removal has succeeded.
Reserved == At("removing") /\ HeadRecipe /\ InReverse(Worker, LaunchPos) => ctl.safe

\* Where a cleanup begins no member has been visited, and no other operation gets
\* into the loops of a rollback.
Unvisited(c) ==
    /\ c.pc \in HaltLoop \cup {"start_failed", "stop_result"} =>
         c.pc = "fail_start" /\ c.todo = Roles
    /\ c.pc \notin RemovalLoop

\* A rollback goes on or fails, unless all of it has succeeded.
RollbackGoesOn ==
    \/ ctl'.pc \in RemovalLoop \cup {"err"}
    \/ At("rollback_result") /\ ~ctl.errs /\ ctl'.pc = "ok"

NoLateRestart == \A r \in Roles : <<"restart", r>> \notin late

-----------------------------------------------------------------------------
\* The fields of control states.

LEMMA GotoAll ==
    ASSUME TypeOK, NEW label \in Steps
    PROVE  /\ Goto(label).pc = label /\ Goto(label).op = ctl.op /\ Goto(label).todo = ctl.todo
           /\ Goto(label).errs = ctl.errs /\ Goto(label).safe = ctl.safe
BY DEF TypeOK, Goto, Control

LEMMA EnterAll ==
    ASSUME TypeOK, NEW label \in Steps, NEW members \in SUBSET Roles
    PROVE  /\ Enter(label, members).pc = label /\ Enter(label, members).op = ctl.op
           /\ Enter(label, members).todo = members
           /\ ~Enter(label, members).errs /\ Enter(label, members).safe
BY DEF TypeOK, Enter, Control

LEMMA ErringAll ==
    ASSUME TypeOK
    PROVE  /\ Erring \in Control /\ Erring.pc = ctl.pc /\ Erring.op = ctl.op
           /\ Erring.errs = TRUE /\ Erring.todo = ctl.todo /\ Erring.safe = ctl.safe
           /\ Unsafe \in Control /\ Unsafe.pc = ctl.pc /\ Unsafe.op = ctl.op
           /\ Unsafe.errs = TRUE /\ Unsafe.todo = ctl.todo /\ Unsafe.safe = FALSE
BY DEF TypeOK, Erring, Unsafe, Control

LEMMA VisitAll ==
    ASSUME NEW c \in Control, NEW r, NEW label, NEW exit
    PROVE  \/ c.todo \subseteq {r} /\ Visit(c, r, label, exit) = exit
           \/ /\ Visit(c, r, label, exit).pc = label /\ Visit(c, r, label, exit).op = c.op
              /\ Visit(c, r, label, exit).todo = c.todo \ {r}
              /\ Visit(c, r, label, exit).errs = c.errs
              /\ Visit(c, r, label, exit).safe = c.safe
BY DEF Visit, Control

LEMMA EndedAll ==
    ASSUME NEW c \in Control, NEW label
    PROVE  /\ Ended(c, label).pc = label /\ Ended(c, label).op = c.op
           /\ Ended(c, label).todo = {} /\ Ended(c, label).errs = c.errs
           /\ Ended(c, label).safe = c.safe
BY DEF Ended, Control

LEMMA LaterAll ==
    ASSUME TypeOK
    PROVE  /\ ToRollback.pc = "rollback" /\ ToRollback.op = ctl.op
           /\ ToLaunches.pc = "launch" /\ ToLaunches.op = ctl.op
           /\ AfterPulls.pc \in {"stop_previous", "launch"} /\ AfterPulls.op = ctl.op
           /\ ToFailStart.pc = "fail_start" /\ ToFailStart.op = ctl.op
           /\ ToFailStart.todo = Roles /\ ~ToFailStart.errs
           /\ \/ Abort = ToRollback /\ ctl.op = "create"
              \/ Abort = ToFailStart /\ ctl.op # "create"
           /\ \/ Unpromoted = ToRollback /\ ctl.op = "create"
              \/ Unpromoted = Goto("err") /\ ctl.op # "create"
           /\ GiveUp \in {ToFailStart, Goto("err")}
<1>1. ToRollback.pc = "rollback" /\ ToRollback.op = ctl.op
  BY EnterAll DEF ToRollback
<1>2. ToLaunches.pc = "launch" /\ ToLaunches.op = ctl.op
  BY EnterAll DEF ToLaunches
<1>3. AfterPulls.pc \in {"stop_previous", "launch"} /\ AfterPulls.op = ctl.op
  <2>1. Enter("stop_previous", Selected).pc = "stop_previous"
        /\ Enter("stop_previous", Selected).op = ctl.op
    BY EnterAll
  <2> QED BY <1>2, <2>1 DEF AfterPulls
<1>4. /\ ToFailStart.pc = "fail_start" /\ ToFailStart.op = ctl.op
      /\ ToFailStart.todo = Roles /\ ~ToFailStart.errs
  BY EnterAll DEF ToFailStart
<1> QED BY <1>1, <1>2, <1>3, <1>4 DEF Abort, Unpromoted, GiveUp

-----------------------------------------------------------------------------
\* The first part: records and operations.

\* What a write does to the record.
LEMMA PersistBook ==
    ASSUME NEW d, NEW good, NEW bad, Persist(d, good, bad)
    PROVE  /\ dep' = d
           /\ \/ journal' = d /\ ctl' = good /\ faults' = faults
              \/ journal' \in {journal, d} /\ ctl' = bad /\ faults' = faults + 1
           /\ UNCHANGED <<cand, old, late, booting>>
BY DEF Persist, Fault, containers

LEMMA LocalBook ==
    ASSUME NEW d, NEW c, Step(d, c)
    PROVE  /\ dep' = d /\ journal' = journal /\ ctl' = c /\ faults' = faults
           /\ UNCHANGED <<cand, old, late, booting>>
BY DEF Step, Local, containers

LEMMA FailedBook ==
    ASSUME NEW c, Failed(c)
    PROVE  /\ dep' = dep /\ journal' = journal /\ ctl' = c /\ faults' = faults + 1
           /\ UNCHANGED <<cand, old, late, booting>>
BY DEF Failed, Local, Fault, containers

LEMMA CallBook ==
    ASSUME NEW effect, NEW r, NEW d, NEW good, NEW bad, Call(effect, r, d, good, bad)
    PROVE  /\ journal' = journal /\ booting' = booting
           /\ \/ dep' = d /\ ctl' = good /\ faults' = faults
              \/ dep' = dep /\ ctl' = bad /\ faults' = faults + 1
BY DEF Call, Fault

\* A step that writes no record at rest and does not get to a poll or an answer.
LEMMA BookKept ==
    ASSUME Book, journal' = journal \/ (journal' = dep' /\ dep'.state \notin AtRest),
           ctl'.pc \notin {"wait_ready", "test", "ready", "promote", "ok"},
           Stages', Callers'
    PROVE  Book'
BY DEF Book, Observed, Blamed, RunningMeansObserved, AnsweredIsDurable, AtRest, At

\* The copy of the record that a step writes has the state it had.
LEMMA SameState ==
    ASSUME TypeOK, NEW action, NEW status
    PROVE  /\ [dep EXCEPT !.last = action].state = dep.state
           /\ \A r \in Roles :
                /\ WithMember(r, status).state = dep.state
                /\ [WithMember(r, status) EXCEPT !.last = action].state = dep.state
           /\ \A r \in Selected :
                /\ WithPrevious(r, status).state = dep.state
                /\ [WithPrevious(r, status) EXCEPT !.last = action].state = dep.state
BY DEF TypeOK, Deployment, WithMember, WithPrevious

\* A create that has launched nothing, or not yet everything.
LEMMA CreateBook ==
    ASSUME TypeOK, Book, CreateStep
    PROVE  Book' /\ Unvisited(ctl')
<1> DEFINE Done == Book' /\ Unvisited(ctl')
<1> SUFFICES Done
  OBVIOUS
<1> DEFINE Early == BeforeLaunch \cup Launching
<1>1. ctl.pc \in Early => ctl.op = "create" /\ dep.state = "pending"
  BY DEF Book, Stages
<1>2. ASSUME ctl.pc \in Early, dep'.state = dep.state, journal' \in {journal, dep'},
             ctl'.op = ctl.op,
             \/ ctl'.pc \in Early \cup {"readiness", "rollback"} /\ journal'.state = "pending"
             \/ ctl'.pc = "err"
      PROVE  Done
  <2>1. Stages'
    BY <1>1, <1>2 DEF Stages, Written, BeforeLaunch, Launching, AtRest, Rewriting, RestartLoop,
                      RemovalLoop, StopLoop, At
  <2>2. Callers'
    BY <1>1, <1>2 DEF Callers, BeforeLaunch, Launching, At
  <2>3. Unvisited(ctl')
    BY <1>2 DEF Unvisited, HaltLoop, FailLoop, StopLoop, RemovalLoop, BeforeLaunch, Launching
  <2> QED BY <1>1, <1>2, <2>1, <2>2, <2>3, BookKept DEF AtRest, BeforeLaunch, Launching
<1>3. dep \in Deployment /\ ctl \in Control
  BY DEF TypeOK
<1>4. /\ Goto("err").pc = "err" /\ Goto("err").op = ctl.op
      /\ Goto("pulling").pc = "pulling" /\ Goto("pulling").op = ctl.op
      /\ Goto("stopping_previous").pc = "stopping_previous" /\ Goto("stopping_previous").op = ctl.op
      /\ Goto("stopped_previous").pc = "stopped_previous" /\ Goto("stopped_previous").op = ctl.op
      /\ Goto("launching").pc = "launching" /\ Goto("launching").op = ctl.op
      /\ Goto("launched").pc = "launched" /\ Goto("launched").op = ctl.op
      /\ ToRollback.pc = "rollback" /\ ToRollback.op = ctl.op
      /\ ToLaunches.pc = "launch" /\ ToLaunches.op = ctl.op
      /\ AfterPulls.pc \in {"stop_previous", "launch"} /\ AfterPulls.op = ctl.op
      /\ Enter("pull", Roles).pc = "pull" /\ Enter("pull", Roles).op = ctl.op
      /\ Enter("readiness", {}).pc = "readiness" /\ Enter("readiness", {}).op = ctl.op
  BY GotoAll, LaterAll, EnterAll
\* Every write of a create.
<1>5. ASSUME ctl.pc \in Early, NEW d, d.state = dep.state, NEW good, NEW bad,
             Persist(d, good, bad),
             good.op = ctl.op, good.pc \in Early \cup {"readiness", "rollback"},
             bad.op = ctl.op, bad.pc = "err" \/ (bad.pc = "rollback" /\ ~At("journal"))
      PROVE  Done
  <2>1. ~At("journal") => journal.state = "pending"
    BY <1>5 DEF Book, Stages
  <2> QED BY <1>1, <1>2, <1>5, <2>1, PersistBook
<1>6. ASSUME ctl.pc \in Early, ~At("journal"), dep' = dep, journal' = journal, ctl'.op = ctl.op,
             ctl'.pc \in Early \cup {"rollback"}
      PROVE  Done
  <2>1. journal.state = "pending"
    BY <1>6 DEF Book, Stages
  <2> QED BY <1>2, <1>6, <2>1
<1>7. /\ BeforeLaunch \subseteq Early /\ Launching \subseteq Early
      /\ {"journal", "pull", "pulling", "stop_previous", "stopping_previous", "stopped_previous"}
            \subseteq Early
      /\ {"launch", "launching", "launched"} \subseteq Early
  BY DEF BeforeLaunch, Launching
<1> HIDE DEF Early, Done
<1>8. CASE JournalPending
  <2> DEFINE d == [dep EXCEPT !.last = "journal"]
             next == Enter("pull", Roles)
  <2>1. Persist(d, next, Goto("err"))
    BY <1>8 DEF JournalPending
  <2>2. ctl.pc \in Early /\ d.state = dep.state
    BY <1>7, <1>8, SameState DEF JournalPending, At
  <2>3. next.op = ctl.op /\ next.pc \in Early
    BY <1>4, <1>7
  <2> HIDE DEF d, next
  <2> QED BY <1>4, <1>5, <2>1, <2>2, <2>3
<1>9. ASSUME NEW r \in Roles, PullIntent(r) PROVE Done
  <2> DEFINE d == [WithMember(r, "pulling") EXCEPT !.last = "pull"]
  <2>1. Persist(d, Goto("pulling"), ToRollback)
    BY <1>9 DEF PullIntent
  <2>2. ctl.pc \in Early /\ ~At("journal") /\ d.state = dep.state
    BY <1>7, <1>9, SameState DEF PullIntent, At
  <2> HIDE DEF d
  <2> QED BY <1>4, <1>5, <1>7, <2>1, <2>2
<1>10. ASSUME NEW r \in Roles, Pull(r) PROVE Done
  <2> DEFINE d == [WithMember(r, "pulled") EXCEPT !.last = "pull"]
             next == Visit(ctl, r, "pull", AfterPulls)
  <2>1. Failed(ToRollback) \/ Persist(d, next, ToRollback)
    BY <1>10 DEF Pull
  <2>2. ctl.pc \in Early /\ ~At("journal") /\ d.state = dep.state
    BY <1>7, <1>10, SameState DEF Pull, At
  <2>3. next.op = ctl.op /\ next.pc \in Early
    BY <1>3, <1>4, <1>7, VisitAll
  <2> HIDE DEF d, next
  <2>4. CASE Failed(ToRollback)
    BY <1>4, <1>6, <2>2, <2>4, FailedBook
  <2> QED BY <1>4, <1>5, <2>1, <2>2, <2>3, <2>4
<1>11. ASSUME NEW r \in Selected, StopPreviousIntent(r) PROVE Done
  <2> DEFINE d == [WithPrevious(r, "stopping") EXCEPT !.last = "stop_previous"]
  <2>1. Persist(d, Goto("stopping_previous"), ToRollback)
    BY <1>11 DEF StopPreviousIntent
  <2>2. ctl.pc \in Early /\ ~At("journal") /\ d.state = dep.state
    BY <1>7, <1>11, SameState DEF StopPreviousIntent, At
  <2> HIDE DEF d
  <2> QED BY <1>4, <1>5, <1>7, <2>1, <2>2
<1>12. ASSUME NEW r \in Selected, StopPrevious(r) PROVE Done
  <2>1. ctl.pc \in Early /\ ~At("journal")
    BY <1>7, <1>12 DEF StopPrevious, Calling, At
  <2>2. Call("stop_previous", r, dep, Goto("stopped_previous"), ToRollback)
    BY <1>12 DEF StopPrevious
  <2> QED BY <1>4, <1>6, <1>7, <2>1, <2>2, CallBook
<1>13. ASSUME NEW r \in Selected, StopPreviousDone(r) PROVE Done
  <2> DEFINE d == [WithPrevious(r, "stopped") EXCEPT !.last = "stop_previous"]
             next == Visit(ctl, r, "stop_previous", ToLaunches)
  <2>1. Persist(d, next, ToRollback)
    BY <1>13 DEF StopPreviousDone
  <2>2. ctl.pc \in Early /\ ~At("journal") /\ d.state = dep.state
    BY <1>7, <1>13, SameState DEF StopPreviousDone, At
  <2>3. next.op = ctl.op /\ next.pc \in Early
    BY <1>3, <1>4, <1>7, VisitAll
  <2> HIDE DEF d, next
  <2> QED BY <1>4, <1>5, <2>1, <2>2, <2>3
<1>14. ASSUME NEW r \in Roles, LaunchIntent(r) PROVE Done
  <2> DEFINE d == [WithMember(r, "launching") EXCEPT !.last = "launch"]
  <2>1. Persist(d, Goto("launching"), ToRollback)
    BY <1>14 DEF LaunchIntent
  <2>2. ctl.pc \in Early /\ ~At("journal") /\ d.state = dep.state
    BY <1>7, <1>14, SameState DEF LaunchIntent, At
  <2> HIDE DEF d
  <2> QED BY <1>4, <1>5, <1>7, <2>1, <2>2
<1>15. ASSUME NEW r \in Roles, Launch(r) PROVE Done
  <2>1. ctl.pc \in Early /\ ~At("journal")
    BY <1>7, <1>15 DEF Launch, Calling, At
  <2>2. Call("launch", r, dep, Goto("launched"), ToRollback)
    BY <1>15 DEF Launch
  <2> QED BY <1>4, <1>6, <1>7, <2>1, <2>2, CallBook
<1>16. ASSUME NEW r \in Roles, LaunchDone(r) PROVE Done
  <2> DEFINE d == [WithMember(r, "created") EXCEPT !.last = "launch"]
             onward == Visit(ctl, r, "launch", Enter("readiness", {}))
  <2>1. Persist(d, onward, ToRollback) \/ Persist(d, ToRollback, ToRollback)
    BY <1>16 DEF LaunchDone
  <2>2. ctl.pc \in Early /\ ~At("journal") /\ d.state = dep.state
    BY <1>7, <1>16, SameState DEF LaunchDone, At
  <2>3. onward.op = ctl.op /\ onward.pc \in Early \cup {"readiness"}
    BY <1>3, <1>4, <1>7, VisitAll
  <2> HIDE DEF d, onward
  <2> QED BY <1>4, <1>5, <2>1, <2>2, <2>3
<1> QED BY <1>8, <1>9, <1>10, <1>11, <1>12, <1>13, <1>14, <1>15, <1>16 DEF CreateStep

\* The poll for readiness and the promotion.
LEMMA ReadyBook ==
    ASSUME TypeOK, Book, ReadyStep \/ ReadyTimeout
    PROVE  Book' /\ Unvisited(ctl')
<1> DEFINE Done == Book' /\ Unvisited(ctl')
<1> SUFFICES Done
  OBVIOUS
<1>1. /\ dep \in Deployment /\ ctl \in Control /\ ctl.pc \in ReadySteps
      /\ dep' \in Deployment /\ ctl' \in Control
  BY ReadyType DEF TypeOK, ReadyStep, ReadyTimeout, ReadinessIntent, TestHead, Ready, Promote,
                   WaitReady, At
<1>2. /\ ctl.op \notin {"stop", "rollback"} /\ dep.state \in {"pending", "starting"}
      /\ Written(IF ctl.op = "create" THEN "pending" ELSE "starting")
  BY <1>1 DEF Book, Stages, Callers, Written
<1>3. /\ Goto("err").pc = "err" /\ Goto("err").op = ctl.op
      /\ Goto("ready").pc = "ready" /\ Goto("ready").op = ctl.op
      /\ Goto("promote").pc = "promote" /\ Goto("promote").op = ctl.op
      /\ Goto("ok").pc = "ok" /\ Goto("ok").op = ctl.op
  BY GotoAll
<1>4. /\ Enter("wait_ready", Roles).pc = "wait_ready"
      /\ Enter("wait_ready", Roles).op = ctl.op /\ Enter("wait_ready", Roles).todo = Roles
      /\ Enter("test", {}).pc = "test" /\ Enter("test", {}).op = ctl.op
  BY EnterAll
<1>5. ASSUME NEW c \in {Abort, Unpromoted}
      PROVE  /\ c.op = ctl.op
             /\ \/ c.pc = "rollback" /\ ctl.op = "create"
                \/ c.pc \in {"fail_start", "err"} /\ ctl.op # "create"
             /\ Unvisited(c)
  BY <1>3, LaterAll DEF Unvisited, HaltLoop, FailLoop, StopLoop, RemovalLoop
\* The poll goes on, or the test does.
<1>6. ASSUME dep'.state = dep.state, journal' \in {journal, dep'}, ctl'.op = ctl.op,
             ctl'.pc \in ReadySteps, Observed'
      PROVE  Done
  <2>1. /\ dep'.state = dep.state /\ journal'.state = dep.state
        /\ dep.state = IF ctl'.op = "create" THEN "pending" ELSE "starting"
    BY <1>2, <1>6 DEF Written
  <2>2. Stages'
    BY <1>2, <1>6, <2>1 DEF Stages, Written, AtRest, RestartLoop, RemovalLoop, StopLoop,
                            BeforeLaunch, Launching, At
  <2>3. Callers'
    BY <1>2, <1>6 DEF Callers, At
  <2>4. Unvisited(ctl')
    BY <1>6 DEF Unvisited, HaltLoop, FailLoop, StopLoop, RemovalLoop
  <2> QED BY <1>2, <1>6, <2>1, <2>2, <2>3, <2>4
      DEF Book, Blamed, RunningMeansObserved, AnsweredIsDurable, At
\* It is given up.
<1>7. ASSUME dep'.state \in {dep.state, "running"}, journal' \in {journal, dep'},
             journal'.state = "running" => \A r \in Roles : journal'.mem[r] = "running",
             ctl' \in {Abort, Unpromoted}
      PROVE  Done
  <2>1. /\ ctl'.op = ctl.op /\ Unvisited(ctl')
        /\ \/ ctl'.pc = "rollback" /\ ctl.op = "create"
           \/ ctl'.pc \in {"fail_start", "err"} /\ ctl.op # "create"
    BY <1>5, <1>7
  <2>2. ctl.op = "create" => journal'.state \in {"pending", "running"}
    BY <1>2, <1>7 DEF Written
  <2>3. Stages' /\ Callers'
    BY <1>2, <1>7, <2>1, <2>2 DEF Stages, Callers, AtRest, Rewriting, RestartLoop, RemovalLoop,
                                  StopLoop, BeforeLaunch, Launching, At
  <2>4. Blamed' /\ RunningMeansObserved'
    BY <1>2, <1>7 DEF Book, Blamed, RunningMeansObserved, Written
  <2> QED BY <2>1, <2>3, <2>4 DEF Book, Observed, AnsweredIsDurable, At
<1> HIDE DEF Done
<1>8. CASE ReadinessIntent
  <2> DEFINE d == [dep EXCEPT !.last = "readiness"]
             next == Enter("wait_ready", Roles)
  <2>1. Persist(d, next, Abort)
    BY <1>8 DEF ReadinessIntent
  <2>2. d.state = dep.state
    BY SameState
  <2>3. next.pc = "wait_ready" /\ next.op = ctl.op /\ next.todo = Roles
    BY <1>4
  <2> HIDE DEF d, next
  <2>4. dep' = d /\ journal' \in {journal, d} /\ ctl' \in {next, Abort}
    BY <2>1, PersistBook
  <2>5. CASE ctl' = next
    <3>1. Observed'
      BY <2>3, <2>5 DEF Observed, At
    <3> QED BY <1>6, <2>2, <2>3, <2>4, <2>5, <3>1
  <2>6. CASE ctl' = Abort
    BY <1>2, <1>7, <2>2, <2>4, <2>6 DEF Written
  <2> QED BY <2>4, <2>5, <2>6

<1>9. ASSUME NEW r \in Roles, WaitReady(r) PROVE Done
  <2>1. At("wait_ready") /\ InOrder(r, BindingPos)
    BY <1>9 DEF WaitReady
  <2>2. ~ctl.errs => \A s \in Roles : s \notin ctl.todo => dep.mem[s] = "running"
    BY <2>1 DEF Book, Observed
  <2>3. ASSUME NEW c \in {ctl, Erring}
        PROVE  /\ Polled(c, r).op = ctl.op
               /\ \/ Polled(c, r).pc = "wait_ready" /\ Polled(c, r).todo = Roles
                  \/ /\ Polled(c, r).pc = "wait_ready" /\ Polled(c, r).todo = ctl.todo \ {r}
                     /\ Polled(c, r).errs = c.errs
                  \/ Polled(c, r).pc = "test" /\ ctl.todo \subseteq {r} /\ ~c.errs
    <3>1. c \in Control /\ c.op = ctl.op /\ c.todo = ctl.todo
      BY <1>1, <2>3, ErringAll
    <3>2. CASE c.errs
      <4>1. Polled(c, r) = Visit(c, r, "wait_ready", Enter("wait_ready", Roles))
        BY <3>2 DEF Polled
      <4> QED BY <1>4, <3>1, <4>1, VisitAll
    <3>3. CASE ~c.errs
      <4>1. Polled(c, r) = Visit(c, r, "wait_ready", Enter("test", {}))
        BY <3>3 DEF Polled
      <4> QED BY <1>4, <3>1, <3>3, <4>1, VisitAll
    <3> QED BY <3>2, <3>3
  <2>4. Erring.errs
    BY ErringAll
  <2>5. CASE Step(WithMember(r, "running"), Polled(ctl, r))
    <3> DEFINE d == WithMember(r, "running")
    <3>1. d.state = dep.state /\ d.mem = [dep.mem EXCEPT ![r] = "running"]
      BY <1>1 DEF WithMember, Deployment
    <3>2. \A s \in Roles : d.mem[s] = IF s = r THEN "running" ELSE dep.mem[s]
      BY <1>1, <3>1 DEF Deployment
    <3> HIDE DEF d
    <3>3. dep' = d /\ journal' = journal /\ ctl' = Polled(ctl, r)
      BY <2>5, LocalBook DEF d
    <3>4. Observed'
      BY <2>2, <2>3, <3>2, <3>3 DEF Observed, At
    <3> QED BY <1>6, <2>3, <3>1, <3>3, <3>4
  <2>6. CASE Step(WithMember(r, "stopped"), Abort)
    <3>1. WithMember(r, "stopped").state = dep.state
      BY SameState
    <3>2. dep' = WithMember(r, "stopped") /\ journal' = journal /\ ctl' = Abort
      BY <2>6, LocalBook
    <3> QED BY <1>2, <1>7, <3>1, <3>2 DEF Written
  <2>7. CASE Step(dep, Polled(Erring, r)) \/ Failed(Polled(Erring, r))
    <3>1. dep' = dep /\ journal' = journal /\ ctl' = Polled(Erring, r)
      BY <2>7, LocalBook, FailedBook
    <3>2. Observed'
      BY <2>2, <2>3, <2>4, <3>1 DEF Observed, At
    <3> QED BY <1>6, <2>3, <3>1, <3>2
  <2> QED BY <1>9, <2>5, <2>6, <2>7 DEF WaitReady
<1>10. CASE TestHead
  <2>1. \A r \in Roles : dep.mem[r] = "running"
    BY <1>10 DEF TestHead, At, Book, Observed
  <2>2. /\ dep' = dep /\ journal' = journal
        /\ ctl' \in {Goto("ready"), Enter("wait_ready", Roles)}
    BY <1>10, LocalBook DEF TestHead
  <2>3. Observed'
    BY <1>3, <1>4, <2>1, <2>2 DEF Observed, At
  <2> QED BY <1>3, <1>4, <1>6, <2>2, <2>3
<1>11. CASE ReadyTimeout
  <2>1. dep' = dep /\ journal' = journal /\ ctl' = Abort
    BY <1>11, LocalBook DEF ReadyTimeout
  <2> QED BY <1>2, <1>7, <2>1 DEF Written
<1>12. CASE Ready
  <2> DEFINE d == [dep EXCEPT !.last = "readiness"]
  <2>1. Persist(d, Goto("promote"), Unpromoted) /\ \A r \in Roles : dep.mem[r] = "running"
    BY <1>12 DEF Ready, At, Book, Observed
  <2>2. d.state = dep.state /\ d.mem = dep.mem
    BY <1>1 DEF Deployment
  <2> HIDE DEF d
  <2>3. dep' = d /\ journal' \in {journal, d} /\ ctl' \in {Goto("promote"), Unpromoted}
    BY <2>1, PersistBook
  <2>4. CASE ctl' = Goto("promote")
    <3>1. Observed'
      BY <1>3, <2>1, <2>2, <2>3, <2>4 DEF Observed, At
    <3> QED BY <1>3, <1>6, <2>2, <2>3, <2>4, <3>1
  <2>5. CASE ctl' = Unpromoted
    BY <1>2, <1>7, <2>2, <2>3, <2>5 DEF Written
  <2> QED BY <2>3, <2>4, <2>5
<1>13. CASE Promote
  <2> DEFINE d == [dep EXCEPT !.state = "running",
                              !.last = IF ctl.op = "create" THEN "promote" ELSE "start_group"]
  <2>1. Persist(d, Goto("ok"), Unpromoted) /\ \A r \in Roles : dep.mem[r] = "running"
    BY <1>13 DEF Promote, At, Book, Observed
  <2>2. d.state = "running" /\ d.mem = dep.mem
    BY <1>1 DEF Deployment
  <2> HIDE DEF d
  <2>3. /\ dep' = d /\ journal' \in {journal, d}
        /\ (ctl' = Goto("ok") /\ journal' = d) \/ ctl' = Unpromoted
    BY <2>1, PersistBook
  <2>4. CASE ctl' = Goto("ok") /\ journal' = d
    <3>1. Stages' /\ Callers'
      BY <1>3, <2>2, <2>3, <2>4 DEF Stages, Callers, Rewriting, RestartLoop, RemovalLoop,
                                    StopLoop, BeforeLaunch, Launching, At
    <3>2. Blamed' /\ RunningMeansObserved'
      BY <2>1, <2>2, <2>3, <2>4 DEF Blamed, RunningMeansObserved
    <3>3. Unvisited(ctl')
      BY <1>3, <2>4 DEF Unvisited, HaltLoop, FailLoop, StopLoop, RemovalLoop
    <3> QED BY <1>3, <2>3, <2>4, <3>1, <3>2, <3>3
        DEF Done, Book, Observed, AnsweredIsDurable, At
  <2>5. CASE ctl' = Unpromoted
    BY <1>2, <1>7, <2>1, <2>2, <2>3, <2>5 DEF Written
  <2> QED BY <2>3, <2>4, <2>5
<1> QED BY <1>8, <1>9, <1>10, <1>11, <1>12, <1>13 DEF ReadyStep

\* Where the loops of a rollback go on.
LEMMA AfterRemovalsAll ==
    ASSUME NEW c \in Control
    PROVE  /\ AfterRemovals(c).op = c.op /\ AfterRemovals(c).errs = c.errs
           /\ AfterRemovals(c).safe = c.safe
           /\ \/ AfterRemovals(c).pc = "restore" /\ c.safe
              \/ AfterRemovals(c).pc = "rollback_result" /\ (c.safe => Selected = {})
BY DEF AfterRemovals, Control

LEMMA NextRemovalAll ==
    ASSUME NEW c \in Control, NEW r \in Roles
    PROVE  /\ NextRemoval(c, r).op = c.op /\ NextRemoval(c, r).errs = c.errs
           /\ NextRemoval(c, r).safe = c.safe
           /\ \/ NextRemoval(c, r).pc = "remove" /\ NextRemoval(c, r).todo = c.todo \ {r}
              \/ /\ NextRemoval(c, r).pc \in {"restore", "rollback_result"}
                 /\ c.todo \subseteq {r}
BY AfterRemovalsAll, VisitAll DEF NextRemoval

LEMMA NextRestoreAll ==
    ASSUME NEW c \in Control, NEW r
    PROVE  /\ NextRestore(c, r).op = c.op /\ NextRestore(c, r).errs = c.errs
           /\ NextRestore(c, r).safe = c.safe
           /\ NextRestore(c, r).pc \in {"restore", "rollback_result"}
<1> DEFINE exit == [c EXCEPT !.pc = "rollback_result", !.todo = {}]
<1>1. /\ exit.op = c.op /\ exit.errs = c.errs /\ exit.safe = c.safe
      /\ exit.pc = "rollback_result"
  BY DEF Control
<1> HIDE DEF exit
<1>2. NextRestore(c, r) = Visit(c, r, "restore", exit)
  BY DEF NextRestore, exit
<1> QED BY <1>1, <1>2, VisitAll

\* A rollback writes rollback_failed until it has come to its end.
LEMMA RollbackBook ==
    ASSUME TypeOK, Book, RollbackStep
    PROVE  Book' /\ RollbackGoesOn
<1> DEFINE Done == Book' /\ RollbackGoesOn
<1> SUFFICES Done
  OBVIOUS
<1>1. dep \in Deployment /\ ctl \in Control
  BY DEF TypeOK
<1> DEFINE Sound(c) == c.op = ctl.op /\ c.pc \in RemovalLoop /\ (~c.safe => c.errs)
\* The loops go on, or begin.
<1>2. ASSUME ctl.pc \in RollbackSteps, dep'.state = "rollback_failed",
             journal'.state = "rollback_failed", Sound(ctl')
      PROVE  Done
  <2>1. Stages'
    BY <1>2 DEF Stages, Written, AtRest, RestartLoop, RemovalLoop, StopLoop, BeforeLaunch,
                Launching, At
  <2>2. Callers'
    BY <1>2 DEF Callers, RemovalLoop, At
  <2>3. RollbackGoesOn
    BY <1>2 DEF RollbackGoesOn
  <2> QED BY <1>2, <2>1, <2>2, <2>3
      DEF Book, Observed, Blamed, RunningMeansObserved, AnsweredIsDurable, RemovalLoop, At
\* They end.
<1>3. ASSUME dep'.state \in {"rollback_failed", "rolled_back"}, journal' \in {journal, dep'},
             ctl'.op = ctl.op,
             \/ ctl'.pc = "err"
             \/ /\ At("rollback_result") /\ ~ctl.errs
                /\ ctl'.pc = "ok" /\ dep'.state = "rolled_back" /\ journal' = dep'
      PROVE  Done
  <2>1. Stages' /\ Callers'
    BY <1>3 DEF Stages, Callers, Rewriting, RestartLoop, RemovalLoop, StopLoop, BeforeLaunch,
                Launching, At
  <2>2. RollbackGoesOn
    BY <1>3 DEF RollbackGoesOn
  <2> QED BY <1>3, <2>1, <2>2
      DEF Book, Observed, Blamed, RunningMeansObserved, AnsweredIsDurable, At
<1>4. ctl.pc \in RemovalLoop =>
        /\ dep.state = "rollback_failed" /\ journal.state = "rollback_failed"
        /\ Sound(ctl)
  BY DEF Book, Stages, Written
<1>5. ASSUME NEW c \in Control, c.op = ctl.op, ~c.safe => c.errs, NEW r \in Roles
      PROVE  Sound(NextRemoval(c, r)) /\ Sound(NextRestore(c, r)) /\ Sound(AfterRemovals(c))
  BY <1>5, NextRemovalAll, NextRestoreAll, AfterRemovalsAll DEF RemovalLoop
<1>6. /\ Erring \in Control /\ Erring.op = ctl.op /\ Erring.errs
      /\ Unsafe \in Control /\ Unsafe.op = ctl.op /\ Unsafe.errs
  BY ErringAll
<1>7. ASSUME NEW label \in RemovalLoop, ctl.pc \in RemovalLoop, NEW status
      PROVE  Sound(Goto(label)) /\ Sound([Goto(label) EXCEPT !.seen = status])
  <2>1. Goto(label) \in Control /\ Goto(label).pc = label /\ Goto(label).op = ctl.op
        /\ Goto(label).errs = ctl.errs /\ Goto(label).safe = ctl.safe
    BY <1>7, GotoAll, GotoType DEF RemovalLoop
  <2> QED BY <1>4, <1>7, <2>1 DEF Control
\* Writes, decisions and calls inside the loops.
<1> HIDE DEF Sound, Done
<1>8. ASSUME ctl.pc \in RemovalLoop, NEW d, d.state = dep.state, NEW good, NEW bad,
             Persist(d, good, bad), Sound(good), Sound(bad)
      PROVE  Done
  BY <1>2, <1>4, <1>8, PersistBook DEF RemovalLoop
<1>9. ASSUME ctl.pc \in RemovalLoop, dep' = dep, journal' = journal, Sound(ctl')
      PROVE  Done
  BY <1>2, <1>4, <1>9 DEF RemovalLoop
<1>10. CASE RollbackIntent
  <2> DEFINE remaining == {r \in Roles : MayExist(dep.mem[r])}
             start == Enter("remove", remaining)
             d == [dep EXCEPT !.state = "rollback_failed", !.last = "rollback"]
             next == IF remaining = {} THEN AfterRemovals(start) ELSE start
  <2>1. At("rollback") /\ Persist(d, next, Goto("err"))
    BY <1>10 DEF RollbackIntent
  <2>2. d.state = "rollback_failed"
    BY <1>1 DEF Deployment
  <2>3. /\ start \in Control /\ start.op = ctl.op /\ start.safe /\ start.pc = "remove"
        /\ Goto("err").pc = "err" /\ Goto("err").op = ctl.op
    BY EnterAll, EnterType, GotoAll
  <2> HIDE DEF start, d
  <2>4. Sound(next)
    BY <2>3, AfterRemovalsAll DEF Sound, RemovalLoop
  <2> HIDE DEF next
  <2>5. /\ dep' = d /\ journal' \in {journal, d}
        /\ (ctl' = next /\ journal' = d) \/ ctl' = Goto("err")
    BY <2>1, PersistBook
  <2>6. CASE ctl' = next /\ journal' = d
    BY <1>2, <2>1, <2>2, <2>4, <2>5, <2>6 DEF At
  <2>7. CASE ctl' = Goto("err")
    BY <1>3, <2>2, <2>3, <2>5, <2>7
  <2> QED BY <2>5, <2>6, <2>7
<1>11. ASSUME NEW r \in Roles, RemovalIntent(r) PROVE Done
  <2> DEFINE d == WithMember(r, "removing")
  <2>1. ctl.pc \in RemovalLoop /\ d.state = dep.state
    BY <1>11, SameState DEF RemovalIntent, At, RemovalLoop
  <2>2. \/ Step(dep, AfterRemovals(ctl))
        \/ Persist(d, Goto("removing"), NextRemoval(Unsafe, r))
    BY <1>11 DEF RemovalIntent
  <2>3. /\ Sound(AfterRemovals(ctl)) /\ Sound(Goto("removing"))
        /\ Sound(NextRemoval(Unsafe, r))
    BY <1>1, <1>4, <1>5, <1>6, <1>7, <2>1 DEF Sound, RemovalLoop
  <2> HIDE DEF d
  <2> QED BY <1>8, <1>9, <2>1, <2>2, <2>3, LocalBook
<1>12. ASSUME NEW r \in Roles, RemoveCandidate(r) PROVE Done
  <2>1. ctl.pc \in RemovalLoop
    BY <1>12 DEF RemoveCandidate, Calling, At, RemovalLoop
  <2>2. Call("remove", r, dep, Goto("removed"), NextRemoval(Unsafe, r))
    BY <1>12 DEF RemoveCandidate
  <2>3. Sound(Goto("removed")) /\ Sound(NextRemoval(Unsafe, r))
    BY <1>5, <1>6, <1>7, <2>1 DEF RemovalLoop
  <2> QED BY <1>9, <2>1, <2>2, <2>3, CallBook
<1>13. ASSUME NEW r \in Roles, RemovalDone(r) PROVE Done
  <2> DEFINE d == WithMember(r, "removed")
  <2>1. ctl.pc \in RemovalLoop /\ d.state = dep.state
    BY <1>13, SameState DEF RemovalDone, At, RemovalLoop
  <2>2. Persist(d, NextRemoval(ctl, r), NextRemoval(Erring, r))
    BY <1>13 DEF RemovalDone
  <2>3. Sound(NextRemoval(ctl, r)) /\ Sound(NextRemoval(Erring, r))
    BY <1>1, <1>4, <1>5, <1>6, <2>1 DEF Sound
  <2> HIDE DEF d
  <2> QED BY <1>8, <2>1, <2>2, <2>3
\* The old containers.
<1>14. ASSUME NEW r \in Selected, ctl.pc \in RemovalLoop
       PROVE  Sound(NextRestore(ctl, r)) /\ Sound(NextRestore(Erring, r))
  BY <1>1, <1>4, <1>5, <1>6, <1>14 DEF Sound
<1>15. ASSUME NEW r \in Selected, RestoreIntent(r) PROVE Done
  <2> DEFINE d == WithPrevious(r, "restarting")
             next == [Goto("inspect_previous") EXCEPT !.seen = dep.prev[r]]
  <2>1. ctl.pc \in RemovalLoop /\ d.state = dep.state
    BY <1>15, SameState DEF RestoreIntent, At, RemovalLoop
  <2>2. Persist(d, next, NextRestore(Erring, r))
    BY <1>15 DEF RestoreIntent
  <2>3. Sound(next)
    BY <1>7, <2>1 DEF RemovalLoop
  <2> HIDE DEF d, next
  <2> QED BY <1>8, <1>14, <2>1, <2>2, <2>3
<1>16. ASSUME NEW r \in Selected, InspectPrevious(r) PROVE Done
  <2>1. ctl.pc \in RemovalLoop
    BY <1>16 DEF InspectPrevious, At, RemovalLoop
  <2>2. \/ Failed(NextRestore(Erring, r)) \/ Step(dep, Goto("restart_previous"))
        \/ Step(dep, Goto("restarted_previous")) \/ Step(dep, Goto("wait_running"))
    BY <1>16 DEF InspectPrevious
  <2>3. /\ Sound(Goto("restart_previous")) /\ Sound(Goto("restarted_previous"))
        /\ Sound(Goto("wait_running"))
    BY <1>7, <2>1 DEF RemovalLoop
  <2> QED BY <1>9, <1>14, <2>1, <2>2, <2>3, LocalBook, FailedBook
<1>17. ASSUME NEW r \in Selected, RestartPrevious(r) PROVE Done
  <2>1. ctl.pc \in RemovalLoop
    BY <1>17 DEF RestartPrevious, Calling, At, RemovalLoop
  <2>2. Call("restart_previous", r, dep, Goto("restarted_previous"), NextRestore(Erring, r))
    BY <1>17 DEF RestartPrevious
  <2>3. Sound(Goto("restarted_previous"))
    BY <1>7, <2>1 DEF RemovalLoop
  <2> QED BY <1>9, <1>14, <2>1, <2>2, <2>3, CallBook
<1>18. ASSUME NEW r \in Selected, RestartAudit(r) PROVE Done
  <2>1. ctl.pc \in RemovalLoop
    BY <1>18 DEF RestartAudit, At, RemovalLoop
  <2>2. Persist(dep, Goto("wait_running"), NextRestore(Erring, r))
    BY <1>18 DEF RestartAudit
  <2>3. Sound(Goto("wait_running"))
    BY <1>7, <2>1 DEF RemovalLoop
  <2> QED BY <1>8, <1>14, <2>1, <2>2, <2>3
<1>19. ASSUME NEW r \in Selected, WaitRunning(r) PROVE Done
  <2> DEFINE d == WithPrevious(r, "running")
  <2>1. ctl.pc \in RemovalLoop /\ d.state = dep.state
    BY <1>19, SameState DEF WaitRunning, At, RemovalLoop
  <2>2. \/ Persist(d, NextRestore(ctl, r), NextRestore(Erring, r))
        \/ Step(dep, NextRestore(Erring, r)) \/ Failed(NextRestore(Erring, r))
    BY <1>19 DEF WaitRunning
  <2> HIDE DEF d
  <2> QED BY <1>8, <1>9, <1>14, <2>1, <2>2, LocalBook, FailedBook
<1>20. CASE RollbackResult
  <2> DEFINE bad == [dep EXCEPT !.state = "rollback_failed", !.last = "rollback"]
             done == [dep EXCEPT !.state = "rolled_back", !.last = "rollback", !.mem = Swept(@)]
  <2>1. \/ Persist(bad, Goto("err"), Goto("err"))
        \/ At("rollback_result") /\ ~ctl.errs /\ Persist(done, Goto("ok"), Goto("err"))
    BY <1>20 DEF RollbackResult
  <2>2. bad.state = "rollback_failed" /\ done.state = "rolled_back"
    BY <1>1 DEF Deployment
  <2>3. /\ Goto("err").pc = "err" /\ Goto("err").op = ctl.op
        /\ Goto("ok").pc = "ok" /\ Goto("ok").op = ctl.op
    BY GotoAll
  <2> HIDE DEF bad, done
  <2>4. \/ dep' = bad /\ journal' \in {journal, bad} /\ ctl' = Goto("err")
        \/ dep' = done /\ journal' \in {journal, done} /\ ctl' = Goto("err")
        \/ /\ At("rollback_result") /\ ~ctl.errs
           /\ dep' = done /\ journal' = done /\ ctl' = Goto("ok")
    BY <2>1, PersistBook
  <2> QED BY <1>3, <2>2, <2>3, <2>4
<1> QED BY <1>10, <1>11, <1>12, <1>13, <1>15, <1>16, <1>17, <1>18, <1>19, <1>20
        DEF RollbackStep

\* Start verifies or restarts a group; a failed Start stops it.
LEMMA StartBook ==
    ASSUME TypeOK, Book, StartStep
    PROVE  Book' /\ ctl'.pc \notin RemovalLoop /\ (ctl.pc \in FailLoop \/ Unvisited(ctl'))
<1> DEFINE Done == Book' /\ ctl'.pc \notin RemovalLoop /\ (ctl.pc \in FailLoop \/ Unvisited(ctl'))
<1> SUFFICES Done
  OBVIOUS
<1>1. dep \in Deployment /\ ctl \in Control /\ faults \in Nat
  BY DEF TypeOK
<1>2. ctl.pc \in StartSteps
  BY DEF StartStep, MarkUnsafeRunning, StartIntent, StartFailed, VerifyMember, RestartIntent,
         InspectRestart, RestartMember, RestartDone, FailStart, FailStop, Calling, At
<1>3. ctl.op \notin {"create", "stop", "rollback"}
  BY <1>2 DEF Book, Callers
\* It goes on where the copy will be written over.
<1> DEFINE Plainly(c) ==
             /\ c.op = ctl.op
             /\ c.pc \in {"verify_failed", "fail_start", "fail_stop", "start_failed",
                          "start_group", "err"}
             /\ ctl.pc \in FailLoop \/ Unvisited(c)
           Fine(d) == \/ d.state \in {"starting", "stopped"}
                      \/ d.state = "failed" /\ d.last \in {"start_group", "verify_running"}
<1>4. ASSUME Plainly(ctl'), journal' = journal \/ Fine(journal')
      PROVE  Done
  <2>1. Stages' /\ Callers'
    BY <1>3, <1>4 DEF Stages, Callers, Rewriting, RestartLoop, RemovalLoop, StopLoop,
                      BeforeLaunch, Launching, At
  <2>2. Blamed' /\ RunningMeansObserved'
    BY <1>4 DEF Book, Blamed, RunningMeansObserved
  <2>3. ctl'.pc \notin RemovalLoop
    BY <1>4 DEF RemovalLoop
  <2> QED BY <1>4, <2>1, <2>2, <2>3 DEF Book, Observed, AnsweredIsDurable, At
\* It restarts the members.
<1>5. ASSUME ctl'.op = ctl.op, ctl'.pc \in RestartLoop \cup {"readiness"},
             dep'.state = "starting", journal'.state = "starting"
      PROVE  Done
  <2>1. Stages'
    BY <1>3, <1>5 DEF Stages, Written, AtRest, RestartLoop, RemovalLoop, StopLoop, BeforeLaunch,
                      Launching, At
  <2>2. Callers'
    BY <1>3, <1>5 DEF Callers, RestartLoop, At
  <2>3. Unvisited(ctl')
    BY <1>5 DEF Unvisited, HaltLoop, FailLoop, StopLoop, RemovalLoop, RestartLoop
  <2> QED BY <1>5, <2>1, <2>2, <2>3
      DEF Unvisited, Book, Observed, Blamed, RunningMeansObserved, AnsweredIsDurable, RestartLoop, At
<1>6. /\ Plainly(ToFailStart) /\ Plainly(Goto("err")) /\ Plainly(GiveUp)
      /\ Plainly(Goto("verify_failed")) /\ (ctl.pc \in FailLoop => Plainly(Goto("fail_stop")))
      /\ Plainly(Goto("start_group")) /\ Plainly([Goto("start_group") EXCEPT !.resume = FALSE])
      /\ Plainly([ToFailStart EXCEPT !.resume = TRUE])
  <2>1. ASSUME NEW label \in {"err", "verify_failed", "fail_stop", "start_group"},
               label # "fail_stop" \/ ctl.pc \in FailLoop
        PROVE  /\ Goto(label) \in Control /\ Plainly(Goto(label))
    <3>1. Goto(label).pc = label /\ Goto(label).op = ctl.op /\ Goto(label) \in Control
      BY <2>1, GotoAll, GotoType
    <3> QED BY <2>1, <3>1 DEF Unvisited, HaltLoop, FailLoop, StopLoop, RemovalLoop
  <2>2. Plainly(ToFailStart) /\ ToFailStart \in Control
    BY LaterAll, LaterType DEF Unvisited, RemovalLoop
  <2>3. ASSUME NEW c \in Control, Plainly(c), NEW resume
        PROVE  Plainly([c EXCEPT !.resume = resume])
    BY <2>3 DEF Control, Unvisited
  <2>4. Plainly(GiveUp)
    BY <2>1, <2>2 DEF GiveUp
  <2> HIDE DEF Plainly
  <2> QED BY <2>1, <2>2, <2>3, <2>4
<1>7. ASSUME NEW c \in Control, c.op = ctl.op, ctl.pc \in FailLoop
      PROVE  Plainly(Ended(c, "start_failed")) /\ \A r : Plainly(NextFailStart(c, r))
  <2>1. Plainly(Ended(c, "start_failed"))
    BY <1>7, EndedAll
  <2>2. ASSUME NEW r PROVE Plainly(NextFailStart(c, r))
    BY <1>7, <2>1, VisitAll DEF NextFailStart
  <2> QED BY <2>1, <2>2
<1>8. Erring \in Control /\ Erring.op = ctl.op
  BY ErringAll
<1> HIDE DEF Plainly, Fine, Done
<1>9. ASSUME NEW d, Fine(d), NEW good, NEW bad, Persist(d, good, bad), Plainly(good), Plainly(bad)
      PROVE  Done
  BY <1>4, <1>9, PersistBook
<1>10. CASE MarkUnsafeRunning
  <2> DEFINE d == [dep EXCEPT !.state = "failed", !.last = "verify_running"]
  <2>1. Persist(d, Goto("err"), Goto("err"))
    BY <1>10 DEF MarkUnsafeRunning
  <2>2. Fine(d)
    BY <1>1 DEF Fine, Deployment
  <2> HIDE DEF d
  <2> QED BY <1>6, <1>9, <2>1, <2>2
<1>11. CASE StartIntent
  <2> DEFINE d == [dep EXCEPT !.state = "starting", !.last = "start_group"]
             next == Enter("restart", Roles)
  <2>1. Persist(d, next, Goto("err"))
    BY <1>11 DEF StartIntent
  <2>2. d.state = "starting" /\ next.pc = "restart" /\ next.op = ctl.op
    BY <1>1, EnterAll DEF Deployment
  <2> HIDE DEF d, next
  <2>3. /\ dep' = d /\ journal' \in {journal, d}
        /\ (ctl' = next /\ journal' = d) \/ ctl' = Goto("err")
    BY <2>1, PersistBook
  <2>4. CASE ctl' = next /\ journal' = d
    BY <1>5, <2>2, <2>3, <2>4 DEF RestartLoop
  <2>5. CASE ctl' = Goto("err")
    BY <1>4, <1>6, <2>2, <2>3, <2>5 DEF Fine
  <2> QED BY <2>3, <2>4, <2>5
<1>12. ASSUME NEW r \in Roles, VerifyMember(r) PROVE Done
  <2>1. At("verify") /\ ctl.op = "start" /\ dep.state = "running" /\ journal.state = "running"
    BY <1>12 DEF VerifyMember, Book, Stages, Callers, Written
  <2>2. ASSUME NEW c \in Control, c.op = ctl.op
        PROVE  \/ Verified(c, r).op = ctl.op /\ Verified(c, r).pc \in {"verify", "ok"}
               \/ Plainly(Verified(c, r))
    <3>1. CASE c.errs
      <4>1. Verified(c, r) = Visit(c, r, "verify", [ToFailStart EXCEPT !.resume = TRUE])
        BY <3>1 DEF Verified
      <4> QED BY <1>6, <2>2, <4>1, VisitAll
    <3>2. CASE ~c.errs
      <4>1. Verified(c, r) = Visit(c, r, "verify", Goto("ok"))
        BY <3>2 DEF Verified
      <4>2. Goto("ok").pc = "ok" /\ Goto("ok").op = ctl.op
        BY GotoAll
      <4> QED BY <2>2, <4>1, <4>2, VisitAll
    <3> QED BY <3>1, <3>2
  <2>3. WithMember(r, "running").state = dep.state /\ WithMember(r, "stopped").state = dep.state
    BY SameState
  <2>4. /\ journal' = journal /\ dep'.state = "running"
        /\ ctl' \in {Verified(ctl, r), Verified(Erring, r), Goto("verify_failed")}
    BY <1>12, <2>1, <2>3, LocalBook, FailedBook DEF VerifyMember
  <2>5. \/ ctl'.op = ctl.op /\ ctl'.pc \in {"verify", "ok"}
        \/ Plainly(ctl')
    BY <1>1, <1>6, <1>8, <2>2, <2>4
  <2>6. CASE ctl'.op = ctl.op /\ ctl'.pc \in {"verify", "ok"}
    <3>1. Stages' /\ Callers'
      BY <2>1, <2>4, <2>6 DEF Stages, Callers, Written, Rewriting, RestartLoop, RemovalLoop,
                              StopLoop, BeforeLaunch, Launching, At
    <3>2. Unvisited(ctl')
      BY <2>6 DEF Unvisited, HaltLoop, FailLoop, StopLoop, RemovalLoop
    <3> QED BY <2>1, <2>4, <2>6, <3>1, <3>2
        DEF Done, Unvisited, Book, Observed, Blamed, RunningMeansObserved, AnsweredIsDurable, At
  <2> QED BY <1>4, <2>4, <2>5, <2>6
\* The members are restarted.
<1>13. ctl.pc \in RestartLoop => dep.state = "starting" /\ journal.state = "starting"
  BY DEF Book, Stages, Written
<1>14. ASSUME NEW label \in RestartLoop, NEW seen, NEW touched
       PROVE  /\ Goto(label).op = ctl.op /\ Goto(label).pc = label
              /\ [Goto(label) EXCEPT !.seen = seen].op = ctl.op
              /\ [Goto(label) EXCEPT !.seen = seen].pc = label
              /\ [Goto(label) EXCEPT !.touched = touched].op = ctl.op
              /\ [Goto(label) EXCEPT !.touched = touched].pc = label
  <2>1. Goto(label) \in Control /\ Goto(label).pc = label /\ Goto(label).op = ctl.op
    BY <1>14, GotoAll, GotoType DEF RestartLoop
  <2> QED BY <2>1 DEF Control
<1>15. ASSUME ctl.pc \in RestartLoop, dep'.state = dep.state, journal' \in {journal, dep'},
              \/ ctl'.op = ctl.op /\ ctl'.pc \in RestartLoop \cup {"readiness"}
              \/ Plainly(ctl')
       PROVE  Done
  BY <1>4, <1>5, <1>13, <1>15 DEF Fine
<1>16. ASSUME NEW r \in Roles, RestartIntent(r) PROVE Done
  <2> DEFINE d == WithMember(r, "starting")
             next == [Goto("inspect_restart") EXCEPT !.seen = dep.mem[r]]
  <2>1. ctl.pc \in RestartLoop /\ d.state = dep.state
    BY <1>16, SameState DEF RestartIntent, At, RestartLoop
  <2>2. Persist(d, next, GiveUp)
    BY <1>16 DEF RestartIntent
  <2>3. next.op = ctl.op /\ next.pc \in RestartLoop
    BY <1>14 DEF RestartLoop
  <2> HIDE DEF d, next
  <2>4. dep' = d /\ journal' \in {journal, d} /\ ctl' \in {next, GiveUp}
    BY <2>2, PersistBook
  <2> QED BY <1>6, <1>15, <2>1, <2>3, <2>4
<1>17. ASSUME NEW r \in Roles, InspectRestart(r) PROVE Done
  <2> DEFINE next == [Goto("restarting") EXCEPT !.touched = TRUE]
  <2>1. ctl.pc \in RestartLoop
    BY <1>17 DEF InspectRestart, At, RestartLoop
  <2>2. \/ Failed(GiveUp) \/ Failed(ToFailStart) \/ Step(dep, ToFailStart)
        \/ Step(dep, next) \/ Step(dep, Goto("restarted"))
    BY <1>17 DEF InspectRestart
  <2>3. /\ next.op = ctl.op /\ next.pc \in RestartLoop
        /\ Goto("restarted").op = ctl.op /\ Goto("restarted").pc \in RestartLoop
    BY <1>14 DEF RestartLoop
  <2> HIDE DEF next
  <2>4. /\ dep' = dep /\ journal' = journal
        /\ ctl' \in {GiveUp, ToFailStart, next, Goto("restarted")}
    BY <2>2, LocalBook, FailedBook
  <2> QED BY <1>6, <1>15, <2>1, <2>3, <2>4
<1>18. ASSUME NEW r \in Roles, RestartMember(r) PROVE Done
  <2>1. ctl.pc \in RestartLoop
    BY <1>18 DEF RestartMember, Calling, At, RestartLoop
  <2>2. Call("restart", r, dep, Goto("restarted"), ToFailStart)
    BY <1>18 DEF RestartMember
  <2>3. Goto("restarted").op = ctl.op /\ Goto("restarted").pc \in RestartLoop
    BY <1>14 DEF RestartLoop
  <2>4. dep' = dep /\ journal' = journal /\ ctl' \in {Goto("restarted"), ToFailStart}
    BY <2>2, CallBook
  <2> QED BY <1>6, <1>15, <2>1, <2>3, <2>4
<1>19. ASSUME NEW r \in Roles, RestartDone(r) PROVE Done
  <2> DEFINE d == WithMember(r, "running")
             next == Visit(ctl, r, "restart", Enter("readiness", {}))
  <2>1. ctl.pc \in RestartLoop /\ d.state = dep.state
    BY <1>19, SameState DEF RestartDone, At, RestartLoop
  <2>2. Persist(d, next, GiveUp)
    BY <1>19 DEF RestartDone
  <2>3. next.op = ctl.op /\ next.pc \in RestartLoop \cup {"readiness"}
    <3>1. Enter("readiness", {}).pc = "readiness" /\ Enter("readiness", {}).op = ctl.op
      BY EnterAll
    <3> QED BY <1>1, <3>1, VisitAll DEF RestartLoop
  <2> HIDE DEF d, next
  <2>4. dep' = d /\ journal' \in {journal, d} /\ ctl' \in {next, GiveUp}
    BY <2>2, PersistBook
  <2> QED BY <1>6, <1>15, <2>1, <2>3, <2>4
\* The group of a failed Start is stopped.
<1>20. ASSUME NEW r \in Roles, FailStart(r) PROVE Done
  <2>1. \/ Step(dep, Ended(ctl, "start_failed")) \/ Step(dep, NextFailStart(Erring, r))
        \/ Failed(NextFailStart(Erring, r))
        \/ Step(WithMember(r, "stopped"), NextFailStart(ctl, r))
        \/ Step(dep, Goto("fail_stop"))
    BY <1>20 DEF FailStart
  <2>2. /\ journal' = journal
        /\ ctl' \in {Ended(ctl, "start_failed"), NextFailStart(Erring, r), NextFailStart(ctl, r),
                     Goto("fail_stop")}
    BY <2>1, LocalBook, FailedBook
  <2>3. ctl.pc \in FailLoop
    BY <1>20 DEF FailStart, At, FailLoop
  <2> QED BY <1>1, <1>4, <1>6, <1>7, <1>8, <2>2, <2>3
<1>21. ASSUME NEW r \in Roles, FailStop(r) PROVE Done
  <2>1. Call("stop", r, WithMember(r, "stopped"), NextFailStart(ctl, r), NextFailStart(Erring, r))
    BY <1>21 DEF FailStop
  <2>2. journal' = journal /\ ctl' \in {NextFailStart(Erring, r), NextFailStart(ctl, r)}
    BY <2>1, CallBook
  <2>3. ctl.pc \in FailLoop
    BY <1>21 DEF FailStop, At, FailLoop
  <2> QED BY <1>1, <1>4, <1>7, <1>8, <2>2, <2>3
<1>22. CASE StartFailed
  <2> DEFINE state == IF ctl.errs THEN "failed" ELSE "stopped"
             d == [dep EXCEPT !.state = state, !.last = "start_group"]
             resumed == [Goto("start_group") EXCEPT !.resume = FALSE]
             next == IF ctl.errs THEN Goto("err") ELSE IF ctl.resume THEN resumed
                     ELSE IF ctl.op = "start" THEN Goto("err") ELSE Goto("ok")
  <2>1. Persist(d, next, next)
    BY <1>22 DEF StartFailed
  <2>2. d.state = state /\ d.last = "start_group"
    BY <1>1 DEF Deployment
  <2>3. Fine(d)
    BY <2>2 DEF Fine
  <2>4. \/ Plainly(next)
        \/ next = Goto("ok") /\ d.state = "stopped" /\ ctl.op # "start"
    BY <1>6, <2>2
  <2>5. Goto("ok").pc = "ok" /\ Goto("ok").op = ctl.op
    BY GotoAll
  <2> HIDE DEF d, next
  <2>6. /\ dep' = d /\ ctl' = next
        /\ journal' = d \/ (journal' = journal /\ faults' = faults + 1)
    BY <2>1, PersistBook
  <2>7. CASE Plainly(next)
    BY <1>4, <2>3, <2>6, <2>7
  <2>8. CASE next = Goto("ok") /\ d.state = "stopped" /\ ctl.op # "start"
    <3>1. Stages'
      BY <2>5, <2>6, <2>8 DEF Stages, Rewriting, RestartLoop, RemovalLoop, StopLoop,
                              BeforeLaunch, Launching, At
    <3>2. Callers'
      BY <1>3, <2>5, <2>6, <2>8 DEF Callers, At
    <3>3. Blamed' /\ RunningMeansObserved'
      BY <2>6, <2>8 DEF Book, Blamed, RunningMeansObserved
    <3>4. Unvisited(ctl')
      BY <2>5, <2>6, <2>8 DEF Unvisited, HaltLoop, FailLoop, StopLoop, RemovalLoop
    <3> QED BY <1>3, <2>5, <2>6, <2>8, <3>1, <3>2, <3>3, <3>4
        DEF Done, Unvisited, Book, Observed, AnsweredIsDurable, At
  <2> QED BY <2>4, <2>7, <2>8
<1> QED BY <1>10, <1>11, <1>12, <1>16, <1>17, <1>18, <1>19, <1>20, <1>21, <1>22 DEF StartStep

\* Stop writes a state at rest with its last step only.
LEMMA StopBook ==
    ASSUME TypeOK, Book, StopStep
    PROVE  Book' /\ ctl'.pc \notin RemovalLoop
<1> DEFINE Done == Book' /\ ctl'.pc \notin RemovalLoop
<1> SUFFICES Done
  OBVIOUS
<1>1. dep \in Deployment /\ ctl \in Control
  BY DEF TypeOK
<1> DEFINE Onward == StopLoop \cup {"stop_result", "err"}
<1>2. ASSUME dep'.state = "stopping", journal' \in {journal, dep'},
             ctl'.pc \in Onward, ctl'.pc \in StopLoop => journal'.state = "stopping"
      PROVE  Done
  <2>1. Stages' /\ Callers'
    BY <1>2 DEF Stages, Callers, Written, AtRest, RestartLoop, RemovalLoop, StopLoop,
                BeforeLaunch, Launching, At
  <2>2. ctl'.pc \notin RemovalLoop
    BY <1>2 DEF StopLoop, RemovalLoop
  <2> QED BY <1>2, <2>1, <2>2, BookKept DEF AtRest, StopLoop
<1>3. ctl.pc \in StopLoop => dep.state = "stopping" /\ journal.state = "stopping"
  BY DEF Book, Stages, Written
<1>4. ASSUME NEW label \in StopLoop PROVE Goto(label).pc \in Onward
  BY <1>4, GotoAll DEF StopLoop
<1>5. ASSUME NEW c \in Control, NEW r
      PROVE  NextStop(c, r).pc \in Onward /\ Ended(c, "stop_result").pc \in Onward
  BY <1>5, VisitAll, EndedAll DEF NextStop, StopLoop
<1>6. Erring \in Control
  BY ErringAll
<1>7. Goto("err").pc = "err" /\ Goto("err").op = ctl.op
      /\ Goto("ok").pc = "ok" /\ Goto("ok").op = ctl.op
  BY GotoAll
<1> HIDE DEF Onward, Done
\* What is done about one member.
<1>8. ASSUME ctl.pc \in StopLoop, dep'.state = dep.state, journal' \in {journal, dep'},
             ctl'.pc \in Onward
      PROVE  Done
  BY <1>2, <1>3, <1>8
<1>9. ASSUME NEW r \in Roles
      PROVE  /\ NextStop(ctl, r).pc \in Onward /\ NextStop(Erring, r).pc \in Onward
             /\ Ended(ctl, "stop_result").pc \in Onward
  BY <1>1, <1>5, <1>6
<1>10. /\ Goto("inspect_stop").pc \in Onward /\ Goto("stopping").pc \in Onward
       /\ Goto("stopped").pc \in Onward
  BY <1>4 DEF StopLoop
<1>11. CASE StopIntent
  <2> DEFINE d == [dep EXCEPT !.state = "stopping", !.last = "stop_group"]
             next == Enter("stop", Roles)
  <2>1. Persist(d, next, Goto("err"))
    BY <1>11 DEF StopIntent
  <2>2. d.state = "stopping" /\ next.pc = "stop"
    BY <1>1, EnterAll DEF Deployment
  <2> HIDE DEF d, next
  <2>3. /\ dep' = d /\ journal' \in {journal, d}
        /\ (ctl' = next /\ journal' = d) \/ ctl' = Goto("err")
    BY <2>1, PersistBook
  <2>4. ctl'.pc \in Onward /\ (ctl'.pc \in StopLoop => journal' = d)
    BY <1>7, <2>2, <2>3 DEF Onward, StopLoop
  <2> QED BY <1>2, <2>2, <2>3, <2>4
<1>12. ASSUME NEW r \in Roles, StopMemberIntent(r) PROVE Done
  <2> DEFINE d == WithMember(r, "stopping")
  <2>1. ctl.pc \in StopLoop /\ d.state = dep.state
    BY <1>12, SameState DEF StopMemberIntent, At, StopLoop
  <2>2. \/ Step(dep, Ended(ctl, "stop_result"))
        \/ Persist(d, Goto("inspect_stop"), NextStop(Erring, r))
    BY <1>12 DEF StopMemberIntent
  <2> HIDE DEF d
  <2>3. /\ dep' \in {dep, d} /\ journal' \in {journal, dep'}
        /\ ctl' \in {Ended(ctl, "stop_result"), Goto("inspect_stop"), NextStop(Erring, r)}
    BY <2>2, PersistBook, LocalBook
  <2> QED BY <1>8, <1>9, <1>10, <2>1, <2>3
<1>13. ASSUME NEW r \in Roles, InspectStop(r) PROVE Done
  <2>1. ctl.pc \in StopLoop
    BY <1>13 DEF InspectStop, At, StopLoop
  <2>2. \/ Step(dep, NextStop(Erring, r)) \/ Failed(NextStop(Erring, r))
        \/ Step(dep, Goto("stopped")) \/ Step(dep, Goto("stopping"))
    BY <1>13 DEF InspectStop
  <2>3. /\ dep' = dep /\ journal' = journal
        /\ ctl' \in {NextStop(Erring, r), Goto("stopped"), Goto("stopping")}
    BY <2>2, LocalBook, FailedBook
  <2> QED BY <1>8, <1>9, <1>10, <2>1, <2>3
<1>14. ASSUME NEW r \in Roles, StopMember(r) PROVE Done
  <2>1. ctl.pc \in StopLoop
    BY <1>14 DEF StopMember, At, StopLoop
  <2>2. Call("stop", r, dep, Goto("stopped"), NextStop(Erring, r))
    BY <1>14 DEF StopMember
  <2>3. dep' = dep /\ journal' = journal /\ ctl' \in {NextStop(Erring, r), Goto("stopped")}
    BY <2>2, CallBook
  <2> QED BY <1>8, <1>9, <1>10, <2>1, <2>3
<1>15. ASSUME NEW r \in Roles, StopDone(r) PROVE Done
  <2> DEFINE d == WithMember(r, "stopped")
  <2>1. ctl.pc \in StopLoop /\ d.state = dep.state
    BY <1>15, SameState DEF StopDone, At, StopLoop
  <2>2. Persist(d, NextStop(ctl, r), NextStop(Erring, r))
    BY <1>15 DEF StopDone
  <2> HIDE DEF d
  <2>3. /\ dep' = d /\ journal' \in {journal, dep'}
        /\ ctl' \in {NextStop(ctl, r), NextStop(Erring, r)}
    BY <2>2, PersistBook
  <2> QED BY <1>8, <1>9, <2>1, <2>3
<1>16. CASE StopResult
  <2> DEFINE bad == [dep EXCEPT !.state = "failed", !.last = "stop_group"]
             done == [dep EXCEPT !.state = "stopped", !.last = "stop_group"]
  <2>1. Persist(bad, Goto("err"), Goto("err")) \/ Persist(done, Goto("ok"), Goto("err"))
    BY <1>16 DEF StopResult
  <2>2. bad.state = "failed" /\ bad.last = "stop_group" /\ done.state = "stopped"
    BY <1>1 DEF Deployment
  <2> HIDE DEF bad, done
  <2>3. \/ dep' = bad /\ journal' \in {journal, bad} /\ ctl' = Goto("err")
        \/ dep' = done /\ journal' \in {journal, done} /\ ctl' = Goto("err")
        \/ dep' = done /\ journal' = done /\ ctl' = Goto("ok")
    BY <2>1, PersistBook
  <2>4. Stages' /\ Callers'
    BY <1>7, <2>2, <2>3 DEF Stages, Callers, Rewriting, RestartLoop, RemovalLoop, StopLoop,
                            BeforeLaunch, Launching, At
  <2>5. Blamed' /\ RunningMeansObserved'
    BY <2>2, <2>3 DEF Book, Blamed, RunningMeansObserved
  <2> QED BY <1>7, <2>3, <2>4, <2>5
      DEF Done, RemovalLoop, Book, Observed, AnsweredIsDurable, At
<1> QED BY <1>11, <1>12, <1>13, <1>14, <1>15, <1>16 DEF StopStep

\* A request and the reconciliation take the record as it is; between operations
\* there is no copy of it.
LEMMA RequestBook ==
    ASSUME TypeOK, Book, Request \/ Reconciliation \/ Answer
    PROVE  Book' /\ (ctl' = ctl \/ Unvisited(ctl'))
<1> DEFINE Done == Book' /\ (ctl' = ctl \/ Unvisited(ctl'))
<1> SUFFICES Done
  OBVIOUS
<1>1. Idle \in Control /\ Blank \in Deployment
  BY IdleType
<1>3. CASE BeginCreate
  <2> DEFINE d == [Blank EXCEPT !.state = "pending", !.prev = old]
             next == [Idle EXCEPT !.op = "create", !.pc = "journal"]
  <2>1. Step(d, next)
    BY <1>3 DEF BeginCreate
  <2>2. d.state = "pending" /\ next.pc = "journal" /\ next.op = "create"
    BY <1>1 DEF Deployment, Control
  <2> HIDE DEF d, next
  <2>3. dep' = d /\ journal' = journal /\ ctl' = next
    BY <2>1, LocalBook
  <2>4. Stages' /\ Callers'
    BY <2>2, <2>3 DEF Stages, Callers, AtRest, RestartLoop, RemovalLoop, StopLoop, At
  <2>5. Unvisited(ctl')
    BY <2>2, <2>3 DEF Unvisited, HaltLoop, FailLoop, StopLoop, RemovalLoop
  <2> QED BY <2>2, <2>3, <2>4, <2>5, BookKept
\* Where an operation on the record begins.
<1>4. ASSUME dep' = journal, journal' = journal, faults' = faults,
             \/ ctl'.pc \in {"start_group", "verify"} /\ ctl'.op = "start"
             \/ ctl'.pc \in {"stop_group", "fail_start"} /\ ctl'.op \in {"stop", "reconcile", "replay"}
             \/ ctl'.pc = "rollback" /\ (ctl'.op = "rollback" \/ journal.state \in Retryable),
             ctl'.pc = "fail_start" => ctl'.op # "stop" /\ ctl'.todo = Roles,
             ctl'.pc = "verify" => journal.state = "running"
      PROVE  Done
  <2>1. Stages' /\ Callers'
    BY <1>4 DEF Stages, Callers, Written, Rewriting, RestartLoop, RemovalLoop, StopLoop,
                BeforeLaunch, Launching, At
  <2>2. Unvisited(ctl')
    BY <1>4 DEF Unvisited, HaltLoop, FailLoop, StopLoop, RemovalLoop
  <2> QED BY <1>4, <2>1, <2>2, BookKept
<1>5. CASE BeginStart
  <2> DEFINE checked == [Idle EXCEPT !.op = "start", !.pc = "verify", !.todo = Roles]
             begun == [Idle EXCEPT !.op = "start", !.pc = "start_group"]
  <2>1. \/ journal.state = "running" /\ Step(journal, checked)
        \/ Step(journal, begun)
    BY <1>5 DEF BeginStart
  <2>2. /\ checked.op = "start" /\ checked.pc = "verify"
        /\ begun.op = "start" /\ begun.pc = "start_group"
    BY <1>1 DEF Control
  <2> HIDE DEF checked, begun
  <2>3. /\ dep' = journal /\ journal' = journal /\ faults' = faults
        /\ ctl' = begun \/ (ctl' = checked /\ journal.state = "running")
    BY <2>1, LocalBook
  <2> QED BY <1>4, <2>2, <2>3
<1>6. CASE BeginStop
  <2> DEFINE begun == [Idle EXCEPT !.op = "stop", !.pc = "stop_group"]
  <2>1. Step(journal, begun)
    BY <1>6 DEF BeginStop
  <2>2. begun.op = "stop" /\ begun.pc = "stop_group"
    BY <1>1 DEF Control
  <2> HIDE DEF begun
  <2>3. dep' = journal /\ journal' = journal /\ faults' = faults /\ ctl' = begun
    BY <2>1, LocalBook
  <2> QED BY <1>4, <2>2, <2>3
<1>7. CASE BeginRollback
  <2> DEFINE begun == [Idle EXCEPT !.op = "rollback", !.pc = "rollback"]
  <2>1. Step(journal, begun)
    BY <1>7 DEF BeginRollback
  <2>2. begun.op = "rollback" /\ begun.pc = "rollback"
    BY <1>1 DEF Control
  <2> HIDE DEF begun
  <2>3. dep' = journal /\ journal' = journal /\ faults' = faults /\ ctl' = begun
    BY <2>1, LocalBook
  <2> QED BY <1>4, <2>2, <2>3
<1>8. ASSUME NEW op \in {"reconcile", "replay"}, Step(journal, Recovering(op)),
             journal.state \in Retryable \cup Unfinished
      PROVE  Done
  <2> DEFINE begin == [Idle EXCEPT !.op = op]
             kind == IF journal.state \in Retryable THEN "create" ELSE RecoveryFor(journal)
  <2>1. begin \in Control /\ begin.op = op
    BY <1>1 DEF Control, Ops
  <2>2. Recovering(op) = CASE kind = "start" -> [begin EXCEPT !.pc = "fail_start", !.todo = Roles]
                           [] kind = "stop" -> [begin EXCEPT !.pc = "stop_group"]
                           [] OTHER -> [begin EXCEPT !.pc = "rollback"]
    BY DEF Recovering
  <2>3. kind \notin {"start", "stop"} => journal.state \in Retryable
    BY <1>8 DEF Book, Blamed, RecoveryFor, Unfinished
  <2>4. /\ [begin EXCEPT !.pc = "fail_start", !.todo = Roles].op = op
        /\ [begin EXCEPT !.pc = "fail_start", !.todo = Roles].pc = "fail_start"
        /\ [begin EXCEPT !.pc = "fail_start", !.todo = Roles].todo = Roles
        /\ [begin EXCEPT !.pc = "stop_group"].op = op
        /\ [begin EXCEPT !.pc = "stop_group"].pc = "stop_group"
        /\ [begin EXCEPT !.pc = "rollback"].op = op
        /\ [begin EXCEPT !.pc = "rollback"].pc = "rollback"
    BY <2>1 DEF Control
  <2> HIDE DEF begin, kind
  <2>5. dep' = journal /\ journal' = journal /\ faults' = faults /\ ctl' = Recovering(op)
    BY <1>8, LocalBook
  <2>6. /\ ctl'.op = op
        /\ ctl'.pc \in {"fail_start", "stop_group", "rollback"}
        /\ ctl'.pc = "rollback" => journal.state \in Retryable
        /\ ctl'.pc = "fail_start" => ctl'.todo = Roles
    BY <2>2, <2>3, <2>4, <2>5
  <2> QED BY <1>4, <2>5, <2>6
\* The copy is gone.
<1>9. ASSUME ctl' = Idle, dep' = Blank, journal' = journal
      PROVE  Done
  <2>1. Stages' /\ Callers'
    BY <1>9 DEF Stages, Callers, Idle, Blank, AtRest, RestartLoop, RemovalLoop, StopLoop,
                BeforeLaunch, Launching, At
  <2>2. Unvisited(ctl')
    BY <1>9 DEF Idle, Unvisited, HaltLoop, FailLoop, StopLoop, RemovalLoop
  <2> QED BY <1>9, <2>1, <2>2, BookKept DEF Idle
<1>10. CASE NothingToReconcile
  BY <1>10 DEF NothingToReconcile, Book, Stages, Callers, Observed, Blamed, Written, At,
               RunningMeansObserved, AnsweredIsDurable
<1>11. CASE Answer
  BY <1>9, <1>11 DEF Answer
<1> QED BY <1>3, <1>5, <1>6, <1>7, <1>8, <1>10, <1>11
        DEF Request, Reconciliation, BeginReplay, BeginReconcile

\* What happens around the engine leaves the records alone.
LEMMA EnvironmentBook ==
    ASSUME TypeOK, Book, Environment \/ UNCHANGED vars
    PROVE  Book'
<1>1. ASSUME journal' = journal, dep' = dep, ctl' = ctl
      PROVE  Book'
  BY <1>1 DEF Book, Stages, Callers, Observed, Blamed, Written, At,
              RunningMeansObserved, AnsweredIsDurable
<1>2. CASE Crash
  <2>1. ctl' = Idle /\ dep' = Blank /\ journal' = journal
    BY <1>2 DEF Crash
  <2>2. Stages' /\ Callers'
    BY <2>1 DEF Stages, Callers, Idle, Blank, AtRest, RestartLoop, RemovalLoop, StopLoop,
                BeforeLaunch, Launching, At
  <2> QED BY <2>1, <2>2, BookKept DEF Idle
<1>3. CASE UNCHANGED vars
  BY <1>1, <1>3 DEF vars
<1> QED BY <1>1, <1>2, <1>3 DEF Environment, Landing, Land, Exit, ExitPrevious, Vanish, Fault

\* Type correctness and Book, for every step.
LEMMA BookInductive ==
    ASSUME TypeOK, Book, [Next]_vars
    PROVE  Book'
BY CreateBook, ReadyBook, RollbackBook, StartBook, StopBook, RequestBook, EnvironmentBook
   DEF Next, EngineStep

\* The book is kept, whatever fails and wherever the daemon dies.
THEOREM BookHolds == Spec => []Book
<1>1. Init => Book
  BY DEF Init, Book, Stages, Callers, Observed, Blamed, RunningMeansObserved, AnsweredIsDurable,
         Blank, Idle, AtRest, RestartLoop, RemovalLoop, StopLoop, BeforeLaunch, Launching, At
<1>2. TypeOK /\ Book /\ [Next]_vars => Book'
  BY BookInductive
<1> QED BY <1>1, <1>2, TypeCorrect, PTL DEF Spec

\* A request that succeeds tells the client the state that is durable: Create,
\* Start, Stop and Rollback return the copy they have written, whatever was lost
\* on the way to it.
THEOREM AnswersAreDurable == Spec => []AnsweredIsDurable
BY BookHolds, PTL DEF Book

\* A record in state running was promoted after one poll of waitReady saw every
\* member running; no failed write, crash or other operation leaves that state over
\* statuses nobody observed.
THEOREM RunningWasObserved == Spec => []RunningMeansObserved
BY BookHolds, PTL DEF Book

\* Each state of the record is written over another one by a step of its own.
StateChange ==
    \/ At("journal") /\ journal'.state = "pending"
    \/ At("promote") /\ journal'.state = "running"
    \/ At("start_group") /\ journal'.state = "starting"
    \/ At("stop_group") /\ journal'.state = "stopping"
    \/ At("verify_failed") /\ journal'.state = "failed"
    \/ /\ ctl.pc \in {"start_failed", "stop_result"}
       /\ journal'.state = IF ctl.errs THEN "failed" ELSE "stopped"
    \/ At("rollback") /\ journal'.state = "rollback_failed"
    \/ At("rollback_result") /\ ~ctl.errs /\ journal'.state = "rolled_back"

LEMMA StateWritten ==
    ASSUME TypeOK, Book, [Next]_vars, journal'.state # journal.state
    PROVE  StateChange /\ UNCHANGED <<cand, old, late>>
<1> DEFINE Done == StateChange /\ UNCHANGED <<cand, old, late>>
<1> SUFFICES Done
  OBVIOUS
<1>1. dep \in Deployment /\ ctl \in Control
  BY DEF TypeOK
<1>2. journal' # journal
  OBVIOUS
<1>3. ASSUME NEW d, NEW good, NEW bad, Persist(d, good, bad)
      PROVE  journal'.state = d.state /\ UNCHANGED <<cand, old, late>>
  BY <1>3, PersistBook
\* Elsewhere the copy has the state of the record.
<1>4. ctl.pc \in BeforeLaunch \cup Launching =>
        dep.state = "pending" /\ (~At("journal") => journal.state = "pending")
  BY DEF Book, Stages
<1>5. ctl.pc \in ReadySteps \cup RestartLoop \cup StopLoop \cup RemovalLoop =>
        dep.state = journal.state
  BY DEF Book, Stages, Written
<1>6. ASSUME NEW d, d.state = dep.state, NEW good, NEW bad, Persist(d, good, bad),
             \/ ctl.pc \in BeforeLaunch \cup Launching
             \/ ctl.pc \in ReadySteps \cup RestartLoop \cup StopLoop \cup RemovalLoop
      PROVE  Done
  BY <1>3, <1>4, <1>5, <1>6 DEF StateChange
<1> HIDE DEF Done
<1>7. /\ \A action : [dep EXCEPT !.last = action].state = dep.state
      /\ \A r \in Roles : \A status : WithMember(r, status).state = dep.state
  BY SameState
<1>8. ASSUME CreateStep PROVE Done
  <2>1. CASE JournalPending
    BY <1>6, <1>7, <2>1 DEF JournalPending, At, BeforeLaunch
  <2>2. ASSUME NEW r \in Roles, PullIntent(r) \/ Pull(r) PROVE Done
    <3>1. CASE PullIntent(r)
      <4> DEFINE d == [WithMember(r, "pulling") EXCEPT !.last = "pull"]
      <4>1. d.state = dep.state /\ ctl.pc \in BeforeLaunch
        BY <3>1, SameState DEF PullIntent, At, BeforeLaunch
      <4>2. Persist(d, Goto("pulling"), ToRollback)
        BY <3>1 DEF PullIntent
      <4> HIDE DEF d
      <4> QED BY <1>6, <4>1, <4>2
    <3>2. CASE Pull(r)
      <4> DEFINE d == [WithMember(r, "pulled") EXCEPT !.last = "pull"]
                 next == Visit(ctl, r, "pull", AfterPulls)
      <4>1. d.state = dep.state /\ ctl.pc \in BeforeLaunch
        BY <3>2, SameState DEF Pull, At, BeforeLaunch
      <4>2. Failed(ToRollback) \/ Persist(d, next, ToRollback)
        BY <3>2 DEF Pull
      <4> HIDE DEF d, next
      <4> QED BY <1>2, <1>6, <4>1, <4>2, FailedBook
    <3> QED BY <2>2, <3>1, <3>2
  <2>3. ASSUME NEW r \in Roles, LaunchIntent(r) \/ Launch(r) \/ LaunchDone(r) PROVE Done
    <3>1. CASE LaunchIntent(r)
      <4> DEFINE d == [WithMember(r, "launching") EXCEPT !.last = "launch"]
      <4>1. d.state = dep.state /\ ctl.pc \in Launching
        BY <3>1, SameState DEF LaunchIntent, At, Launching
      <4>2. Persist(d, Goto("launching"), ToRollback)
        BY <3>1 DEF LaunchIntent
      <4> HIDE DEF d
      <4> QED BY <1>6, <4>1, <4>2
    <3>2. CASE Launch(r)
      BY <1>2, <3>2, CallBook DEF Launch
    <3>3. CASE LaunchDone(r)
      <4> DEFINE d == [WithMember(r, "created") EXCEPT !.last = "launch"]
      <4>1. d.state = dep.state /\ ctl.pc \in Launching
        BY <3>3, SameState DEF LaunchDone, At, Launching
      <4>2. \E next : Persist(d, next, ToRollback)
        BY <3>3 DEF LaunchDone
      <4> HIDE DEF d
      <4> QED BY <1>6, <4>1, <4>2
    <3> QED BY <2>3, <3>1, <3>2, <3>3
  <2>4. ASSUME NEW r \in Selected,
               StopPreviousIntent(r) \/ StopPrevious(r) \/ StopPreviousDone(r)
        PROVE  Done
    <3>1. CASE StopPreviousIntent(r)
      <4> DEFINE d == [WithPrevious(r, "stopping") EXCEPT !.last = "stop_previous"]
      <4>1. d.state = dep.state /\ ctl.pc \in BeforeLaunch
        BY <3>1, SameState DEF StopPreviousIntent, At, BeforeLaunch
      <4>2. Persist(d, Goto("stopping_previous"), ToRollback)
        BY <3>1 DEF StopPreviousIntent
      <4> HIDE DEF d
      <4> QED BY <1>6, <4>1, <4>2
    <3>2. CASE StopPrevious(r)
      BY <1>2, <3>2, CallBook DEF StopPrevious
    <3>3. CASE StopPreviousDone(r)
      <4> DEFINE d == [WithPrevious(r, "stopped") EXCEPT !.last = "stop_previous"]
      <4>1. d.state = dep.state /\ ctl.pc \in BeforeLaunch
        BY <3>3, SameState DEF StopPreviousDone, At, BeforeLaunch
      <4>2. \E next : Persist(d, next, ToRollback)
        BY <3>3 DEF StopPreviousDone
      <4> HIDE DEF d
      <4> QED BY <1>6, <4>1, <4>2
    <3> QED BY <2>4, <3>1, <3>2, <3>3
  <2> QED BY <1>8, <2>1, <2>2, <2>3, <2>4 DEF CreateStep
<1>9. ASSUME ReadyStep \/ ReadyTimeout PROVE Done
  <2>1. CASE ReadinessIntent \/ Ready
    BY <1>6, <1>7, <2>1 DEF ReadinessIntent, Ready, At
  <2>2. CASE Promote
    <3> DEFINE d == [dep EXCEPT !.state = "running",
                                !.last = IF ctl.op = "create" THEN "promote" ELSE "start_group"]
    <3>1. Persist(d, Goto("ok"), Unpromoted) /\ d.state = "running"
      BY <1>1, <2>2 DEF Promote, Deployment
    <3> HIDE DEF d
    <3> QED BY <1>3, <2>2, <3>1 DEF Done, StateChange, Promote
  <2>3. CASE TestHead \/ ReadyTimeout
    BY <1>2, <2>3, LocalBook DEF TestHead, ReadyTimeout
  <2>4. ASSUME NEW r \in Roles, WaitReady(r) PROVE Done
    BY <1>2, <2>4, LocalBook, FailedBook DEF WaitReady
  <2> QED BY <1>9, <2>1, <2>2, <2>3, <2>4 DEF ReadyStep
<1>10. ASSUME NEW state, NEW action, NEW good, NEW bad,
              Persist([dep EXCEPT !.state = state, !.last = action], good, bad)
       PROVE  journal'.state = state /\ UNCHANGED <<cand, old, late>>
  <2> DEFINE d == [dep EXCEPT !.state = state, !.last = action]
  <2>1. d.state = state
    BY <1>1 DEF Deployment
  <2> HIDE DEF d
  <2>2. Persist(d, good, bad)
    BY <1>10 DEF d
  <2> QED BY <1>3, <2>1, <2>2
<1>11. ASSUME RollbackStep PROVE Done
  <2>1. CASE RollbackIntent
    BY <1>10, <2>1 DEF RollbackIntent, Done, StateChange
  <2>2. ASSUME NEW r \in Roles, RemovalIntent(r) PROVE Done
    <3>1. ctl.pc \in RemovalLoop
      BY <2>2 DEF RemovalIntent, At, RemovalLoop
    <3>2. \/ Step(dep, AfterRemovals(ctl))
          \/ Persist(WithMember(r, "removing"), Goto("removing"), NextRemoval(Unsafe, r))
      BY <2>2 DEF RemovalIntent
    <3> QED BY <1>2, <1>6, <1>7, <3>1, <3>2, LocalBook
  <2>3. ASSUME NEW r \in Roles, RemoveCandidate(r) PROVE Done
    BY <1>2, <2>3, CallBook DEF RemoveCandidate
  <2>4. ASSUME NEW r \in Roles, RemovalDone(r) PROVE Done
    BY <1>6, <1>7, <2>4 DEF RemovalDone, At, RemovalLoop
  <2>5. ASSUME NEW r \in Selected, InspectPrevious(r) \/ RestartPrevious(r) PROVE Done
    BY <1>2, <2>5, LocalBook, FailedBook, CallBook DEF InspectPrevious, RestartPrevious
  <2>6. ASSUME NEW r \in Selected, RestoreIntent(r) \/ RestartAudit(r) PROVE Done
    <3>1. WithPrevious(r, "restarting").state = dep.state
      BY <2>6, SameState
    <3> QED BY <1>6, <2>6, <3>1 DEF RestoreIntent, RestartAudit, At, RemovalLoop
  <2>7. ASSUME NEW r \in Selected, WaitRunning(r) PROVE Done
    <3>1. ctl.pc \in RemovalLoop
      BY <2>7 DEF WaitRunning, At, RemovalLoop
    <3>2. WithPrevious(r, "running").state = dep.state
      BY <2>7, SameState
    <3>3. \/ Persist(WithPrevious(r, "running"), NextRestore(ctl, r), NextRestore(Erring, r))
          \/ Step(dep, NextRestore(Erring, r)) \/ Failed(NextRestore(Erring, r))
      BY <2>7 DEF WaitRunning
    <3> QED BY <1>2, <1>6, <3>1, <3>2, <3>3, LocalBook, FailedBook
  <2>8. CASE RollbackResult
    <3> DEFINE done == [dep EXCEPT !.state = "rolled_back", !.last = "rollback", !.mem = Swept(@)]
    <3>1. At("rollback_result") /\ journal.state = "rollback_failed"
      BY <2>8 DEF RollbackResult, At, Book, Stages, Written, RemovalLoop
    <3>2. CASE ctl.errs
      <4>1. Persist([dep EXCEPT !.state = "rollback_failed", !.last = "rollback"],
                    Goto("err"), Goto("err"))
        BY <2>8, <3>2 DEF RollbackResult
      <4> QED BY <1>10, <3>1, <4>1
    <3>3. CASE ~ctl.errs
      <4>1. Persist(done, Goto("ok"), Goto("err")) /\ done.state = "rolled_back"
        BY <1>1, <2>8, <3>3 DEF RollbackResult, Deployment
      <4> HIDE DEF done
      <4> QED BY <1>3, <3>1, <3>3, <4>1 DEF Done, StateChange
    <3> QED BY <3>2, <3>3
  <2> QED BY <1>11, <2>1, <2>2, <2>3, <2>4, <2>5, <2>6, <2>7, <2>8 DEF RollbackStep
<1>12. ASSUME StartStep PROVE Done
  <2>1. CASE MarkUnsafeRunning \/ StartIntent
    BY <1>10, <2>1 DEF MarkUnsafeRunning, StartIntent, Done, StateChange
  <2>2. CASE StartFailed
    BY <1>10, <2>2 DEF StartFailed, Done, StateChange, At
  <2>3. ASSUME NEW r \in Roles, VerifyMember(r) \/ InspectRestart(r) \/ FailStart(r) PROVE Done
    BY <1>2, <2>3, LocalBook, FailedBook DEF VerifyMember, InspectRestart, FailStart
  <2>4. ASSUME NEW r \in Roles, RestartMember(r) \/ FailStop(r) PROVE Done
    BY <1>2, <2>4, CallBook DEF RestartMember, FailStop
  <2>5. ASSUME NEW r \in Roles, RestartIntent(r) \/ RestartDone(r) PROVE Done
    BY <1>6, <1>7, <2>5 DEF RestartIntent, RestartDone, At, RestartLoop
  <2> QED BY <1>12, <2>1, <2>2, <2>3, <2>4, <2>5 DEF StartStep
<1>13. ASSUME StopStep PROVE Done
  <2>1. CASE StopIntent \/ StopResult
    BY <1>10, <2>1 DEF StopIntent, StopResult, Done, StateChange, At
  <2>2. ASSUME NEW r \in Roles, StopMemberIntent(r) \/ StopDone(r) PROVE Done
    BY <1>2, <1>6, <1>7, <2>2, LocalBook DEF StopMemberIntent, StopDone, At, StopLoop
  <2>3. ASSUME NEW r \in Roles, InspectStop(r) \/ StopMember(r) PROVE Done
    BY <1>2, <2>3, LocalBook, FailedBook, CallBook DEF InspectStop, StopMember
  <2> QED BY <1>13, <2>1, <2>2, <2>3 DEF StopStep
<1>14. ASSUME Request \/ Reconciliation \/ Answer \/ Environment \/ UNCHANGED vars PROVE Done
  BY <1>2, <1>14, LocalBook
     DEF Request, Reconciliation, BeginCreate, BeginStart, BeginStop, BeginRollback, BeginReplay,
         BeginReconcile, NothingToReconcile, Answer, Environment, Landing, Land, Exit, Vanish,
         ExitPrevious, Crash, vars
<1> QED BY <1>8, <1>9, <1>11, <1>12, <1>13, <1>14 DEF Next, EngineStep

\* A group that was promoted is rolled back by a client's Rollback, or by the Create
\* whose promotion became visible although the write of it failed; a failed Start, a
\* failed Stop, a verification, a reconciliation and a replayed Create never do it.
THEOREM PromotedIsKept == Spec => PromotedGroupKept
<1> DEFINE Kept ==
      (journal.state \in {"running", "starting", "stopping", "stopped", "failed"}
         /\ journal'.state = "rollback_failed")
      => ctl.op = "rollback" \/ (ctl.op = "create" /\ journal.state = "running")
<1>1. TypeOK /\ Book /\ [Next]_vars => Kept
  BY StateWritten DEF StateChange, At, Book, Callers, Retryable
<1> QED BY <1>1, TypeCorrect, BookHolds, PTL DEF Spec, PromotedGroupKept

\* Whatever calls, members and writes fail, and after any number of crashes, the loop
\* that reconciles at daemon start ends before its record is settled only when it has
\* stopped the group of a failed Start, the one outcome whose write may be lost
\* unnoticed.
THEOREM ReconciledAtRest == Spec => ReconciledUnlessUnwritten
<1> DEFINE Settled ==
      booting /\ ~booting' /\ journal.state \in Retryable \cup Unfinished
        => dep.state = "stopped"
<1>1. TypeOK /\ Book /\ [Next]_vars => Settled
  <2> SUFFICES ASSUME TypeOK, Book, [Next]_vars, booting, ~booting',
                      journal.state \in Retryable \cup Unfinished
               PROVE  dep.state = "stopped"
    OBVIOUS
  <2>1. booting' # booting
    OBVIOUS
  <2>2. CASE NothingToReconcile \/ Answer
    BY <2>2 DEF NothingToReconcile, Answer, Book, Callers, At, Retryable, Unfinished
  <2>3. /\ \A d, good, bad : ~Persist(d, good, bad)
        /\ \A d, c : ~Step(d, c) /\ ~Failed(c)
        /\ \A effect, r, d, good, bad : ~Call(effect, r, d, good, bad)
    BY <2>1 DEF Persist, Step, Failed, Local, Call
  <2>4. CASE CreateStep
    BY <2>3, <2>4 DEF CreateStep, JournalPending, PullIntent, Pull, LaunchIntent, Launch,
                      LaunchDone, StopPreviousIntent, StopPrevious, StopPreviousDone
  <2>5. CASE ReadyStep \/ ReadyTimeout
    BY <2>3, <2>5 DEF ReadyStep, ReadyTimeout, ReadinessIntent, TestHead, Ready, Promote, WaitReady
  <2>6. CASE RollbackStep
    BY <2>3, <2>6 DEF RollbackStep, RollbackIntent, RollbackResult, RemovalIntent, RemoveCandidate,
                      RemovalDone, RestoreIntent, InspectPrevious, RestartPrevious, RestartAudit,
                      WaitRunning
  <2>7. CASE StartStep
    BY <2>3, <2>7 DEF StartStep, MarkUnsafeRunning, StartIntent, StartFailed, VerifyMember,
                      RestartIntent, InspectRestart, RestartMember, RestartDone, FailStart, FailStop
  <2>8. CASE StopStep
    BY <2>3, <2>8 DEF StopStep, StopIntent, StopResult, StopMemberIntent, InspectStop, StopMember,
                      StopDone
  <2>9. CASE Request \/ BeginReconcile
    BY <2>3, <2>9 DEF Request, BeginCreate, BeginStart, BeginStop, BeginRollback, BeginReplay,
                      BeginReconcile
  <2>10. CASE Environment \/ UNCHANGED vars
    BY <2>1, <2>10 DEF Environment, Landing, Land, Exit, Vanish, ExitPrevious, Crash, vars
  <2> QED BY <2>2, <2>4, <2>5, <2>6, <2>7, <2>8, <2>9, <2>10 DEF Next, EngineStep, Reconciliation
<1> QED BY <1>1, TypeCorrect, BookHolds, PTL DEF Spec, ReconciledUnlessUnwritten

-----------------------------------------------------------------------------
\* The second part: records and containers.

\* What a call changes in the candidates of the members.
LEMMA CallComings ==
    ASSUME TypeOK, NEW effect \in Effects, NEW s \in Roles, NEW d, NEW good, NEW bad,
           Call(effect, s, d, good, bad), NEW r \in Roles
    PROVE  /\ Present(r)' => Present(r) \/ effect = "launch"
           /\ cand'[r] = "running" => cand[r] = "running" \/ effect \in {"launch", "restart"}
           /\ <<"launch", r>> \in late' =>
                <<"launch", r>> \in late \/ (effect = "launch" /\ ctl' = bad)
           /\ <<"restart", r>> \in late' => <<"restart", r>> \in late \/ RestartOutlivesCaller
           /\ effect = "stop" /\ ctl' = good /\ good # bad => cand'[s] # "running"
<1>1. CASE Apply(effect, s) /\ ctl' = good
  BY <1>1 DEF Apply, Outcome, OnPrevious, Effects, Present, TypeOK, ContainerState
<1>2. CASE /\ ctl' = bad /\ UNCHANGED <<cand, old>>
           /\ late' = late \/ (late' = late \cup {<<effect, s>>} /\ Outlives(effect))
  BY <1>2 DEF Present, Outlives
<1> QED BY <1>1, <1>2 DEF Call

\* How a candidate may come up, and what an agent may come to owe the engine.
Comings(r) ==
    /\ Present(r)' => Present(r) \/ At("launching")
    /\ cand'[r] = "running" =>
         \/ cand[r] = "running" \/ {<<"launch", r>>, <<"restart", r>>} \cap late # {}
         \/ ctl.pc \in {"launching", "restarting"}
    /\ <<"launch", r>> \in late' =>
         \/ <<"launch", r>> \in late
         \/ At("launching") /\ journal' = journal /\ ctl' \in {ToRollback, Idle}
    /\ <<"restart", r>> \in late' => <<"restart", r>> \in late \/ RestartOutlivesCaller

LEMMA CandidatesCome ==
    ASSUME TypeOK, [Next]_vars, NEW r \in Roles
    PROVE  Comings(r)
<1>1. UNCHANGED <<cand, late>> => Comings(r)
  BY DEF Comings, Present
<1>2. /\ \A d, good, bad : Persist(d, good, bad) => Comings(r)
      /\ \A d, c : Step(d, c) => Comings(r)
      /\ \A c : Failed(c) => Comings(r)
  BY <1>1 DEF Persist, Step, Failed, Local, containers
<1>3. ASSUME NEW effect \in Effects \ {"launch", "restart"}, NEW s \in Roles,
             NEW d, NEW good, NEW bad, Call(effect, s, d, good, bad)
      PROVE  Comings(r)
  BY <1>3, CallComings DEF Comings
<1>4. CASE CreateStep
  <2>1. ASSUME NEW s \in Roles, Launch(s) PROVE Comings(r)
    <3>1. Call("launch", s, dep, Goto("launched"), ToRollback) /\ At("launching")
      BY <2>1 DEF Launch, Calling
    <3> QED BY <3>1, CallComings, CallBook DEF Effects, Comings, At
  <2>2. ASSUME NEW s \in Selected, StopPrevious(s) PROVE Comings(r)
    BY <1>3, <2>2 DEF StopPrevious, Effects, OnPrevious
  <2> QED BY <1>2, <1>4, <2>1, <2>2 DEF CreateStep, JournalPending, PullIntent, Pull, LaunchIntent,
                                        LaunchDone, StopPreviousIntent, StopPreviousDone
<1>5. CASE ReadyStep \/ ReadyTimeout
  BY <1>2, <1>5 DEF ReadyStep, ReadyTimeout, ReadinessIntent, TestHead, Ready, Promote, WaitReady
<1>6. CASE RollbackStep
  <2>1. ASSUME NEW s \in Roles, RemoveCandidate(s) PROVE Comings(r)
    BY <1>3, <2>1 DEF RemoveCandidate, Effects
  <2>2. ASSUME NEW s \in Selected, RestartPrevious(s) PROVE Comings(r)
    BY <1>3, <2>2 DEF RestartPrevious, Effects, OnPrevious
  <2> QED BY <1>2, <1>6, <2>1, <2>2
      DEF RollbackStep, RollbackIntent, RollbackResult, RemovalIntent, RemovalDone, RestoreIntent,
          InspectPrevious, RestartAudit, WaitRunning
<1>7. CASE StartStep
  <2>1. ASSUME NEW s \in Roles, RestartMember(s) PROVE Comings(r)
    <3>1. Call("restart", s, dep, Goto("restarted"), ToFailStart) /\ At("restarting")
      BY <2>1 DEF RestartMember, Calling
    <3> QED BY <3>1, CallComings DEF Effects, Comings, At
  <2>2. ASSUME NEW s \in Roles, FailStop(s) PROVE Comings(r)
    BY <1>3, <2>2 DEF FailStop, Effects
  <2> QED BY <1>2, <1>7, <2>1, <2>2
      DEF StartStep, MarkUnsafeRunning, StartIntent, StartFailed, VerifyMember, RestartIntent,
          InspectRestart, RestartDone, FailStart
<1>8. CASE StopStep
  <2>1. ASSUME NEW s \in Roles, StopMember(s) PROVE Comings(r)
    BY <1>3, <2>1 DEF StopMember, Effects
  <2> QED BY <1>2, <1>8, <2>1 DEF StopStep, StopIntent, StopResult, StopMemberIntent, InspectStop,
                                  StopDone
<1>9. CASE Request \/ Reconciliation \/ Answer
  BY <1>1, <1>2, <1>9
     DEF Request, Reconciliation, BeginCreate, BeginStart, BeginStop, BeginRollback, BeginReplay,
         BeginReconcile, NothingToReconcile, Answer, containers
<1>10. CASE Environment
  <2>1. ASSUME NEW effect \in Effects, NEW s \in Roles, Land(effect, s) PROVE Comings(r)
    <3>1. CASE Apply(effect, s)
      BY <2>1, <3>1 DEF Land, Apply, Outcome, OnPrevious, Effects, Present, Comings, TypeOK,
                        ContainerState
    <3>2. CASE late' = late \ {<<effect, s>>} /\ UNCHANGED <<cand, old>>
      BY <3>2 DEF Present, Comings
    <3> QED BY <2>1, <3>1, <3>2 DEF Land
  <2>2. ASSUME NEW s \in Roles, Exit(s) \/ Vanish(s) PROVE Comings(r)
    BY <2>2 DEF Exit, Vanish, Present, Comings, TypeOK
  <2>3. ASSUME NEW s \in Selected, ExitPrevious(s) PROVE Comings(r)
    BY <2>3 DEF ExitPrevious, Present, Comings
  <2>4. CASE Crash
    <3>1. /\ cand' = cand /\ journal' = journal /\ ctl' = Idle
          /\ late' \in {late, late \cup InFlight}
      BY <2>4 DEF Crash
    <3>2. <<"launch", r>> \in InFlight => At("launching")
      BY DEF InFlight, Calling, At
    <3>3. <<"restart", r>> \in InFlight => RestartOutlivesCaller
      BY DEF InFlight, Outlives
    <3> QED BY <3>1, <3>2, <3>3 DEF Present, Comings
  <2> QED BY <1>10, <2>1, <2>2, <2>3, <2>4 DEF Environment, Landing
<1>11. CASE UNCHANGED vars
  BY <1>1, <1>11 DEF vars
<1> QED BY <1>4, <1>5, <1>6, <1>7, <1>8, <1>9, <1>10, <1>11 DEF Next, EngineStep

\* Which steps each stage of an operation has.
LEMMA Stepping ==
    ASSUME [Next]_vars
    PROVE  \/ CreateStep /\ ctl.pc \in BeforeLaunch \cup Launching
           \/ (ReadyStep \/ ReadyTimeout) /\ ctl.pc \in ReadySteps
           \/ RollbackStep /\ ctl.pc \in RollbackSteps
           \/ StartStep /\ ctl.pc \in StartSteps
           \/ StopStep /\ ctl.pc \in StopSteps
           \/ (Request \/ Reconciliation) /\ At("idle")
           \/ Answer /\ ctl.pc \in {"ok", "err"}
           \/ Environment \/ UNCHANGED vars
<1>1. CreateStep => ctl.pc \in BeforeLaunch \cup Launching
  BY DEF CreateStep, JournalPending, PullIntent, Pull, StopPreviousIntent, StopPrevious,
         StopPreviousDone, LaunchIntent, Launch, LaunchDone, Calling, At, BeforeLaunch, Launching
<1>2. ReadyStep \/ ReadyTimeout => ctl.pc \in ReadySteps
  BY DEF ReadyStep, ReadyTimeout, ReadinessIntent, TestHead, Ready, Promote, WaitReady, At
<1>3. RollbackStep => ctl.pc \in RollbackSteps
  BY DEF RollbackStep, RollbackIntent, RollbackResult, RemovalIntent, RemoveCandidate, RemovalDone,
         RestoreIntent, InspectPrevious, RestartPrevious, RestartAudit, WaitRunning, Calling, At
<1>4. StartStep => ctl.pc \in StartSteps
  BY DEF StartStep, MarkUnsafeRunning, StartIntent, StartFailed, VerifyMember, RestartIntent,
         InspectRestart, RestartMember, RestartDone, FailStart, FailStop, Calling, At
<1>5. StopStep => ctl.pc \in StopSteps
  BY DEF StopStep, StopIntent, StopResult, StopMemberIntent, InspectStop, StopMember, StopDone, At
<1>6. Request \/ Reconciliation => At("idle")
  BY DEF Request, Reconciliation, BeginCreate, BeginStart, BeginStop, BeginRollback, BeginReplay,
         BeginReconcile, NothingToReconcile
<1> QED BY <1>1, <1>2, <1>3, <1>4, <1>5, <1>6 DEF Next, EngineStep, Answer

LEMMA Surroundings ==
    ASSUME Environment \/ UNCHANGED vars
    PROVE  journal' = journal /\ ctl' \in {ctl, Idle}
BY DEF Environment, Landing, Land, Exit, Vanish, ExitPrevious, Crash, vars

\* Only a rollback gets into its loops, and they do not end with a candidate left.
LEMMA IntoRemoval ==
    ASSUME TypeOK, Book, [Next]_vars, ctl'.pc \in RemovalLoop
    PROVE  ctl' = ctl \/ RollbackStep
<1>1. CASE CreateStep
  BY <1>1, CreateBook DEF Unvisited
<1>2. CASE ReadyStep \/ ReadyTimeout
  BY <1>2, ReadyBook DEF Unvisited
<1>3. CASE StartStep
  BY <1>3, StartBook
<1>4. CASE StopStep
  BY <1>4, StopBook
<1>5. CASE Request \/ Reconciliation \/ Answer
  BY <1>5, RequestBook DEF Unvisited
<1>6. CASE Environment \/ UNCHANGED vars
  BY <1>6, Surroundings DEF Idle, RemovalLoop
<1> QED BY <1>1, <1>2, <1>3, <1>4, <1>5, <1>6 DEF Next, EngineStep

LEMMA EmptiedKept ==
    ASSUME IInv, IInv', Book, Emptied, [Next]_vars
    PROVE  Emptied'
<1> SUFFICES ASSUME ctl'.pc = "rollback_result", ~ctl'.errs, NEW s \in Roles
             PROVE  ~Present(s)'
  BY DEF Emptied, At
<1>1. TypeOK /\ ctl \in Control /\ dep \in Deployment
  BY DEF IInv, TypeOK
<1>2. Present(s)' => Present(s) \/ At("launching")
  BY <1>1, CandidatesCome DEF Comings
<1>3. CASE ctl' = ctl
  BY <1>2, <1>3 DEF Emptied, At
\* What the loops have found is that no candidate is left.
<1>4. ctl.pc \in Restoring => ~Present(s)'
  BY <1>2 DEF IInv, Cutover, Cleared, At, Restoring
<1>5. ctl.pc \in RemovalLoop => (~ctl.safe => ctl.errs)
  BY DEF Book, Stages
<1>6. /\ Unsafe \in Control /\ Unsafe.errs /\ Erring \in Control /\ Erring.errs
      /\ Goto("err").pc = "err" /\ Goto("removing").pc = "removing"
      /\ Goto("removed").pc = "removed" /\ Goto("ok").pc = "ok"
  BY <1>1, ErringAll, GotoAll
<1>7. CASE RollbackIntent
  <2> DEFINE remaining == {r \in Roles : MayExist(dep.mem[r])}
             start == Enter("remove", remaining)
             d == [dep EXCEPT !.state = "rollback_failed", !.last = "rollback"]
             next == IF remaining = {} THEN AfterRemovals(start) ELSE start
  <2>1. Persist(d, next, Goto("err"))
    BY <1>7 DEF RollbackIntent
  <2>2. d.mem = dep.mem /\ start.pc = "remove"
    BY <1>1, EnterAll DEF Deployment
  <2> HIDE DEF d, start
  <2>3. next.pc = "rollback_result" => remaining = {}
    BY <2>2
  <2>4. (remaining = {}) => ~MayExist(dep.mem[s])
    OBVIOUS
  <2> HIDE DEF next, remaining
  <2>5. ctl' \in {next, Goto("err")} /\ dep' = d
    BY <2>1, PersistBook
  <2>6. ctl' = next /\ dep'.mem = dep.mem
    BY <1>6, <2>2, <2>5
  <2>7. Held'
    BY DEF IInv, Custody
  <2> QED BY <2>3, <2>4, <2>6, <2>7 DEF Held, At, MayExist
<1>8. ASSUME NEW r \in Roles, RemovalIntent(r) PROVE ~Present(s)'
  <2>1. /\ ctl.pc \in RemovalLoop
        /\ \/ ~ctl.safe /\ ctl' = AfterRemovals(ctl)
           \/ ctl' \in {Goto("removing"), NextRemoval(Unsafe, r)}
    BY <1>8, LocalBook, PersistBook DEF RemovalIntent, At, RemovalLoop
  <2> QED BY <1>1, <1>5, <1>6, <2>1, AfterRemovalsAll, NextRemovalAll
<1>9. ASSUME NEW r \in Roles, RemoveCandidate(r) PROVE ~Present(s)'
  <2>1. ctl' \in {Goto("removed"), NextRemoval(Unsafe, r)}
    BY <1>9, CallBook DEF RemoveCandidate
  <2> QED BY <1>6, <2>1, NextRemovalAll
<1>10. ASSUME NEW r \in Roles, RemovalDone(r) PROVE ~Present(s)'
  <2>1. /\ At("removed") /\ InReverse(r, LaunchPos)
        /\ ctl' \in {NextRemoval(ctl, r), NextRemoval(Erring, r)}
    BY <1>10, PersistBook DEF RemovalDone
  <2>2. ctl' = NextRemoval(ctl, r) /\ ~ctl.errs /\ ctl.todo \subseteq {r}
    BY <1>1, <1>6, <2>1, NextRemovalAll
  <2>3. ctl.safe
    BY <1>5, <2>1, <2>2 DEF At, RemovalLoop
  <2>4. ~Present(r) /\ (s \notin ctl.todo => ~Present(s))
    BY <2>1, <2>3 DEF IInv, Custody, Gone, Cutover, Cleared, At, Removing
  <2> QED BY <1>2, <2>1, <2>2, <2>4 DEF At
<1>11. ASSUME NEW r \in Selected,
              \/ RestoreIntent(r) \/ InspectPrevious(r) \/ RestartPrevious(r)
              \/ RestartAudit(r) \/ WaitRunning(r)
       PROVE  ~Present(s)'
  BY <1>4, <1>11 DEF RestoreIntent, InspectPrevious, RestartPrevious, RestartAudit, WaitRunning,
                     Calling, At, Restoring
<1>12. CASE RollbackResult
  BY <1>6, <1>12, PersistBook DEF RollbackResult
<1>13. CASE RollbackStep
  BY <1>7, <1>8, <1>9, <1>10, <1>11, <1>12, <1>13 DEF RollbackStep
<1> QED BY <1>1, <1>3, <1>13, IntoRemoval DEF RemovalLoop

\* A launch still on its way keeps the record to be rolled back.
LEMMA LaunchesLateKept ==
    ASSUME IInv, Book, Book', LaunchesLate, Emptied, [Next]_vars
    PROVE  LaunchesLate'
<1> SUFFICES ASSUME NEW r \in Roles, <<"launch", r>> \in late'
             PROVE  /\ journal'.state \in Retryable
                    /\ ctl'.pc \in {"idle", "err"} \cup RollbackSteps
  BY DEF LaunchesLate
<1>1. TypeOK /\ Comings(r)
  BY CandidatesCome DEF IInv
<1>2. CASE At("launching") /\ journal' = journal /\ ctl' \in {ToRollback, Idle}
  <2>1. journal.state = "pending"
    BY <1>2 DEF Book, Stages, At, Launching
  <2> QED BY <1>1, <1>2, <2>1, LaterAll DEF Idle, Retryable
<1>3. CASE <<"launch", r>> \in late
  <2>1. journal.state \in Retryable /\ ctl.pc \in {"idle", "err"} \cup RollbackSteps
    BY <1>3 DEF LaunchesLate
  <2>2. ~(At("rollback_result") /\ ~ctl.errs)
    BY <1>3 DEF Emptied, Present
  <2>3. journal'.state \in Retryable
    <3>1. CASE journal'.state = journal.state
      BY <2>1, <3>1
    <3>2. CASE journal'.state # journal.state
      BY <1>1, <2>1, <2>2, <3>2, StateWritten DEF StateChange, At, Retryable
    <3> QED BY <3>1, <3>2
  <2>4. CASE RollbackStep
    BY <1>1, <2>2, <2>3, <2>4, RollbackBook DEF RollbackGoesOn, RemovalLoop
  <2>5. CASE Request \/ Reconciliation
    <3>1. ~BeginCreate /\ ~BeginStart /\ ~BeginStop /\ ~NothingToReconcile
      BY <2>1 DEF BeginCreate, BeginStart, BeginStop, NothingToReconcile, Retryable
    <3>2. CASE BeginRollback
      <4>1. ctl' = [Idle EXCEPT !.op = "rollback", !.pc = "rollback"]
        BY <3>2, LocalBook DEF BeginRollback
      <4> QED BY <2>3, <4>1, IdleType DEF Control
    <3>3. ASSUME NEW op, Step(journal, Recovering(op)) PROVE ctl'.pc = "rollback"
      <4>1. Recovering(op) = [[Idle EXCEPT !.op = op] EXCEPT !.pc = "rollback"]
        BY <2>1 DEF Recovering
      <4>2. [[Idle EXCEPT !.op = op] EXCEPT !.pc = "rollback"].pc = "rollback"
        BY DEF Idle
      <4> QED BY <3>3, <4>1, <4>2, LocalBook
    <3> QED BY <2>3, <2>5, <3>1, <3>2, <3>3 DEF Request, Reconciliation, BeginReplay, BeginReconcile
  <2>6. CASE Answer
    BY <2>3, <2>6 DEF Answer, Idle
  <2>7. CASE Environment \/ UNCHANGED vars
    BY <2>1, <2>3, <2>7, Surroundings DEF Idle
  <2> QED BY <2>1, <2>4, <2>5, <2>6, <2>7, Stepping DEF BeforeLaunch, Launching
<1> QED BY <1>1, <1>2, <1>3 DEF Comings

\* A group that was rolled back has nothing left, and nothing is launched for it.
LEMMA RolledBackKept ==
    ASSUME IInv, Book, LaunchesLate, Emptied, RolledBackClean, [Next]_vars
    PROVE  RolledBackClean'
<1> SUFFICES ASSUME journal'.state = "rolled_back", NEW r \in Roles PROVE ~Present(r)'
  BY DEF RolledBackClean
<1>1. TypeOK /\ Comings(r)
  BY CandidatesCome DEF IInv
<1>2. CASE journal.state = "rolled_back"
  <2>1. ~At("launching")
    BY <1>2 DEF Book, Stages, At, Launching
  <2> QED BY <1>1, <1>2, <2>1 DEF RolledBackClean, Comings
<1>3. CASE journal.state # "rolled_back"
  <2>1. At("rollback_result") /\ ~ctl.errs /\ UNCHANGED <<cand, late>>
    BY <1>1, <1>3, StateWritten DEF StateChange
  <2> QED BY <2>1 DEF Emptied, Present
<1> QED BY <1>2, <1>3

\* The guard of RemovalIntent: the worker's container is the head's to remove.
LEMMA ReservedKept ==
    ASSUME IInv, Book, Reserved, [Next]_vars
    PROVE  Reserved'
<1> SUFFICES ASSUME ctl'.pc = "removing", HeadRecipe, InReverse(Worker, LaunchPos)'
             PROVE  ctl'.safe
  BY DEF Reserved, At
<1>1. TypeOK /\ ctl \in Control
  BY DEF IInv, TypeOK
<1>2. CASE ctl' = ctl
  BY <1>2 DEF Reserved, At, InReverse
<1>3. CASE RollbackStep
  <2>1. /\ Goto("removing").safe = ctl.safe /\ Goto("removing").todo = ctl.todo
        /\ Goto("removed").pc = "removed" /\ Goto("err").pc = "err" /\ Goto("ok").pc = "ok"
        /\ Unsafe \in Control /\ Erring \in Control
        /\ Goto("restart_previous").pc = "restart_previous"
        /\ Goto("restarted_previous").pc = "restarted_previous"
        /\ Goto("wait_running").pc = "wait_running"
    BY <1>1, GotoAll, ErringAll
  <2>2. ASSUME NEW c \in Control, NEW r \in Roles
        PROVE  /\ NextRemoval(c, r).pc # "removing" /\ NextRestore(c, r).pc # "removing"
               /\ AfterRemovals(c).pc # "removing"
    BY <2>2, NextRemovalAll, NextRestoreAll, AfterRemovalsAll
  <2>3. CASE RollbackIntent
    <3> DEFINE start == Enter("remove", {r \in Roles : MayExist(dep.mem[r])})
    <3>1. start \in Control /\ start.pc = "remove"
      BY <1>1, EnterAll, EnterType
    <3>2. ctl' \in {AfterRemovals(start), start, Goto("err")}
      BY <2>3, PersistBook DEF RollbackIntent
    <3> HIDE DEF start
    <3> QED BY <2>1, <2>2, <3>1, <3>2
  <2>4. ASSUME NEW r \in Roles, RemovalIntent(r) PROVE ctl'.safe
    <3>1. /\ InReverse(r, LaunchPos)
          /\ \/ ctl' \in {AfterRemovals(ctl), NextRemoval(Unsafe, r)}
             \/ ctl' = Goto("removing") /\ ~(HeadRecipe /\ r = Worker /\ ~ctl.safe)
      BY <2>4, LocalBook, PersistBook DEF RemovalIntent
    <3>2. ctl' = Goto("removing") /\ ~(r = Worker /\ ~ctl.safe)
      BY <1>1, <2>1, <2>2, <3>1
    <3>3. InReverse(Worker, LaunchPos)
      BY <2>1, <3>2 DEF InReverse
    <3> QED BY <2>1, <3>1, <3>2, <3>3, OneAtATime
  <2>5. ASSUME NEW r \in Roles, RemoveCandidate(r) \/ RemovalDone(r) PROVE ctl'.safe
    <3>1. CASE RemoveCandidate(r)
      <4>1. ctl' \in {Goto("removed"), NextRemoval(Unsafe, r)}
        BY <3>1, CallBook DEF RemoveCandidate
      <4> QED BY <2>1, <2>2, <4>1
    <3>2. CASE RemovalDone(r)
      <4>1. ctl' \in {NextRemoval(ctl, r), NextRemoval(Erring, r)}
        BY <3>2, PersistBook DEF RemovalDone
      <4> QED BY <1>1, <2>1, <2>2, <4>1
    <3> QED BY <2>5, <3>1, <3>2
  <2>6. ASSUME NEW r \in Selected,
               \/ RestoreIntent(r) \/ InspectPrevious(r) \/ RestartPrevious(r)
               \/ RestartAudit(r) \/ WaitRunning(r)
        PROVE  ctl'.safe
    <3>1. [Goto("inspect_previous") EXCEPT !.seen = dep.prev[r]].pc = "inspect_previous"
      BY <1>1, GotoAll, GotoType DEF Control
    <3>2. \/ ctl' \in {NextRestore(ctl, r), NextRestore(Erring, r)}
          \/ ctl' = [Goto("inspect_previous") EXCEPT !.seen = dep.prev[r]]
          \/ ctl' \in {Goto("restart_previous"), Goto("restarted_previous"), Goto("wait_running")}
      <4>1. CASE RestoreIntent(r) \/ RestartAudit(r)
        BY <4>1, PersistBook DEF RestoreIntent, RestartAudit
      <4>2. CASE InspectPrevious(r)
        BY <4>2, LocalBook, FailedBook DEF InspectPrevious
      <4>3. CASE RestartPrevious(r)
        BY <4>3, CallBook DEF RestartPrevious
      <4>4. CASE WaitRunning(r)
        BY <4>4, PersistBook, LocalBook, FailedBook DEF WaitRunning
      <4> QED BY <2>6, <4>1, <4>2, <4>3, <4>4
    <3>3. NextRestore(ctl, r).pc # "removing" /\ NextRestore(Erring, r).pc # "removing"
      BY <1>1, <2>1, <2>2
    <3> QED BY <2>1, <3>1, <3>2, <3>3
  <2>7. CASE RollbackResult
    BY <2>1, <2>7, PersistBook DEF RollbackResult
  <2> QED BY <1>3, <2>3, <2>4, <2>5, <2>6, <2>7 DEF RollbackStep
<1> QED BY <1>1, <1>2, <1>3, IntoRemoval DEF RemovalLoop

\* What a member's visit leaves behind in the loops that stop a group.
LEMMA HaltVisit ==
    ASSUME NEW c \in Control, NEW r \in Roles, NEW label \in {"fail_start", "stop"},
           NEW exit \in {"start_failed", "stop_result"},
           ctl' = Visit(c, r, label, Ended(c, exit)),
           ~c.errs => \A s \in Roles : s \notin c.todo \ {r} => cand'[s] # "running"
    PROVE  Halted'
<1>1. Ended(c, exit).pc = exit /\ Ended(c, exit).errs = c.errs
  BY EndedAll
<1>2. CASE c.todo \subseteq {r} /\ ctl' = Ended(c, exit)
  BY <1>1, <1>2 DEF Halted, HaltLoop, FailLoop, StopLoop, At
<1>3. CASE ctl'.pc = label /\ ctl'.todo = c.todo \ {r} /\ ctl'.errs = c.errs
  BY <1>3 DEF Halted, HaltLoop, FailLoop, StopLoop, At
<1> QED BY <1>1, <1>2, <1>3, VisitAll

\* The members passed by a Stop or by the cleanup of a Start stay down.
LEMMA HaltedKept ==
    ASSUME IInv, Book, LaunchesLate, NoLateRestart, Halted, [Next]_vars
    PROVE  Halted'
<1>1. TypeOK /\ ctl \in Control /\ Erring \in Control
      /\ Erring.errs /\ Erring.todo = ctl.todo
  BY ErringAll DEF IInv, TypeOK
<1> DEFINE Halting == ctl.pc \in HaltLoop \cup {"start_failed", "stop_result"}
\* Nothing comes up meanwhile.
<1>2. Halting => \A s \in Roles : cand'[s] = "running" => cand[s] = "running"
  <2> SUFFICES ASSUME Halting, NEW s \in Roles, cand'[s] = "running"
               PROVE  cand[s] = "running"
    OBVIOUS
  <2>1. Comings(s)
    BY <1>1, CandidatesCome
  <2>2. <<"launch", s>> \notin late /\ <<"restart", s>> \notin late
    BY DEF LaunchesLate, NoLateRestart, HaltLoop, FailLoop, StopLoop
  <2> QED BY <2>1, <2>2 DEF Comings, HaltLoop, FailLoop, StopLoop
<1>3. CASE ctl' = ctl
  <2>1. CASE Halting
    BY <1>2, <1>3, <2>1 DEF Halted, At, InReverse
  <2>2. CASE ~Halting
    BY <1>3, <2>2 DEF Halted, At, HaltLoop, StopLoop
  <2> QED BY <2>1, <2>2
<1>4. CASE Unvisited(ctl') \/ ctl' = Idle
  BY <1>4 DEF Unvisited, Halted, At, HaltLoop, FailLoop, StopLoop, Idle
<1>5. ctl.pc \in HaltLoop /\ ~ctl.errs =>
        \A s \in Roles : s \notin ctl.todo => cand'[s] # "running"
  BY <1>2 DEF Halted
<1>6. ASSUME NEW r \in Roles, ctl.pc \in HaltLoop, ~ctl.errs => cand'[r] # "running",
             NEW label \in {"fail_start", "stop"}, NEW exit \in {"start_failed", "stop_result"},
             NEW c \in {ctl, Erring}, ctl' = Visit(c, r, label, Ended(c, exit))
      PROVE  Halted'
  <2>1. ~c.errs => \A s \in Roles : s \notin c.todo \ {r} => cand'[s] # "running"
    BY <1>1, <1>5, <1>6
  <2> QED BY <1>1, <1>6, <2>1, HaltVisit
<1>7. ASSUME NEW r \in Roles, FailStart(r) PROVE Halted'
  <2>1. At("fail_start") /\ ctl.pc \in HaltLoop
    BY <1>7 DEF FailStart, At, HaltLoop, FailLoop
  <2>2. CASE Spared(r) /\ Step(dep, Ended(ctl, "start_failed"))
    <3>1. ctl' = Ended(ctl, "start_failed") /\ ctl.errs
      BY <2>2, LocalBook DEF Spared
    <3> QED BY <1>1, <3>1, EndedAll DEF Halted, HaltLoop, FailLoop, StopLoop, At
  <2>3. CASE Step(dep, NextFailStart(Erring, r)) \/ Failed(NextFailStart(Erring, r))
    <3>1. ctl' = NextFailStart(Erring, r)
      BY <2>3, LocalBook, FailedBook
    <3>2. ~Erring.errs => \A s \in Roles : s \notin Erring.todo \ {r} => cand'[s] # "running"
      BY <1>1
    <3> QED BY <1>1, <3>1, <3>2, HaltVisit DEF NextFailStart
  <2>4. CASE cand[r] = "stopped" /\ Step(WithMember(r, "stopped"), NextFailStart(ctl, r))
    <3>1. ctl' = NextFailStart(ctl, r) /\ cand' = cand
      BY <2>4, LocalBook
    <3> QED BY <1>6, <2>1, <2>4, <3>1 DEF NextFailStart
  <2>5. CASE Step(dep, Goto("fail_stop"))
    <3>1. ctl' = Goto("fail_stop") /\ cand' = cand
      BY <2>5, LocalBook
    <3>2. ctl'.pc = "fail_stop" /\ ctl'.todo = ctl.todo /\ ctl'.errs = ctl.errs
      BY <1>1, <3>1, GotoAll
    <3> QED BY <1>5, <2>1, <3>2 DEF Halted, HaltLoop, FailLoop, StopLoop, At
  <2> QED BY <1>7, <2>2, <2>3, <2>4, <2>5 DEF FailStart
<1>8. ASSUME NEW r \in Roles, NEW d, NEW good, NEW bad, Call("stop", r, d, good, bad)
      PROVE  ctl' = bad \/ (ctl' = good /\ cand'[r] # "running")
  BY <1>1, <1>8 DEF Call, Apply, Outcome, OnPrevious, TypeOK, ContainerState
<1>9. ASSUME NEW r \in Roles, FailStop(r) PROVE Halted'
  <2>1. ctl.pc \in HaltLoop
    BY <1>9 DEF FailStop, At, HaltLoop, FailLoop
  <2>2. \/ ctl' = NextFailStart(Erring, r)
        \/ ctl' = NextFailStart(ctl, r) /\ cand'[r] # "running"
    BY <1>8, <1>9 DEF FailStop
  <2>3. CASE ctl' = NextFailStart(Erring, r)
    BY <1>1, <2>3, HaltVisit DEF NextFailStart
  <2>4. CASE ctl' = NextFailStart(ctl, r) /\ cand'[r] # "running"
    BY <1>6, <2>1, <2>4 DEF NextFailStart
  <2> QED BY <2>2, <2>3, <2>4
<1>10. CASE StopIntent
  <2>1. ctl' \in {Enter("stop", Roles), Goto("err")}
    BY <1>10, PersistBook DEF StopIntent
  <2>2. /\ Enter("stop", Roles).pc = "stop" /\ Enter("stop", Roles).todo = Roles
        /\ Goto("err").pc = "err"
    BY <1>1, EnterAll, GotoAll
  <2> QED BY <2>1, <2>2 DEF Halted, HaltLoop, FailLoop, StopLoop, At
<1>11. ASSUME NEW r \in Roles, StopMemberIntent(r) \/ InspectStop(r) \/ StopMember(r) \/ StopDone(r)
       PROVE  Halted'
  <2>1. /\ ctl.pc \in HaltLoop /\ InReverse(r, LaunchPos)
        /\ StopDone(r) => At("stopped")
    BY <1>11 DEF StopMemberIntent, InspectStop, StopMember, StopDone, At, HaltLoop, StopLoop
  <2>2. \/ ctl' = Ended(ctl, "stop_result") /\ ctl.errs
        \/ ctl' = NextStop(Erring, r)
        \/ ctl' = NextStop(ctl, r) /\ At("stopped")
        \/ ctl' \in {Goto("inspect_stop"), Goto("stopping")}
        \/ ctl' = Goto("stopped") /\ cand'[r] # "running"
    <3>1. CASE StopMemberIntent(r)
      BY <3>1, LocalBook, PersistBook DEF StopMemberIntent, Spared
    <3>2. CASE InspectStop(r)
      BY <3>2, LocalBook, FailedBook DEF InspectStop
    <3>3. CASE StopMember(r)
      BY <1>8, <3>3 DEF StopMember
    <3>4. CASE StopDone(r)
      BY <2>1, <3>4, PersistBook DEF StopDone
    <3> QED BY <1>11, <3>1, <3>2, <3>3, <3>4
  <2>3. CASE ctl' = Ended(ctl, "stop_result") /\ ctl.errs
    BY <1>1, <2>3, EndedAll DEF Halted, HaltLoop, FailLoop, StopLoop, At
  <2>4. CASE ctl' = NextStop(Erring, r)
    BY <1>1, <2>4, HaltVisit DEF NextStop
  <2>5. CASE ctl' = NextStop(ctl, r) /\ At("stopped")
    <3>1. cand'[r] # "running"
      BY <1>2, <2>1, <2>5 DEF Halted
    <3> QED BY <1>6, <2>1, <2>5, <3>1 DEF NextStop
  <2>6. CASE \/ ctl' \in {Goto("inspect_stop"), Goto("stopping")}
             \/ ctl' = Goto("stopped") /\ cand'[r] # "running"
    <3>1. ctl'.todo = ctl.todo /\ ctl'.errs = ctl.errs
          /\ \/ ctl'.pc \in {"inspect_stop", "stopping"}
             \/ ctl'.pc = "stopped" /\ cand'[r] # "running"
      BY <1>1, <2>6, GotoAll
    <3>2. \A s \in Roles : InReverse(s, LaunchPos)' => s = r
      BY <2>1, <3>1, OneAtATime DEF InReverse
    <3> QED BY <1>5, <2>1, <3>1, <3>2 DEF Halted, HaltLoop, FailLoop, StopLoop, At
  <2> QED BY <2>2, <2>3, <2>4, <2>5, <2>6
<1>12. CASE StopResult
  <2>1. ctl' \in {Goto("ok"), Goto("err")}
    BY <1>12, PersistBook DEF StopResult
  <2> QED BY <1>1, <2>1, GotoAll DEF Halted, HaltLoop, FailLoop, StopLoop, At
<1>13. CASE StopStep
  BY <1>10, <1>11, <1>12, <1>13 DEF StopStep
<1>14. CASE StartStep
  <2>1. CASE ctl.pc \in FailLoop
    <3>1. \E r \in Roles : FailStart(r) \/ FailStop(r)
      BY <1>14, <2>1 DEF StartStep, MarkUnsafeRunning, StartIntent, StartFailed, VerifyMember,
                         RestartIntent, InspectRestart, RestartMember, RestartDone, Calling, At,
                         FailLoop
    <3> QED BY <1>7, <1>9, <3>1
  <2>2. CASE ctl.pc \notin FailLoop
    BY <1>1, <1>4, <1>14, <2>2, StartBook
  <2> QED BY <2>1, <2>2
<1>15. CASE RollbackStep
  BY <1>1, <1>15, RollbackBook
     DEF RollbackGoesOn, RemovalLoop, Halted, HaltLoop, FailLoop, StopLoop, At
<1>16. CASE CreateStep \/ ReadyStep \/ ReadyTimeout \/ Request \/ Reconciliation \/ Answer
  BY <1>1, <1>3, <1>4, <1>16, CreateBook, ReadyBook, RequestBook
<1>17. CASE Environment \/ UNCHANGED vars
  BY <1>3, <1>4, <1>17, Surroundings
<1> QED BY <1>13, <1>14, <1>15, <1>16, <1>17 DEF Next, EngineStep

\* A group that was stopped stays down until a Start says that it begins.
LEMMA StoppedKept ==
    ASSUME IInv, Book, LaunchesLate, NoLateRestart, NoLateRestart', Halted, StoppedIsQuiet,
           [Next]_vars
    PROVE  StoppedIsQuiet'
<1> SUFFICES ASSUME journal'.state = "stopped", NEW r \in Roles
             PROVE  cand'[r] # "running" /\ <<"launch", r>> \notin late'
  BY DEF StoppedIsQuiet, NoLateRestart
<1>1. TypeOK /\ Comings(r) /\ <<"restart", r>> \notin late
  BY CandidatesCome DEF IInv, NoLateRestart
<1>2. CASE journal.state = "stopped"
  <2>1. ctl.pc \notin {"launching", "restarting"}
    BY <1>2 DEF Book, Stages, Written, At, Launching, RestartLoop
  <2>2. cand[r] # "running" /\ <<"launch", r>> \notin late
    BY <1>2 DEF StoppedIsQuiet
  <2> QED BY <1>1, <2>1, <2>2 DEF Comings, At
<1>3. CASE journal.state # "stopped"
  <2>1. ctl.pc \in {"start_failed", "stop_result"} /\ ~ctl.errs /\ UNCHANGED <<cand, late>>
    BY <1>1, <1>3, StateWritten DEF StateChange
  <2> QED BY <2>1 DEF Halted, LaunchesLate
<1> QED BY <1>2, <1>3

-----------------------------------------------------------------------------
\* The two parts together.

Nodes == LaunchesLate /\ Emptied /\ RolledBackClean /\ Reserved
Quiet == NoLateRestart /\ Halted /\ StoppedIsQuiet

LEMMA NodesInitially ==
    ASSUME Init
    PROVE  Nodes /\ Quiet
BY DEF Init, Nodes, Quiet, LaunchesLate, Emptied, RolledBackClean, Reserved, NoLateRestart, Halted,
       StoppedIsQuiet, Blank, Idle, At, HaltLoop, FailLoop, StopLoop

\* Records and containers agree in every reachable state.
THEOREM NodesHold == Spec => [](Book /\ Nodes)
<1>1. Init => Nodes
  BY NodesInitially
<1>2. IInv /\ IInv' /\ Book /\ Book' /\ Nodes /\ [Next]_vars => Nodes'
  BY EmptiedKept, LaunchesLateKept, RolledBackKept, ReservedKept DEF Nodes
<1> QED BY <1>1, <1>2, Invariance, BookHolds, PTL DEF Spec

\* Once a group is rolled back no candidate is left and none can still appear:
\* whatever the rollback met, it writes rolled_back only when every removal went
\* through, and no launch that an earlier Create gave up on is still on its way.
THEOREM RolledBackIsClean == Spec => []RolledBackClean
BY NodesHold, PTL DEF Nodes

\* What a record says at rest is true of the nodes: a group recorded running was seen
\* running, a group recorded stopped runs nowhere and nothing will start it, a group
\* rolled back has no container.  The hypothesis is the one the agents' restarts need:
\* a restart does not go on once its caller has seen it fail.
THEOREM StatesAreSettled ==
    ASSUME ~RestartOutlivesCaller
    PROVE  Spec => []SettledStates
<1>1. Init => Quiet
  BY NodesInitially
<1>2. TypeOK /\ NoLateRestart /\ [Next]_vars => NoLateRestart'
  <2> SUFFICES ASSUME TypeOK, NoLateRestart, [Next]_vars, NEW r \in Roles
               PROVE  <<"restart", r>> \notin late'
    BY DEF NoLateRestart
  <2> QED BY CandidatesCome DEF Comings, NoLateRestart
<1>3. IInv /\ Book /\ Nodes /\ Quiet /\ [Next]_vars => Quiet'
  BY <1>2, HaltedKept, StoppedKept DEF IInv, Nodes, Quiet
<1>4. Book /\ Nodes /\ Quiet => SettledStates
  BY DEF Book, Nodes, Quiet, SettledStates
<1> QED BY <1>1, <1>3, <1>4, Invariance, NodesHold, PTL DEF Spec

\* A head recipe's worker is launched first and so removed last: the engine removes
\* its container only when no container of the head is left or on its way, however the
\* removals before it went.
THEOREM HeadIsOutlived ==
    ASSUME HeadRecipe, LaunchPos[Worker] < LaunchPos[Head]
    PROVE  Spec => ReservationOutlivesHead
<1> DEFINE Outlived ==
      \A r \in Roles : Calling("remove", r) /\ r = Worker /\ cand[r] # "absent"
            /\ cand'[r] = "absent" /\ ctl' # ctl
          => ~Present(Head)
<1>1. IInv /\ Nodes => Outlived
  <2> SUFFICES ASSUME IInv, Nodes, Calling("remove", Worker)
               PROVE  ~Present(Head)
    OBVIOUS
  <2>1. At("removing") /\ InReverse(Worker, LaunchPos)
    BY DEF Calling
  <2>2. ctl.safe
    BY <2>1 DEF Nodes, Reserved
  <2>3. Head \notin ctl.todo
    BY <2>1 DEF InReverse
  <2> QED BY <2>1, <2>2, <2>3 DEF IInv, Cutover, Cleared, At, Removing
<1> QED BY <1>1, Invariance, NodesHold, PTL DEF Spec, ReservationOutlivesHead
=============================================================================
