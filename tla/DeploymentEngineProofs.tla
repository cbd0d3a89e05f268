----------------------- MODULE DeploymentEngineProofs -----------------------
(***************************************************************************)
(* Theorems about DeploymentEngine, for any set of members, any launch     *)
(* order, any selection of old containers and any number of faults and     *)
(* crashes.                                                                *)
(***************************************************************************)
EXTENDS DeploymentEngine, TLAPS

USE RolesAssumption, SwitchAssumption, BoundAssumption

-----------------------------------------------------------------------------
\* Typing of the record and control updates the actions are made of.

LEMMA WithMemberType ==
    ASSUME TypeOK, NEW r \in Roles, NEW status \in MemberStatus
    PROVE  WithMember(r, status) \in Deployment
BY DEF TypeOK, WithMember, Deployment

LEMMA WithPreviousType ==
    ASSUME TypeOK, NEW r \in Roles, NEW status \in PreviousStatus
    PROVE  WithPrevious(r, status) \in Deployment
BY DEF TypeOK, WithPrevious, Deployment

LEMMA LastType ==
    ASSUME NEW d \in Deployment, NEW action \in Lifecycle
    PROVE  [d EXCEPT !.last = action] \in Deployment
BY DEF Deployment

LEMMA StateType ==
    ASSUME NEW d \in Deployment, NEW state \in States, NEW action \in Lifecycle
    PROVE  [d EXCEPT !.state = state, !.last = action] \in Deployment
BY DEF Deployment

LEMMA SweptType ==
    ASSUME NEW d \in Deployment, NEW state \in States, NEW action \in Lifecycle
    PROVE  [d EXCEPT !.state = state, !.last = action, !.mem = Swept(@)] \in Deployment
<1>1. Swept(d.mem) \in [Roles -> MemberStatus]
  BY DEF Swept, MemberStatus, Deployment
<1>2. ASSUME NEW e \in Deployment, NEW mem \in [Roles -> MemberStatus]
      PROVE  [e EXCEPT !.mem = mem] \in Deployment
  BY DEF Deployment
<1>3. [d EXCEPT !.state = state, !.last = action, !.mem = Swept(d.mem)] \in Deployment
  BY <1>1, <1>2, StateType
<1> QED BY <1>3 DEF Deployment

LEMMA GotoType ==
    ASSUME TypeOK, NEW label \in Steps
    PROVE  Goto(label) \in Control
BY DEF TypeOK, Goto, Control

LEMMA EnterType ==
    ASSUME TypeOK, NEW label \in Steps, NEW members \in SUBSET Roles
    PROVE  Enter(label, members) \in Control
BY DEF TypeOK, Enter, Control

LEMMA ErringType ==
    ASSUME TypeOK
    PROVE  Erring \in Control /\ Unsafe \in Control
BY DEF TypeOK, Erring, Unsafe, Control

LEMMA VisitType ==
    ASSUME NEW c \in Control, NEW r, NEW label \in Steps, NEW exit \in Control
    PROVE  Visit(c, r, label, exit) \in Control
BY DEF Visit, Control

LEMMA FieldType ==
    ASSUME NEW c \in Control
    PROVE  /\ \A value \in BOOLEAN : /\ [c EXCEPT !.resume = value] \in Control
                                    /\ [c EXCEPT !.touched = value] \in Control
           /\ \A status \in MemberStatus \cup PreviousStatus :
                [c EXCEPT !.seen = status] \in Control
BY DEF Control

LEMMA EndedType ==
    ASSUME NEW c \in Control, NEW label \in Steps
    PROVE  Ended(c, label) \in Control
BY DEF Ended, Control

LEMMA IdleType == Idle \in Control /\ Blank \in Deployment
BY DEF Idle, Control, Blank, Deployment, Steps, Ops, MemberStatus, PreviousStatus,
       States, Lifecycle

LEMMA ControlSet ==
    ASSUME NEW c \in Control, NEW op \in Ops, NEW label \in Steps, NEW members \in SUBSET Roles
    PROVE  /\ [c EXCEPT !.op = op, !.pc = label, !.todo = members] \in Control
           /\ [c EXCEPT !.op = op, !.pc = label] \in Control
BY DEF Control

-----------------------------------------------------------------------------
\* Typing of the kinds of step.

LEMMA PersistType ==
    ASSUME TypeOK, NEW d \in Deployment, NEW good \in Control, NEW bad \in Control,
           Persist(d, good, bad)
    PROVE  TypeOK'
BY DEF TypeOK, Persist, Fault, containers

LEMMA LocalType ==
    ASSUME TypeOK, NEW d \in Deployment, NEW c \in Control,
           Step(d, c) \/ Failed(c)
    PROVE  TypeOK'
BY DEF TypeOK, Step, Failed, Local, Fault, containers

LEMMA OutcomeType ==
    ASSUME NEW effect, NEW state \in ContainerState
    PROVE  /\ Outcome(effect, state) \in ContainerState
           /\ effect \in OnPrevious /\ state # "absent" => Outcome(effect, state) # "absent"
BY DEF Outcome, ContainerState, OnPrevious

LEMMA ApplyType ==
    ASSUME TypeOK, NEW effect \in Effects, NEW r \in Roles, Apply(effect, r)
    PROVE  /\ cand' \in [Roles -> ContainerState]
           /\ old' \in [Selected -> {"running", "stopped"}]
           /\ late' \subseteq Effects \X Roles
BY OutcomeType DEF TypeOK, Apply, ContainerState

LEMMA CallType ==
    ASSUME TypeOK, NEW effect \in Effects, NEW r \in Roles,
           NEW d \in Deployment, NEW good \in Control, NEW bad \in Control,
           Call(effect, r, d, good, bad)
    PROVE  TypeOK'
<1>1. CASE /\ Apply(effect, r) /\ dep' = d /\ ctl' = good
           /\ UNCHANGED <<faults, journal, crashes, booting>>
  BY <1>1, ApplyType DEF TypeOK
<1>2. CASE /\ Fault /\ ctl' = bad /\ UNCHANGED <<dep, cand, old, journal, crashes, booting>>
           /\ late' = late \/ late' = late \cup {<<effect, r>>}
  BY <1>2 DEF TypeOK, Fault
<1> QED BY <1>1, <1>2 DEF Call

-----------------------------------------------------------------------------
\* One step per action.

USE DEF Steps, CreateSteps, ReadySteps, RollbackSteps, StartSteps, StopSteps

LEMMA LaterType ==
    ASSUME TypeOK
    PROVE  /\ ToRollback \in Control /\ ToLaunches \in Control /\ AfterPulls \in Control
           /\ ToFailStart \in Control /\ Abort \in Control /\ Unpromoted \in Control
           /\ GiveUp \in Control
BY EnterType, GotoType DEF ToRollback, ToLaunches, AfterPulls, ToFailStart, Abort,
                           Unpromoted, GiveUp

LEMMA CreateType ==
    ASSUME TypeOK, CreateStep
    PROVE  TypeOK'
<1> USE EnterType, GotoType, LaterType, VisitType, LastType, WithMemberType,
        WithPreviousType
<1> ctl \in Control /\ dep \in Deployment
  BY DEF TypeOK
<1>1. CASE JournalPending
  <2>1. [dep EXCEPT !.last = "journal"] \in Deployment
    BY DEF Lifecycle
  <2> QED BY <1>1, <2>1, PersistType DEF JournalPending
<1>2. ASSUME NEW r \in Roles, PullIntent(r)
      PROVE  TypeOK'
  <2>1. [WithMember(r, "pulling") EXCEPT !.last = "pull"] \in Deployment
    BY DEF Lifecycle, MemberStatus
  <2> QED BY <1>2, <2>1, PersistType DEF PullIntent
<1>3. ASSUME NEW r \in Roles, Pull(r)
      PROVE  TypeOK'
  <2>1. [WithMember(r, "pulled") EXCEPT !.last = "pull"] \in Deployment
    BY DEF Lifecycle, MemberStatus
  <2>2. Visit(ctl, r, "pull", AfterPulls) \in Control
    OBVIOUS
  <2> QED BY <1>3, <2>1, <2>2, PersistType, LocalType DEF Pull
<1>4. ASSUME NEW r \in Selected, StopPreviousIntent(r)
      PROVE  TypeOK'
  <2>1. [WithPrevious(r, "stopping") EXCEPT !.last = "stop_previous"] \in Deployment
    BY DEF Lifecycle, PreviousStatus
  <2> QED BY <1>4, <2>1, PersistType DEF StopPreviousIntent
<1>5. ASSUME NEW r \in Selected, StopPrevious(r)
      PROVE  TypeOK'
  BY <1>5, CallType DEF StopPrevious, Effects, OnPrevious
<1>6. ASSUME NEW r \in Selected, StopPreviousDone(r)
      PROVE  TypeOK'
  <2>1. [WithPrevious(r, "stopped") EXCEPT !.last = "stop_previous"] \in Deployment
    BY DEF Lifecycle, PreviousStatus
  <2>2. Visit(ctl, r, "stop_previous", ToLaunches) \in Control
    OBVIOUS
  <2> QED BY <1>6, <2>1, <2>2, PersistType DEF StopPreviousDone
<1>7. ASSUME NEW r \in Roles, LaunchIntent(r)
      PROVE  TypeOK'
  <2>1. [WithMember(r, "launching") EXCEPT !.last = "launch"] \in Deployment
    BY DEF Lifecycle, MemberStatus
  <2> QED BY <1>7, <2>1, PersistType DEF LaunchIntent
<1>8. ASSUME NEW r \in Roles, Launch(r)
      PROVE  TypeOK'
  BY <1>8, CallType DEF Launch, Effects
<1>9. ASSUME NEW r \in Roles, LaunchDone(r)
      PROVE  TypeOK'
  <2>1. [WithMember(r, "created") EXCEPT !.last = "launch"] \in Deployment
    BY DEF Lifecycle, MemberStatus
  <2>2. Visit(ctl, r, "launch", Enter("readiness", {})) \in Control
    OBVIOUS
  <2>3. PICK next \in {Visit(ctl, r, "launch", Enter("readiness", {})), ToRollback} :
          Persist([WithMember(r, "created") EXCEPT !.last = "launch"], next, ToRollback)
    BY <1>9 DEF LaunchDone
  <2> QED BY <2>1, <2>2, <2>3, PersistType
<1> QED BY <1>1, <1>2, <1>3, <1>4, <1>5, <1>6, <1>7, <1>8, <1>9 DEF CreateStep

LEMMA ReadyType ==
    ASSUME TypeOK, ReadyStep \/ ReadyTimeout
    PROVE  TypeOK'
<1> USE EnterType, GotoType, LaterType, VisitType, LastType, StateType, WithMemberType,
        ErringType
<1> ctl \in Control /\ dep \in Deployment
  BY DEF TypeOK
<1>1. ASSUME NEW c \in Control, NEW r
      PROVE  Polled(c, r) \in Control
  BY DEF Polled
<1>2. CASE ReadinessIntent
  <2>1. [dep EXCEPT !.last = "readiness"] \in Deployment
    BY DEF Lifecycle
  <2> QED BY <1>2, <2>1, PersistType DEF ReadinessIntent
<1>3. CASE TestHead
  BY <1>3, LocalType DEF TestHead
<1>4. CASE Ready
  <2>1. [dep EXCEPT !.last = "readiness"] \in Deployment
    BY DEF Lifecycle
  <2> QED BY <1>4, <2>1, PersistType DEF Ready
<1>5. CASE Promote
  <2>1. [dep EXCEPT !.state = "running",
                    !.last = IF ctl.op = "create" THEN "promote" ELSE "start_group"]
          \in Deployment
    BY DEF Lifecycle, States
  <2> QED BY <1>5, <2>1, PersistType DEF Promote
<1>6. ASSUME NEW r \in Roles, WaitReady(r)
      PROVE  TypeOK'
  <2>1. WithMember(r, "running") \in Deployment /\ WithMember(r, "stopped") \in Deployment
    BY DEF MemberStatus
  <2>2. Polled(ctl, r) \in Control /\ Polled(Erring, r) \in Control
    BY <1>1
  <2> QED BY <1>6, <2>1, <2>2, LocalType DEF WaitReady
<1>7. CASE ReadyTimeout
  BY <1>7, LocalType DEF ReadyTimeout
<1> QED BY <1>2, <1>3, <1>4, <1>5, <1>6, <1>7 DEF ReadyStep

LEMMA RollbackType ==
    ASSUME TypeOK, RollbackStep
    PROVE  TypeOK'
<1> USE EnterType, GotoType, VisitType, StateType, WithMemberType, WithPreviousType,
        ErringType
<1> ctl \in Control /\ dep \in Deployment
  BY DEF TypeOK
<1>1. ASSUME NEW c \in Control
      PROVE  AfterRemovals(c) \in Control
  <2>1. [c EXCEPT !.pc = "restore", !.todo = Selected] \in Control
    BY ZenonT(40) DEF Control
  <2>2. [c EXCEPT !.pc = "rollback_result", !.todo = {}] \in Control
    BY ZenonT(40) DEF Control
  <2> QED BY <2>1, <2>2 DEF AfterRemovals
<1>2. ASSUME NEW c \in Control, NEW r
      PROVE  NextRemoval(c, r) \in Control /\ NextRestore(c, r) \in Control
  <2>1. [c EXCEPT !.pc = "rollback_result", !.todo = {}] \in Control
    BY ZenonT(40) DEF Control
  <2> QED BY <1>1, <2>1 DEF NextRemoval, NextRestore
<1>3. CASE RollbackIntent
  <2>1. [dep EXCEPT !.state = "rollback_failed", !.last = "rollback"] \in Deployment
    BY DEF States, Lifecycle
  <2>2. ASSUME NEW remaining \in SUBSET Roles
        PROVE  /\ Enter("remove", remaining) \in Control
               /\ AfterRemovals(Enter("remove", remaining)) \in Control
    BY <1>1
  <2> QED BY <1>3, <2>1, <2>2, PersistType DEF RollbackIntent
<1>4. CASE RollbackResult
  <2>1. [dep EXCEPT !.state = "rollback_failed", !.last = "rollback"] \in Deployment
    BY DEF States, Lifecycle
  <2>2. [dep EXCEPT !.state = "rolled_back", !.last = "rollback",
                    !.mem = Swept(@)] \in Deployment
    BY SweptType DEF States, Lifecycle
  <2> QED BY <1>4, <2>1, <2>2, PersistType DEF RollbackResult
<1>5. ASSUME NEW r \in Roles, RemovalIntent(r)
      PROVE  TypeOK'
  <2>1. WithMember(r, "removing") \in Deployment
    BY DEF MemberStatus
  <2> QED BY <1>1, <1>2, <1>5, <2>1, PersistType, LocalType DEF RemovalIntent
<1>6. ASSUME NEW r \in Roles, RemoveCandidate(r)
      PROVE  TypeOK'
  BY <1>2, <1>6, CallType DEF RemoveCandidate, Effects
<1>7. ASSUME NEW r \in Roles, RemovalDone(r)
      PROVE  TypeOK'
  <2>1. WithMember(r, "removed") \in Deployment
    BY DEF MemberStatus
  <2> QED BY <1>2, <1>7, <2>1, PersistType DEF RemovalDone
<1>8. ASSUME NEW r \in Selected, RestoreIntent(r)
      PROVE  TypeOK'
  <2>1. WithPrevious(r, "restarting") \in Deployment
    BY DEF PreviousStatus
  <2>2. [Goto("inspect_previous") EXCEPT !.seen = dep.prev[r]] \in Control
    <3>1. dep.prev[r] \in PreviousStatus
      BY DEF Deployment
    <3> QED BY <3>1, FieldType
  <2> QED BY <1>2, <1>8, <2>1, <2>2, PersistType DEF RestoreIntent
<1>9. ASSUME NEW r \in Selected, InspectPrevious(r)
      PROVE  TypeOK'
  BY <1>2, <1>9, LocalType DEF InspectPrevious
<1>10. ASSUME NEW r \in Selected, RestartPrevious(r)
       PROVE  TypeOK'
  BY <1>2, <1>10, CallType DEF RestartPrevious, Effects, OnPrevious
<1>11. ASSUME NEW r \in Selected, RestartAudit(r)
       PROVE  TypeOK'
  BY <1>2, <1>11, PersistType DEF RestartAudit
<1>12. ASSUME NEW r \in Selected, WaitRunning(r)
       PROVE  TypeOK'
  <2>1. WithPrevious(r, "running") \in Deployment
    BY DEF PreviousStatus
  <2> QED BY <1>2, <1>12, <2>1, PersistType, LocalType DEF WaitRunning
<1> QED
  BY <1>3, <1>4, <1>5, <1>6, <1>7, <1>8, <1>9, <1>10, <1>11, <1>12 DEF RollbackStep

LEMMA StartType ==
    ASSUME TypeOK, StartStep
    PROVE  TypeOK'
<1> USE EnterType, GotoType, LaterType, VisitType, StateType, WithMemberType, ErringType
<1> ctl \in Control /\ dep \in Deployment
  BY DEF TypeOK
<1>1. ASSUME NEW c \in Control, NEW r
      PROVE  Verified(c, r) \in Control
  <2>1. [ToFailStart EXCEPT !.resume = TRUE] \in Control
    BY FieldType
  <2> QED BY <2>1 DEF Verified
<1>2. ASSUME NEW c \in Control, NEW r
      PROVE  NextFailStart(c, r) \in Control
  BY EndedType DEF NextFailStart
<1>3. CASE MarkUnsafeRunning
  <2>1. [dep EXCEPT !.state = "failed", !.last = "verify_running"] \in Deployment
    BY DEF States, Lifecycle
  <2> QED BY <1>3, <2>1, PersistType DEF MarkUnsafeRunning
<1>4. CASE StartIntent
  <2>1. [dep EXCEPT !.state = "starting", !.last = "start_group"] \in Deployment
    BY DEF States, Lifecycle
  <2> QED BY <1>4, <2>1, PersistType DEF StartIntent
<1>5. CASE StartFailed
  <2>1. ASSUME NEW state \in {"failed", "stopped"}
        PROVE  [dep EXCEPT !.state = state, !.last = "start_group"] \in Deployment
    BY DEF States, Lifecycle
  <2>2. [Goto("start_group") EXCEPT !.resume = FALSE] \in Control
    BY FieldType
  <2> QED BY <1>5, <2>1, <2>2, PersistType DEF StartFailed
<1>6. ASSUME NEW r \in Roles, VerifyMember(r)
      PROVE  TypeOK'
  <2>1. WithMember(r, "running") \in Deployment /\ WithMember(r, "stopped") \in Deployment
    BY DEF MemberStatus
  <2>2. Verified(ctl, r) \in Control /\ Verified(Erring, r) \in Control
    BY <1>1
  <2> QED BY <1>6, <2>1, <2>2, LocalType DEF VerifyMember
<1>7. ASSUME NEW r \in Roles, RestartIntent(r)
      PROVE  TypeOK'
  <2>1. WithMember(r, "starting") \in Deployment
    BY DEF MemberStatus
  <2>2. [Goto("inspect_restart") EXCEPT !.seen = dep.mem[r]] \in Control
    <3>1. dep.mem[r] \in MemberStatus
      BY DEF Deployment
    <3> QED BY <3>1, FieldType
  <2> QED BY <1>7, <2>1, <2>2, PersistType DEF RestartIntent
<1>8. ASSUME NEW r \in Roles, InspectRestart(r)
      PROVE  TypeOK'
  <2>1. [Goto("restarting") EXCEPT !.touched = TRUE] \in Control
    BY FieldType
  <2> QED BY <1>8, <2>1, LocalType DEF InspectRestart
<1>9. ASSUME NEW r \in Roles, RestartMember(r)
      PROVE  TypeOK'
  BY <1>9, CallType DEF RestartMember, Effects
<1>10. ASSUME NEW r \in Roles, RestartDone(r)
       PROVE  TypeOK'
  <2>1. WithMember(r, "running") \in Deployment
    BY DEF MemberStatus
  <2>2. Visit(ctl, r, "restart", Enter("readiness", {})) \in Control
    OBVIOUS
  <2> QED BY <1>10, <2>1, <2>2, PersistType DEF RestartDone
<1>11. ASSUME NEW r \in Roles, FailStart(r)
       PROVE  TypeOK'
  <2>1. WithMember(r, "stopped") \in Deployment
    BY DEF MemberStatus
  <2>2. Ended(ctl, "start_failed") \in Control
    BY EndedType
  <2> QED BY <1>2, <1>11, <2>1, <2>2, LocalType DEF FailStart
<1>12. ASSUME NEW r \in Roles, FailStop(r)
       PROVE  TypeOK'
  <2>1. WithMember(r, "stopped") \in Deployment
    BY DEF MemberStatus
  <2> QED BY <1>2, <1>12, <2>1, CallType DEF FailStop, Effects
<1> QED
  BY <1>3, <1>4, <1>5, <1>6, <1>7, <1>8, <1>9, <1>10, <1>11, <1>12 DEF StartStep

LEMMA StopType ==
    ASSUME TypeOK, StopStep
    PROVE  TypeOK'
<1> USE EnterType, GotoType, VisitType, StateType, WithMemberType, ErringType
<1> ctl \in Control /\ dep \in Deployment
  BY DEF TypeOK
<1>1. ASSUME NEW c \in Control
      PROVE  Ended(c, "stop_result") \in Control
  BY EndedType
<1>2. ASSUME NEW c \in Control, NEW r
      PROVE  NextStop(c, r) \in Control
  BY <1>1 DEF NextStop
<1>3. CASE StopIntent
  <2>1. [dep EXCEPT !.state = "stopping", !.last = "stop_group"] \in Deployment
    BY DEF States, Lifecycle
  <2> QED BY <1>3, <2>1, PersistType DEF StopIntent
<1>4. CASE StopResult
  <2>1. ASSUME NEW state \in {"failed", "stopped"}
        PROVE  [dep EXCEPT !.state = state, !.last = "stop_group"] \in Deployment
    BY DEF States, Lifecycle
  <2> QED BY <1>4, <2>1, PersistType DEF StopResult
<1>5. ASSUME NEW r \in Roles, StopMemberIntent(r)
      PROVE  TypeOK'
  <2>1. WithMember(r, "stopping") \in Deployment
    BY DEF MemberStatus
  <2> QED BY <1>1, <1>2, <1>5, <2>1, PersistType, LocalType DEF StopMemberIntent
<1>6. ASSUME NEW r \in Roles, InspectStop(r)
      PROVE  TypeOK'
  BY <1>2, <1>6, LocalType DEF InspectStop
<1>7. ASSUME NEW r \in Roles, StopMember(r)
      PROVE  TypeOK'
  BY <1>2, <1>7, CallType DEF StopMember, Effects
<1>8. ASSUME NEW r \in Roles, StopDone(r)
      PROVE  TypeOK'
  <2>1. WithMember(r, "stopped") \in Deployment
    BY DEF MemberStatus
  <2> QED BY <1>2, <1>8, <2>1, PersistType DEF StopDone
<1> QED BY <1>3, <1>4, <1>5, <1>6, <1>7, <1>8 DEF StopStep

LEMMA RequestType ==
    ASSUME TypeOK, Request \/ Reconciliation \/ Answer
    PROVE  TypeOK'
<1> journal \in Deployment /\ old \in [Selected -> {"running", "stopped"}]
  BY DEF TypeOK
<1>1. ASSUME NEW op \in Ops, NEW label \in Steps, NEW members \in SUBSET Roles
      PROVE  [Idle EXCEPT !.op = op, !.pc = label, !.todo = members] \in Control
  BY IdleType, ControlSet
<1>2. ASSUME NEW op \in Ops, NEW label \in Steps
      PROVE  [Idle EXCEPT !.op = op, !.pc = label] \in Control
  BY IdleType, ControlSet
<1>3. CASE BeginCreate
  <2>1. [Blank EXCEPT !.state = "pending", !.prev = old] \in Deployment
    BY IdleType DEF Deployment, States, PreviousStatus
  <2> QED BY <1>2, <1>3, <2>1, LocalType DEF BeginCreate, Ops
<1>4. CASE BeginStart
  BY <1>1, <1>2, <1>4, LocalType DEF BeginStart, Ops
<1>5. CASE BeginStop
  BY <1>2, <1>5, LocalType DEF BeginStop, Ops
<1>6. CASE BeginRollback
  BY <1>2, <1>6, LocalType DEF BeginRollback, Ops
<1>7. ASSUME NEW op \in Ops
      PROVE  Recovering(op) \in Control
  <2>1. [[Idle EXCEPT !.op = op] EXCEPT !.pc = "fail_start", !.todo = Roles] \in Control
    BY <1>1
  <2>2. ASSUME NEW label \in Steps
        PROVE  [[Idle EXCEPT !.op = op] EXCEPT !.pc = label] \in Control
    BY <1>2
  <2> QED BY <2>1, <2>2 DEF Recovering
<1>8. CASE BeginReplay \/ BeginReconcile
  BY <1>7, <1>8, LocalType DEF BeginReplay, BeginReconcile, Ops
<1>9. CASE NothingToReconcile \/ Answer
  BY <1>9, IdleType DEF NothingToReconcile, Answer, TypeOK, containers
<1> QED BY <1>3, <1>4, <1>5, <1>6, <1>8, <1>9 DEF Request, Reconciliation

LEMMA EnvironmentType ==
    ASSUME TypeOK, Environment
    PROVE  TypeOK'
<1>1. ASSUME NEW r \in Roles, Exit(r) \/ Vanish(r)
      PROVE  TypeOK'
  BY <1>1 DEF Exit, Vanish, TypeOK, Fault, ContainerState
<1>2. ASSUME NEW r \in Selected, ExitPrevious(r)
      PROVE  TypeOK'
  BY <1>2 DEF ExitPrevious, TypeOK, Fault, ContainerState
<1>3. ASSUME NEW effect \in Effects, NEW r \in Roles, Land(effect, r)
      PROVE  TypeOK'
  BY <1>3, ApplyType DEF Land, TypeOK
<1>4. CASE Crash
  BY <1>4, IdleType DEF Crash, TypeOK, InFlight
<1> QED BY <1>1, <1>2, <1>3, <1>4 DEF Environment, Landing

\* The record, the control state and the containers are always what the
\* operations of the engine expect them to be.
THEOREM TypeCorrect == Spec => []TypeOK
<1>1. Init => TypeOK
  BY IdleType DEF Init, TypeOK, ContainerState
<1>2. TypeOK /\ [Next]_vars => TypeOK'
  <2> SUFFICES ASSUME TypeOK, [Next]_vars PROVE TypeOK'
    OBVIOUS
  <2>1. CASE UNCHANGED vars
    BY <2>1 DEF vars, TypeOK
  <2> QED
    BY <2>1, CreateType, ReadyType, RollbackType, StartType, StopType, RequestType,
       EnvironmentType DEF Next, EngineStep
<1> QED BY <1>1, <1>2, PTL DEF Spec

-----------------------------------------------------------------------------
\* The inductive invariant behind NoOrphan and CutoverExclusive.

BeforeLaunch == {"journal", "pull", "pulling", "stop_previous", "stopping_previous",
                 "stopped_previous"}
Launching == {"launch", "launching", "launched"}
Removing == {"remove", "removing", "removed"}
Restoring == {"restore", "inspect_previous", "restart_previous", "restarted_previous",
              "wait_running"}

\* No container of a deployment without a record exists or is on its way.
Unrecorded ==
    journal.state = "none" =>
        late = {} /\ ctl.pc \in {"idle", "journal", "err"} /\ \A r \in Roles : ~Present(r)

\* Until its first launch a create has no candidate and restarts nothing.
Unlaunched ==
    ctl.pc \in BeforeLaunch =>
        /\ \A r \in Roles : ~Present(r)
        /\ \A r \in Selected : <<"restart_previous", r>> \notin late

\* The operation's own copy of the record accounts for every candidate too.
Held ==
    ~At("idle") => /\ dep.state # "none"
                   /\ \A r \in Roles : Present(r) => MayExist(dep.mem[r])

\* A launch is requested only after its intent is durable.
Intended ==
    At("launching") => \A r \in Roles :
        InOrder(r, LaunchPos) => MayExist(dep.mem[r]) /\ MayExist(journal.mem[r])

\* A member is recorded removed only once its container is gone for good.
Gone ==
    At("removed") => \A r \in Roles : InReverse(r, LaunchPos) => ~Present(r)

Custody == Unrecorded /\ Unlaunched /\ Held /\ Intended /\ Gone /\ NoOrphan

\* What keeps an old container from running: it is stopped and no restart of
\* it is under way.
Down(r) == old[r] # "running" /\ <<"restart_previous", r>> \notin late

\* CutoverExclusive, accepted restarts included.
Excluded == (\E r \in Selected : ~Down(r)) => \A s \in Roles : ~Present(s)

\* Candidates are launched only when every old container is down.
Quiesced ==
    /\ ctl.pc \in {"stop_previous", "stopping_previous", "stopped_previous"} =>
          \A r \in Selected : r \notin ctl.todo => Down(r)
    /\ At("stopped_previous") => \A r \in Selected : InOrder(r, BindingPos) => Down(r)
    /\ ctl.pc \in Launching => \A r \in Selected : Down(r)

\* While candidatesSafe holds, every member visited has no candidate left; old
\* containers are restored only when no member has one.
Cleared ==
    /\ ctl.pc \in Removing /\ ctl.safe => \A r \in Roles : r \notin ctl.todo => ~Present(r)
    /\ ctl.pc \in Restoring => \A r \in Roles : ~Present(r)

Cutover == Excluded /\ Quiesced /\ Cleared

IInv == TypeOK /\ Custody /\ Cutover

-----------------------------------------------------------------------------
\* What the kinds of step leave alone: a step is steady when it brings no
\* candidate and no old container back.

Steady ==
    /\ \A r \in Roles : Present(r)' => Present(r)
    /\ \A r \in Selected : Down(r) => Down(r)'

LEMMA PersistFrame ==
    ASSUME NEW d, NEW good, NEW bad, Persist(d, good, bad)
    PROVE  /\ dep' = d /\ journal' \in {journal, d}
           /\ (ctl' = good /\ journal' = d) \/ ctl' = bad
           /\ late' = late /\ Steady
BY DEF Persist, Fault, containers, Steady, Present, Down

LEMMA LocalFrame ==
    ASSUME NEW d, NEW c, Step(d, c) \/ (d = dep /\ Failed(c))
    PROVE  dep' = d /\ journal' = journal /\ ctl' = c /\ late' = late /\ Steady
BY DEF Step, Failed, Local, Fault, containers, Steady, Present, Down

LEMMA ApplyFrame ==
    ASSUME TypeOK, NEW effect \in Effects, NEW r \in Roles, Apply(effect, r)
    PROVE  /\ \A s \in Roles : Present(s)' => Present(s) \/ (effect = "launch" /\ s = r)
           /\ \A s \in Selected : Down(s) => Down(s)' \/ (effect = "restart_previous" /\ s = r)
           /\ effect = "remove" => cand'[r] = "absent"
           /\ effect = "stop_previous" /\ r \in Selected => old'[r] # "running"
BY DEF Apply, Outcome, OnPrevious, Effects, Present, Down, TypeOK, ContainerState

LEMMA CallFrame ==
    ASSUME TypeOK, NEW effect \in Effects, NEW r \in Roles, NEW d, NEW good, NEW bad,
           Call(effect, r, d, good, bad)
    PROVE  /\ journal' = journal
           /\ \A s \in Roles : Present(s)' => Present(s) \/ (effect = "launch" /\ s = r)
           /\ \A s \in Selected : Down(s) => Down(s)' \/ (effect = "restart_previous" /\ s = r)
           /\ \/ /\ BarrierOpen(effect, r) /\ Apply(effect, r)
                 /\ ctl' = good /\ dep' = d
              \/ ctl' = bad /\ dep' = dep
<1>1. CASE BarrierOpen(effect, r) /\ Apply(effect, r) /\ dep' = d /\ ctl' = good
  BY <1>1, ApplyFrame DEF Call
<1>2. CASE /\ ctl' = bad /\ UNCHANGED <<dep, cand, old>>
           /\ UNCHANGED late \/ late' = late \cup {<<effect, r>>}
  BY <1>2 DEF Call, Present, Down
<1> QED BY <1>1, <1>2 DEF Call

LEMMA CallSteady ==
    ASSUME TypeOK, NEW effect \in Effects \ {"launch", "restart_previous"},
           NEW r \in Roles, NEW d, NEW good, NEW bad, Call(effect, r, d, good, bad)
    PROVE  Steady
BY CallFrame DEF Steady

\* Control states that some part of the invariant is about.
Special == BeforeLaunch \cup Launching \cup Removing \cup Restoring \cup {"idle"}

Operating == ctl.pc \notin {"idle", "journal", "err"}

\* A steady step that writes no status denying a candidate.
LEMMA Bookkeeping ==
    ASSUME IInv, Steady, Operating, dep'.state # "none", journal' \in {journal, dep'},
           \A r \in Roles : MayExist(dep.mem[r]) => MayExist(dep'.mem[r])
    PROVE  journal'.state # "none" /\ Unrecorded' /\ Held' /\ NoOrphan' /\ Excluded'
<1>1. \A r \in Roles : Present(r)' => Present(r)
  BY DEF Steady
<1>2. journal.state # "none"
  BY DEF IInv, Custody, Unrecorded, Operating
<1>3. journal'.state # "none"
  BY <1>2
<1>4. Held' /\ NoOrphan'
  BY <1>1, <1>3 DEF IInv, Custody, Held, NoOrphan, At, Operating, MayExist
<1>5. Excluded'
  BY DEF IInv, Cutover, Excluded, Steady
<1> QED BY <1>3, <1>4, <1>5 DEF Unrecorded

\* Such a step of an operation that does not enter a special control state.
LEMMA Ordinary ==
    ASSUME IInv, TypeOK', Steady, Operating, ctl'.pc \notin Special,
           dep'.state # "none", journal' \in {journal, dep'},
           \A r \in Roles : MayExist(dep.mem[r]) => MayExist(dep'.mem[r])
    PROVE  IInv'
<1>1. Unlaunched' /\ Intended' /\ Gone'
  BY DEF Unlaunched, Intended, Gone, At, Special, Launching, Removing
<1>2. Quiesced' /\ Cleared'
  BY DEF Quiesced, Cleared, At, Special, BeforeLaunch
<1> QED BY <1>1, <1>2, Bookkeeping DEF IInv, Custody, Cutover

\* A control state no part of the invariant is about, and a record that still
\* accounts for every candidate.
Plain(c) == c.pc \notin Special
Keeps(d) ==
    d.state # "none" /\ \A r \in Roles : MayExist(dep.mem[r]) => MayExist(d.mem[r])

LEMMA OrdinaryPersist ==
    ASSUME IInv, TypeOK', Operating, NEW d, NEW good, NEW bad, Persist(d, good, bad),
           Plain(good), Plain(bad), Keeps(d)
    PROVE  IInv'
BY PersistFrame, Ordinary DEF Operating, Plain, Keeps

LEMMA OrdinaryLocal ==
    ASSUME IInv, TypeOK', Operating, NEW d, NEW c,
           Step(d, c) \/ (d = dep /\ Failed(c)), Plain(c), Keeps(d)
    PROVE  IInv'
BY LocalFrame, Ordinary DEF Operating, Plain, Keeps

LEMMA OrdinaryCall ==
    ASSUME IInv, TypeOK', Operating, NEW effect \in Effects \ {"launch", "restart_previous"},
           NEW r \in Roles, NEW d, NEW good, NEW bad, Call(effect, r, d, good, bad),
           Plain(good), Plain(bad), Keeps(d)
    PROVE  IInv'
<1>1. TypeOK /\ Keeps(dep)
  BY DEF IInv, Keeps, Custody, Held, Operating, At
<1>2. Steady
  BY <1>1, CallSteady
<1>3. journal' = journal /\ dep' \in {d, dep} /\ ctl' \in {good, bad}
  BY <1>1, CallFrame
<1> QED BY <1>1, <1>2, <1>3, Ordinary DEF Operating, Plain, Keeps

LEMMA DepKept == ASSUME IInv, Operating PROVE Keeps(dep)
BY DEF IInv, Keeps, Custody, Held, Operating, At

LEMMA MemberKept ==
    ASSUME IInv, Operating, NEW r \in Roles, NEW status, MayExist(status)
    PROVE  /\ Keeps(WithMember(r, status))
           /\ \A action : Keeps([WithMember(r, status) EXCEPT !.last = action])
<1>1. dep \in Deployment /\ dep.state # "none"
  BY DEF IInv, TypeOK, Custody, Held, Operating, At
<1> QED BY <1>1 DEF Keeps, WithMember, Deployment

LEMMA PreviousKept ==
    ASSUME IInv, Operating, NEW r \in Selected, NEW status
    PROVE  /\ Keeps(WithPrevious(r, status))
           /\ \A action : Keeps([WithPrevious(r, status) EXCEPT !.last = action])
<1>1. dep \in Deployment /\ dep.state # "none"
  BY DEF IInv, TypeOK, Custody, Held, Operating, At
<1> QED BY <1>1 DEF Keeps, WithPrevious, Deployment

LEMMA StateKept ==
    ASSUME IInv, Operating, NEW state \in States \ {"none"}, NEW action \in Lifecycle
    PROVE  Keeps([dep EXCEPT !.state = state, !.last = action])
<1>1. dep \in Deployment /\ dep.state # "none"
  BY DEF IInv, TypeOK, Custody, Held, Operating, At
<1> QED BY <1>1 DEF Keeps, Deployment

LEMMA LastKept ==
    ASSUME IInv, Operating, NEW action \in Lifecycle
    PROVE  Keeps([dep EXCEPT !.last = action])
<1>1. dep \in Deployment /\ dep.state # "none"
  BY DEF IInv, TypeOK, Custody, Held, Operating, At
<1> QED BY <1>1 DEF Keeps, Deployment

LEMMA GotoFields ==
    ASSUME TypeOK, NEW label \in Steps
    PROVE  Goto(label).pc = label /\ Goto(label).todo = ctl.todo /\ Goto(label).safe = ctl.safe
BY DEF TypeOK, Goto, Control

LEMMA EnterFields ==
    ASSUME TypeOK, NEW label \in Steps, NEW members \in SUBSET Roles
    PROVE  /\ Enter(label, members).pc = label /\ Enter(label, members).todo = members
           /\ Enter(label, members).safe = TRUE
BY DEF TypeOK, Enter, Control

LEMMA VisitFields ==
    ASSUME NEW c \in Control, NEW r, NEW label, NEW exit
    PROVE  \/ c.todo \subseteq {r} /\ Visit(c, r, label, exit) = exit
           \/ /\ Visit(c, r, label, exit).pc = label
              /\ Visit(c, r, label, exit).todo = c.todo \ {r}
              /\ Visit(c, r, label, exit).safe = c.safe
BY DEF Visit, Control

LEMMA PlainVisit ==
    ASSUME NEW c \in Control, NEW r, NEW label, label \notin Special, NEW exit, Plain(exit)
    PROVE  Plain(Visit(c, r, label, exit))
BY VisitFields DEF Plain

LEMMA PlainLater ==
    ASSUME TypeOK
    PROVE  /\ Plain(ToRollback) /\ Plain(ToFailStart) /\ Plain(Abort) /\ Plain(Unpromoted)
           /\ Plain(GiveUp)
           /\ \A label \in Steps \ Special : Plain(Goto(label))
           /\ \A label \in Steps \ Special, members \in SUBSET Roles :
                 Plain(Enter(label, members))
<1>1. \A label \in Steps \ Special : Plain(Goto(label))
  BY GotoFields DEF Plain
<1>2. ASSUME NEW label \in Steps \ Special, NEW members \in SUBSET Roles
      PROVE  Plain(Enter(label, members))
  <2>1. Enter(label, members).pc = label
    BY EnterFields
  <2> QED BY <2>1 DEF Plain
<1>3. {"rollback", "fail_start", "err"} \cap Special = {}
  BY DEF Special, BeforeLaunch, Launching, Removing, Restoring
<1> QED BY <1>1, <1>2, <1>3 DEF ToRollback, ToFailStart, Abort, Unpromoted, GiveUp

-----------------------------------------------------------------------------
\* Readiness, start and stop neither launch a candidate nor touch an old
\* container, and write no status that denies a candidate.

LEMMA PlainLabels ==
    /\ (ReadySteps \cup StartSteps \cup StopSteps \cup {"ok", "err"}) \cap Special = {}
    /\ "rollback_result" \notin Special
BY DEF Special, BeforeLaunch, Launching, Removing, Restoring

LEMMA MayExistStatuses ==
    \A status \in {"running", "stopped", "starting", "stopping", "removing", "launching",
                   "created"} : MayExist(status)
BY DEF MayExist

LEMMA ReadyInvariant ==
    ASSUME IInv, ReadyStep \/ ReadyTimeout
    PROVE  IInv'
<1> TypeOK /\ TypeOK' /\ ctl \in Control
  BY ReadyType DEF IInv, TypeOK
<1> Operating
  BY DEF Operating, ReadyStep, ReadinessIntent, TestHead, Ready, Promote, WaitReady,
         ReadyTimeout, At
<1> USE PlainLabels, PlainLater, DepKept, MemberKept
<1>1. ASSUME NEW c \in Control, NEW r
      PROVE  Plain(Polled(c, r))
  BY PlainVisit, EnterType DEF Polled
<1>2. CASE ReadinessIntent
  <2>1. Keeps([dep EXCEPT !.last = "readiness"])
    BY LastKept DEF Lifecycle
  <2>2. Plain(Enter("wait_ready", Roles))
    OBVIOUS
  <2> QED BY <1>2, <2>1, <2>2, OrdinaryPersist DEF ReadinessIntent
<1>3. CASE TestHead
  BY <1>3, OrdinaryLocal DEF TestHead
<1>4. CASE Ready
  <2>1. Keeps([dep EXCEPT !.last = "readiness"])
    BY LastKept DEF Lifecycle
  <2> QED BY <1>4, <2>1, OrdinaryPersist DEF Ready
<1>5. CASE Promote
  <2>1. Keeps([dep EXCEPT !.state = "running",
                          !.last = IF ctl.op = "create" THEN "promote" ELSE "start_group"])
    BY StateKept DEF States, Lifecycle
  <2> QED BY <1>5, <2>1, OrdinaryPersist DEF Promote
<1>6. ASSUME NEW r \in Roles, WaitReady(r)
      PROVE  IInv'
  <2>1. Keeps(WithMember(r, "running")) /\ Keeps(WithMember(r, "stopped"))
    BY MayExistStatuses
  <2>2. Plain(Polled(ctl, r)) /\ Plain(Polled(Erring, r))
    BY <1>1, ErringType
  <2> QED BY <1>6, <2>1, <2>2, OrdinaryLocal DEF WaitReady
<1>7. CASE ReadyTimeout
  BY <1>7, OrdinaryLocal DEF ReadyTimeout
<1> QED BY <1>2, <1>3, <1>4, <1>5, <1>6, <1>7 DEF ReadyStep

LEMMA StartInvariant ==
    ASSUME IInv, StartStep
    PROVE  IInv'
<1> TypeOK /\ TypeOK' /\ ctl \in Control
  BY StartType DEF IInv, TypeOK
<1> Operating
  BY DEF Operating, StartStep, MarkUnsafeRunning, StartIntent, StartFailed, VerifyMember,
         RestartIntent, InspectRestart, RestartMember, RestartDone, FailStart, FailStop,
         At, Calling
<1> USE PlainLabels, PlainLater, DepKept, MemberKept, MayExistStatuses
<1>1. ASSUME NEW c \in Control
      PROVE  /\ \A value : /\ Plain(c) => Plain([c EXCEPT !.resume = value])
                           /\ Plain(c) => Plain([c EXCEPT !.touched = value])
                           /\ Plain(c) => Plain([c EXCEPT !.seen = value])
             /\ Plain(Ended(c, "start_failed"))
  BY DEF Plain, Control, Ended
<1>2. ASSUME NEW c \in Control, NEW r
      PROVE  Plain(Verified(c, r)) /\ Plain(NextFailStart(c, r))
  BY <1>1, PlainVisit, LaterType DEF Verified, NextFailStart
<1>3. CASE MarkUnsafeRunning
  <2>1. Keeps([dep EXCEPT !.state = "failed", !.last = "verify_running"])
    BY StateKept DEF States, Lifecycle
  <2> QED BY <1>3, <2>1, OrdinaryPersist DEF MarkUnsafeRunning
<1>4. CASE StartIntent
  <2>1. Plain(Enter("restart", Roles))
    OBVIOUS
  <2>2. Keeps([dep EXCEPT !.state = "starting", !.last = "start_group"])
    BY StateKept DEF States, Lifecycle
  <2> QED BY <1>4, <2>1, <2>2, OrdinaryPersist DEF StartIntent
<1>5. CASE StartFailed
  <2>1. Plain([Goto("start_group") EXCEPT !.resume = FALSE])
    BY <1>1, GotoType
  <2>2. \A state \in {"failed", "stopped"} :
          Keeps([dep EXCEPT !.state = state, !.last = "start_group"])
    BY StateKept DEF States, Lifecycle
  <2> QED BY <1>5, <2>1, <2>2, OrdinaryPersist DEF StartFailed
<1>6. ASSUME NEW r \in Roles, VerifyMember(r)
      PROVE  IInv'
  BY <1>2, <1>6, ErringType, OrdinaryLocal DEF VerifyMember
<1>7. ASSUME NEW r \in Roles, RestartIntent(r)
      PROVE  IInv'
  <2>1. Plain([Goto("inspect_restart") EXCEPT !.seen = dep.mem[r]])
    BY <1>1, GotoType
  <2>2. Keeps(WithMember(r, "starting"))
    OBVIOUS
  <2> QED BY <1>7, <2>1, <2>2, OrdinaryPersist DEF RestartIntent
<1>8. ASSUME NEW r \in Roles, InspectRestart(r)
      PROVE  IInv'
  <2>1. Plain([Goto("restarting") EXCEPT !.touched = TRUE])
    BY <1>1, GotoType
  <2> QED BY <1>8, <2>1, OrdinaryLocal DEF InspectRestart
<1>9. ASSUME NEW r \in Roles, RestartMember(r)
      PROVE  IInv'
  BY <1>9, OrdinaryCall DEF RestartMember, Effects
<1>10. ASSUME NEW r \in Roles, RestartDone(r)
       PROVE  IInv'
  <2>1. Plain(Visit(ctl, r, "restart", Enter("readiness", {})))
    BY PlainVisit
  <2> QED BY <1>10, <2>1, OrdinaryPersist DEF RestartDone
<1>11. ASSUME NEW r \in Roles, FailStart(r)
       PROVE  IInv'
  BY <1>1, <1>2, <1>11, ErringType, OrdinaryLocal DEF FailStart
<1>12. ASSUME NEW r \in Roles, FailStop(r)
       PROVE  IInv'
  BY <1>2, <1>12, ErringType, OrdinaryCall DEF FailStop, Effects
<1> QED
  BY <1>3, <1>4, <1>5, <1>6, <1>7, <1>8, <1>9, <1>10, <1>11, <1>12 DEF StartStep

LEMMA StopInvariant ==
    ASSUME IInv, StopStep
    PROVE  IInv'
<1> TypeOK /\ TypeOK' /\ ctl \in Control
  BY StopType DEF IInv, TypeOK
<1> Operating
  BY DEF Operating, StopStep, StopIntent, StopResult, StopMemberIntent, InspectStop,
         StopMember, StopDone, At, Calling
<1> USE PlainLabels, PlainLater, DepKept, MemberKept, MayExistStatuses
<1>1. ASSUME NEW c \in Control
      PROVE  Plain(Ended(c, "stop_result"))
  BY DEF Plain, Control, Ended
<1>2. ASSUME NEW c \in Control, NEW r
      PROVE  Plain(NextStop(c, r))
  BY <1>1, PlainVisit DEF NextStop
<1>3. CASE StopIntent
  <2>1. Plain(Enter("stop", Roles))
    OBVIOUS
  <2>2. Keeps([dep EXCEPT !.state = "stopping", !.last = "stop_group"])
    BY StateKept DEF States, Lifecycle
  <2> QED BY <1>3, <2>1, <2>2, OrdinaryPersist DEF StopIntent
<1>4. CASE StopResult
  <2>1. \A state \in {"failed", "stopped"} :
          Keeps([dep EXCEPT !.state = state, !.last = "stop_group"])
    BY StateKept DEF States, Lifecycle
  <2> QED BY <1>4, <2>1, OrdinaryPersist DEF StopResult
<1>5. ASSUME NEW r \in Roles, StopMemberIntent(r)
      PROVE  IInv'
  <2>1. Plain(NextStop(Erring, r)) /\ Keeps(WithMember(r, "stopping"))
    BY <1>2, ErringType
  <2> QED BY <1>1, <1>5, <2>1, OrdinaryPersist, OrdinaryLocal DEF StopMemberIntent
<1>6. ASSUME NEW r \in Roles, InspectStop(r)
      PROVE  IInv'
  BY <1>2, <1>6, ErringType, OrdinaryLocal DEF InspectStop
<1>7. ASSUME NEW r \in Roles, StopMember(r)
      PROVE  IInv'
  BY <1>2, <1>7, ErringType, OrdinaryCall DEF StopMember, Effects
<1>8. ASSUME NEW r \in Roles, StopDone(r)
      PROVE  IInv'
  BY <1>2, <1>8, ErringType, OrdinaryPersist DEF StopDone
<1> QED BY <1>3, <1>4, <1>5, <1>6, <1>7, <1>8 DEF StopStep

-----------------------------------------------------------------------------
\* Create.

\* Members and old containers are visited in an order without ties.
LEMMA OneAtATime ==
    ASSUME NEW r \in Roles, NEW s \in Roles
    PROVE  /\ InOrder(r, LaunchPos) /\ InOrder(s, LaunchPos) => r = s
           /\ InReverse(r, LaunchPos) /\ InReverse(s, LaunchPos) => r = s
           /\ InOrder(r, BindingPos) /\ InOrder(s, BindingPos) => r = s
BY DEF InOrder, InReverse

\* A steady step while no candidate exists or is on its way.
LEMMA Vacant ==
    ASSUME IInv, TypeOK', Steady, \A r \in Roles : ~Present(r),
           dep'.state # "none", Unrecorded', ctl'.pc # "launching", Quiesced',
           ctl'.pc \in BeforeLaunch =>
                \A r \in Selected : <<"restart_previous", r>> \notin late'
    PROVE  IInv'
<1>1. \A r \in Roles : ~Present(r)'
  BY DEF Steady
<1>2. Custody'
  BY <1>1 DEF IInv, Custody, Unlaunched, Held, Intended, Gone, NoOrphan, At
<1>3. Cutover'
  BY <1>1 DEF Cutover, Excluded, Cleared
<1> QED BY <1>2, <1>3 DEF IInv


\* What the invariant says of a create that has launched nothing yet.
LEMMA EarlyCreate ==
    ASSUME IInv, ctl.pc \in BeforeLaunch
    PROVE  /\ TypeOK /\ ctl \in Control /\ dep \in Deployment /\ dep.state # "none"
           /\ \A s \in Roles : ~Present(s)
           /\ \A s \in Selected : <<"restart_previous", s>> \notin late
           /\ ctl.pc # "journal" => journal.state # "none"
BY DEF IInv, TypeOK, Custody, Unlaunched, Unrecorded, Held, At, BeforeLaunch

LEMMA JournalInvariant ==
    ASSUME IInv, JournalPending
    PROVE  IInv'
<1>1. TypeOK' /\ ctl.pc = "journal"
  BY CreateType DEF IInv, CreateStep, JournalPending, At
<1>2. ctl.pc \in BeforeLaunch
  BY <1>1 DEF BeforeLaunch
<1>3. Persist([dep EXCEPT !.last = "journal"], Enter("pull", Roles), Goto("err"))
  BY DEF JournalPending
<1>4. [dep EXCEPT !.last = "journal"].state # "none"
  BY <1>2, EarlyCreate DEF Deployment
<1>5. Enter("pull", Roles).pc = "pull" /\ Goto("err").pc = "err"
  BY <1>2, EarlyCreate, EnterFields, GotoFields, ZenonT(40)
<1>6. /\ dep'.state # "none" /\ Steady /\ late' = late
      /\ ctl'.pc = "err" \/ (ctl'.pc = "pull" /\ journal'.state # "none")
      /\ journal'.state # "none" \/ journal' = journal
  BY <1>3, <1>4, <1>5, PersistFrame
<1>7. Unrecorded'
  BY <1>2, <1>6, EarlyCreate DEF IInv, Custody, Unrecorded, Steady
<1>8. Quiesced'
  BY <1>6 DEF Quiesced, At, Launching
<1> QED BY <1>1, <1>2, <1>6, <1>7, <1>8, EarlyCreate, Vacant

\* A durable write of a create that has launched nothing yet.
LEMMA EarlyPersist ==
    ASSUME IInv, TypeOK', ctl.pc \in BeforeLaunch \ {"journal"},
           NEW d, NEW good, NEW bad, Persist(d, good, bad), d.state # "none",
           good.pc # "launching", bad.pc \notin Special, ctl' = good => Quiesced'
    PROVE  IInv'
<1>1. /\ dep'.state # "none" /\ journal'.state # "none" /\ late' = late /\ Steady
      /\ ctl' = good \/ ctl' = bad
  BY EarlyCreate, PersistFrame DEF BeforeLaunch
<1>2. Quiesced' /\ ctl'.pc # "launching"
  BY <1>1 DEF Quiesced, At, Special, BeforeLaunch, Launching
<1> QED BY <1>1, <1>2, EarlyCreate, Vacant DEF Unrecorded

LEMMA EarlyRecords ==
    ASSUME dep \in Deployment, dep.state # "none", NEW action
    PROVE  /\ \A r \in Roles : \A status : [WithMember(r, status) EXCEPT !.last = action].state # "none"
           /\ \A r \in Roles : \A status : [WithPrevious(r, status) EXCEPT !.last = action].state # "none"
BY DEF Deployment, WithMember, WithPrevious

LEMMA PullInvariant ==
    ASSUME IInv, NEW r \in Roles, PullIntent(r) \/ Pull(r)
    PROVE  IInv'
<1>1. TypeOK' /\ ctl.pc \in {"pull", "pulling"}
  BY CreateType DEF IInv, CreateStep, PullIntent, Pull, At
<1>2. ctl.pc \in BeforeLaunch \ {"journal"}
  BY <1>1 DEF BeforeLaunch
<1> USE <1>2, EarlyCreate, EarlyRecords
<1>3. ToRollback.pc \notin Special
  BY PlainLater DEF Plain
<1>4. CASE PullIntent(r)
  <2>1. Goto("pulling").pc = "pulling"
    BY GotoFields
  <2>2. ctl' = Goto("pulling") => Quiesced'
    BY <2>1 DEF Quiesced, At, Launching
  <2>3. [WithMember(r, "pulling") EXCEPT !.last = "pull"].state # "none"
    OBVIOUS
  <2> QED BY <1>1, <1>3, <1>4, <2>1, <2>2, <2>3, EarlyPersist DEF PullIntent
<1>5. CASE Pull(r)
  <2> DEFINE next == Visit(ctl, r, "pull", AfterPulls)
  <2>1. \/ AfterPulls.pc = "launch" /\ Selected = {}
        \/ AfterPulls.pc = "stop_previous" /\ AfterPulls.todo = Selected
    <3>1. Enter("launch", Roles).pc = "launch"
      BY EnterFields
    <3>2. /\ Enter("stop_previous", Selected).pc = "stop_previous"
          /\ Enter("stop_previous", Selected).todo = Selected
      BY EnterFields, ZenonT(40)
    <3> QED BY <3>1, <3>2 DEF AfterPulls, ToLaunches
  <2>2. \/ next.pc = "pull"
        \/ next.pc = "launch" /\ Selected = {}
        \/ next.pc = "stop_previous" /\ next.todo = Selected
    BY <2>1, VisitFields
  <2>3. ctl' = next => Quiesced'
    BY <2>2 DEF Quiesced, At, Launching
  <2>4. [WithMember(r, "pulled") EXCEPT !.last = "pull"].state # "none"
    OBVIOUS
  <2>5. CASE Persist([WithMember(r, "pulled") EXCEPT !.last = "pull"], next, ToRollback)
    BY <1>1, <1>3, <2>2, <2>3, <2>4, <2>5, EarlyPersist
  <2>6. CASE Failed(ToRollback)
    <3>1. Operating /\ Keeps(dep)
      BY <1>2, DepKept DEF Operating, BeforeLaunch
    <3> QED BY <1>1, <1>3, <2>6, <3>1, OrdinaryLocal DEF Plain
  <2> QED BY <1>5, <2>5, <2>6 DEF Pull
<1> QED BY <1>4, <1>5

LEMMA StopPreviousInvariant ==
    ASSUME IInv, NEW r \in Selected,
           StopPreviousIntent(r) \/ StopPrevious(r) \/ StopPreviousDone(r)
    PROVE  IInv'
<1>1. /\ TypeOK' /\ InOrder(r, BindingPos)
      /\ ctl.pc \in {"stop_previous", "stopping_previous", "stopped_previous"}
  BY CreateType DEF IInv, CreateStep, StopPreviousIntent, StopPrevious, StopPreviousDone,
                    At, Calling
<1>2. ctl.pc \in BeforeLaunch \ {"journal"}
  BY <1>1 DEF BeforeLaunch
<1> USE <1>2, EarlyCreate, EarlyRecords
<1>3. ToRollback.pc \notin Special
  BY PlainLater DEF Plain
<1>4. \A s \in Selected : s \notin ctl.todo => Down(s)
  BY <1>1 DEF IInv, Cutover, Quiesced
<1>5. CASE StopPreviousIntent(r)
  <2>1. Goto("stopping_previous").pc = "stopping_previous"
        /\ Goto("stopping_previous").todo = ctl.todo
    BY GotoFields
  <2>2. ctl' = Goto("stopping_previous") => Quiesced'
    BY <1>4, <1>5, <2>1, PersistFrame
    DEF StopPreviousIntent, Steady, Quiesced, At, Launching
  <2>3. [WithPrevious(r, "stopping") EXCEPT !.last = "stop_previous"].state # "none"
    OBVIOUS
  <2> QED BY <1>1, <1>3, <1>5, <2>1, <2>2, <2>3, EarlyPersist DEF StopPreviousIntent
<1>6. CASE StopPrevious(r)
  <2>1. Call("stop_previous", r, dep, Goto("stopped_previous"), ToRollback)
    BY <1>6 DEF StopPrevious
  <2>2. Goto("stopped_previous").pc = "stopped_previous"
        /\ Goto("stopped_previous").todo = ctl.todo
    BY GotoFields
  <2>3. Steady /\ journal' = journal /\ dep' = dep
    BY <2>1, CallSteady, CallFrame DEF Effects, OnPrevious
  <2>4. \A s \in Selected : <<"restart_previous", s>> \notin late'
    <3>1. late' \subseteq late \cup {<<"stop_previous", r>>}
      BY <2>1 DEF Call, Apply, OnPrevious
    <3>2. ASSUME NEW s \in Selected
          PROVE  <<"restart_previous", s>> # <<"stop_previous", r>>
      OBVIOUS
    <3> QED BY <3>1, <3>2
  <2>5. \/ ctl' = ToRollback
        \/ ctl' = Goto("stopped_previous") /\ old'[r] # "running"
    BY <2>1, CallFrame, ApplyFrame DEF Effects, OnPrevious
  <2>6. Quiesced'
    <3>1. CASE ctl' = ToRollback
      BY <1>3, <3>1 DEF Quiesced, At, Special, BeforeLaunch, Launching
    <3>2. CASE ctl' = Goto("stopped_previous") /\ old'[r] # "running"
      <4>1. \A s \in Selected : s \notin ctl'.todo => Down(s)'
        BY <1>4, <2>2, <2>3, <3>2 DEF Steady
      <4>2. ASSUME NEW s \in Selected, InOrder(s, BindingPos)'
            PROVE  Down(s)'
        <5>1. InOrder(s, BindingPos)
          BY <2>2, <3>2, <4>2 DEF InOrder
        <5> QED BY <1>1, <2>4, <3>2, <5>1, OneAtATime DEF Down
      <4> QED BY <2>2, <3>2, <4>1, <4>2 DEF Quiesced, At, Launching
    <3> QED BY <2>5, <3>1, <3>2
  <2>7. Unrecorded' /\ ctl'.pc # "launching"
    BY <1>3, <2>2, <2>3, <2>5 DEF Unrecorded, Special, Launching
  <2> QED BY <1>1, <2>3, <2>4, <2>6, <2>7, Vacant
<1>7. CASE StopPreviousDone(r)
  <2> DEFINE next == Visit(ctl, r, "stop_previous", ToLaunches)
  <2>1. Down(r)
    <3>1. At("stopped_previous")
      BY <1>7 DEF StopPreviousDone
    <3> QED BY <1>1, <3>1 DEF IInv, Cutover, Quiesced
  <2>2. ToLaunches.pc = "launch"
    BY EnterFields DEF ToLaunches
  <2>3. \/ ctl.todo \subseteq {r} /\ next.pc = "launch"
        \/ next.pc = "stop_previous" /\ next.todo = ctl.todo \ {r}
    BY <2>2, VisitFields
  <2>4. [WithPrevious(r, "stopped") EXCEPT !.last = "stop_previous"].state # "none"
    OBVIOUS
  <2>5. Persist([WithPrevious(r, "stopped") EXCEPT !.last = "stop_previous"],
                next, ToRollback)
    BY <1>7 DEF StopPreviousDone
  <2>6. ctl' = next => Quiesced'
    <3>1. \A s \in Selected : s \notin ctl.todo \/ s = r => Down(s)'
      BY <1>4, <2>1, <2>5, PersistFrame DEF Steady
    <3> QED BY <2>3, <3>1 DEF Quiesced, At, Launching
  <2> QED BY <1>1, <1>3, <2>3, <2>4, <2>5, <2>6, EarlyPersist
<1> QED BY <1>5, <1>6, <1>7

LEMMA LaunchInvariant ==
    ASSUME IInv, NEW r \in Roles, LaunchIntent(r) \/ Launch(r) \/ LaunchDone(r)
    PROVE  IInv'
<1>1. TypeOK /\ TypeOK' /\ ctl \in Control /\ InOrder(r, LaunchPos) /\ ctl.pc \in Launching
  BY CreateType DEF IInv, TypeOK, CreateStep, LaunchIntent, Launch, LaunchDone, At, Calling,
                    Launching
<1>2. Operating /\ \A s \in Selected : Down(s)
  BY <1>1 DEF IInv, Cutover, Quiesced, Operating, Launching
<1>3. /\ ToRollback.pc \notin Special /\ Enter("readiness", {}).pc \notin Special
      /\ Goto("launching").pc = "launching" /\ Goto("launched").pc = "launched"
      /\ Goto("launching").todo = ctl.todo
  BY <1>1, PlainLater, PlainLabels, GotoFields DEF Plain
\* Only the cutover and the intent of the launch are left to show.
<1>4. ASSUME ctl'.pc \in Launching \/ ctl'.pc \notin Special,
             Unrecorded', Held', NoOrphan', Intended', \A s \in Selected : Down(s)'
      PROVE  IInv'
  BY <1>1, <1>4 DEF IInv, Custody, Cutover, Unlaunched, Gone, Excluded, Quiesced, Cleared, At,
     Special, BeforeLaunch, Launching, Removing, Restoring
<1>5. CASE LaunchIntent(r)
  <2> DEFINE d == [WithMember(r, "launching") EXCEPT !.last = "launch"]
  <2>1. Persist(d, Goto("launching"), ToRollback)
    BY <1>5 DEF LaunchIntent
  <2>2. Keeps(d) /\ MayExist(d.mem[r])
    <3>1. MayExist("launching")
      BY DEF MayExist
    <3>2. d.mem[r] = "launching"
      BY <1>1 DEF TypeOK, Deployment, WithMember
    <3> QED BY <1>2, <3>1, <3>2, MemberKept
  <2>3. /\ dep' = d /\ journal' \in {journal, d} /\ Steady
        /\ (ctl' = Goto("launching") /\ journal' = d) \/ ctl' = ToRollback
    BY <2>1, PersistFrame
  <2>4. Unrecorded' /\ Held' /\ NoOrphan'
    BY <1>2, <2>2, <2>3, Bookkeeping DEF Keeps
  <2>5. Intended'
    <3> SUFFICES ASSUME At("launching")', NEW s \in Roles, InOrder(s, LaunchPos)'
                 PROVE  MayExist(dep'.mem[s]) /\ MayExist(journal'.mem[s])
      BY DEF Intended, MayExist
    <3>1. ctl' = Goto("launching") /\ journal' = d
      BY <1>3, <2>3 DEF At, Special, Launching
    <3>2. InOrder(s, LaunchPos)
      BY <1>3, <3>1 DEF InOrder
    <3>3. s = r
      BY <1>1, <3>2, OneAtATime
    <3> QED BY <2>2, <2>3, <3>1, <3>3
  <2> QED BY <1>2, <1>3, <1>4, <2>3, <2>4, <2>5 DEF Steady, Launching
<1>6. CASE Launch(r)
  <2>1. Call("launch", r, dep, Goto("launched"), ToRollback) /\ At("launching")
    BY <1>6 DEF Launch, Calling
  <2>2. /\ journal' = journal /\ dep' = dep /\ ctl' \in {Goto("launched"), ToRollback}
        /\ \A s \in Roles : Present(s)' => Present(s) \/ s = r
        /\ \A s \in Selected : Down(s)'
    BY <1>1, <1>2, <2>1, CallFrame DEF Effects
  <2>3. MayExist(dep.mem[r]) /\ MayExist(journal.mem[r])
    BY <1>1, <2>1 DEF IInv, Custody, Intended
  <2>4. journal.state # "none" /\ dep.state # "none"
    BY <1>2, <2>1 DEF IInv, Custody, Unrecorded, Held, Operating, At
  <2>5. Held'
    BY <1>2, <2>2, <2>3, <2>4 DEF IInv, Custody, Held, At, Operating, MayExist
  <2>6. NoOrphan'
    BY <2>2, <2>3, <2>4 DEF IInv, Custody, NoOrphan, MayExist
  <2>7. Unrecorded' /\ Intended'
    BY <1>3, <2>2, <2>4 DEF Unrecorded, Intended, At, Special, Launching
  <2> QED BY <1>3, <1>4, <2>2, <2>5, <2>6, <2>7 DEF Launching
<1>7. CASE LaunchDone(r)
  <2> DEFINE d == [WithMember(r, "created") EXCEPT !.last = "launch"]
             onward == Visit(ctl, r, "launch", Enter("readiness", {}))
  <2>1. PICK next \in {onward, ToRollback} : Persist(d, next, ToRollback)
    BY <1>7 DEF LaunchDone
  <2>2. Keeps(d)
    <3>1. MayExist("created")
      BY DEF MayExist
    <3> QED BY <1>2, <3>1, MemberKept
  <2>3. onward.pc = "launch" \/ onward.pc \notin Special
    BY <1>1, <1>3, VisitFields
  <2>4. /\ dep' = d /\ journal' \in {journal, d} /\ Steady /\ ctl' \in {onward, ToRollback}
    BY <2>1, PersistFrame
  <2>5. Unrecorded' /\ Held' /\ NoOrphan'
    BY <1>2, <2>2, <2>4, Bookkeeping DEF Keeps
  <2>6. ctl'.pc = "launch" \/ ctl'.pc \notin Special
    BY <1>3, <2>3, <2>4
  <2>7. Intended'
    BY <2>6 DEF Intended, At, Special, Launching
  <2> QED BY <1>2, <1>4, <2>4, <2>5, <2>6, <2>7 DEF Steady, Launching
<1> QED BY <1>5, <1>6, <1>7

LEMMA CreateInvariant ==
    ASSUME IInv, CreateStep
    PROVE  IInv'
BY JournalInvariant, PullInvariant, StopPreviousInvariant, LaunchInvariant DEF CreateStep

-----------------------------------------------------------------------------
\* Rollback.

\* A steady step of a rollback: what it writes still accounts for every
\* candidate, and what it concludes about them is true.
LEMMA Rolling ==
    ASSUME IInv, TypeOK', Steady, Operating, dep'.state # "none",
           journal' \in {journal, dep'},
           \A r \in Roles : Present(r) => MayExist(dep'.mem[r]),
           ctl'.pc \notin BeforeLaunch \cup Launching \cup {"idle"}, Gone', Cleared'
    PROVE  IInv'
<1>1. \A r \in Roles : Present(r)' => Present(r)
  BY DEF Steady
<1>2. journal.state # "none" /\ journal'.state # "none"
  BY DEF IInv, Custody, Unrecorded, Operating
<1>3. Held' /\ NoOrphan'
  BY <1>1, <1>2 DEF IInv, Custody, Held, NoOrphan, MayExist
<1>4. Unrecorded' /\ Unlaunched' /\ Intended'
  BY <1>2 DEF Unrecorded, Unlaunched, Intended, At, Launching
<1>5. Excluded' /\ Quiesced'
  BY DEF IInv, Cutover, Excluded, Steady, Quiesced, At, BeforeLaunch
<1> QED BY <1>3, <1>4, <1>5 DEF IInv, Custody, Cutover

\* Where the loop over the candidates goes on.
LEMMA AfterRemovalsFields ==
    ASSUME NEW c \in Control
    PROVE  \/ c.safe /\ AfterRemovals(c).pc = "restore"
           \/ AfterRemovals(c).pc = "rollback_result"
BY DEF AfterRemovals, Control

LEMMA NextRemovalFields ==
    ASSUME NEW c \in Control, NEW r \in Roles
    PROVE  \/ c.safe /\ c.todo \subseteq {r} /\ NextRemoval(c, r).pc = "restore"
           \/ NextRemoval(c, r).pc = "rollback_result"
           \/ /\ NextRemoval(c, r).pc = "remove" /\ NextRemoval(c, r).safe = c.safe
              /\ NextRemoval(c, r).todo = c.todo \ {r}
BY VisitFields, AfterRemovalsFields DEF NextRemoval

\* Once a removal has failed nothing more is concluded.
LEMMA UnsafeClears ==
    ASSUME TypeOK, NEW r \in Roles, ctl' = NextRemoval(Unsafe, r)
    PROVE  Cleared' /\ Gone' /\ ctl'.pc \notin BeforeLaunch \cup Launching \cup {"idle"}
<1>1. Unsafe \in Control /\ ~Unsafe.safe
  BY ErringType DEF Unsafe, TypeOK, Control
<1>2. ctl'.pc = "rollback_result" \/ (ctl'.pc = "remove" /\ ~ctl'.safe)
  BY <1>1, NextRemovalFields
<1> QED BY <1>2 DEF Cleared, Gone, At, Removing, Restoring, BeforeLaunch, Launching

LEMMA RemovalInvariant ==
    ASSUME IInv, NEW r \in Roles, RemovalIntent(r) \/ RemoveCandidate(r) \/ RemovalDone(r)
    PROVE  IInv'
<1>1. /\ TypeOK /\ TypeOK' /\ ctl \in Control /\ InReverse(r, LaunchPos)
      /\ ctl.pc \in Removing
  BY RollbackType DEF IInv, TypeOK, RollbackStep, RemovalIntent, RemoveCandidate,
                      RemovalDone, At, Calling, Removing
<1>2. ctl.safe => \A s \in Roles : s \notin ctl.todo => ~Present(s)
  BY <1>1 DEF IInv, Cutover, Cleared
<1>3. Operating
  BY <1>1 DEF Operating, Removing
<1>4. /\ dep.state # "none" /\ dep \in Deployment
      /\ \A s \in Roles : Present(s) => MayExist(dep.mem[s])
  BY <1>1, <1>3 DEF IInv, TypeOK, Custody, Held, At, Operating
<1>5. /\ Goto("removing").pc = "removing" /\ Goto("removed").pc = "removed"
      /\ \A label \in Steps : /\ Goto(label).todo = ctl.todo
                              /\ Goto(label).safe = ctl.safe
  BY <1>1, GotoFields
<1>6. CASE RemovalIntent(r)
  <2>1. CASE ~ctl.safe /\ Step(dep, AfterRemovals(ctl))
    <3>1. AfterRemovals(ctl).pc = "rollback_result"
      BY <1>1, <2>1, AfterRemovalsFields
    <3>2. Plain(AfterRemovals(ctl))
      BY <3>1, PlainLabels DEF Plain
    <3> QED BY <1>1, <1>3, <2>1, <3>2, DepKept, OrdinaryLocal
  <2>2. CASE Persist(WithMember(r, "removing"), Goto("removing"), NextRemoval(Unsafe, r))
    <3>1. /\ dep' = WithMember(r, "removing") /\ journal' \in {journal, dep'} /\ Steady
          /\ ctl' = Goto("removing") \/ ctl' = NextRemoval(Unsafe, r)
      BY <2>2, PersistFrame
    <3>2. Keeps(WithMember(r, "removing"))
      BY <1>3, MayExistStatuses, MemberKept
    <3>3. dep'.state # "none" /\ \A s \in Roles : Present(s) => MayExist(dep'.mem[s])
      BY <1>4, <3>1, <3>2 DEF Keeps
    <3>4. CASE ctl' = Goto("removing")
      <4>1. Cleared' /\ Gone'
        BY <1>2, <1>3, <1>5, <3>1, <3>4 DEF Cleared, Gone, At, Steady, Restoring
      <4>2. ctl'.pc \notin BeforeLaunch \cup Launching \cup {"idle"}
        BY <1>5, <3>4 DEF BeforeLaunch, Launching
      <4> QED BY <1>1, <1>3, <3>1, <3>3, <4>1, <4>2, Rolling
    <3>5. CASE ctl' = NextRemoval(Unsafe, r)
      BY <1>1, <1>3, <3>1, <3>3, <3>5, UnsafeClears, Rolling
    <3> QED BY <3>1, <3>4, <3>5
  <2> QED BY <1>6, <2>1, <2>2 DEF RemovalIntent
<1>7. CASE RemoveCandidate(r)
  <2>1. Call("remove", r, dep, Goto("removed"), NextRemoval(Unsafe, r))
    BY <1>7 DEF RemoveCandidate
  <2>2. Steady /\ journal' = journal /\ dep' = dep
    BY <1>1, <2>1, CallSteady, CallFrame DEF Effects
  <2>3. \/ BarrierOpen("remove", r) /\ Apply("remove", r) /\ ctl' = Goto("removed")
        \/ ctl' = NextRemoval(Unsafe, r)
    BY <1>1, <2>1, CallFrame DEF Effects
  <2>4. CASE BarrierOpen("remove", r) /\ Apply("remove", r) /\ ctl' = Goto("removed")
    <3>1. ~Present(r)'
      <4>1. cand'[r] = "absent"
        BY <1>1, <2>4, ApplyFrame DEF Effects
      <4>2. <<"launch", r>> \notin late'
        BY <2>4 DEF BarrierOpen, Apply, OnPrevious
      <4> QED BY <4>1, <4>2 DEF Present
    <3>2. Gone'
      <4> SUFFICES ASSUME NEW s \in Roles, InReverse(s, LaunchPos)'
                   PROVE  ~Present(s)'
        BY DEF Gone
      <4>1. InReverse(s, LaunchPos)
        BY <1>5, <2>4 DEF InReverse
      <4> QED BY <1>1, <3>1, <4>1, OneAtATime
    <3>3. Cleared'
      BY <1>2, <1>3, <1>5, <2>2, <2>4 DEF Cleared, Steady, Restoring
    <3>4. ctl'.pc \notin BeforeLaunch \cup Launching \cup {"idle"}
      BY <1>5, <2>4 DEF BeforeLaunch, Launching
    <3> QED BY <1>1, <1>3, <1>4, <2>2, <3>2, <3>3, <3>4, Rolling
  <2>5. CASE ctl' = NextRemoval(Unsafe, r)
    BY <1>1, <1>3, <1>4, <2>2, <2>5, UnsafeClears, Rolling
  <2> QED BY <2>3, <2>4, <2>5
<1>8. CASE RemovalDone(r)
  <2>1. Persist(WithMember(r, "removed"), NextRemoval(ctl, r), NextRemoval(Erring, r))
    BY <1>8 DEF RemovalDone
  <2>2. ~Present(r)
    BY <1>1, <1>8 DEF RemovalDone, IInv, Custody, Gone
  <2>3. /\ dep' = WithMember(r, "removed") /\ journal' \in {journal, dep'} /\ Steady
        /\ ctl' \in {NextRemoval(ctl, r), NextRemoval(Erring, r)}
    BY <2>1, PersistFrame
  <2>4. dep'.state # "none" /\ \A s \in Roles : Present(s) => MayExist(dep'.mem[s])
    BY <1>4, <2>2, <2>3 DEF WithMember, Deployment
  <2>5. Erring \in Control /\ Erring.safe = ctl.safe /\ Erring.todo = ctl.todo
    BY <1>1, ErringType DEF Erring, Control
  <2>6. \/ ctl.safe /\ ctl.todo \subseteq {r} /\ ctl'.pc = "restore"
        \/ ctl'.pc = "rollback_result"
        \/ ctl'.pc = "remove" /\ ctl'.safe = ctl.safe /\ ctl'.todo = ctl.todo \ {r}
    BY <1>1, <2>3, <2>5, NextRemovalFields
  <2>7. ctl.safe => \A s \in Roles : s \notin ctl.todo \ {r} => ~Present(s)'
    BY <1>2, <1>3, <2>2, <2>3 DEF Steady
  <2>8. Cleared' /\ Gone'
    BY <2>6, <2>7 DEF Cleared, Gone, At, Removing, Restoring
  <2>9. ctl'.pc \notin BeforeLaunch \cup Launching \cup {"idle"}
    BY <2>6 DEF BeforeLaunch, Launching
  <2> QED BY <1>1, <1>3, <2>3, <2>4, <2>8, <2>9, Rolling
<1> QED BY <1>6, <1>7, <1>8

\* Restoring old containers starts only without candidates and makes none.
LEMMA NextRestoreFields ==
    ASSUME NEW c \in Control, NEW r \in Roles
    PROVE  NextRestore(c, r).pc \in {"restore", "rollback_result"}
<1> DEFINE result == [c EXCEPT !.pc = "rollback_result"]
<1>1. result.pc = "rollback_result" /\ result \in Control
  BY DEF Control
<1>2. ASSUME NEW e \in Control
      PROVE  [e EXCEPT !.todo = {}].pc = e.pc
  BY DEF Control
<1>3. [c EXCEPT !.pc = "rollback_result", !.todo = {}].pc = "rollback_result"
  BY <1>1, <1>2
<1>4. ASSUME NEW exit, exit.pc = "rollback_result"
      PROVE  Visit(c, r, "restore", exit).pc \in {"restore", "rollback_result"}
  BY <1>4, VisitFields
<1> QED BY <1>3, <1>4 DEF NextRestore

LEMMA RestoreSteady ==
    ASSUME IInv, TypeOK', Steady, ctl.pc \in Restoring, Keeps(dep'),
           journal' \in {journal, dep'}, ctl'.pc \in Restoring \cup {"rollback_result"}
    PROVE  IInv'
<1>1. \A r \in Roles : ~Present(r) /\ ~Present(r)'
  BY DEF IInv, Cutover, Cleared, Steady
<1>2. Operating
  BY DEF Operating, Restoring
<1>3. Cleared' /\ Gone'
  BY <1>1 DEF Cleared, Gone
<1>4. ctl'.pc \notin BeforeLaunch \cup Launching \cup {"idle"}
  BY DEF Restoring, BeforeLaunch, Launching
<1> QED BY <1>1, <1>2, <1>3, <1>4, Rolling DEF Keeps

LEMMA RestoreInvariant ==
    ASSUME IInv, NEW r \in Selected,
           \/ RestoreIntent(r) \/ InspectPrevious(r) \/ RestartPrevious(r)
           \/ RestartAudit(r) \/ WaitRunning(r)
    PROVE  IInv'
<1>1. /\ TypeOK /\ TypeOK' /\ ctl \in Control /\ ctl.pc \in Restoring
  BY RollbackType DEF IInv, TypeOK, RollbackStep, RestoreIntent, InspectPrevious,
                      RestartPrevious, RestartAudit, WaitRunning, At, Calling, Restoring
<1>2. Operating
  BY <1>1 DEF Operating, Restoring
<1>3. Keeps(dep) /\ \A status : Keeps(WithPrevious(r, status))
  BY <1>2, DepKept, PreviousKept
<1>4. \A label \in Restoring : Goto(label).pc = label
  BY <1>1, GotoFields DEF Restoring
<1>5. /\ NextRestore(ctl, r).pc \in Restoring \cup {"rollback_result"}
      /\ NextRestore(Erring, r).pc \in Restoring \cup {"rollback_result"}
  BY <1>1, ErringType, NextRestoreFields DEF Restoring
<1>6. [Goto("inspect_previous") EXCEPT !.seen = dep.prev[r]].pc = "inspect_previous"
  BY <1>1, GotoFields, GotoType DEF Control
\* Durable writes and local decisions are steady.
<1>7. ASSUME NEW d, Keeps(d), NEW good, NEW bad, Persist(d, good, bad),
             good.pc \in Restoring \cup {"rollback_result"},
             bad.pc \in Restoring \cup {"rollback_result"}
      PROVE  IInv'
  BY <1>1, <1>7, PersistFrame, RestoreSteady
<1>8. ASSUME NEW c, Step(dep, c) \/ Failed(c), c.pc \in Restoring \cup {"rollback_result"}
      PROVE  IInv'
  BY <1>1, <1>3, <1>8, LocalFrame, RestoreSteady
<1>9. CASE RestoreIntent(r)
  <2>1. [Goto("inspect_previous") EXCEPT !.seen = dep.prev[r]].pc \in Restoring
    BY <1>6 DEF Restoring
  <2> QED BY <1>3, <1>5, <1>7, <1>9, <2>1 DEF RestoreIntent
<1>10. CASE InspectPrevious(r)
  BY <1>4, <1>5, <1>8, <1>10 DEF InspectPrevious, Restoring
<1>11. CASE RestartPrevious(r)
  <2>1. Call("restart_previous", r, dep, Goto("restarted_previous"), NextRestore(Erring, r))
    BY <1>11 DEF RestartPrevious
  <2>2. /\ journal' = journal /\ dep' = dep
        /\ \A s \in Roles : Present(s)' => Present(s)
        /\ ctl' \in {Goto("restarted_previous"), NextRestore(Erring, r)}
    BY <1>1, <2>1, CallFrame DEF Effects, OnPrevious
  <2>3. \A s \in Roles : ~Present(s)'
    BY <1>1, <2>2 DEF IInv, Cutover, Cleared
  <2>4. ctl'.pc \in Restoring \cup {"rollback_result"}
    BY <1>4, <1>5, <2>2 DEF Restoring
  <2>5. journal.state # "none" /\ dep.state # "none"
    BY <1>2 DEF IInv, Custody, Unrecorded, Held, At, Operating
  <2>6. Custody'
    BY <2>2, <2>3, <2>4, <2>5
    DEF Custody, Unrecorded, Unlaunched, Held, Intended, Gone, NoOrphan, At, Restoring,
        BeforeLaunch
  <2>7. Cutover'
    BY <2>3, <2>4 DEF Cutover, Excluded, Quiesced, Cleared, At, Restoring, Launching
  <2> QED BY <1>1, <2>6, <2>7 DEF IInv
<1>12. CASE RestartAudit(r)
  BY <1>3, <1>4, <1>5, <1>7, <1>12 DEF RestartAudit, Restoring
<1>13. CASE WaitRunning(r)
  BY <1>3, <1>5, <1>7, <1>8, <1>13 DEF WaitRunning
<1> QED BY <1>9, <1>10, <1>11, <1>12, <1>13

LEMMA RollbackIntentInvariant ==
    ASSUME IInv, RollbackIntent
    PROVE  IInv'
<1> DEFINE remaining == {r \in Roles : MayExist(dep.mem[r])}
           start == Enter("remove", remaining)
           next == IF remaining = {} THEN AfterRemovals(start) ELSE start
           d == [dep EXCEPT !.state = "rollback_failed", !.last = "rollback"]
<1>1. TypeOK /\ TypeOK' /\ Operating
  BY RollbackType DEF IInv, RollbackStep, RollbackIntent, At, Operating
<1>2. \A r \in Roles : Present(r) => MayExist(dep.mem[r])
  BY <1>1 DEF IInv, Custody, Held, At, Operating
<1>3. Persist(d, next, Goto("err"))
  BY DEF RollbackIntent
<1>4. Keeps(d)
  BY <1>1, StateKept DEF States, Lifecycle
<1>5. /\ dep' = d /\ journal' \in {journal, dep'} /\ Steady
      /\ ctl' = next \/ ctl' = Goto("err")
  <2> HIDE DEF d, next
  <2> QED BY <1>3, PersistFrame
<1>6. start \in Control /\ start.pc = "remove" /\ start.todo = remaining
  <2>1. remaining \in SUBSET Roles
    OBVIOUS
  <2> HIDE DEF remaining
  <2> QED BY <1>1, <2>1, EnterType, EnterFields
<1>7. CASE ctl' = start
  <2>1. \A r \in Roles : r \notin ctl'.todo => ~Present(r)'
    BY <1>2, <1>5, <1>6, <1>7 DEF Steady
  <2>2. Cleared' /\ Gone' /\ ctl'.pc \notin BeforeLaunch \cup Launching \cup {"idle"}
    BY <1>6, <1>7, <2>1 DEF Cleared, Gone, At, Restoring, BeforeLaunch, Launching
  <2> QED BY <1>1, <1>2, <1>4, <1>5, <2>2, Rolling DEF Keeps
<1>8. CASE ctl' = AfterRemovals(start) /\ remaining = {}
  <2>1. \A r \in Roles : ~Present(r)'
    BY <1>2, <1>5, <1>8 DEF Steady
  <2>2. ctl'.pc \in {"restore", "rollback_result"}
    BY <1>6, <1>8, AfterRemovalsFields
  <2>3. Cleared' /\ Gone' /\ ctl'.pc \notin BeforeLaunch \cup Launching \cup {"idle"}
    BY <2>1, <2>2 DEF Cleared, Gone, BeforeLaunch, Launching
  <2> QED BY <1>1, <1>2, <1>4, <1>5, <2>3, Rolling DEF Keeps
<1>9. CASE ctl' = Goto("err")
  <2>1. ctl'.pc \notin Special
    BY <1>1, <1>9, PlainLabels, GotoFields
  <2> QED BY <1>1, <1>4, <1>5, <2>1, Ordinary DEF Keeps
<1> QED BY <1>5, <1>7, <1>8, <1>9

LEMMA RollbackResultInvariant ==
    ASSUME IInv, RollbackResult
    PROVE  IInv'
<1>1. TypeOK /\ TypeOK' /\ Operating /\ dep \in Deployment
  BY RollbackType DEF IInv, TypeOK, RollbackStep, RollbackResult, At, Operating
<1>2. Plain(Goto("err")) /\ Plain(Goto("ok"))
  BY <1>1, PlainLabels, PlainLater
<1>3. Keeps([dep EXCEPT !.state = "rollback_failed", !.last = "rollback"])
  BY <1>1, StateKept DEF States, Lifecycle
<1>4. Keeps([dep EXCEPT !.state = "rolled_back", !.last = "rollback", !.mem = Swept(@)])
  <2> DEFINE d == [dep EXCEPT !.state = "rolled_back", !.last = "rollback",
                              !.mem = Swept(dep.mem)]
  <2>1. d.state = "rolled_back" /\ d.mem = Swept(dep.mem)
    BY <1>1 DEF Deployment
  <2>2. \A r \in Roles : MayExist(dep.mem[r]) => MayExist(Swept(dep.mem)[r])
    BY DEF Swept, MayExist
  <2> QED BY <2>1, <2>2 DEF Keeps
<1>5. CASE ctl.errs
  BY <1>1, <1>2, <1>3, <1>5, OrdinaryPersist DEF RollbackResult
<1>6. CASE ~ctl.errs
  BY <1>1, <1>2, <1>4, <1>6, OrdinaryPersist DEF RollbackResult
<1> QED BY <1>5, <1>6

LEMMA RollbackInvariant ==
    ASSUME IInv, RollbackStep
    PROVE  IInv'
BY RollbackIntentInvariant, RemovalInvariant, RestoreInvariant, RollbackResultInvariant
DEF RollbackStep

-----------------------------------------------------------------------------
\* Steps that leave the record and the operation alone, and steps that end it.

\* Containers change by themselves, but none comes back.
LEMMA Ambient ==
    ASSUME IInv, TypeOK', Steady, UNCHANGED <<journal, dep, ctl>>, late' \subseteq late
    PROVE  IInv'
<1>1. \A r \in Roles : Present(r)' => Present(r)
  BY DEF Steady
<1>2. \A r \in Selected : Down(r) => Down(r)'
  BY DEF Steady
<1>3. Unrecorded' /\ Unlaunched' /\ Held' /\ Intended' /\ Gone' /\ NoOrphan'
  BY <1>1 DEF IInv, Custody, Unrecorded, Unlaunched, Held, Intended, Gone, NoOrphan, At,
              InOrder, InReverse, MayExist
<1>4. Excluded' /\ Cleared'
  BY <1>1, <1>2 DEF IInv, Cutover, Excluded, Cleared
<1>5. Quiesced'
  BY <1>2 DEF IInv, Cutover, Quiesced, At, InOrder
<1> QED BY <1>3, <1>4, <1>5 DEF IInv, Custody, Cutover

LEMMA Stuttering ==
    ASSUME IInv, TypeOK', UNCHANGED <<journal, dep, ctl, cand, old, late>>
    PROVE  IInv'
BY Ambient DEF Steady, Present, Down

\* The operation is over; what is durable still accounts for every candidate.
LEMMA Interrupted ==
    ASSUME IInv, TypeOK', UNCHANGED journal, ctl'.pc = "idle",
           journal.state = "none" => late' = {} /\ \A r \in Roles : ~Present(r)',
           NoOrphan', Excluded'
    PROVE  IInv'
<1>1. Unrecorded' /\ Unlaunched' /\ Held' /\ Intended' /\ Gone'
  BY DEF Unrecorded, Unlaunched, Held, Intended, Gone, At, BeforeLaunch
<1>2. Quiesced' /\ Cleared'
  BY DEF Quiesced, Cleared, At, Launching, Removing, Restoring
<1> QED BY <1>1, <1>2 DEF IInv, Custody, Cutover

\* The call an agent is carrying out when the daemon dies was covered by the
\* journal before it was made.
LEMMA CrashInvariant ==
    ASSUME IInv, Crash
    PROVE  IInv'
<1>1. /\ UNCHANGED <<journal, cand, old>> /\ ctl' = Idle /\ late' \subseteq late \cup InFlight
      /\ late' = late \/ late' = late \cup InFlight
  BY DEF Crash
<1>2. TypeOK /\ TypeOK' /\ ctl'.pc = "idle"
  BY <1>1, EnvironmentType DEF IInv, Environment, Idle
<1>3. \A s \in Roles : Present(s)' =>
          Present(s) \/ (At("launching") /\ InOrder(s, LaunchPos))
  BY <1>1 DEF Present, InFlight, Calling, At
<1>4. \A s \in Selected : Down(s) => Down(s)' \/ At("restart_previous")
  BY <1>1 DEF Down, InFlight, Calling, At
<1>5. journal.state = "none" => late' = {} /\ \A r \in Roles : ~Present(r)'
  <2> SUFFICES ASSUME journal.state = "none"
               PROVE  late' = {} /\ \A r \in Roles : ~Present(r)'
    OBVIOUS
  <2>1. late = {} /\ ctl.pc \in {"idle", "journal", "err"} /\ \A r \in Roles : ~Present(r)
    BY DEF IInv, Custody, Unrecorded
  <2>2. InFlight = {}
    BY <2>1 DEF InFlight, Calling, At
  <2> QED BY <1>1, <1>3, <2>1, <2>2 DEF At
<1>6. NoOrphan'
  <2> SUFFICES ASSUME NEW s \in Roles, Present(s)'
               PROVE  journal.state # "none" /\ MayExist(journal.mem[s])
    BY <1>1 DEF NoOrphan, MayExist
  <2>1. CASE Present(s)
    BY <2>1 DEF IInv, Custody, NoOrphan
  <2>2. CASE At("launching") /\ InOrder(s, LaunchPos)
    BY <1>5, <2>2 DEF IInv, Custody, Intended
  <2> QED BY <1>3, <2>1, <2>2
<1>7. Excluded'
  <2>1. CASE At("launching")
    <3>1. \A s \in Selected : Down(s)'
      BY <1>4, <2>1 DEF IInv, Cutover, Quiesced, At, Launching
    <3> QED BY <3>1 DEF Excluded
  <2>2. CASE At("restart_previous")
    <3>1. \A s \in Roles : ~Present(s)'
      BY <1>3, <2>2 DEF IInv, Cutover, Cleared, At, Restoring
    <3> QED BY <3>1 DEF Excluded
  <2>3. CASE ~At("launching") /\ ~At("restart_previous")
    BY <1>3, <1>4, <2>3 DEF IInv, Cutover, Excluded
  <2> QED BY <2>1, <2>2, <2>3
<1> QED BY <1>1, <1>2, <1>5, <1>6, <1>7, Interrupted

-----------------------------------------------------------------------------
\* Requests, the reconciliation loop and answers.

\* An operation on an existing record starts from what is durable.
LEMMA Begun ==
    ASSUME IInv, TypeOK', At("idle"), journal.state # "none", NEW c, Plain(c),
           Step(journal, c)
    PROVE  IInv'
<1>1. dep' = journal /\ journal' = journal /\ ctl' = c /\ late' = late /\ Steady
  BY LocalFrame
<1>2. ctl'.pc \notin Special
  BY <1>1 DEF Plain
<1>3. Held' /\ NoOrphan' /\ Unrecorded'
  BY <1>1 DEF IInv, Custody, Held, NoOrphan, Unrecorded, Steady, MayExist
<1>4. Unlaunched' /\ Intended' /\ Gone'
  BY <1>2 DEF Unlaunched, Intended, Gone, At, Special, Launching, Removing
<1>5. Excluded' /\ Quiesced' /\ Cleared'
  BY <1>1, <1>2 DEF IInv, Cutover, Excluded, Steady, Quiesced, Cleared, At, Special,
                    BeforeLaunch
<1> QED BY <1>3, <1>4, <1>5 DEF IInv, Custody, Cutover

LEMMA BeginPlain ==
    ASSUME NEW op \in Ops
    PROVE  /\ \A label \in Steps \ Special : Plain([Idle EXCEPT !.op = op, !.pc = label])
           /\ \A label \in Steps \ Special :
                Plain([Idle EXCEPT !.op = op, !.pc = label, !.todo = Roles])
           /\ Plain(Recovering(op))
<1>1. \A label : [Idle EXCEPT !.op = op, !.pc = label].pc = label
  BY DEF Idle
<1>2. \A label : [Idle EXCEPT !.op = op, !.pc = label, !.todo = Roles].pc = label
  BY DEF Idle
<1>3. \A label : [[Idle EXCEPT !.op = op] EXCEPT !.pc = label].pc = label
  BY DEF Idle
<1>4. \A label : [[Idle EXCEPT !.op = op] EXCEPT !.pc = label, !.todo = Roles].pc = label
  BY DEF Idle
<1>5. Recovering(op).pc \in {"fail_start", "stop_group", "rollback"}
  BY <1>3, <1>4 DEF Recovering
<1>6. {"fail_start", "stop_group", "rollback"} \cap Special = {}
  BY DEF Special, BeforeLaunch, Launching, Removing, Restoring
<1> QED BY <1>1, <1>2, <1>5, <1>6 DEF Plain

LEMMA BeginCreateInvariant ==
    ASSUME IInv, BeginCreate
    PROVE  IInv'
<1> DEFINE d == [Blank EXCEPT !.state = "pending", !.prev = old]
           c == [Idle EXCEPT !.op = "create", !.pc = "journal"]
<1>1. TypeOK'
  BY RequestType DEF IInv, Request, BeginCreate
<1>2. late = {} /\ \A r \in Roles : ~Present(r)
  BY DEF IInv, Custody, Unrecorded, BeginCreate
<1>3. d.state = "pending" /\ c.pc = "journal"
  BY DEF Blank, Idle
<1>4. /\ dep' = d /\ journal' = journal /\ ctl' = c /\ late' = late /\ Steady
  <2> HIDE DEF d, c
  <2>1. Step(d, c)
    BY DEF BeginCreate, d, c
  <2> QED BY <2>1, LocalFrame
<1>5. Unrecorded' /\ Quiesced'
  BY <1>2, <1>3, <1>4 DEF Unrecorded, Quiesced, At, Launching, Steady
<1> HIDE DEF d, c
<1> QED BY <1>1, <1>2, <1>3, <1>4, <1>5, Vacant

LEMMA RequestInvariant ==
    ASSUME IInv, Request \/ Reconciliation \/ Answer
    PROVE  IInv'
<1>1. TypeOK'
  BY RequestType DEF IInv
<1>2. {"verify", "start_group", "stop_group", "rollback"} \subseteq Steps \ Special
  BY DEF Special, BeforeLaunch, Launching, Removing, Restoring
<1>3. {"start", "stop", "rollback", "reconcile", "replay"} \subseteq Ops
  BY DEF Ops
<1>4. CASE BeginStart
  <2>1. /\ Plain([Idle EXCEPT !.op = "start", !.pc = "verify", !.todo = Roles])
        /\ Plain([Idle EXCEPT !.op = "start", !.pc = "start_group"])
    BY <1>2, <1>3, BeginPlain
  <2> QED BY <1>1, <1>4, <2>1, Begun DEF BeginStart
<1>5. CASE BeginStop
  <2>1. Plain([Idle EXCEPT !.op = "stop", !.pc = "stop_group"])
    BY <1>2, <1>3, BeginPlain
  <2> QED BY <1>1, <1>5, <2>1, Begun DEF BeginStop
<1>6. CASE BeginRollback
  <2>1. Plain([Idle EXCEPT !.op = "rollback", !.pc = "rollback"])
    BY <1>2, <1>3, BeginPlain
  <2> QED BY <1>1, <1>6, <2>1, Begun DEF BeginRollback
<1>7. CASE BeginReplay \/ BeginReconcile
  <2>1. Plain(Recovering("replay")) /\ Plain(Recovering("reconcile"))
    BY <1>3, BeginPlain
  <2> QED BY <1>1, <1>7, <2>1, Begun DEF BeginReplay, BeginReconcile, Retryable, Unfinished
<1>8. CASE NothingToReconcile
  <2>1. UNCHANGED <<journal, dep, ctl, cand, old, late>>
    BY <1>8 DEF NothingToReconcile, containers
  <2> QED BY <1>1, <2>1, Stuttering
<1>9. CASE Answer
  <2>1. UNCHANGED <<journal, cand, old, late>> /\ ctl'.pc = "idle"
    BY <1>9 DEF Answer, containers, Idle
  <2>2. /\ \A r \in Roles : Present(r)' <=> Present(r)
        /\ \A r \in Selected : Down(r)' <=> Down(r)
    BY <2>1 DEF Present, Down
  <2>3. NoOrphan' /\ Excluded'
    BY <2>1, <2>2 DEF IInv, Custody, Cutover, NoOrphan, Excluded, MayExist
  <2>4. journal.state = "none" => late' = {} /\ \A r \in Roles : ~Present(r)'
    BY <2>1, <2>2 DEF IInv, Custody, Unrecorded
  <2> QED BY <1>1, <2>1, <2>3, <2>4, Interrupted
<1> QED BY <1>4, <1>5, <1>6, <1>7, <1>8, <1>9, BeginCreateInvariant
        DEF Request, Reconciliation

-----------------------------------------------------------------------------
\* The environment.

LEMMA EnvironmentInvariant ==
    ASSUME IInv, Environment
    PROVE  IInv'
<1>1. TypeOK /\ TypeOK'
  BY EnvironmentType DEF IInv
<1>2. ASSUME Steady, UNCHANGED <<journal, dep, ctl>>, late' \subseteq late
      PROVE  IInv'
  BY <1>1, <1>2, Ambient
<1>3. ASSUME NEW r \in Roles, Exit(r) \/ Vanish(r)
      PROVE  IInv'
  <2>1. /\ UNCHANGED <<journal, dep, ctl, old>> /\ late' \subseteq late
        /\ \A s \in Roles : cand'[s] # "absent" => cand[s] # "absent"
    BY <1>1, <1>3 DEF Exit, Vanish, TypeOK
  <2>2. Steady
    BY <2>1 DEF Steady, Present, Down
  <2> QED BY <1>2, <2>1, <2>2
<1>4. ASSUME NEW r \in Selected, ExitPrevious(r)
      PROVE  IInv'
  <2>1. /\ UNCHANGED <<journal, dep, ctl, cand>> /\ late' \subseteq late
        /\ \A s \in Selected : old'[s] = "running" => old[s] = "running"
    BY <1>1, <1>4 DEF ExitPrevious, TypeOK
  <2>2. Steady
    BY <2>1 DEF Steady, Present, Down
  <2> QED BY <1>2, <2>1, <2>2
<1>5. ASSUME NEW effect \in Effects, NEW r \in Roles, Land(effect, r)
      PROVE  IInv'
  <2>1. UNCHANGED <<journal, dep, ctl>> /\ <<effect, r>> \in late
    BY <1>5 DEF Land
  <2>2. CASE Apply(effect, r)
    <3>1. late' \subseteq late
      BY <2>2 DEF Apply
    <3>2. effect = "launch" => Present(r)
      BY <2>1 DEF Present
    <3>3. effect = "restart_previous" /\ r \in Selected => ~Down(r)
      BY <2>1 DEF Down
    <3>4. Steady
      BY <1>1, <2>2, <3>2, <3>3, ApplyFrame DEF Steady
    <3> QED BY <1>2, <2>1, <3>1, <3>4
  <2>3. CASE late' = late \ {<<effect, r>>} /\ UNCHANGED <<cand, old>>
    <3>1. Steady
      BY <2>3 DEF Steady, Present, Down
    <3> QED BY <1>2, <2>1, <2>3, <3>1
  <2> QED BY <1>5, <2>2, <2>3 DEF Land
<1>6. CASE Crash
  BY <1>6, CrashInvariant
<1> QED BY <1>3, <1>4, <1>5, <1>6 DEF Environment, Landing

-----------------------------------------------------------------------------
\* The two safety theorems.

LEMMA Initially ==
    ASSUME Init
    PROVE  IInv
<1>1. TypeOK
  BY IdleType DEF Init, TypeOK, ContainerState
<1>2. ctl.pc = "idle" /\ late = {} /\ \A r \in Roles : ~Present(r)
  BY DEF Init, Idle, Present
<1>3. Custody
  BY <1>2 DEF Custody, Unrecorded, Unlaunched, Held, Intended, Gone, NoOrphan, At,
              BeforeLaunch
<1>4. Cutover
  BY <1>2 DEF Cutover, Excluded, Quiesced, Cleared, At, Launching, Removing
<1> QED BY <1>1, <1>3, <1>4 DEF IInv

LEMMA Inductive ==
    ASSUME IInv, [Next]_vars
    PROVE  IInv'
<1>1. CASE UNCHANGED vars
  <2>1. UNCHANGED <<journal, dep, ctl, cand, old, late>> /\ TypeOK'
    BY <1>1 DEF vars, IInv, TypeOK
  <2> QED BY <2>1, Stuttering
<1>2. CASE Next
  BY <1>2, CreateInvariant, ReadyInvariant, RollbackInvariant, StartInvariant,
     StopInvariant, RequestInvariant, EnvironmentInvariant DEF Next, EngineStep
<1> QED BY <1>1, <1>2

\* Custody and cutover hold together in every reachable state: each conjunct
\* of IInv is needed for another one to be preserved.
THEOREM Invariance == Spec => []IInv
<1> QED BY Initially, Inductive, PTL DEF Spec

\* Whatever fails and wherever the daemon dies, a candidate that exists or may
\* still be launched is one the durable record tells a later rollback to remove.
THEOREM NothingOrphaned == Spec => []NoOrphan
<1>1. IInv => NoOrphan
  BY DEF IInv, Custody
<1> QED BY <1>1, Invariance, PTL

\* No selected old container runs while a candidate exists or may be launched.
THEOREM CutoverIsExclusive == Spec => []CutoverExclusive
<1>1. IInv => CutoverExclusive
  BY DEF IInv, Cutover, Excluded, Down, CutoverExclusive
<1> QED BY <1>1, Invariance, PTL
=============================================================================
