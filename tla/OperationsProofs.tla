-------------------------- MODULE OperationsProofs --------------------------
(***************************************************************************)
(* Sequences of commands on files and processes that may break off at any  *)
(* one of them, for any number of operators, faults and parts of a file.   *)
(*                                                                         *)
(* SelfUpgrade: the upgrade of the pair of binaries and the restart of the *)
(* daemon.  What the run has put in place, backed up and restored follows  *)
(* from the step it is at.                                                 *)
(*                                                                         *)
(* AgentInstall: operations over SSH that do not overlap are one operation *)
(* at a time, and on a host with one kind of service everything that       *)
(* operation touches is of that kind.  What it has uploaded, configured,   *)
(* restarted and verified follows from the step it is at (Held, Fits).     *)
(*                                                                         *)
(* LaunchFiles: a preparation that has a file open writes the parts that   *)
(* are missing from where it is (Mended), so that the file is complete when*)
(* all are done, whoever has truncated it.                                 *)
(*                                                                         *)
(* EditorSettings: what a request that is alone in the file relies on at   *)
(* its step (Guarded), and what it has asked of the services (SearchOK).   *)
(***************************************************************************)
EXTENDS SelfUpgrade, AgentInstall, LaunchFiles, EditorSettings, FiniteSetTheorems, TLAPS

-----------------------------------------------------------------------------
\* SelfUpgrade.

DaemonLabels == {"boot", "startup", "serving", "stopping", "draining"}

\* What Step leaves alone.
SameRun == /\ upgrade'.own = upgrade.own /\ upgrade'.before = upgrade.before
           /\ upgrade'.hadTUI = upgrade.hadTUI /\ upgrade'.pid = upgrade.pid
           /\ upgrade'.seen = upgrade.seen

LEMMA StepFacts ==
    ASSUME upgrade \in UpgradeRun, NEW s \in UpgradeSteps, Step(s)
    PROVE  /\ upgrade' \in UpgradeRun /\ upgrade'.at = s /\ SameRun
           /\ upgrade'.rollbackFailed = upgrade.rollbackFailed
<1>1. PICK g \in UpgradeRun : g = upgrade
  OBVIOUS
<1> DEFINE h == [g EXCEPT !.at = s]
<1>2. /\ h \in UpgradeRun /\ h.at = s /\ h.rollbackFailed = g.rollbackFailed
      /\ h.own = g.own /\ h.before = g.before /\ h.hadTUI = g.hadTUI
      /\ h.pid = g.pid /\ h.seen = g.seen
  BY DEF UpgradeRun
<1>3. upgrade' = h
  BY <1>1 DEF Step
<1> HIDE DEF h
<1> QED BY <1>1, <1>2, <1>3 DEF SameRun

LEMMA FailedFacts ==
    ASSUME upgrade \in UpgradeRun, NEW s \in UpgradeSteps,
           upgrade' = [upgrade EXCEPT !.at = s, !.rollbackFailed = TRUE]
    PROVE  upgrade' \in UpgradeRun /\ upgrade'.at = s /\ SameRun /\ upgrade'.rollbackFailed
<1>1. PICK g \in UpgradeRun : g = upgrade
  OBVIOUS
<1> DEFINE k == [g EXCEPT !.at = s]
           h == [k EXCEPT !.rollbackFailed = TRUE]
<1>2. /\ k \in UpgradeRun /\ k.at = s
      /\ k.own = g.own /\ k.before = g.before /\ k.hadTUI = g.hadTUI
      /\ k.pid = g.pid /\ k.seen = g.seen
  BY DEF UpgradeRun
<1> HIDE DEF k
<1>3. /\ h \in UpgradeRun /\ h.at = k.at /\ h.rollbackFailed
      /\ h.own = k.own /\ h.before = k.before /\ h.hadTUI = k.hadTUI
      /\ h.pid = k.pid /\ h.seen = k.seen
  BY <1>2 DEF UpgradeRun
<1>4. upgrade' = h
  BY <1>1 DEF k
<1> HIDE DEF h
<1> QED BY <1>1, <1>2, <1>3, <1>4 DEF SameRun

LEMMA NoTUIFacts ==
    ASSUME upgrade \in UpgradeRun, NEW s \in UpgradeSteps,
           upgrade' = [upgrade EXCEPT !.at = s, !.hadTUI = FALSE]
    PROVE  /\ upgrade' \in UpgradeRun /\ upgrade'.at = s /\ ~upgrade'.hadTUI
           /\ upgrade'.before = upgrade.before /\ upgrade'.own = upgrade.own
           /\ upgrade'.pid = upgrade.pid /\ upgrade'.rollbackFailed = upgrade.rollbackFailed
<1>1. PICK g \in UpgradeRun : g = upgrade
  OBVIOUS
<1> DEFINE k == [g EXCEPT !.at = s]
           h == [k EXCEPT !.hadTUI = FALSE]
<1>2. /\ k \in UpgradeRun /\ k.at = s /\ k.before = g.before /\ k.own = g.own
      /\ k.pid = g.pid /\ k.rollbackFailed = g.rollbackFailed
  BY DEF UpgradeRun
<1> HIDE DEF k
<1>3. /\ h \in UpgradeRun /\ h.at = k.at /\ ~h.hadTUI /\ h.before = k.before /\ h.own = k.own
      /\ h.pid = k.pid /\ h.rollbackFailed = k.rollbackFailed
  BY <1>2 DEF UpgradeRun
<1>4. upgrade' = h
  BY <1>1 DEF k
<1> HIDE DEF h
<1> QED BY <1>1, <1>2, <1>3, <1>4

-----------------------------------------------------------------------------
\* The processes.

ProcessesOK == process \in [Pids -> Process \cup {NoProcess}] /\ listening \in InUse \cup {NoProcess}

\* A process goes on to another label.
LEMMA DaemonLabelFacts ==
    ASSUME ProcessesOK, NEW p \in Daemons, NEW s \in DaemonLabels,
           process' = [process EXCEPT ![p].at = s]
    PROVE  /\ process' \in [Pids -> Process \cup {NoProcess}]
           /\ process'[p].kind = process[p].kind /\ process'[p].version = process[p].version
           /\ process'[p] # NoProcess /\ Daemons' = Daemons /\ InUse' = InUse
           /\ \A q \in Pids \ {p} : process'[q] = process[q]
<1>1. PICK g \in Process : g = process[p]
  BY DEF ProcessesOK, Daemons
<1> DEFINE h == [g EXCEPT !.at = s]
<1>2. h \in Process /\ h.kind = g.kind /\ h.version = g.version
  BY DEF Process, DaemonLabels
<1>3. process' = [process EXCEPT ![p] = h] /\ p \in Pids
  BY <1>1 DEF Daemons
<1>4. h # NoProcess
  BY <1>2, UpgradeAssumption
<1> HIDE DEF h
<1> QED BY <1>1, <1>2, <1>3, <1>4 DEF ProcessesOK, Daemons, InUse

LEMMA DiesFacts ==
    ASSUME ProcessesOK, NEW p \in Pids, Dies(p)
    PROVE  ProcessesOK' /\ Daemons' \subseteq Daemons \ {p} /\ process'[p] = NoProcess
           /\ \A q \in Pids \ {p} : process'[q] = process[q]
BY UpgradeAssumption DEF Dies, ProcessesOK, Daemons, InUse

LEMMA SpawnsFacts ==
    ASSUME ProcessesOK, NEW p \in Pids, NEW kind \in {"daemon", "alike", "other"},
           NEW version \in {"old", "new"}, Spawns(p, kind, version), listening' = listening
    PROVE  /\ ProcessesOK' /\ process'[p].version = version /\ process'[p].kind = kind
           /\ \A q \in Pids \ {p} : process'[q] = process[q]
           /\ spawns \in Nat => spawns' \in Nat
<1> DEFINE h == [kind |-> kind, version |-> version, at |-> "boot"]
<1>1. h \in Process /\ h.kind = kind /\ h.version = version
  BY DEF Process
<1>2. process' = [process EXCEPT ![p] = h]
  BY DEF Spawns
<1> HIDE DEF h
<1>3. process' \in [Pids -> Process \cup {NoProcess}] /\ process'[p] = h
      /\ \A q \in Pids \ {p} : process'[q] = process[q]
  BY <1>1, <1>2 DEF ProcessesOK
<1>4. p \notin InUse
  BY DEF Spawns
<1> QED BY <1>1, <1>3, <1>4 DEF ProcessesOK, InUse, Spawns

\* SIGTERM.
LEMMA SignalFacts ==
    ASSUME ProcessesOK, NEW p \in Pids, Signal(p)
    PROVE  /\ ProcessesOK'
           /\ \A q \in Daemons' : q \in Daemons /\ process'[q].version = process[q].version
<1>1. CASE process[p] = NoProcess
  BY <1>1 DEF Signal, ProcessesOK, Daemons, InUse
<1>2. CASE p \in Daemons /\ process[p].at \in {"serving", "stopping", "draining"}
  <2>1. PICK s \in DaemonLabels : process' = [process EXCEPT ![p].at = s]
    <3>1. process' = [process EXCEPT ![p].at =
                        IF process[p].at = "serving" THEN "stopping" ELSE process[p].at]
      BY <1>2 DEF Signal, Daemons, ProcessesOK
    <3>2. (IF process[p].at = "serving" THEN "stopping" ELSE process[p].at) \in DaemonLabels
      BY <1>2 DEF DaemonLabels
    <3> QED BY <3>1, <3>2
  <2>2. listening' = listening
    BY <1>2 DEF Signal, Daemons
  <2>3. /\ process' \in [Pids -> Process \cup {NoProcess}] /\ Daemons' = Daemons /\ InUse' = InUse
        /\ \A q \in Pids : process'[q] = process[q] \/ process'[q].version = process[q].version
    BY <1>2, <2>1, DaemonLabelFacts
  <2> QED BY <2>2, <2>3 DEF ProcessesOK, Daemons
<1>3. CASE Dies(p)
  BY <1>3, DiesFacts DEF Daemons
<1>4. CASE UNCHANGED <<process, listening>>
  BY <1>4 DEF ProcessesOK, Daemons, InUse
<1> QED BY <1>1, <1>2, <1>3, <1>4 DEF Signal, Daemons

-----------------------------------------------------------------------------
\* Types.

\* A step of the command that leaves files and processes alone.
LEMMA QuietTypes ==
    ASSUME UpgradeTypeOK, NEW s \in UpgradeSteps, Step(s), OnlyUpgrade,
           upgradeFaults' \in Nat, s \in {"terminate", "await exit"} => upgrade.pid \in Pids
    PROVE  UpgradeTypeOK'
<1>1. upgrade' \in UpgradeRun /\ upgrade'.at = s /\ upgrade'.pid = upgrade.pid
  BY StepFacts DEF UpgradeTypeOK, SameRun
<1> QED BY <1>1 DEF UpgradeTypeOK, OnlyUpgrade, fileVars, processVars, InUse

\* A step that moves files.
LEMMA FileTypes ==
    ASSUME UpgradeTypeOK, OnlyFiles, NEW s \in UpgradeSteps \ {"terminate", "await exit"},
           \/ Step(s)
           \/ upgrade' = [upgrade EXCEPT !.at = s, !.rollbackFailed = TRUE]
           \/ upgrade' = [upgrade EXCEPT !.at = s, !.hadTUI = FALSE],
           installed' \in [Binaries -> Version], backup' \in [Binaries -> Version],
           staged' \subseteq Binaries, upgradeFaults' \in Nat
    PROVE  UpgradeTypeOK'
<1>1. upgrade' \in UpgradeRun /\ upgrade'.at = s
  <2>1. CASE Step(s)
    BY <2>1, StepFacts DEF UpgradeTypeOK
  <2>2. CASE upgrade' = [upgrade EXCEPT !.at = s, !.rollbackFailed = TRUE]
    BY <2>2, FailedFacts DEF UpgradeTypeOK
  <2>3. CASE upgrade' = [upgrade EXCEPT !.at = s, !.hadTUI = FALSE]
    BY <2>3, NoTUIFacts DEF UpgradeTypeOK
  <2> QED BY <2>1, <2>2, <2>3
<1> QED BY <1>1 DEF UpgradeTypeOK, OnlyFiles, processVars, InUse

LEMMA MovesTypes ==
    ASSUME installed \in [Binaries -> Version], backup \in [Binaries -> Version],
           NEW b \in Binaries, Moves(installed, backup, b) \/ Moves(backup, installed, b)
    PROVE  installed' \in [Binaries -> Version] /\ backup' \in [Binaries -> Version]
BY DEF Moves, Version

LEMMA ErrsTypes == ASSUME UpgradeTypeOK PROVE Errs => upgradeFaults' \in Nat
<1>1. upgradeFaults \in Nat
  BY DEF UpgradeTypeOK
<1> QED BY <1>1 DEF Errs

LEMMA InstallTypes == ASSUME UpgradeTypeOK, Install PROVE UpgradeTypeOK'
<1>0. /\ installed \in [Binaries -> Version] /\ backup \in [Binaries -> Version]
      /\ staged \subseteq Binaries /\ upgradeFaults \in Nat
      /\ "yokai" \in Binaries /\ "yokai-tui" \in Binaries
      /\ "none" \in Version /\ "new" \in Version
  BY DEF UpgradeTypeOK, Binaries, Version
<1> USE <1>0, ErrsTypes
<1>n. \A s \in {"back up", "ended", "back up tui", "install", "install tui", "drop backups",
                "undo install", "undo install tui", "restore", "restore tui", "look"} :
        s \in UpgradeSteps \ {"terminate", "await exit"}
  BY DEF UpgradeSteps
<1>w. \A b \in Binaries, v \in Version : [installed EXCEPT ![b] = v] \in [Binaries -> Version]
  OBVIOUS
<1>i. ASSUME NEW b \in Binaries, NEW s \in {"install tui", "drop backups"}, Installs(b, s),
             backup' = backup, OnlyFiles
      PROVE  UpgradeTypeOK'
  <2>1. installed' \in [Binaries -> Version] /\ staged' \subseteq Binaries
    <3>1. CASE installed' = [installed EXCEPT ![b] = "new"] /\ staged' = staged \ {b}
      BY <3>1, <1>w
    <3>2. CASE UNCHANGED <<installed, staged>>
      BY <3>2
    <3> QED BY <1>i, <3>1, <3>2 DEF Installs
  <2>2. backup' \in [Binaries -> Version] /\ upgradeFaults' \in Nat
    BY <1>i DEF Installs
  <2>3. \E t \in UpgradeSteps \ {"terminate", "await exit"} : Step(t)
    BY <1>i, <1>n DEF Installs
  <2> QED BY <1>i, <2>1, <2>2, <2>3, FileTypes
<1>1. CASE StageBinaries
  BY <1>1, <1>n, FileTypes DEF StageBinaries
<1>2. CASE BackUp
  BY <1>2, <1>n, FileTypes, MovesTypes DEF BackUp
<1>3. CASE BackUpTUI
  BY <1>3, <1>n, FileTypes, MovesTypes DEF BackUpTUI
<1>4. CASE InstallBinary
  BY <1>4, <1>n, <1>i DEF InstallBinary
<1>5. CASE InstallTUI
  BY <1>5, <1>n, <1>i DEF InstallTUI
<1>6. CASE UndoInstall
  <2>1. ASSUME NEW b \in Binaries, NEW s \in {"undo install tui", "restore"}, Undoes(b, s)
        PROVE  UpgradeTypeOK'
    <3>1. installed' \in [Binaries -> Version]
      BY <2>1, <1>w DEF Undoes
    <3>2. backup' = backup /\ staged' = staged /\ OnlyFiles
      BY <1>6 DEF UndoInstall
    <3> QED BY <2>1, <3>1, <3>2, <1>n, FileTypes DEF Undoes
  <2> QED BY <1>6, <2>1 DEF UndoInstall
<1>7. CASE RestorePair
  <2>1. staged' \subseteq Binaries /\ OnlyFiles
    BY <1>7 DEF RestorePair
  <2>2. ASSUME NEW b \in Binaries, NEW s \in {"restore tui", "ended"}, Restores(b, s)
        PROVE  UpgradeTypeOK'
    BY <2>1, <2>2, <1>n, FileTypes, MovesTypes DEF Restores
  <2> QED BY <1>7, <2>2 DEF RestorePair
<1>8. CASE DropBackups
  <2>1. backup' \in [Binaries -> Version]
    BY <1>8 DEF DropBackups
  <2> QED BY <1>8, <2>1, <1>n, FileTypes DEF DropBackups
<1> QED BY <1>1, <1>2, <1>3, <1>4, <1>5, <1>6, <1>7, <1>8 DEF Install

\* The run that looks for the daemon.
LEMMA LookFacts ==
    ASSUME UpgradeTypeOK, LookForDaemon
    PROVE  /\ UpgradeTypeOK' /\ upgrade'.at \in {"terminate", "ended"}
           /\ upgrade'.seen = Daemons /\ upgrade'.before = upgrade.before
<1>1. PICK holder \in ByPort : upgrade' =
        LET found == IF FromPidFile(holder) # NoProcess THEN FromPidFile(holder) ELSE holder
        IN [upgrade EXCEPT !.at = IF found # NoProcess THEN "terminate" ELSE "ended",
                           !.pid = found, !.seen = Daemons]
  BY DEF LookForDaemon
<1> DEFINE found == IF FromPidFile(holder) # NoProcess THEN FromPidFile(holder) ELSE holder
           s == IF found # NoProcess THEN "terminate" ELSE "ended"
<1>2. found \in Pids \cup {NoProcess}
  BY DEF ByPort, FromPidFile, InUse, UpgradeTypeOK
<1>3. s \in UpgradeSteps /\ Daemons \in SUBSET Pids
  BY DEF UpgradeSteps, Daemons
<1>4. PICK g \in UpgradeRun : g = upgrade
  BY DEF UpgradeTypeOK
<1>5. upgrade' = [upgrade EXCEPT !.at = s, !.pid = found, !.seen = Daemons]
  BY <1>1
<1>6. s \in {"terminate", "ended"} /\ (s = "terminate" => found \in Pids)
  BY <1>2
<1> HIDE DEF found, s
<1>7. LET h == [g EXCEPT !.at = s, !.pid = found, !.seen = Daemons]
      IN /\ h \in UpgradeRun /\ h.at = s /\ h.pid = found /\ h.seen = Daemons
         /\ h.before = g.before
  BY <1>2, <1>3 DEF UpgradeRun
<1>8. /\ upgrade' \in UpgradeRun /\ upgrade'.at = s /\ upgrade'.pid = found
      /\ upgrade'.seen = Daemons /\ upgrade'.before = upgrade.before
  BY <1>4, <1>5, <1>7
<1>9. OnlyUpgrade /\ UNCHANGED upgradeFaults
  BY DEF LookForDaemon
<1>10. UpgradeTypeOK'
  BY <1>6, <1>8, <1>9 DEF UpgradeTypeOK, OnlyUpgrade, fileVars, processVars, InUse
<1> QED BY <1>6, <1>8, <1>10

\* The other steps of the command.
LEMMA CommandTypes ==
    ASSUME UpgradeTypeOK,
           BeginUpgrade \/ Check \/ Fetch \/ Unpack \/ RestartDaemon \/ UpgradeKilled
    PROVE  UpgradeTypeOK'
<1>0. /\ upgradeFaults \in Nat /\ spawns \in Nat /\ upgrades \in Nat
      /\ upgrade \in UpgradeRun /\ ProcessesOK /\ installed \in [Binaries -> Version]
  BY DEF UpgradeTypeOK, ProcessesOK
<1>n. {"idle", "fetch", "unpack", "stage", "ended", "start", "await exit", "await health",
       "restarted", "check"} \subseteq UpgradeSteps
  BY DEF UpgradeSteps
<1>q. ASSUME NEW s \in UpgradeSteps \ {"terminate", "await exit"}, Step(s), OnlyUpgrade,
             upgradeFaults' \in Nat
      PROVE  UpgradeTypeOK'
  BY <1>q, QuietTypes
<1>1. CASE BeginUpgrade
  <2>1. upgrade' \in UpgradeRun /\ upgrade'.at = "check"
    <3>1. installed["yokai"] \in {"old", "new"}
      BY <1>1, <1>0 DEF BeginUpgrade, Binaries, Version
    <3> QED BY <1>0, <1>1, <1>n, <3>1 DEF BeginUpgrade, UpgradeRun
  <2>2. /\ backup' \in [Binaries -> Version] /\ staged' \subseteq Binaries /\ upgrades' \in Nat
        /\ UNCHANGED <<installed, processVars, linux, upgradeFaults>>
    BY <1>0, <1>1 DEF BeginUpgrade, Version
  <2> QED BY <2>1, <2>2 DEF UpgradeTypeOK, processVars, InUse
<1>2. CASE Check
  BY <1>2, <1>0, <1>n, <1>q DEF Check
<1>3. CASE Fetch \/ Unpack
  BY <1>3, <1>0, <1>n, <1>q, ErrsTypes DEF Fetch, Unpack
<1>4. CASE LookForDaemon
  BY <1>4, LookFacts
<1>5. CASE Terminate
  <2>1. upgrade.pid \in Pids
    BY <1>5 DEF Terminate, AtStep, UpgradeTypeOK
  <2>2. ProcessesOK'
    BY <1>0, <1>5, <2>1, SignalFacts DEF Terminate
  <2>3. upgrade' \in UpgradeRun /\ upgrade'.pid = upgrade.pid
    BY <1>0, <1>5, <1>n, StepFacts DEF Terminate, SameRun
  <2> QED BY <1>5, <2>1, <2>2, <2>3 DEF Terminate, UpgradeTypeOK, ProcessesOK, fileVars
<1>6. CASE AwaitExit
  BY <1>6, <1>0, <1>n, <1>q DEF AwaitExit
<1>7. CASE StartNewDaemon
  <2>1. ASSUME NEW p \in Pids, Spawns(p, "daemon", installed["yokai"]),
               installed["yokai"] # "none", Step("await health"), UNCHANGED upgradeFaults
        PROVE  UpgradeTypeOK'
    <3>1. installed["yokai"] \in {"old", "new"}
      BY <2>1, <1>0 DEF Binaries, Version
    <3>2. ProcessesOK' /\ spawns' \in Nat
      BY <1>0, <1>7, <2>1, <3>1, SpawnsFacts DEF StartNewDaemon
    <3>3. upgrade' \in UpgradeRun /\ upgrade'.at = "await health"
      BY <1>0, <2>1, <1>n, StepFacts
    <3> QED BY <1>7, <2>1, <3>2, <3>3 DEF StartNewDaemon, UpgradeTypeOK, ProcessesOK, fileVars
  <2>2. CASE Step("ended") /\ Errs /\ UNCHANGED <<process, spawns>>
    <3>1. OnlyUpgrade
      BY <1>7, <2>2 DEF StartNewDaemon, OnlyUpgrade, processVars
    <3> QED BY <2>2, <3>1, <1>n, <1>q, ErrsTypes
  <2> QED BY <1>7, <2>1, <2>2 DEF StartNewDaemon
<1>8. CASE AwaitHealth
  BY <1>8, <1>0, <1>n, <1>q DEF AwaitHealth
<1>9. CASE UpgradeKilled
  BY <1>9, <1>n, <1>q, ErrsTypes DEF UpgradeKilled
<1> QED BY <1>1, <1>2, <1>3, <1>4, <1>5, <1>6, <1>7, <1>8, <1>9 DEF RestartDaemon

\* Steps of daemons, and of the text interface that starts one, leave the files alone.
LEMMA DaemonTypes ==
    ASSUME UpgradeTypeOK, LaunchDaemon \/ \E p \in Pids : DaemonStep(p)
    PROVE  UpgradeTypeOK' /\ UNCHANGED <<fileVars, upgrade>>
<1>0. /\ upgradeFaults \in Nat /\ spawns \in Nat
      /\ ProcessesOK /\ installed \in [Binaries -> Version] /\ pidFile \in Pids \cup {NoProcess}
  BY DEF UpgradeTypeOK, ProcessesOK
<1>p. ASSUME ProcessesOK', UNCHANGED <<fileVars, upgrade, linux, upgrades>>, launching' \in BOOLEAN,
             pidFile' \in Pids \cup {NoProcess}, spawns' \in Nat, upgradeFaults' \in Nat
      PROVE  UpgradeTypeOK'
  BY <1>p DEF UpgradeTypeOK, ProcessesOK, fileVars
<1>d. ASSUME ProcessesOK', OnlyDaemon, pidFile' \in Pids \cup {NoProcess}, upgradeFaults' \in Nat
      PROVE  UpgradeTypeOK'
  BY <1>0, <1>d DEF UpgradeTypeOK, ProcessesOK, fileVars, OnlyDaemon
<1>1. ASSUME NEW p \in Pids, WritePidFile(p) \/ Serve(p) \/ AskedToStop(p) \/ Drain(p)
                              \/ DaemonReturns(p) \/ DaemonKilled(p)
      PROVE  UpgradeTypeOK'
  <2>1. OnlyDaemon /\ p \in Daemons /\ upgradeFaults' \in Nat /\ pidFile' \in Pids \cup {NoProcess}
    BY <1>0, <1>1, ErrsTypes DEF WritePidFile, Serve, AskedToStop, Drain, DaemonReturns,
                                 DaemonKilled, DaemonAt
  <2>2. \/ Dies(p)
        \/ /\ \E s \in DaemonLabels : DaemonTo(p, s)
           /\ listening' \in {listening, p, NoProcess}
    BY <1>1 DEF WritePidFile, Serve, AskedToStop, Drain, DaemonReturns, DaemonKilled, DaemonLabels
  <2>3. CASE Dies(p)
    BY <1>0, <2>1, <2>3, <1>d, DiesFacts
  <2>4. ASSUME NEW s \in DaemonLabels, DaemonTo(p, s), listening' \in {listening, p, NoProcess}
        PROVE  UpgradeTypeOK'
    <3>1. /\ process' \in [Pids -> Process \cup {NoProcess}] /\ InUse' = InUse /\ p \in InUse
      BY <1>0, <2>1, <2>4, DaemonLabelFacts DEF DaemonTo, Daemons, InUse
    <3>2. ProcessesOK'
      BY <1>0, <2>4, <3>1 DEF ProcessesOK
    <3> QED BY <2>1, <3>2, <1>d
  <2> QED BY <2>2, <2>3, <2>4
<1>2. ASSUME NEW p \in Pids, OtherStarts(p) \/ OtherListens(p) \/ OtherEnds(p)
      PROVE  UpgradeTypeOK'
  <2>1. CASE OtherStarts(p)
    BY <1>0, <2>1, <1>p, SpawnsFacts DEF OtherStarts, UpgradeTypeOK
  <2>2. CASE OtherListens(p)
    <3>1. ProcessesOK'
      BY <1>0, <2>2 DEF OtherListens, Foreign, ProcessesOK, InUse
    <3> QED BY <1>0, <2>2, <3>1, <1>d DEF OtherListens
  <2>3. CASE OtherEnds(p)
    <3>1. ProcessesOK'
      BY <1>0, <2>3, DiesFacts DEF OtherEnds
    <3> QED BY <1>0, <2>3, <3>1, <1>d DEF OtherEnds
  <2> QED BY <1>2, <2>1, <2>2, <2>3
<1>3. CASE LaunchDaemon
  <2>1. ASSUME NEW p \in Pids, Spawns(p, "daemon", installed["yokai"]), installed["yokai"] # "none"
        PROVE  ProcessesOK' /\ spawns' \in Nat
    <3>1. installed["yokai"] \in {"old", "new"}
      BY <2>1, <1>0 DEF Binaries, Version
    <3> QED BY <1>0, <1>3, <2>1, <3>1, SpawnsFacts DEF LaunchDaemon
  <2>2. ProcessesOK' /\ spawns' \in Nat /\ launching' \in BOOLEAN /\ upgradeFaults' \in Nat
    BY <1>0, <1>3, <2>1, ErrsTypes DEF LaunchDaemon, ProcessesOK, InUse
  <2> QED BY <1>0, <1>3, <2>2, <1>p DEF LaunchDaemon
<1>4. UNCHANGED <<fileVars, upgrade>>
  BY DEF LaunchDaemon, DaemonStep, WritePidFile, Serve, AskedToStop, Drain, DaemonReturns,
         DaemonKilled, OtherStarts, OtherListens, OtherEnds, OnlyDaemon
<1> QED BY <1>1, <1>2, <1>3, <1>4 DEF DaemonStep

LEMMA TypesInitially == UpgradeInit => UpgradeTypeOK
<1> SUFFICES ASSUME UpgradeInit PROVE UpgradeTypeOK
  OBVIOUS
<1>1. installed \in [Binaries -> Version] /\ backup \in [Binaries -> Version]
  BY DEF UpgradeInit, Version
<1>2. upgrade \in UpgradeRun /\ upgrade.at = "idle"
  BY <1>1 DEF UpgradeInit, UpgradeRun, UpgradeSteps
<1> QED BY <1>1, <1>2 DEF UpgradeInit, UpgradeTypeOK

LEMMA TypesStep == UpgradeTypeOK /\ [UpgradeNext]_upgradeVars => UpgradeTypeOK'
<1> SUFFICES ASSUME UpgradeTypeOK, [UpgradeNext]_upgradeVars PROVE UpgradeTypeOK'
  OBVIOUS
<1>1. CASE UNCHANGED upgradeVars
  BY <1>1 DEF upgradeVars, UpgradeTypeOK, InUse
<1> QED BY <1>1, InstallTypes, CommandTypes, DaemonTypes DEF UpgradeNext

-----------------------------------------------------------------------------
\* The files, at each point of the installation.

Main == "yokai"
Companion == "yokai-tui"
InPlace(b) == installed[b] = upgrade.before[b]
Saved(b) == backup[b] = upgrade.before[b]
Replaced == installed[Main] = "new" /\ installed[Companion] = "new"

Untouched == {"check", "fetch", "unpack", "stage", "back up"}
Undoing == {"undo install", "undo install tui", "restore"}
Restarting == {"terminate", "await exit", "start", "await health", "restarted"}

Phase ==
    LET at == upgrade.at clean == ~upgrade.rollbackFailed IN
    /\ at \in Untouched => InPlace(Main) /\ InPlace(Companion)
    /\ at = "back up tui" => Saved(Main) /\ installed[Main] = "none" /\ InPlace(Companion)
                             /\ upgrade.hadTUI
    /\ at \in Untouched => upgrade.hadTUI
    /\ at \in Untouched \cup {"back up tui"} => backup[Companion] = "none"
    /\ at \in {"install", "install tui"} \cup Undoing =>
         /\ Saved(Main) /\ Saved(Companion)
         /\ upgrade.hadTUI \/ upgrade.before[Companion] = "none"
    /\ at = "install" => installed[Main] = "none"
    /\ at \in {"install", "install tui", "undo install"} => installed[Companion] = "none"
    /\ at = "install tui" => installed[Main] = "new"
    /\ at \in {"undo install tui", "restore"} /\ clean => installed[Main] = "none"
    /\ at = "restore" /\ clean => installed[Companion] = "none"
    /\ at = "restore tui" => /\ Saved(Companion)
                             /\ InPlace(Main) \/ Saved(Main) \/ upgrade.before[Main] = "none"
                             /\ clean => InPlace(Main)
    /\ at \in {"drop backups", "look"} \cup Restarting => Replaced

FilesInv == Phase /\ OldPairKept

LEMMA BinaryFacts == Binaries = {Main, Companion} /\ Main # Companion
BY DEF Binaries, Main, Companion

\* A move of one binary.
LEMMA MovesFacts ==
    ASSUME UpgradeTypeOK, NEW b \in Binaries
    PROVE  /\ Moves(installed, backup, b) =>
                /\ backup'[b] = installed[b] /\ installed'[b] = "none"
                /\ \A c \in Binaries \ {b} : backup'[c] = backup[c] /\ installed'[c] = installed[c]
           /\ Moves(backup, installed, b) =>
                /\ installed'[b] = backup[b] /\ backup'[b] = "none"
                /\ \A c \in Binaries \ {b} : backup'[c] = backup[c] /\ installed'[c] = installed[c]
BY DEF Moves, UpgradeTypeOK

\* A step that leaves the files alone and goes where the same is known of them.
LEMMA QuietPhase ==
    ASSUME UpgradeTypeOK, FilesInv, UNCHANGED <<installed, backup>>, NEW s \in UpgradeSteps, Step(s),
           \/ s \in {"idle", "ended"}
           \/ upgrade.at \in Untouched /\ s \in Untouched
           \/ upgrade.at \in {"look"} \cup Restarting /\ s \in Restarting
    PROVE  FilesInv'
<1>1. /\ upgrade'.at = s /\ upgrade'.before = upgrade.before /\ upgrade'.hadTUI = upgrade.hadTUI
  BY StepFacts DEF UpgradeTypeOK, SameRun
<1>2. Phase'
  <2>1. CASE s \in {"idle", "ended"}
    BY <1>1, <2>1 DEF Phase, Untouched, Undoing, Restarting
  <2>2. CASE upgrade.at \in Untouched /\ s \in Untouched
    BY <1>1, <2>2 DEF FilesInv, Phase, Untouched, Undoing, Restarting, InPlace
  <2>3. CASE upgrade.at \in {"look"} \cup Restarting /\ s \in Restarting
    BY <1>1, <2>3 DEF FilesInv, Phase, Untouched, Undoing, Restarting, Replaced
  <2> QED BY <2>1, <2>2, <2>3
<1>3. OldPairKept'
  BY <1>1 DEF FilesInv, OldPairKept
<1> QED BY <1>2, <1>3 DEF FilesInv

\* Nobody else is at the files.
LEMMA OutsidePhase ==
    ASSUME FilesInv, UNCHANGED <<installed, backup, upgrade>>
    PROVE  FilesInv'
BY DEF FilesInv, Phase, OldPairKept, InPlace, Saved, Replaced

\* What PairWholeOrKept says of a step.
EndsWhole ==
    upgrade'.at # upgrade.at /\ upgrade'.at \in {"ended", "look"} /\ ~upgrade'.rollbackFailed
      => installed' = upgrade.before \/ \A b \in Binaries : installed'[b] = "new"

\* The pair that was found, or the new one, is recognized binary by binary.
LEMMA WholePair ==
    ASSUME UpgradeTypeOK, UpgradeTypeOK',
           \/ /\ installed'[Main] = upgrade.before[Main]
              /\ installed'[Companion] = upgrade.before[Companion]
           \/ Replaced'
    PROVE  EndsWhole
<1>1. /\ upgrade.before \in [Binaries -> Version] /\ installed' \in [Binaries -> Version]
  BY DEF UpgradeTypeOK, UpgradeRun
<1> QED BY <1>1, BinaryFacts DEF EndsWhole, Replaced

\* The steps that replace the pair.
LEMMA ForwardPhase ==
    ASSUME UpgradeTypeOK, UpgradeTypeOK', FilesInv,
           StageBinaries \/ BackUp \/ InstallBinary \/ InstallTUI \/ DropBackups
    PROVE  FilesInv' /\ EndsWhole
<1> USE BinaryFacts DEF UpgradeTypeOK
<1>n. {"back up", "ended", "back up tui", "install tui", "drop backups", "undo install", "look"}
        \subseteq UpgradeSteps
  BY DEF UpgradeSteps
<1>s. ASSUME NEW s \in UpgradeSteps, Step(s)
      PROVE  /\ upgrade'.at = s /\ upgrade'.before = upgrade.before
             /\ upgrade'.hadTUI = upgrade.hadTUI /\ upgrade'.rollbackFailed = upgrade.rollbackFailed
  BY <1>s, StepFacts DEF SameRun
<1>1. CASE StageBinaries
  <2>1. \E s \in {"back up", "ended"} : Step(s)
    BY <1>1 DEF StageBinaries
  <2>2. upgrade.at = "stage" /\ UNCHANGED <<installed, backup>>
    BY <1>1 DEF StageBinaries, AtStep
  <2>3. FilesInv'
    BY <1>n, <2>1, <2>2, QuietPhase DEF Untouched
  <2> QED BY <2>2, <2>3, WholePair DEF FilesInv, Phase, Untouched, InPlace
<1>2. CASE BackUp
  <2>1. CASE Moves(installed, backup, "yokai") /\ Step("back up tui") /\ AtStep("back up")
    <3>1. /\ backup'[Main] = installed[Main] /\ installed'[Main] = "none"
          /\ backup'[Companion] = backup[Companion] /\ installed'[Companion] = installed[Companion]
      BY <2>1, MovesFacts DEF Main
    <3>2. /\ upgrade'.at = "back up tui" /\ upgrade'.before = upgrade.before
          /\ upgrade'.hadTUI = upgrade.hadTUI /\ upgrade.at = "back up"
      BY <1>n, <1>s, <2>1 DEF AtStep
    <3>a. /\ installed[Main] = upgrade.before[Main] /\ upgrade.hadTUI
          /\ installed[Companion] = upgrade.before[Companion] /\ backup[Companion] = "none"
      BY <3>2 DEF FilesInv, Phase, Untouched, InPlace
    <3>b. /\ backup'[Main] = upgrade'.before[Main] /\ installed'[Main] = "none" /\ upgrade'.hadTUI
          /\ installed'[Companion] = upgrade'.before[Companion] /\ backup'[Companion] = "none"
      BY <3>1, <3>2, <3>a
    <3>3. Phase'
      BY <3>2, <3>b DEF Phase, Untouched, Undoing, Restarting, InPlace, Saved
    <3>4. OldPairKept'
      BY <3>b DEF OldPairKept
    <3>5. FilesInv'
      BY <3>3, <3>4 DEF FilesInv
    <3> QED BY <3>2, <3>5 DEF EndsWhole
  <2>2. CASE Step("ended") /\ AtStep("back up") /\ UNCHANGED <<installed, backup>>
    <3>1. FilesInv'
      BY <1>n, <2>2, QuietPhase
    <3> QED BY <2>2, <3>1, WholePair DEF FilesInv, Phase, Untouched, InPlace, AtStep
  <2> QED BY <1>2, <2>1, <2>2 DEF BackUp
<1>3. ASSUME NEW b \in Binaries, NEW s \in {"install tui", "drop backups"}, Installs(b, s),
             backup' = backup, OnlyFiles,
             \/ b = Main /\ s = "install tui" /\ upgrade.at = "install"
             \/ b = Companion /\ s = "drop backups" /\ upgrade.at = "install tui"
      PROVE  FilesInv' /\ EndsWhole
  <2>1. CASE installed' = [installed EXCEPT ![b] = "new"] /\ Step(s)
    <3>1. installed'[b] = "new" /\ \A c \in Binaries \ {b} : installed'[c] = installed[c]
      BY <2>1
    <3>2. upgrade'.at = s /\ upgrade'.before = upgrade.before /\ upgrade'.hadTUI = upgrade.hadTUI
      BY <1>n, <1>s, <2>1
    <3>3. Saved(Main) /\ Saved(Companion) /\ (upgrade.hadTUI \/ upgrade.before[Companion] = "none")
      BY <1>3 DEF FilesInv, Phase
    <3>4. OldPairKept'
      BY <1>3, <3>2, <3>3 DEF OldPairKept, Saved
    <3>5. Phase'
      <4>1. CASE b = Main
        <5>1. installed'[Main] = "new" /\ installed'[Companion] = "none" /\ s = "install tui"
          BY <1>3, <3>1, <4>1 DEF FilesInv, Phase
        <5> QED BY <1>3, <3>2, <3>3, <5>1 DEF Phase, Untouched, Undoing, Restarting, Saved
      <4>2. CASE b = Companion
        <5>1. Replaced' /\ s = "drop backups"
          BY <1>3, <3>1, <4>2 DEF FilesInv, Phase, Replaced
        <5> QED BY <3>2, <5>1 DEF Phase, Untouched, Undoing, Restarting
      <4> QED BY <4>1, <4>2
    <3> QED BY <3>2, <3>4, <3>5 DEF EndsWhole, FilesInv
  <2>2. CASE Step("undo install") /\ UNCHANGED installed
    <3>1. FilesInv'
      BY <1>n, <1>s, <1>3, <2>2
         DEF FilesInv, Phase, OldPairKept, Untouched, Undoing, Restarting, InPlace, Saved, Replaced
    <3> QED BY <1>n, <1>s, <2>2, <3>1 DEF EndsWhole
  <2> QED BY <1>3, <2>1, <2>2 DEF Installs
<1>4. CASE InstallBinary
  BY <1>3, <1>4 DEF InstallBinary, AtStep, Main
<1>5. CASE InstallTUI
  BY <1>3, <1>5 DEF InstallTUI, AtStep, Companion
<1>6. CASE DropBackups
  <2>1. upgrade.at = "drop backups" /\ upgrade'.at = "look" /\ installed' = installed
    BY <1>6, <1>n, <1>s DEF DropBackups, AtStep
  <2>2. Replaced'
    BY <2>1 DEF FilesInv, Phase, Replaced
  <2>3. FilesInv'
    BY <2>1, <2>2 DEF FilesInv, Phase, OldPairKept, Untouched, Undoing, Restarting, Replaced
  <2> QED BY <2>2, <2>3, WholePair
<1> QED BY <1>1, <1>2, <1>4, <1>5, <1>6

\* The steps that put the pair back.
LEMMA RollbackPhase ==
    ASSUME UpgradeTypeOK, UpgradeTypeOK', FilesInv, BackUpTUI \/ UndoInstall \/ RestorePair
    PROVE  FilesInv' /\ EndsWhole
<1> USE BinaryFacts
<1>u. upgrade \in UpgradeRun
  BY DEF UpgradeTypeOK
<1>n. {"ended", "install", "undo install tui", "restore", "restore tui"} \subseteq UpgradeSteps
  BY DEF UpgradeSteps
<1>s. ASSUME NEW s \in UpgradeSteps, Step(s)
      PROVE  /\ upgrade'.at = s /\ upgrade'.before = upgrade.before
             /\ upgrade'.hadTUI = upgrade.hadTUI /\ upgrade'.rollbackFailed = upgrade.rollbackFailed
  BY <1>s, <1>u, StepFacts DEF SameRun
<1>f. ASSUME NEW s \in UpgradeSteps, upgrade' = [upgrade EXCEPT !.at = s, !.rollbackFailed = TRUE]
      PROVE  /\ upgrade'.at = s /\ upgrade'.before = upgrade.before
             /\ upgrade'.hadTUI = upgrade.hadTUI /\ upgrade'.rollbackFailed
  BY <1>f, <1>u, FailedFacts DEF SameRun
\* Both of the pair that was found are in the backup or in place.
<1>k. ASSUME upgrade'.before = upgrade.before,
             InPlace(Main)' \/ Saved(Main)' \/ upgrade.before[Main] = "none",
             InPlace(Companion)' \/ Saved(Companion)' \/ upgrade.before[Companion] = "none"
      PROVE  OldPairKept'
  BY <1>k DEF OldPairKept, InPlace, Saved
<1>e. ASSUME upgrade'.at = "ended" PROVE Phase'
  BY <1>e DEF Phase, Untouched, Undoing, Restarting
<1>1. CASE BackUpTUI
  <2>0. /\ Saved(Main) /\ installed[Main] = "none" /\ InPlace(Companion) /\ upgrade.hadTUI
        /\ backup[Companion] = "none" /\ upgrade.at = "back up tui"
    BY <1>1 DEF BackUpTUI, AtStep, FilesInv, Phase, Untouched
  <2>1. CASE Moves(installed, backup, "yokai-tui") /\ Step("install")
    <3>1. /\ backup'[Companion] = installed[Companion] /\ installed'[Companion] = "none"
          /\ backup'[Main] = backup[Main] /\ installed'[Main] = installed[Main]
      BY <2>1, MovesFacts DEF Companion
    <3>2. upgrade'.at = "install" /\ upgrade'.before = upgrade.before /\ upgrade'.hadTUI
      BY <1>n, <1>s, <2>0, <2>1
    <3>3. Saved(Main)' /\ Saved(Companion)' /\ installed'[Main] = "none"
      BY <2>0, <3>1, <3>2 DEF Saved, InPlace
    <3>4. Phase'
      BY <3>1, <3>2, <3>3 DEF Phase, Untouched, Undoing, Restarting
    <3> QED BY <1>k, <3>2, <3>3, <3>4 DEF FilesInv, EndsWhole
  <2>2. CASE /\ installed["yokai-tui"] = "none" /\ UNCHANGED <<installed, backup>>
             /\ upgrade' = [upgrade EXCEPT !.at = "install", !.hadTUI = FALSE]
    <3>1. upgrade'.at = "install" /\ upgrade'.before = upgrade.before
      BY <1>n, <1>u, <2>2, NoTUIFacts
    <3>2. /\ Saved(Main)' /\ Saved(Companion)' /\ installed'[Main] = "none"
          /\ installed'[Companion] = "none" /\ upgrade'.before[Companion] = "none"
      BY <2>0, <2>2, <3>1 DEF Saved, InPlace, Companion
    <3>3. Phase'
      BY <3>1, <3>2 DEF Phase, Untouched, Undoing, Restarting
    <3> QED BY <1>k, <3>1, <3>2, <3>3 DEF FilesInv, EndsWhole
  <2>3. CASE Moves(backup, installed, "yokai") /\ Step("ended")
    <3>1. installed'[Main] = backup[Main] /\ installed'[Companion] = installed[Companion]
      BY <2>3, MovesFacts DEF Main
    <3>2. upgrade'.at = "ended" /\ upgrade'.before = upgrade.before
      BY <1>n, <1>s, <2>3
    <3>3. InPlace(Main)' /\ InPlace(Companion)'
      BY <2>0, <3>1, <3>2 DEF Saved, InPlace
    <3> QED BY <1>k, <1>e, <3>2, <3>3, WholePair DEF FilesInv, InPlace
  <2>4. CASE /\ upgrade' = [upgrade EXCEPT !.at = "ended", !.rollbackFailed = TRUE]
             /\ UNCHANGED <<installed, backup>>
    <3>1. /\ upgrade'.at = "ended" /\ upgrade'.before = upgrade.before
          /\ upgrade'.rollbackFailed
      BY <1>n, <1>f, <2>4
    <3>2. OldPairKept'
      BY <2>0, <2>4, <3>1, <1>k DEF Saved, InPlace
    <3> QED BY <1>e, <3>1, <3>2 DEF FilesInv, EndsWhole
  <2> QED BY <1>1, <2>1, <2>2, <2>3, <2>4 DEF BackUpTUI
<1>2. ASSUME NEW b \in Binaries, NEW s, Undoes(b, s), backup' = backup,
             \/ b = Main /\ s = "undo install tui" /\ upgrade.at = "undo install"
             \/ b = Companion /\ s = "restore" /\ upgrade.at = "undo install tui"
      PROVE  FilesInv' /\ EndsWhole
  <2>0. /\ Saved(Main) /\ Saved(Companion)
        /\ upgrade.hadTUI \/ upgrade.before[Companion] = "none"
        /\ b = Companion /\ ~upgrade.rollbackFailed => installed[Main] = "none"
    BY <1>2, BinaryFacts DEF FilesInv, Phase, Undoing
  <2>1. /\ upgrade'.at = s /\ upgrade'.before = upgrade.before /\ upgrade'.hadTUI = upgrade.hadTUI
        /\ ~upgrade'.rollbackFailed =>
             ~upgrade.rollbackFailed /\ installed' = [installed EXCEPT ![b] = "none"]
    BY <1>n, <1>s, <1>f, <1>2 DEF Undoes
  <2>2. Saved(Main)' /\ Saved(Companion)'
    BY <1>2, <2>0, <2>1 DEF Saved
  <2>3. ~upgrade'.rollbackFailed =>
          installed'[b] = "none" /\ (b = Companion => installed'[Main] = "none")
    BY <2>0, <2>1 DEF UpgradeTypeOK
  <2>4. Phase'
    BY <1>2, <2>0, <2>1, <2>2, <2>3 DEF Phase, Untouched, Undoing, Restarting
  <2> QED BY <1>2, <1>k, <2>1, <2>2, <2>4 DEF FilesInv, EndsWhole
<1>3. CASE UndoInstall
  BY <1>2, <1>3 DEF UndoInstall, AtStep, Main, Companion
<1>4. CASE AtStep("restore") /\ RestorePair
  <2> DEFINE s == IF upgrade.hadTUI THEN "restore tui" ELSE "ended"
  <2>0. /\ Saved(Main) /\ Saved(Companion) /\ upgrade.at = "restore"
        /\ upgrade.hadTUI \/ upgrade.before[Companion] = "none"
        /\ ~upgrade.rollbackFailed => installed[Companion] = "none"
    BY <1>4 DEF FilesInv, Phase, Undoing, AtStep
  <2>1. Restores("yokai", s) /\ s \in {"restore tui", "ended"}
    BY <1>4 DEF RestorePair, AtStep
  <2>5. s = "ended" => upgrade.before[Companion] = "none"
    BY <2>0
  <2> HIDE DEF s
  <2>2. CASE Moves(backup, installed, "yokai") /\ Step(s)
    <3>1. /\ installed'[Main] = backup[Main] /\ installed'[Companion] = installed[Companion]
          /\ backup'[Companion] = backup[Companion]
      BY <2>2, MovesFacts DEF Main
    <3>2. /\ upgrade'.at = s /\ upgrade'.before = upgrade.before
          /\ upgrade'.rollbackFailed = upgrade.rollbackFailed
      BY <1>n, <1>s, <2>1, <2>2
    <3>3. InPlace(Main)' /\ Saved(Companion)'
      BY <2>0, <3>1, <3>2 DEF Saved, InPlace
    <3>4. Phase'
      BY <2>1, <3>2, <3>3 DEF Phase, Untouched, Undoing, Restarting
    <3>5. EndsWhole
      <4>1. CASE s = "restore tui"
        BY <3>2, <4>1 DEF EndsWhole
      <4>2. CASE s = "ended" /\ ~upgrade.rollbackFailed
        <5>1. /\ installed'[Main] = upgrade.before[Main]
              /\ installed'[Companion] = upgrade.before[Companion]
          BY <2>0, <2>5, <3>1, <3>2, <3>3, <4>2 DEF InPlace
        <5> QED BY <5>1, WholePair
      <4> QED BY <2>1, <3>2, <4>1, <4>2 DEF EndsWhole
    <3> QED BY <1>k, <3>2, <3>3, <3>4, <3>5 DEF FilesInv
  <2>3. CASE /\ upgrade' = [upgrade EXCEPT !.at = s, !.rollbackFailed = TRUE]
             /\ UNCHANGED <<installed, backup>>
    <3>1. upgrade'.at = s /\ upgrade'.before = upgrade.before /\ upgrade'.rollbackFailed
      BY <1>n, <1>f, <2>1, <2>3
    <3>2. Saved(Main)' /\ Saved(Companion)'
      BY <2>0, <2>3, <3>1 DEF Saved
    <3>3. Phase'
      BY <2>1, <3>1, <3>2 DEF Phase, Untouched, Undoing, Restarting
    <3> QED BY <1>k, <3>1, <3>2, <3>3 DEF FilesInv, EndsWhole
  <2> QED BY <2>1, <2>2, <2>3 DEF Restores
<1>5. CASE AtStep("restore tui") /\ RestorePair
  <2>0. /\ Saved(Companion) /\ upgrade.at = "restore tui"
        /\ InPlace(Main) \/ Saved(Main) \/ upgrade.before[Main] = "none"
        /\ ~upgrade.rollbackFailed => InPlace(Main)
    BY <1>5 DEF FilesInv, Phase, AtStep
  <2>1. Restores("yokai-tui", "ended")
    BY <1>5 DEF RestorePair, AtStep
  <2>2. CASE Moves(backup, installed, "yokai-tui") /\ Step("ended")
    <3>1. /\ installed'[Companion] = backup[Companion] /\ installed'[Main] = installed[Main]
          /\ backup'[Main] = backup[Main]
      BY <2>2, MovesFacts DEF Companion
    <3>2. /\ upgrade'.at = "ended" /\ upgrade'.before = upgrade.before
          /\ upgrade'.rollbackFailed = upgrade.rollbackFailed
      BY <1>n, <1>s, <2>2
    <3>3. /\ InPlace(Companion)'
          /\ InPlace(Main)' \/ Saved(Main)' \/ upgrade.before[Main] = "none"
          /\ ~upgrade.rollbackFailed => InPlace(Main)'
      BY <2>0, <3>1, <3>2 DEF Saved, InPlace
    <3>4. EndsWhole
      <4>1. CASE upgrade.rollbackFailed
        BY <3>2, <4>1 DEF EndsWhole
      <4>2. CASE ~upgrade.rollbackFailed
        BY <3>2, <3>3, <4>2, WholePair DEF InPlace
      <4> QED BY <4>1, <4>2
    <3> QED BY <1>k, <1>e, <3>2, <3>3, <3>4 DEF FilesInv
  <2>3. CASE /\ upgrade' = [upgrade EXCEPT !.at = "ended", !.rollbackFailed = TRUE]
             /\ UNCHANGED <<installed, backup>>
    <3>1. upgrade'.at = "ended" /\ upgrade'.before = upgrade.before /\ upgrade'.rollbackFailed
      BY <1>n, <1>f, <2>3
    <3>2. OldPairKept'
      BY <2>0, <2>3, <3>1, <1>k DEF Saved, InPlace
    <3> QED BY <1>e, <3>1, <3>2 DEF FilesInv, EndsWhole
  <2> QED BY <2>1, <2>2, <2>3 DEF Restores
<1> QED BY <1>1, <1>3, <1>4, <1>5 DEF RestorePair

\* The steps of the command that leave the files alone.
LEMMA CommandPhase ==
    ASSUME UpgradeTypeOK, UpgradeTypeOK', FilesInv,
           BeginUpgrade \/ Check \/ Fetch \/ Unpack \/ RestartDaemon \/ UpgradeKilled
    PROVE  FilesInv' /\ EndsWhole
<1>n. {"idle", "fetch", "unpack", "stage", "ended", "start", "await exit", "await health",
       "restarted", "check"} \subseteq UpgradeSteps
  BY DEF UpgradeSteps
<1>u. upgrade \in UpgradeRun
  BY DEF UpgradeTypeOK
<1>1. CASE BeginUpgrade
  <2>1. /\ upgrade'.at = "check" /\ upgrade'.before = installed /\ upgrade'.hadTUI
        /\ installed' = installed /\ backup' = [b \in Binaries |-> "none"]
    BY <1>1 DEF BeginUpgrade
  <2>2. Phase'
    BY <2>1, BinaryFacts DEF Phase, Untouched, Undoing, Restarting, InPlace
  <2>3. OldPairKept'
    BY <2>1 DEF OldPairKept
  <2> QED BY <2>1, <2>2, <2>3 DEF FilesInv, EndsWhole
<1>2. CASE Check \/ Fetch \/ Unpack
  <2>1. /\ upgrade.at \in Untouched /\ UNCHANGED <<installed, backup>>
        /\ \E s \in {"fetch", "unpack", "stage", "ended"} : Step(s)
    BY <1>2 DEF Check, Fetch, Unpack, AtStep, Untouched, OnlyUpgrade, fileVars
  <2>2. FilesInv'
    BY <1>n, <2>1, QuietPhase DEF Untouched
  <2> QED BY <2>1, <2>2, WholePair DEF FilesInv, Phase, InPlace
<1>3. CASE RestartDaemon
  <2>1. upgrade.at \in {"look"} \cup Restarting /\ UNCHANGED <<installed, backup>>
    BY <1>3 DEF RestartDaemon, LookForDaemon, Terminate, AwaitExit, StartNewDaemon, AwaitHealth,
                AtStep, Restarting, OnlyUpgrade, fileVars
  <2>2. Replaced'
    BY <2>1 DEF FilesInv, Phase, Replaced
  <2>3. EndsWhole
    BY <2>2, WholePair
  <2>4. CASE LookForDaemon
    <3>1. upgrade'.at \in {"terminate", "ended"} /\ upgrade'.before = upgrade.before
      BY <2>4, LookFacts
    <3>2. FilesInv'
      BY <2>1, <2>2, <3>1 DEF FilesInv, Phase, OldPairKept, Untouched, Undoing, Restarting
    <3> QED BY <2>3, <3>2
  <2>5. CASE Terminate \/ AwaitExit \/ StartNewDaemon \/ AwaitHealth
    <3>1. \E s \in {"await exit", "start", "ended", "await health", "restarted"} : Step(s)
      BY <2>5 DEF Terminate, AwaitExit, StartNewDaemon, AwaitHealth
    <3>2. FilesInv'
      BY <1>n, <2>1, <3>1, QuietPhase DEF Restarting
    <3> QED BY <2>3, <3>2
  <2> QED BY <1>3, <2>4, <2>5 DEF RestartDaemon
<1>4. CASE UpgradeKilled
  <2>1. Step("idle") /\ UNCHANGED <<installed, backup>>
    BY <1>4 DEF UpgradeKilled, OnlyUpgrade, fileVars
  <2>2. FilesInv' /\ upgrade'.at = "idle"
    BY <1>n, <1>u, <2>1, QuietPhase, StepFacts
  <2> QED BY <2>2 DEF EndsWhole
<1> QED BY <1>1, <1>2, <1>3, <1>4

LEMMA FilesStep ==
    UpgradeTypeOK /\ UpgradeTypeOK' /\ FilesInv /\ UpgradeNext => FilesInv' /\ EndsWhole
<1> SUFFICES ASSUME UpgradeTypeOK, UpgradeTypeOK', FilesInv, UpgradeNext
             PROVE  FilesInv' /\ EndsWhole
  OBVIOUS
<1>1. CASE Install
  BY <1>1, ForwardPhase, RollbackPhase DEF Install
<1>2. CASE LaunchDaemon \/ \E p \in Pids : DaemonStep(p)
  <2>1. UNCHANGED <<fileVars, upgrade>>
    BY <1>2, DaemonTypes
  <2> QED BY <2>1, OutsidePhase DEF fileVars, EndsWhole
<1> QED BY <1>1, <1>2, CommandPhase DEF UpgradeNext

-----------------------------------------------------------------------------
\* The daemon that is stopped and the one that answers.

Old == {p \in Daemons : process[p].version = "old"}

RestartInv ==
    /\ upgrade.at \in Restarting => Old \subseteq upgrade.seen
    /\ upgrade.at \in {"start", "await health", "restarted"} => upgrade.pid \notin Old

\* Once the main binary is the new one, no daemon of the old one starts.
LEMMA NoNewOld ==
    ASSUME UpgradeTypeOK, installed["yokai"] = "new", LaunchDaemon \/ \E p \in Pids : DaemonStep(p)
    PROVE  Old' \subseteq Old
<1>0. ProcessesOK
  BY DEF UpgradeTypeOK, ProcessesOK
<1>d. ASSUME NEW p \in Pids, Dies(p) PROVE Old' \subseteq Old
  BY <1>0, <1>d, DiesFacts DEF Old, Daemons
<1>l. ASSUME NEW p \in Daemons, NEW s \in DaemonLabels, DaemonTo(p, s) PROVE Old' \subseteq Old
  BY <1>0, <1>l, DaemonLabelFacts DEF Old, Daemons, DaemonTo
<1>s. ASSUME NEW p \in Pids, NEW kind \in {"daemon", "alike", "other"}, NEW version \in {"old", "new"},
             Spawns(p, kind, version), listening' = listening, kind # "daemon" \/ version = "new"
      PROVE  Old' \subseteq Old
  BY <1>0, <1>s, SpawnsFacts DEF Old, Daemons
<1>1. ASSUME NEW p \in Pids, DaemonStep(p) PROVE Old' \subseteq Old
  <2>1. \/ Dies(p)
        \/ process' = process
        \/ \E kind \in {"alike", "other"} : Spawns(p, kind, "old") /\ listening' = listening
        \/ p \in Daemons /\ \E s \in DaemonLabels : DaemonTo(p, s)
    <3>1. CASE WritePidFile(p) \/ AskedToStop(p) \/ Drain(p)
      BY <3>1 DEF WritePidFile, AskedToStop, Drain, DaemonAt, DaemonLabels
    <3>2. CASE Serve(p)
      BY <3>2 DEF Serve, DaemonAt, DaemonLabels
    <3>3. CASE DaemonReturns(p) \/ DaemonKilled(p)
      BY <3>3 DEF DaemonReturns, DaemonKilled
    <3>4. CASE OtherStarts(p) \/ OtherListens(p) \/ OtherEnds(p)
      BY <3>4 DEF OtherStarts, OtherListens, OtherEnds
    <3> QED BY <1>1, <3>1, <3>2, <3>3, <3>4 DEF DaemonStep
  <2>2. CASE process' = process
    BY <2>2 DEF Old, Daemons
  <2> QED BY <2>1, <2>2, <1>d, <1>l, <1>s
<1>2. CASE LaunchDaemon
  <2>1. \/ process' = process
        \/ listening' = listening /\ \E p \in Pids : Spawns(p, "daemon", "new")
    BY <1>2 DEF LaunchDaemon
  <2>2. CASE process' = process
    BY <2>2 DEF Old, Daemons
  <2> QED BY <2>1, <2>2, <1>s
<1> QED BY <1>1, <1>2

LEMMA RestartStep ==
    ASSUME UpgradeTypeOK, FilesInv, RestartInv, UpgradeNext
    PROVE  RestartInv'
<1>0. upgrade \in UpgradeRun /\ ProcessesOK
  BY DEF UpgradeTypeOK, ProcessesOK
<1>n. {"idle", "start", "await exit", "await health", "restarted", "ended"} \subseteq UpgradeSteps
  BY DEF UpgradeSteps
<1>e. ASSUME upgrade'.at \notin Restarting PROVE RestartInv'
  BY <1>e DEF RestartInv, AtStep, Restarting
<1>s. ASSUME NEW s \in UpgradeSteps, Step(s)
      PROVE  /\ upgrade'.at = s /\ upgrade'.pid = upgrade.pid /\ upgrade'.seen = upgrade.seen
  BY <1>s, <1>0, StepFacts DEF SameRun
<1>1. CASE BeginUpgrade
  BY <1>1, <1>e DEF BeginUpgrade, Restarting
<1>2. CASE Check \/ Fetch \/ Unpack \/ UpgradeKilled
  <2>1. \E s \in UpgradeSteps \ Restarting : Step(s)
    BY <1>2 DEF Check, Fetch, Unpack, UpgradeKilled, UpgradeSteps, Restarting
  <2> QED BY <2>1, <1>s, <1>e
<1>3. CASE Install
  <2>1. \E s \in UpgradeSteps \ Restarting :
          \/ Step(s)
          \/ upgrade' = [upgrade EXCEPT !.at = s, !.rollbackFailed = TRUE]
          \/ upgrade' = [upgrade EXCEPT !.at = s, !.hadTUI = FALSE]
    BY <1>3 DEF Install, StageBinaries, BackUp, BackUpTUI, InstallBinary, InstallTUI, Installs,
                UndoInstall, Undoes, RestorePair, Restores, DropBackups, UpgradeSteps, Restarting
  <2>2. upgrade'.at \notin Restarting
    BY <2>1, <1>0, StepFacts, FailedFacts, NoTUIFacts
  <2> QED BY <2>2, <1>e
<1>4. CASE LookForDaemon
  <2>1. CASE upgrade'.at = "ended"
    BY <2>1, <1>e DEF Restarting
  <2>2. CASE upgrade'.at = "terminate"
    <3>1. upgrade'.seen = Daemons /\ process' = process
      BY <1>4, <2>2, LookFacts DEF LookForDaemon, OnlyUpgrade, processVars
    <3> QED BY <2>2, <3>1 DEF RestartInv, AtStep, Old, Daemons
  <2> QED BY <1>4, <2>1, <2>2, LookFacts
<1>5. CASE Terminate
  <2>1. /\ upgrade'.at = "await exit" /\ upgrade'.pid = upgrade.pid /\ upgrade'.seen = upgrade.seen
        /\ upgrade.at = "terminate"
    BY <1>5, <1>n, <1>s DEF Terminate, AtStep
  <2>2. upgrade.pid \in Pids
    BY <2>1 DEF UpgradeTypeOK
  <2>3. Old' \subseteq Old
    BY <1>0, <1>5, <2>2, SignalFacts DEF Terminate, Old
  <2> QED BY <2>1, <2>3 DEF RestartInv, AtStep, Restarting
<1>6. CASE AwaitExit
  <2>1. CASE process[upgrade.pid] = NoProcess /\ Step("start")
    <3>1. /\ upgrade'.at = "start" /\ upgrade'.pid = upgrade.pid /\ upgrade'.seen = upgrade.seen
          /\ upgrade.at = "await exit" /\ process' = process
      BY <1>6, <2>1, <1>n, <1>s DEF AwaitExit, AtStep, OnlyUpgrade, processVars
    <3>2. Old' = Old /\ upgrade'.pid \notin Old
      BY <2>1, <3>1 DEF Old, Daemons
    <3> QED BY <3>1, <3>2 DEF RestartInv, AtStep, Restarting
  <2>2. CASE Step("ended")
    BY <2>2, <1>n, <1>s, <1>e DEF Restarting
  <2> QED BY <1>6, <2>1, <2>2 DEF AwaitExit
<1>7. CASE StartNewDaemon
  <2>1. ASSUME NEW p \in Pids, Spawns(p, "daemon", installed["yokai"]), Step("await health")
        PROVE  RestartInv'
    <3>1. /\ upgrade'.at = "await health" /\ upgrade'.pid = upgrade.pid
          /\ upgrade'.seen = upgrade.seen /\ upgrade.at = "start" /\ listening' = listening
      BY <1>7, <2>1, <1>n, <1>s DEF StartNewDaemon, AtStep
    <3>2. installed["yokai"] = "new"
      BY <3>1 DEF FilesInv, Phase, Restarting, Replaced, Main
    <3>3. /\ process'[p].version = "new"
          /\ \A q \in Pids \ {p} : process'[q] = process[q]
      BY <1>0, <2>1, <3>1, <3>2, SpawnsFacts
    <3>4. Old' \subseteq Old
      BY <3>3 DEF Old, Daemons
    <3> QED BY <3>1, <3>4 DEF RestartInv, AtStep, Restarting
  <2>2. CASE Step("ended")
    BY <2>2, <1>n, <1>s, <1>e DEF Restarting
  <2> QED BY <1>7, <2>1, <2>2 DEF StartNewDaemon
<1>8. CASE AwaitHealth
  <2>1. CASE Step("restarted")
    <3>1. /\ upgrade'.at = "restarted" /\ upgrade'.pid = upgrade.pid
          /\ upgrade'.seen = upgrade.seen /\ upgrade.at = "await health" /\ process' = process
      BY <1>8, <2>1, <1>n, <1>s DEF AwaitHealth, AtStep, OnlyUpgrade, processVars
    <3>2. Old' = Old
      BY <3>1 DEF Old, Daemons
    <3> QED BY <3>1, <3>2 DEF RestartInv, AtStep, Restarting
  <2>2. CASE Step("ended")
    BY <2>2, <1>n, <1>s, <1>e DEF Restarting
  <2> QED BY <1>8, <2>1, <2>2 DEF AwaitHealth
<1>9. CASE LaunchDaemon \/ \E p \in Pids : DaemonStep(p)
  <2>1. upgrade' = upgrade
    BY <1>9, DaemonTypes
  <2>2. CASE upgrade.at \in Restarting
    <3>1. installed["yokai"] = "new"
      BY <2>2 DEF FilesInv, Phase, Replaced, Main
    <3>2. Old' \subseteq Old
      BY <1>9, <3>1, NoNewOld
    <3> QED BY <2>1, <3>2 DEF RestartInv
  <2> QED BY <2>1, <2>2, <1>e
<1> QED BY <1>1, <1>2, <1>3, <1>4, <1>5, <1>6, <1>7, <1>8, <1>9 DEF UpgradeNext, RestartDaemon

LEMMA EffectFromInv == UpgradeTypeOK /\ RestartInv => RestartTakesEffect
<1> SUFFICES ASSUME UpgradeTypeOK, RestartInv, AtStep("restarted"),
                    upgrade.seen \subseteq {upgrade.pid}, Healthy, process[listening].version # "new"
             PROVE  FALSE
  BY DEF RestartTakesEffect
<1>1. listening \in Daemons /\ process[listening] \in Process
  BY DEF UpgradeTypeOK, Healthy, Daemons
<1>2. listening \in Old
  BY <1>1 DEF Process, Old
<1>3. listening \in upgrade.seen /\ upgrade.pid \notin Old
  BY <1>2 DEF RestartInv, AtStep, Restarting
<1> QED BY <1>2, <1>3

-----------------------------------------------------------------------------
UpgradeInv == UpgradeTypeOK /\ FilesInv /\ RestartInv

LEMMA InvInitially == UpgradeInit => UpgradeInv
<1> SUFFICES ASSUME UpgradeInit PROVE UpgradeInv
  OBVIOUS
<1>1. UpgradeTypeOK
  BY TypesInitially
<1>2. upgrade.at = "idle" /\ upgrade.before = installed
  BY DEF UpgradeInit
<1>3. FilesInv
  BY <1>2 DEF FilesInv, Phase, OldPairKept, Untouched, Undoing, Restarting
<1>4. RestartInv
  BY <1>2 DEF RestartInv, AtStep, Restarting
<1> QED BY <1>1, <1>3, <1>4 DEF UpgradeInv

LEMMA InvStep == UpgradeInv /\ [UpgradeNext]_upgradeVars => UpgradeInv' /\ (UpgradeNext => EndsWhole)
<1> SUFFICES ASSUME UpgradeInv, [UpgradeNext]_upgradeVars
             PROVE  UpgradeInv' /\ (UpgradeNext => EndsWhole)
  OBVIOUS
<1>1. UpgradeTypeOK'
  BY TypesStep DEF UpgradeInv
<1>2. CASE UpgradeNext
  BY <1>1, <1>2, FilesStep, RestartStep DEF UpgradeInv
<1>3. CASE UNCHANGED upgradeVars
  <2>1. FilesInv'
    BY <1>3, OutsidePhase DEF UpgradeInv, upgradeVars
  <2>2. RestartInv'
    BY <1>3 DEF UpgradeInv, upgradeVars, RestartInv, AtStep, Old, Daemons
  <2>3. EndsWhole
    BY <1>3 DEF upgradeVars, EndsWhole
  <2> QED BY <1>1, <2>1, <2>2, <2>3 DEF UpgradeInv
<1> QED BY <1>2, <1>3

\* Wherever the command fails or is killed the pair it found can be put back, and a restart
\* it reports took effect if it stopped the only daemon there was, whatever foreign
\* programs came by its ID or its port (installUpdatePairWithOps, restartRunningDaemon).
THEOREM UpgradeIsSafe == UpgradeSpec => []UpgradeSafety
<1>1. UpgradeInv => UpgradeSafety
  BY EffectFromInv DEF UpgradeInv, FilesInv, RestartInv, UpgradeSafety
<1> QED BY <1>1, InvInitially, InvStep, PTL DEF UpgradeSpec

\* An installation that ends by itself leaves a whole pair: the new one or the one it
\* found (installUpdatePairWithOps, rollbackUpdatePair).
THEOREM PairKept == UpgradeSpec => PairWholeOrKept
<1>1. UpgradeInv /\ [UpgradeNext]_upgradeVars =>
        [upgrade'.at # upgrade.at /\ upgrade'.at \in {"ended", "look"} /\ ~upgrade'.rollbackFailed
           => \/ installed' = upgrade.before
              \/ \A b \in Binaries : installed'[b] = "new"]_upgradeVars
  BY InvStep DEF EndsWhole
<1> QED BY <1>1, InvInitially, InvStep, PTL DEF UpgradeSpec, PairWholeOrKept

-----------------------------------------------------------------------------
\* AgentInstall.

\* Steps of a bootstrap after it wrote the agent's configuration, after it asked the
\* agent with its token; steps of an upgrade after it placed the binary.
Configured == {"kill", "restart", "verify", "inventory", "monitor", "save"}
Verified == {"inventory", "monitor", "save"}
Upgraded == {"kill", "restart", "verify"}

\* The one kind of installation of a host that has not both.
Own == IF unit["system"] # "none" THEN "system" ELSE "user"

KindOK(w) ==
    w.at \notin IF w.kind # "upgrade" THEN {"locate", "services"} ELSE {"mode", "configure"}

\* Operations that do not overlap: what was uploaded is the operation's own and whole
\* when it is installed, and the stack scrapes with its token when it says so.
Uploads(w) ==
    /\ w.at = "uploading" => upload # Missing /\ upload.by = w.id
    /\ w.at \in {"mode", "install"} => upload # Missing /\ upload.by = w.id /\ upload.whole
Scrapes(w) ==
    /\ w.kind = "upgrade" => w.token = known.token
    /\ w.at = "save" /\ (w.kind = "upgrade" \/ (w.kind = "bootstrap" /\ w.stack))
         => stack = w.token

\* On a host with one kind of installation, an operation works on that kind; what
\* a bootstrap has configured and verified, and an upgrade has replaced, stays.
WorksOnOwn(w) ==
    IF w.kind # "upgrade" /\ w.at \in {"upload", "uploading", "mode"} THEN w.mode = "user"
    ELSE w.at = "locate" \/ w.mode = Own
Tells(w) ==
    w.kind # "upgrade" =>
        /\ w.at \in Configured => agentConfig[Own] = w.token
        /\ w.at \in Verified /\ agent # Missing => agent.token \in {w.token, Missing}
Replaces(w) ==
    w.kind = "upgrade" =>
        /\ w.at # "locate" /\ Own = "user" /\ systemdUser => unit["user"] # "none"
        /\ w.at \in Upgraded => binary[Own] = w.id
        /\ w.at = "verify" /\ agent # Missing /\ (Own = "system" \/ systemdUser)
             => agent.binary = w.id

\* Which agent may run there.
AgentIsOwn ==
    agent # Missing =>
        IF Own = "system" THEN agent.mode = "system"
        ELSE /\ agent.mode \in {"user", "bare"}
             /\ systemdUser => agent.mode = "user" /\ unit["user"] # "none"

Bootstrapping(steps) == \E o \in Busy : Bootstraps(o) /\ working[o].at \in steps

Settled == known.monitoring /\ ~unsettled /\ ~staleStack /\ ~Bootstrapping({"save"})
             => stack \in {known.token, Missing}
TokenKept ==
    ~unsettled /\ ~Bootstrapping(Configured) =>
        /\ agentConfig[Own] \in {known.token, Missing}
        /\ agent # Missing => agent.token \in {known.token, Missing}

PartsAreCut == \A m \in Modes : binary[m] = Part => m \in cutShort

InstallInv ==
    /\ InstallTypeOK
    /\ \A o \in Busy : KindOK(working[o])
    /\ overlapped = {} =>
         /\ \A o, p \in Busy : o = p
         /\ PartsAreCut
         /\ \A o \in Busy : Uploads(working[o]) /\ Scrapes(working[o])
         /\ Settled
    /\ Alone =>
         /\ \A o \in Busy : WorksOnOwn(working[o]) /\ Tells(working[o]) /\ Replaces(working[o])
         /\ AgentIsOwn /\ TokenKept

-----------------------------------------------------------------------------
\* The invariant as one operation, at rest or not, sees it that no other overlaps.

Held(w) ==
    /\ PartsAreCut
    /\ w.at # "rest" => Uploads(w) /\ Scrapes(w)
    /\ known.monitoring /\ ~unsettled /\ ~staleStack /\ ~(w.at = "save" /\ w.kind # "upgrade")
         => stack \in {known.token, Missing}
Fits(w) ==
    /\ w.at # "rest" => WorksOnOwn(w) /\ Tells(w) /\ Replaces(w)
    /\ AgentIsOwn
    /\ ~unsettled /\ ~(w.at \in Configured /\ w.kind # "upgrade") =>
         /\ agentConfig[Own] \in {known.token, Missing}
         /\ agent # Missing => agent.token \in {known.token, Missing}

LEMMA RecordFacts ==
    /\ Rested.at = "rest" /\ Rested \notin InProgress
    /\ \A w \in InProgress : w.at \in OperationSteps /\ w.at # "rest"
BY DEF Rested, InProgress, OperationSteps

LEMMA InstallFacts ==
    ASSUME InstallInv
    PROVE  /\ working \in [Operators -> InProgress \cup {Rested}]
           /\ \A o \in Operators : working[o] \in InProgress <=> ~DoesStep(o, "rest")
           /\ \A o \in Operators : ~DoesStep(o, "rest") => KindOK(working[o])
           /\ binary \in [Modes -> Operation \cup {Part, Missing}]
           /\ agentConfig \in [Modes -> Operation \cup {Missing}]
           /\ unit \in [Modes -> {"none", "disabled", "enabled"}]
           /\ agent \in AnsweringAgent \cup {Missing} /\ upload \in Uploaded \cup {Missing}
           /\ known \in [token: Operation, monitoring: BOOLEAN] /\ stack \in Operation \cup {Missing}
           /\ systemdUser \in BOOLEAN /\ operations \in Operation /\ overlapped \subseteq Operation
           /\ unsettled \in BOOLEAN /\ cutShort \subseteq Modes /\ staleStack \in BOOLEAN
           /\ installFaults \in Nat
<1>1. InstallTypeOK /\ \A o \in Busy : KindOK(working[o])
  BY DEF InstallInv
<1>2. \A o \in Operators : working[o] \in InProgress \cup {Rested}
  BY <1>1 DEF InstallTypeOK
<1>3. \A o \in Operators : working[o] \in InProgress <=> ~DoesStep(o, "rest")
  BY <1>2, RecordFacts DEF DoesStep
<1> QED BY <1>1, <1>3 DEF InstallTypeOK, Busy

LEMMA FromInv ==
    ASSUME InstallInv, NEW o \in Busy
    PROVE  /\ overlapped = {} => Held(working[o]) /\ Busy = {o}
           /\ Alone => Fits(working[o])
<1>1. overlapped = {} => Busy = {o}
  BY DEF InstallInv
<1>2. overlapped = {} => Held(working[o])
  BY <1>1 DEF InstallInv, Held, PartsAreCut, Settled, Bootstrapping, Bootstraps
<1>3. Alone => Fits(working[o])
  BY <1>1 DEF InstallInv, Fits, TokenKept, Bootstrapping, Bootstraps, Alone
<1> QED BY <1>1, <1>2, <1>3

\* A kind of installation that is there stays.
LEMMA OwnKept ==
    ASSUME InstallInv, unit' \in [Modes -> {"none", "disabled", "enabled"}],
           \A m \in Modes : unit[m] # "none" => unit'[m] # "none"
    PROVE  ~BothInstalled' => ~BothInstalled
BY InstallFacts DEF BothInstalled, Modes

\* What a step of one operation has to show.
LEMMA ToInv ==
    ASSUME InstallInv, NEW o \in Busy, InstallTypeOK',
           \A p \in Operators : p # o => working'[p] = working[p],
           overlapped' = overlapped,
           ~DoesStep(o, "rest")' => KindOK(working[o])',
           overlapped = {} => Held(working[o])',
           Alone' => Fits(working[o])'
    PROVE  InstallInv'
<1>1. Busy' \subseteq Busy
  BY DEF Busy, DoesStep
<1>2. \A p \in Busy' : KindOK(working[p])'
  BY DEF InstallInv, Busy, DoesStep, KindOK
<1>3. overlapped = {} => Busy' \subseteq {o}
  BY <1>1, FromInv
<1>4. overlapped' = {} =>
        /\ \A p, q \in Busy' : p = q
        /\ PartsAreCut'
        /\ \A p \in Busy' : Uploads(working[p])' /\ Scrapes(working[p])'
        /\ Settled'
  <2> SUFFICES ASSUME overlapped = {}
               PROVE  /\ \A p, q \in Busy' : p = q
                      /\ PartsAreCut'
                      /\ \A p \in Busy' : Uploads(working[p])' /\ Scrapes(working[p])'
                      /\ Settled'
    OBVIOUS
  <2>1. \A p \in Busy' : p = o /\ working'[o].at # "rest"
    BY <1>3 DEF Busy, DoesStep
  <2>2. working'[o].at = "save" => o \in Busy'
    BY DEF Busy, DoesStep
  <2>3. Settled'
    BY <2>2 DEF Held, PartsAreCut, Settled, Bootstrapping, Bootstraps
  <2> QED BY <2>1, <2>3 DEF Held, PartsAreCut
<1>5. Alone' =>
        /\ \A p \in Busy' : WorksOnOwn(working[p])' /\ Tells(working[p])' /\ Replaces(working[p])'
        /\ AgentIsOwn' /\ TokenKept'
  <2> SUFFICES ASSUME Alone'
               PROVE  /\ \A p \in Busy' : /\ WorksOnOwn(working[p])' /\ Tells(working[p])'
                                          /\ Replaces(working[p])'
                      /\ AgentIsOwn' /\ TokenKept'
    OBVIOUS
  <2>1. \A p \in Busy' : p = o /\ working'[o].at # "rest"
    BY <1>3 DEF Busy, DoesStep, Alone
  <2>2. working'[o].at \in Configured => o \in Busy'
    BY DEF Busy, DoesStep, Configured
  <2>3. TokenKept'
    BY <2>2 DEF Fits, TokenKept, Bootstrapping, Bootstraps
  <2> QED BY <2>1, <2>3 DEF Fits
<1> QED BY <1>2, <1>4, <1>5 DEF InstallInv

LEMMA NextFacts ==
    ASSUME InstallInv, NEW o \in Busy, NEW s \in OperationSteps, NextStep(o, s)
    PROVE  /\ working' \in [Operators -> InProgress \cup {Rested}]
           /\ \A p \in Operators : p # o => working'[p] = working[p]
           /\ working'[o] \in InProgress /\ working'[o].at = s
           /\ working'[o].kind = working[o].kind /\ working'[o].id = working[o].id
           /\ working'[o].token = working[o].token /\ working'[o].mode = working[o].mode
           /\ working'[o].stack = working[o].stack
<1> DEFINE r == [working[o] EXCEPT !.at = s]
<1>1. working[o] \in InProgress /\ o \in Operators
  BY InstallFacts DEF Busy
<1>2. /\ r \in InProgress /\ r.at = s /\ r.kind = working[o].kind /\ r.id = working[o].id
      /\ r.token = working[o].token /\ r.mode = working[o].mode /\ r.stack = working[o].stack
  BY <1>1 DEF InProgress
<1>3. working' = [working EXCEPT ![o] = r]
  BY DEF NextStep
<1> HIDE DEF r
<1> QED BY <1>1, <1>2, <1>3, InstallFacts

LEMMA CompletesFacts ==
    ASSUME InstallInv, NEW o \in Busy, Completes(o)
    PROVE  /\ working' \in [Operators -> InProgress \cup {Rested}]
           /\ \A p \in Operators : p # o => working'[p] = working[p]
           /\ working'[o].at = "rest"
BY InstallFacts, RecordFacts DEF Completes, Busy

-----------------------------------------------------------------------------
\* Steps of an operation.

\* An operation that breaks off or ends: what it did last decides.
LEMMA EndsKeep ==
    ASSUME InstallInv, NEW o \in Busy, Completes(o), InstallTypeOK', UNCHANGED overlapped,
           overlapped = {} =>
               /\ PartsAreCut'
               /\ known'.monitoring /\ ~unsettled' /\ ~staleStack' => stack' \in {known'.token, Missing},
           Alone' =>
               /\ AgentIsOwn'
               /\ ~unsettled' => /\ agentConfig'[Own'] \in {known'.token, Missing}
                                 /\ agent' # Missing => agent'.token \in {known'.token, Missing}
    PROVE  InstallInv'
<1>1. /\ \A p \in Operators : p # o => working'[p] = working[p]
      /\ working'[o].at = "rest"
  BY CompletesFacts
<1>2. overlapped = {} => Held(working[o])'
  BY <1>1 DEF Held, PartsAreCut
<1>3. Alone' => Fits(working[o])'
  BY <1>1 DEF Fits, Own, Configured
<1> QED BY <1>1, <1>2, <1>3, ToInv DEF DoesStep

\* An operation that ends having changed nothing more.
LEMMA BreaksKeep ==
    ASSUME InstallInv, NEW o \in Busy, Completes(o), installFaults' \in Nat,
           UNCHANGED <<upload, binary, agentConfig, cutShort, unit, agent, stack, known, staleStack,
                       systemdUser, operations, overlapped>>,
           unsettled' \in BOOLEAN, unsettled => unsettled',
           working[o].kind # "upgrade" /\ working[o].at \in Configured => unsettled'
    PROVE  InstallInv'
<1>1. Alone' => Alone
  BY DEF Alone, BothInstalled
<1>2. /\ overlapped = {} => Held(working[o])
      /\ Alone => Fits(working[o])
  BY FromInv
<1>3. InstallTypeOK'
  BY CompletesFacts DEF InstallInv, InstallTypeOK
<1>4. overlapped = {} =>
             /\ PartsAreCut'
             /\ known'.monitoring /\ ~unsettled' /\ ~staleStack' => stack' \in {known'.token, Missing}
  BY <1>2 DEF Held, PartsAreCut, Configured
<1>5. Alone' =>
             /\ AgentIsOwn'
             /\ ~unsettled' => /\ agentConfig'[Own'] \in {known'.token, Missing}
                               /\ agent' # Missing => agent'.token \in {known'.token, Missing}
  BY <1>1, <1>2 DEF Fits, AgentIsOwn, Own
<1> QED BY <1>3, <1>4, <1>5, EndsKeep

LEMMA LocateKeeps ==
    ASSUME InstallInv, NEW o \in Busy, Locate(o)
    PROVE  InstallInv'
<1>1. /\ UNCHANGED <<upload, binary, agentConfig, cutShort, unit, agent, stack, known, staleStack, unsettled,
                     installFaults, systemdUser, operations, overlapped>>
      /\ working[o].at = "locate" /\ working[o] \in InProgress /\ working[o].kind = "upgrade"
  BY InstallFacts DEF Locate, Idle, hostFiles, records, DoesStep, Busy, KindOK, InProgress
<1>2. Alone' => Alone
  BY <1>1 DEF Alone, BothInstalled
<1>3. /\ overlapped = {} => Held(working[o])
      /\ Alone => Fits(working[o])
  BY FromInv
<1>4. CASE agent = Missing
  <2>1. Completes(o)
    BY <1>4 DEF Locate
  <2> QED BY <1>1, <2>1, BreaksKeep, InstallFacts
<1>5. CASE agent # Missing
  <2> DEFINE m == IF agent.mode = "system" THEN "system" ELSE "user"
             k == [working[o] EXCEPT !.at = "upload"]
             r == [k EXCEPT !.mode = m]
  <2>1. /\ k \in InProgress /\ k.at = "upload" /\ k.kind = "upgrade" /\ k.token = working[o].token
        /\ k.stack = working[o].stack /\ m \in Modes
    BY <1>1 DEF InProgress, OperationSteps, Modes
  <2>2. working' = [working EXCEPT ![o] = [k EXCEPT !.mode = m]]
    BY <1>5 DEF Locate
  <2> HIDE DEF k
  <2>3. /\ r \in InProgress /\ r.at = "upload" /\ r.kind = "upgrade" /\ r.token = working[o].token
        /\ r.stack = working[o].stack /\ r.mode = m
    BY <2>1 DEF InProgress
  <2> HIDE DEF r
  <2>4. /\ working' \in [Operators -> InProgress \cup {Rested}] /\ working'[o] = r
        /\ \A p \in Operators : p # o => working'[p] = working[p]
    BY <2>2, <2>3, InstallFacts DEF Busy, r
  <2>5. InstallTypeOK'
    BY <1>1, <2>4 DEF InstallInv, InstallTypeOK
  <2>6. KindOK(working[o])'
    BY <2>3, <2>4 DEF KindOK
  <2>7. overlapped = {} => Held(working[o])'
    BY <1>1, <1>3, <2>3, <2>4 DEF Held, PartsAreCut, Uploads, Scrapes
  <2>8. Alone' => Fits(working[o])'
    <3> SUFFICES ASSUME Alone' PROVE Fits(working[o])'
      OBVIOUS
    <3>1. Fits(working[o]) /\ Own' = Own
      BY <1>1, <1>2, <1>3 DEF Own
    <3>2. m = Own /\ (Own = "user" /\ systemdUser => unit["user"] # "none")
      BY <1>5, <3>1 DEF Fits, AgentIsOwn, Own
    <3> QED BY <1>1, <2>3, <2>4, <3>1, <3>2
            DEF Fits, AgentIsOwn, WorksOnOwn, Tells, Replaces, Configured, Upgraded
  <2> QED BY <1>1, <2>4, <2>5, <2>6, <2>7, <2>8, ToInv
<1> QED BY <1>4, <1>5

LEMMA UploadKeeps ==
    ASSUME InstallInv, NEW o \in Busy, UploadBinary(o)
    PROVE  InstallInv'
<1>1. /\ UNCHANGED <<cutShort, binary, agentConfig, unit, agent, stack, known, staleStack, unsettled,
                     systemdUser, operations, overlapped>>
      /\ working[o].at \in {"upload", "uploading"} /\ working[o] \in InProgress
  BY InstallFacts DEF UploadBinary, Idle, records, DoesStep, Busy
<1>2. Alone' => Alone
  BY <1>1 DEF Alone, BothInstalled
<1>3. /\ overlapped = {} => Held(working[o])
      /\ Alone => Fits(working[o])
  BY FromInv
<1>4. CASE /\ BreaksOff(o) /\ working[o].at = "uploading"
           /\ \/ upload' = upload
              \/ upload # Missing /\ upload' = [upload EXCEPT !.whole = TRUE]
  <2>1. Completes(o) /\ installFaults' \in Nat
    BY <1>4, InstallFacts DEF BreaksOff, Fails
  <2>2. upload' \in Uploaded \cup {Missing}
    BY <1>4, InstallFacts DEF Uploaded
  <2>3. InstallTypeOK'
    BY <1>1, <2>1, <2>2, CompletesFacts DEF InstallInv, InstallTypeOK
  <2>4. overlapped = {} =>
             /\ PartsAreCut'
             /\ known'.monitoring /\ ~unsettled' /\ ~staleStack' => stack' \in {known'.token, Missing}
    BY <1>1, <1>3, <1>4 DEF Held, PartsAreCut
  <2>5. Alone' =>
             /\ AgentIsOwn'
             /\ ~unsettled' => /\ agentConfig'[Own'] \in {known'.token, Missing}
                               /\ agent' # Missing => agent'.token \in {known'.token, Missing}
    BY <1>1, <1>2, <1>3, <1>4 DEF Fits, AgentIsOwn, Own, Configured
  <2> QED BY <1>1, <2>1, <2>3, <2>4, <2>5, EndsKeep
<1>5. ASSUME NEW s \in {"uploading", "mode", "install"}, NextStep(o, s), UNCHANGED installFaults,
             s = "uploading" => /\ working[o].at = "upload"
                                /\ upload' = [by |-> working[o].id, whole |-> FALSE],
             s # "uploading" =>
               /\ working[o].at = "uploading"
               /\ s = IF working[o].kind # "upgrade" THEN "mode" ELSE "install"
               /\ upload' = IF upload # Missing /\ upload.by = working[o].id
                            THEN [upload EXCEPT !.whole = TRUE] ELSE upload
      PROVE  InstallInv'
  <2>1. /\ working' \in [Operators -> InProgress \cup {Rested}]
        /\ \A p \in Operators : p # o => working'[p] = working[p]
        /\ working'[o] \in InProgress /\ working'[o].at = s
        /\ working'[o].kind = working[o].kind /\ working'[o].id = working[o].id
        /\ working'[o].token = working[o].token /\ working'[o].mode = working[o].mode
        /\ working'[o].stack = working[o].stack
    BY <1>5, NextFacts DEF OperationSteps
  <2>2. /\ upload' \in Uploaded \cup {Missing}
        /\ s = "uploading" => upload' \in Uploaded /\ upload'.by = working[o].id
        /\ s # "uploading" /\ upload # Missing /\ upload.by = working[o].id
             => upload' \in Uploaded /\ upload'.by = working[o].id /\ upload'.whole
    <3>1. upload \in Uploaded =>
            LET new == [upload EXCEPT !.whole = TRUE] IN
            new \in Uploaded /\ new.by = upload.by /\ new.whole
      BY DEF Uploaded
    <3>2. LET new == [by |-> working[o].id, whole |-> FALSE] IN
          new \in Uploaded /\ new.by = working[o].id
      BY <1>1 DEF Uploaded, InProgress
    <3>3. CASE s = "uploading"
      BY <1>5, <3>2, <3>3
    <3>4. CASE s # "uploading"
      BY <1>5, <3>1, <3>4, InstallFacts
    <3> QED BY <3>3, <3>4
  <2>3. InstallTypeOK'
    BY <1>1, <1>5, <2>1, <2>2 DEF InstallInv, InstallTypeOK
  <2>4. KindOK(working[o])'
    BY <1>5, <2>1, InstallFacts DEF KindOK
  <2>5. overlapped = {} => Held(working[o])'
    BY <1>1, <1>3, <1>5, <2>1, <2>2, MissingAssumption DEF Held, PartsAreCut, Uploads, Scrapes
  <2>6. Alone' => Fits(working[o])'
    BY <1>1, <1>2, <1>3, <1>5, <2>1
       DEF Fits, AgentIsOwn, WorksOnOwn, Tells, Replaces, Own, Configured, Upgraded, Verified,
           InProgress
  <2> QED BY <1>1, <2>1, <2>3, <2>4, <2>5, <2>6, ToInv
<1> QED BY <1>4, <1>5 DEF UploadBinary, DoesStep, Bootstraps

\* The service of a user is disabled on a host that has both: nothing is claimed of it
\* but that binaries are whole.
LEMMA ChooseModeKeeps ==
    ASSUME InstallInv, NEW o \in Busy, ChooseMode(o)
    PROVE  InstallInv'
<1>1. /\ UNCHANGED <<cutShort, upload, binary, agentConfig, stack, known, staleStack, unsettled,
                     systemdUser, operations, overlapped>>
      /\ working[o].at = "mode" /\ working[o] \in InProgress /\ working[o].kind # "upgrade"
  BY InstallFacts DEF ChooseMode, Idle, hostFiles, records, DoesStep, Busy, KindOK, InProgress
<1>2. /\ unit' \in [Modes -> {"none", "disabled", "enabled"}]
      /\ \A m \in Modes : unit[m] # "none" <=> unit'[m] # "none"
      /\ agent' \in {agent, Missing}
      /\ Alone' => UNCHANGED <<unit, agent>>
  <2>1. CASE unit["system"] = "none"
    BY <2>1, InstallFacts DEF ChooseMode
  <2>2. CASE unit["system"] # "none"
    <3>1. unit' = [unit EXCEPT !["user"] =
                            IF unit["user"] = "enabled" THEN "disabled" ELSE unit["user"]]
          /\ agent' = StoppedAgent("user")
      BY <2>2 DEF ChooseMode
    <3>2. /\ unit' \in [Modes -> {"none", "disabled", "enabled"}]
          /\ \A m \in Modes : unit[m] # "none" <=> unit'[m] # "none"
          /\ unit["user"] = "none" => unit' = unit
      BY <3>1, InstallFacts DEF Modes
    <3>3. Alone' => Alone /\ unit["user"] = "none"
      BY <1>1, <2>2, <3>2 DEF Alone, BothInstalled, Modes
    <3>4. Alone' => agent' = agent
      BY <2>2, <3>1, <3>3, FromInv DEF Fits, AgentIsOwn, Own, StoppedAgent
    <3> QED BY <3>1, <3>2, <3>3, <3>4 DEF StoppedAgent
  <2> QED BY <2>1, <2>2
<1>3. /\ Alone' => Alone
      /\ overlapped = {} => Held(working[o])
      /\ Alone => Fits(working[o])
  BY <1>1, <1>2, FromInv DEF Alone, BothInstalled
<1>4. CASE BreaksOff(o)
  <2>1. Completes(o) /\ installFaults' \in Nat
    BY <1>4, InstallFacts DEF BreaksOff, Fails
  <2>2. InstallTypeOK'
    BY <1>1, <1>2, <2>1, CompletesFacts DEF InstallInv, InstallTypeOK
  <2>3. overlapped = {} =>
             /\ PartsAreCut'
             /\ known'.monitoring /\ ~unsettled' /\ ~staleStack' => stack' \in {known'.token, Missing}
    BY <1>1, <1>3 DEF Held, PartsAreCut
  <2>4. Alone' =>
             /\ AgentIsOwn'
             /\ ~unsettled' => /\ agentConfig'[Own'] \in {known'.token, Missing}
                               /\ agent' # Missing => agent'.token \in {known'.token, Missing}
    BY <1>1, <1>2, <1>3 DEF Fits, AgentIsOwn, Own, Configured
  <2> QED BY <1>1, <2>1, <2>2, <2>3, <2>4, EndsKeep
<1>5. ASSUME working' \in [Operators -> InProgress \cup {Rested}],
             \A p \in Operators : p # o => working'[p] = working[p],
             working'[o] \in InProgress /\ working'[o].at = "install",
             working'[o].kind = working[o].kind /\ working'[o].id = working[o].id,
             working'[o].token = working[o].token /\ working'[o].stack = working[o].stack,
             working'[o].mode = (IF unit["system"] # "none" THEN "system" ELSE working[o].mode),
             UNCHANGED installFaults
      PROVE  InstallInv'
  <2>1. InstallTypeOK'
    BY <1>1, <1>2, <1>5 DEF InstallInv, InstallTypeOK
  <2>2. KindOK(working[o])'
    BY <1>1, <1>5 DEF KindOK
  <2>3. overlapped = {} => Held(working[o])'
    BY <1>1, <1>3, <1>5 DEF Held, PartsAreCut, Uploads, Scrapes
  <2>4. Alone' => Fits(working[o])'
    <3> SUFFICES ASSUME Alone' PROVE Fits(working[o])'
      OBVIOUS
    <3>1. Fits(working[o]) /\ Own' = Own
      BY <1>1, <1>2, <1>3 DEF Own
    <3>2. working'[o].mode = Own
      BY <1>1, <1>5, <3>1 DEF Fits, WorksOnOwn, Own
    <3> QED BY <1>1, <1>2, <1>5, <3>1, <3>2
            DEF Fits, AgentIsOwn, WorksOnOwn, Tells, Replaces, Configured, Verified
  <2> QED BY <1>1, <1>5, <2>1, <2>2, <2>3, <2>4, ToInv
<1>6. CASE unit["system"] # "none" /\ ~BreaksOff(o)
  <2> DEFINE k == [working[o] EXCEPT !.at = "install"]
             r == [k EXCEPT !.mode = "system"]
  <2>1. /\ k \in InProgress /\ k.at = "install" /\ k.kind = working[o].kind
        /\ k.token = working[o].token /\ k.stack = working[o].stack /\ k.id = working[o].id
    BY <1>1 DEF InProgress, OperationSteps
  <2>2. working' = [working EXCEPT ![o] = [k EXCEPT !.mode = "system"]] /\ UNCHANGED installFaults
    BY <1>6 DEF ChooseMode
  <2> HIDE DEF k
  <2>3. /\ r \in InProgress /\ r.at = "install" /\ r.kind = working[o].kind
        /\ r.token = working[o].token /\ r.stack = working[o].stack /\ r.mode = "system"
        /\ r.id = working[o].id
    BY <2>1 DEF InProgress, Modes
  <2> HIDE DEF r
  <2>4. /\ working' \in [Operators -> InProgress \cup {Rested}] /\ working'[o] = r
        /\ \A p \in Operators : p # o => working'[p] = working[p]
    BY <2>2, <2>3, InstallFacts DEF Busy, r
  <2> QED BY <1>5, <1>6, <2>2, <2>3, <2>4
<1>7. CASE unit["system"] = "none"
  BY <1>5, <1>7, NextFacts DEF ChooseMode, OperationSteps
<1> QED BY <1>4, <1>6, <1>7

LEMMA PlaceBinaryKeeps ==
    ASSUME InstallInv, NEW o \in Busy, PlaceBinary(o)
    PROVE  InstallInv'
<1>1. /\ UNCHANGED <<agentConfig, unit, agent, stack, known, staleStack, unsettled,
                     systemdUser, operations, overlapped>>
      /\ working[o].at = "install" /\ working[o] \in InProgress
  BY InstallFacts DEF PlaceBinary, Idle, records, DoesStep, Busy
<1>2. /\ Alone' => Alone
      /\ overlapped = {} => Held(working[o])
      /\ Alone => Fits(working[o])
  BY <1>1, FromInv DEF Alone, BothInstalled
<1>3. CASE Completes(o) /\ UNCHANGED <<binary, upload, cutShort>> /\ installFaults' \in Nat
  BY <1>1, <1>3, BreaksKeep, InstallFacts DEF Configured
<1>4. working[o].mode \in Modes /\ working[o].id \in Operation
  BY <1>1 DEF InProgress
<1>5. ASSUME upload # Missing,
             NEW b, b = IF upload.whole THEN upload.by ELSE Part
      PROVE  b \in Operation \cup {Part} /\ (overlapped = {} => b = working[o].id)
  BY <1>1, <1>2, <1>5, InstallFacts DEF Held, Uploads, Uploaded
<1>6. working[o].id # Part
  BY <1>4, InstallAssumption DEF Operation, Part
<1>7. ASSUME NEW b \in Operation \cup {Part, Missing}, BreaksOff(o),
             binary' = [binary EXCEPT ![working[o].mode] = b],
             upload' \in {upload, Missing}, cutShort' = cutShort \cup {working[o].mode}
      PROVE  InstallInv'
  <2>1. Completes(o) /\ installFaults' \in Nat
    BY <1>7, InstallFacts DEF BreaksOff, Fails
  <2>2. binary' \in [Modes -> Operation \cup {Part, Missing}] /\ upload' \in Uploaded \cup {Missing}
    BY <1>4, <1>7, InstallFacts
  <2>3. cutShort' \subseteq Modes
    BY <1>4, <1>7, InstallFacts
  <2>4. InstallTypeOK'
    BY <1>1, <2>1, <2>2, <2>3, CompletesFacts DEF InstallInv, InstallTypeOK
  <2>5. \A m \in Modes : m # working[o].mode => binary'[m] = binary[m]
    BY <1>7, InstallFacts
  <2>6. overlapped = {} =>
             /\ PartsAreCut'
             /\ known'.monitoring /\ ~unsettled' /\ ~staleStack' => stack' \in {known'.token, Missing}
    BY <1>1, <1>2, <1>7, <2>5 DEF Held, PartsAreCut
  <2>7. Alone' =>
             /\ AgentIsOwn'
             /\ ~unsettled' => /\ agentConfig'[Own'] \in {known'.token, Missing}
                               /\ agent' # Missing => agent'.token \in {known'.token, Missing}
    BY <1>1, <1>2 DEF Fits, AgentIsOwn, Own, Configured
  <2> QED BY <1>1, <2>1, <2>4, <2>6, <2>7, EndsKeep
<1>8. CASE /\ upload # Missing
           /\ binary' = [binary EXCEPT ![working[o].mode] = IF upload.whole THEN upload.by ELSE Part]
           /\ upload' \in {upload, Missing} /\ cutShort' = cutShort \ {working[o].mode}
           /\ NextStep(o, IF Bootstraps(o) THEN "configure" ELSE "kill") /\ UNCHANGED installFaults
  <2>1. /\ working' \in [Operators -> InProgress \cup {Rested}]
        /\ \A p \in Operators : p # o => working'[p] = working[p]
        /\ working'[o] \in InProgress
        /\ working'[o].at = (IF working[o].kind # "upgrade" THEN "configure" ELSE "kill")
        /\ working'[o].kind = working[o].kind /\ working'[o].id = working[o].id
        /\ working'[o].token = working[o].token /\ working'[o].mode = working[o].mode
        /\ working'[o].stack = working[o].stack
    BY <1>8, NextFacts DEF OperationSteps, Bootstraps
  <2>2. /\ binary' \in [Modes -> Operation \cup {Part, Missing}]
        /\ upload' \in Uploaded \cup {Missing} /\ cutShort' \subseteq Modes
    BY <1>4, <1>5, <1>8, InstallFacts
  <2>3. /\ overlapped = {} => binary'[working[o].mode] = working[o].id
        /\ \A m \in Modes : m # working[o].mode => binary'[m] = binary[m]
    BY <1>4, <1>5, <1>8, InstallFacts
  <2>4. InstallTypeOK'
    BY <1>1, <1>8, <2>1, <2>2 DEF InstallInv, InstallTypeOK
  <2>5. KindOK(working[o])'
    BY <2>1, InstallFacts DEF KindOK
  <2>6. overlapped = {} => PartsAreCut'
    BY <1>2, <1>6, <1>8, <2>3 DEF Held, PartsAreCut
  <2>7. overlapped = {} => Held(working[o])'
    BY <1>1, <1>2, <2>1, <2>6 DEF Held, Uploads, Scrapes
  <2>8. Alone' => Fits(working[o])'
    <3> SUFFICES ASSUME Alone' PROVE Fits(working[o])'
      OBVIOUS
    <3>1. Fits(working[o]) /\ Own' = Own /\ overlapped = {}
      BY <1>1, <1>2 DEF Own, Alone
    <3>2. working[o].mode = Own
      BY <1>1, <3>1 DEF Fits, WorksOnOwn
    <3> QED BY <1>1, <2>1, <2>3, <3>1, <3>2
            DEF Fits, AgentIsOwn, WorksOnOwn, Tells, Replaces, Configured, Verified, Upgraded
  <2> QED BY <1>1, <2>1, <2>4, <2>5, <2>7, <2>8, ToInv
<1>9. upload # Missing => (IF upload.whole THEN upload.by ELSE Part) \in Operation \cup {Part}
  BY <1>5
<1>10. CASE /\ upload # Missing /\ BreaksOff(o) /\ cutShort' = cutShort \cup {working[o].mode}
            /\ \/ /\ \E b \in {Missing, Part} : binary' = [binary EXCEPT ![working[o].mode] = b]
                  /\ UNCHANGED upload
               \/ /\ binary' = [binary EXCEPT ![working[o].mode] =
                                  IF upload.whole THEN upload.by ELSE Part]
                  /\ upload' \in {upload, Missing}
  BY <1>7, <1>9, <1>10
<1>11. CASE BreaksOff(o) /\ UNCHANGED <<binary, upload, cutShort>>
  BY <1>3, <1>11, InstallFacts DEF BreaksOff, Fails
<1> QED BY <1>3, <1>8, <1>10, <1>11, InstallFacts DEF PlaceBinary

LEMMA ConfigureKeeps ==
    ASSUME InstallInv, NEW o \in Busy, Configure(o)
    PROVE  InstallInv'
<1>1. /\ UNCHANGED <<cutShort, upload, binary, unit, agent, stack, known, staleStack, systemdUser, operations, overlapped>>
      /\ working[o].at = "configure" /\ working[o] \in InProgress /\ working[o].kind # "upgrade"
  BY InstallFacts DEF Configure, Idle, records, DoesStep, Busy, KindOK, InProgress
<1>2. /\ Alone' => Alone
      /\ overlapped = {} => Held(working[o])
      /\ Alone => Fits(working[o])
  BY <1>1, FromInv DEF Alone, BothInstalled
<1>3. /\ working[o].mode \in Modes /\ working[o].token \in Operation
      /\ [agentConfig EXCEPT ![working[o].mode] = working[o].token]
            \in [Modes -> Operation \cup {Missing}]
  BY <1>1, InstallFacts DEF InProgress
<1>4. CASE BreaksOff(o) /\ unsettled' = TRUE
           /\ agentConfig' \in {agentConfig, [agentConfig EXCEPT ![working[o].mode] = working[o].token]}
  <2>1. Completes(o) /\ installFaults' \in Nat
    BY <1>4, InstallFacts DEF BreaksOff, Fails
  <2>2. InstallTypeOK'
    BY <1>1, <1>3, <1>4, <2>1, CompletesFacts DEF InstallInv, InstallTypeOK
  <2>3. overlapped = {} => PartsAreCut'
    BY <1>1, <1>2 DEF Held, PartsAreCut
  <2>4. Alone' => AgentIsOwn'
    BY <1>1, <1>2 DEF Fits, AgentIsOwn, Own
  <2> QED BY <1>1, <1>4, <2>1, <2>2, <2>3, <2>4, EndsKeep
<1>5. CASE /\ agentConfig' = [agentConfig EXCEPT ![working[o].mode] = working[o].token]
           /\ NextStep(o, "kill") /\ UNCHANGED <<unsettled, installFaults>>
  <2>1. /\ working' \in [Operators -> InProgress \cup {Rested}]
        /\ \A p \in Operators : p # o => working'[p] = working[p]
        /\ working'[o] \in InProgress /\ working'[o].at = "kill"
        /\ working'[o].kind = working[o].kind /\ working'[o].id = working[o].id
        /\ working'[o].token = working[o].token /\ working'[o].mode = working[o].mode
        /\ working'[o].stack = working[o].stack
    BY <1>5, NextFacts DEF OperationSteps
  <2>2. InstallTypeOK'
    BY <1>1, <1>3, <1>5, <2>1 DEF InstallInv, InstallTypeOK
  <2>3. KindOK(working[o])'
    BY <1>1, <2>1 DEF KindOK
  <2>4. overlapped = {} => Held(working[o])'
    BY <1>1, <1>2, <1>5, <2>1 DEF Held, PartsAreCut, Uploads, Scrapes
  <2>5. Alone' => Fits(working[o])'
    <3> SUFFICES ASSUME Alone' PROVE Fits(working[o])'
      OBVIOUS
    <3>1. Fits(working[o]) /\ Own' = Own
      BY <1>1, <1>2 DEF Own
    <3>2. working[o].mode = Own
      BY <1>1, <3>1 DEF Fits, WorksOnOwn
    <3>3. agentConfig'[Own] = working[o].token
      BY <1>3, <1>5, <3>2, InstallFacts
    <3> QED BY <1>1, <2>1, <3>1, <3>2, <3>3
            DEF Fits, AgentIsOwn, WorksOnOwn, Tells, Replaces, Configured, Verified
  <2> QED BY <1>1, <2>1, <2>2, <2>3, <2>4, <2>5, ToInv
<1> QED BY <1>4, <1>5 DEF Configure

LEMMA KillKeeps ==
    ASSUME InstallInv, NEW o \in Busy, Kill(o)
    PROVE  InstallInv'
<1>1. /\ UNCHANGED <<cutShort, upload, binary, agentConfig, unit, stack, known, staleStack, unsettled, installFaults,
                     systemdUser, operations, overlapped>>
      /\ working[o].at = "kill" /\ working[o] \in InProgress /\ NextStep(o, "restart")
  BY InstallFacts DEF Kill, Idle, hostFiles, records, DoesStep, Busy
<1>2. /\ Alone' => Alone
      /\ overlapped = {} => Held(working[o])
      /\ Alone => Fits(working[o])
  BY <1>1, FromInv DEF Alone, BothInstalled
<1>3. /\ working' \in [Operators -> InProgress \cup {Rested}]
      /\ \A p \in Operators : p # o => working'[p] = working[p]
      /\ working'[o] \in InProgress /\ working'[o].at = "restart"
      /\ working'[o].kind = working[o].kind /\ working'[o].id = working[o].id
      /\ working'[o].token = working[o].token /\ working'[o].mode = working[o].mode
      /\ working'[o].stack = working[o].stack
  BY <1>1, NextFacts DEF OperationSteps
<1>4. /\ agent' \in AnsweringAgent \cup {Missing} /\ (agent' # Missing => agent # Missing)
      /\ agent # Missing => agent'.mode = agent.mode /\ agent'.token = agent.token
  <2>1. agent \in AnsweringAgent =>
          LET new == [agent EXCEPT !.dying = TRUE] IN
          new \in AnsweringAgent /\ new.mode = agent.mode /\ new.token = agent.token
    BY DEF AnsweringAgent
  <2> QED BY <2>1, InstallFacts DEF Kill
<1>5. InstallTypeOK'
  BY <1>1, <1>3, <1>4 DEF InstallInv, InstallTypeOK
<1>6. KindOK(working[o])'
  BY <1>3 DEF KindOK
<1>7. overlapped = {} => Held(working[o])'
  BY <1>1, <1>2, <1>3 DEF Held, PartsAreCut, Uploads, Scrapes
<1>8. Alone' => Fits(working[o])'
  <2> SUFFICES ASSUME Alone' PROVE Fits(working[o])'
    OBVIOUS
  <2>1. Fits(working[o]) /\ Own' = Own
    BY <1>1, <1>2 DEF Own
  <2> QED BY <1>1, <1>3, <1>4, <2>1
          DEF Fits, AgentIsOwn, WorksOnOwn, Tells, Replaces, Configured, Verified, Upgraded
<1> QED BY <1>1, <1>3, <1>5, <1>6, <1>7, <1>8, ToInv

LEMMA StartsFacts ==
    ASSUME InstallInv, NEW m \in {"user", "system", "bare"}, NEW bin \in Modes,
           NEW now \in AnsweringAgent \cup {Missing}
    PROVE  /\ Starts(m, bin, now) \in AnsweringAgent \cup {Missing}
           /\ now # Missing => Starts(m, bin, now) = now
           /\ now = Missing /\ Starts(m, bin, now) # Missing =>
                /\ Starts(m, bin, now).mode = m /\ Starts(m, bin, now).binary = binary[bin]
                /\ Starts(m, bin, now).token = agentConfig[bin]
<1>1. binary[bin] \in Operation \cup {Part, Missing} /\ agentConfig[bin] \in Operation \cup {Missing}
  BY InstallFacts
<1> DEFINE new == [mode |-> m, binary |-> binary[bin], token |-> agentConfig[bin], dying |-> FALSE]
<1>2. CASE now # Missing \/ binary[bin] \in {Missing, Part}
  BY <1>2 DEF Starts
<1>3. CASE ~(now # Missing \/ binary[bin] \in {Missing, Part})
  <2>1. Starts(m, bin, now) = new
    BY <1>3 DEF Starts
  <2>2. /\ new \in AnsweringAgent /\ new.mode = m /\ new.binary = binary[bin]
        /\ new.token = agentConfig[bin]
    BY <1>1, <1>3 DEF AnsweringAgent
  <2> QED BY <1>3, <2>1, <2>2
<1> QED BY <1>2, <1>3

LEMMA RestartAgentKeeps ==
    ASSUME InstallInv, NEW o \in Busy, RestartAgent(o)
    PROVE  InstallInv'
<1> DEFINE m == Manager(o)
<1>1. /\ UNCHANGED <<cutShort, upload, binary, agentConfig, stack, known, staleStack, systemdUser, operations, overlapped>>
      /\ working[o].at = "restart" /\ working[o] \in InProgress
  BY InstallFacts DEF RestartAgent, Idle, hostFiles, records, DoesStep, Busy
<1>2. /\ overlapped = {} => Held(working[o])
      /\ Alone => Fits(working[o])
  BY FromInv
<1>3. m \in {"user", "system", "bare"} /\ working[o].mode \in Modes
  BY <1>1 DEF Manager, InProgress, Modes
<1>4. StoppedAgent(m) \in {agent, Missing}
  BY DEF StoppedAgent
<1> DEFINE enabled == IF m = "bare" \/ (~Bootstraps(o) /\ unit[m] = "disabled") THEN unit
                      ELSE [unit EXCEPT ![m] = "enabled"]
           restarted == AfterRestart(m, working[o].mode)
<1>5. /\ enabled \in [Modes -> {"none", "disabled", "enabled"}]
      /\ \A k \in Modes : unit[k] # "none" \/ k = m => enabled[k] # "none"
      /\ \A k \in Modes : k # m => enabled[k] = unit[k]
  <2> HIDE DEF m
  <2> QED BY <1>3, InstallFacts DEF Modes, Bootstraps
<1>6. restarted \in AnsweringAgent \cup {Missing}
  <2> HIDE DEF m
  <2> QED BY <1>3, <1>4, StartsFacts, InstallFacts DEF AfterRestart, Modes
\* What enabling and restarting bring on a host with one kind of installation.
<1>7. ASSUME unit' = enabled, Alone'
      PROVE  /\ Alone /\ Fits(working[o]) /\ working[o].mode = Own /\ Own' = Own
             /\ m = (IF Own = "user" /\ ~systemdUser THEN "bare" ELSE Own)
             /\ restarted # Missing =>
                  \/ agent # Missing /\ restarted = agent /\ m = "bare"
                  \/ /\ restarted.mode = m /\ restarted.binary = binary[Own]
                     /\ restarted.token = agentConfig[Own]
             /\ agent' \in {agent, Missing, restarted} => AgentIsOwn'
  <2>1. Alone /\ Fits(working[o])
    BY <1>1, <1>2, <1>5, <1>7 DEF Alone, BothInstalled, Modes
  <2>2. working[o].mode = Own /\ Own \in Modes
    BY <1>1, <2>1 DEF Fits, WorksOnOwn, Own, Modes, InProgress
  <2>3. m = (IF Own = "user" /\ ~systemdUser THEN "bare" ELSE Own)
    BY <1>1, <2>1, <2>2 DEF Manager, Fits, Replaces, Own, Alone, BothInstalled, Bootstraps, Modes
  <2>4. Own' = Own
    BY <1>5, <1>7, <2>3 DEF Own, Modes
  <2>5. /\ restarted # Missing =>
             \/ agent # Missing /\ restarted = agent /\ m = "bare"
             \/ /\ restarted.mode = m /\ restarted.binary = binary[Own]
                /\ restarted.token = agentConfig[Own]
    <3>1. CASE m = "bare"
      <4>1. restarted = Starts("bare", Own, agent)
        BY <2>2, <3>1 DEF AfterRestart
      <4> QED BY <2>2, <3>1, <4>1, StartsFacts, InstallFacts
    <3>2. CASE m # "bare"
      <4>1. m = Own /\ StoppedAgent(m) = Missing
        BY <2>1, <2>3, <3>2 DEF Fits, AgentIsOwn, StoppedAgent, Own
      <4>2. restarted = Starts(Own, Own, Missing)
        BY <3>2, <4>1 DEF AfterRestart
      <4> QED BY <2>2, <4>1, <4>2, StartsFacts DEF Modes
    <3> QED BY <3>1, <3>2
  <2>6. ASSUME agent' \in {agent, Missing, restarted}
        PROVE  AgentIsOwn'
    <3> HIDE DEF m, restarted
    <3>1. unit["user"] # "none" \/ m = "user" => unit'["user"] # "none"
      BY <1>5, <1>7 DEF Modes
    <3>2. Own = "system" => m = "system"
      BY <2>3
    <3> QED BY <1>1, <2>1, <2>3, <2>4, <2>5, <2>6, <3>1, <3>2 DEF Fits, AgentIsOwn, Own
  <2> QED BY <2>1, <2>2, <2>3, <2>4, <2>5, <2>6
<1> HIDE DEF enabled, restarted
<1>8. CASE BreaksOff(o) /\ UNCHANGED <<unit, agent>> /\ unsettled' = (unsettled \/ Bootstraps(o))
  <2>1. Completes(o) /\ installFaults' \in Nat
    BY <1>8, InstallFacts DEF BreaksOff, Fails
  <2> QED BY <1>1, <1>8, <2>1, BreaksKeep, InstallFacts DEF Bootstraps
<1>9. CASE /\ BreaksOff(o) /\ unit' = enabled /\ agent' \in {agent, StoppedAgent(m), restarted}
           /\ unsettled' = (unsettled \/ Bootstraps(o))
  <2>1. Completes(o) /\ installFaults' \in Nat /\ agent' \in {agent, Missing, restarted}
    BY <1>4, <1>9, InstallFacts DEF BreaksOff, Fails
  <2>2. unsettled' \in BOOLEAN
    BY <1>9, InstallFacts
  <2>3. InstallTypeOK'
    BY <1>1, <1>5, <1>6, <1>9, <2>1, <2>2, CompletesFacts, InstallFacts DEF InstallInv, InstallTypeOK
  <2>4. overlapped = {} =>
             /\ PartsAreCut'
             /\ known'.monitoring /\ ~unsettled' /\ ~staleStack' => stack' \in {known'.token, Missing}
    BY <1>1, <1>2, <1>9 DEF Held, PartsAreCut
  <2>5. Alone' =>
             /\ AgentIsOwn'
             /\ ~unsettled' => /\ agentConfig'[Own'] \in {known'.token, Missing}
                               /\ agent' # Missing => agent'.token \in {known'.token, Missing}
    <3> HIDE DEF m
    <3> QED BY <1>1, <1>7, <1>9, <2>1 DEF Fits, Bootstraps
  <2> QED BY <1>1, <2>1, <2>3, <2>4, <2>5, EndsKeep
<1>10. CASE /\ unit' = enabled /\ agent' = restarted
            /\ NextStep(o, "verify") /\ UNCHANGED <<unsettled, installFaults>>
  <2>1. /\ working' \in [Operators -> InProgress \cup {Rested}]
        /\ \A p \in Operators : p # o => working'[p] = working[p]
        /\ working'[o] \in InProgress /\ working'[o].at = "verify"
        /\ working'[o].kind = working[o].kind /\ working'[o].id = working[o].id
        /\ working'[o].token = working[o].token /\ working'[o].mode = working[o].mode
        /\ working'[o].stack = working[o].stack
    BY <1>10, NextFacts DEF OperationSteps
  <2>2. InstallTypeOK'
    BY <1>1, <1>5, <1>6, <1>10, <2>1 DEF InstallInv, InstallTypeOK
  <2>3. KindOK(working[o])'
    BY <2>1 DEF KindOK
  <2>4. overlapped = {} => Held(working[o])'
    BY <1>1, <1>2, <1>10, <2>1 DEF Held, PartsAreCut, Uploads, Scrapes
  <2>5. Alone' => Fits(working[o])'
    <3> SUFFICES ASSUME Alone' PROVE Fits(working[o])'
      OBVIOUS
    <3> HIDE DEF m
    <3>1. /\ Fits(working[o]) /\ working[o].mode = Own /\ Own' = Own
          /\ m = (IF Own = "user" /\ ~systemdUser THEN "bare" ELSE Own)
          /\ agent' # Missing =>
               \/ agent # Missing /\ agent' = agent /\ m = "bare"
               \/ agent'.mode = m /\ agent'.binary = binary[Own] /\ agent'.token = agentConfig[Own]
          /\ AgentIsOwn'
      BY <1>7, <1>10
    <3>2. WorksOnOwn(working[o])' /\ Tells(working[o])'
      BY <1>1, <2>1, <3>1 DEF Fits, WorksOnOwn, Tells, Configured, Verified
    <3>3. Replaces(working[o])'
      BY <1>1, <1>5, <1>10, <2>1, <3>1 DEF Fits, Replaces, Upgraded, Own, Modes
    <3> QED BY <1>1, <1>10, <2>1, <3>1, <3>2, <3>3 DEF Fits, Configured
  <2> QED BY <1>1, <2>1, <2>2, <2>3, <2>4, <2>5, ToInv
<1> QED BY <1>8, <1>9, <1>10 DEF RestartAgent, enabled, restarted

LEMMA VerifyKeeps ==
    ASSUME InstallInv, NEW o \in Busy, Verify(o)
    PROVE  InstallInv'
<1>1. /\ UNCHANGED <<cutShort, upload, binary, agentConfig, unit, agent, stack, known, staleStack, installFaults,
                     systemdUser, operations, overlapped>>
      /\ working[o].at = "verify" /\ working[o] \in InProgress
  BY InstallFacts DEF Verify, Idle, hostFiles, records, DoesStep, Busy
<1>2. /\ Alone' => Alone
      /\ overlapped = {} => Held(working[o])
      /\ Alone => Fits(working[o])
  BY <1>1, FromInv DEF Alone, BothInstalled
<1>3. CASE Completes(o) /\ unsettled' = (unsettled \/ Bootstraps(o))
  BY <1>1, <1>3, BreaksKeep, InstallFacts DEF Bootstraps
<1>4. CASE /\ agent # Missing /\ (Bootstraps(o) => agent.token \in {working[o].token, Missing})
           /\ NextStep(o, "inventory") /\ UNCHANGED unsettled
  <2>1. /\ working' \in [Operators -> InProgress \cup {Rested}]
        /\ \A p \in Operators : p # o => working'[p] = working[p]
        /\ working'[o] \in InProgress /\ working'[o].at = "inventory"
        /\ working'[o].kind = working[o].kind /\ working'[o].id = working[o].id
        /\ working'[o].token = working[o].token /\ working'[o].mode = working[o].mode
        /\ working'[o].stack = working[o].stack
    BY <1>4, NextFacts DEF OperationSteps
  <2>2. InstallTypeOK'
    BY <1>1, <1>4, <2>1 DEF InstallInv, InstallTypeOK
  <2>3. KindOK(working[o])'
    BY <2>1 DEF KindOK
  <2>4. overlapped = {} => Held(working[o])'
    BY <1>1, <1>2, <1>4, <2>1 DEF Held, PartsAreCut, Uploads, Scrapes
  <2>5. Alone' => Fits(working[o])'
    <3> SUFFICES ASSUME Alone' PROVE Fits(working[o])'
      OBVIOUS
    <3>1. Fits(working[o]) /\ Own' = Own
      BY <1>1, <1>2 DEF Own
    <3> QED BY <1>1, <1>4, <2>1, <3>1 DEF Fits, AgentIsOwn, WorksOnOwn, Tells, Replaces,
                                          Configured, Verified, Upgraded, Bootstraps
  <2> QED BY <1>1, <2>1, <2>2, <2>3, <2>4, <2>5, ToInv
<1> QED BY <1>3, <1>4 DEF Verify

\* What a step puts into the operation's record, beside the step it comes to.
LEMMA StackFacts ==
    ASSUME InstallInv, NEW o \in Busy, NEW s \in OperationSteps, NEW b \in BOOLEAN,
           working' = [working EXCEPT ![o].at = s, ![o].stack = b]
    PROVE  /\ working' \in [Operators -> InProgress \cup {Rested}]
           /\ \A p \in Operators : p # o => working'[p] = working[p]
           /\ working'[o] \in InProgress /\ working'[o].at = s
           /\ working'[o].kind = working[o].kind /\ working'[o].id = working[o].id
           /\ working'[o].token = working[o].token /\ working'[o].mode = working[o].mode
           /\ working'[o].stack = b
<1> DEFINE k == [working[o] EXCEPT !.at = s]
           r == [k EXCEPT !.stack = b]
<1>1. working[o] \in InProgress /\ o \in Operators
  BY InstallFacts DEF Busy
<1>2. /\ k \in InProgress /\ k.at = s /\ k.kind = working[o].kind /\ k.id = working[o].id
      /\ k.token = working[o].token /\ k.mode = working[o].mode
  BY <1>1 DEF InProgress
<1>3. working' = [working EXCEPT ![o] = [k EXCEPT !.stack = b]]
  OBVIOUS
<1> HIDE DEF k
<1>4. /\ r \in InProgress /\ r.at = s /\ r.kind = working[o].kind /\ r.id = working[o].id
      /\ r.token = working[o].token /\ r.mode = working[o].mode /\ r.stack = b
  BY <1>2 DEF InProgress
<1>5. working' = [working EXCEPT ![o] = r]
  BY <1>3, Zenon
<1> HIDE DEF r
<1>6. /\ working' \in [Operators -> InProgress \cup {Rested}] /\ working'[o] = r
      /\ \A p \in Operators : p # o => working'[p] = working[p]
  <2>1. working \in [Operators -> InProgress \cup {Rested}]
    BY InstallFacts, Zenon
  <2> QED BY <1>1, <1>4, <1>5, <2>1, Zenon
<1> QED BY <1>4, <1>6

LEMMA InventoryKeeps ==
    ASSUME InstallInv, NEW o \in Busy, Inventory(o)
    PROVE  InstallInv'
<1>1. /\ UNCHANGED <<upload, binary, agentConfig, cutShort, unit, agent, stack, known, staleStack,
                     unsettled, systemdUser, operations, overlapped>>
      /\ working[o].at = "inventory" /\ working[o] \in InProgress
  BY InstallFacts DEF Inventory, Idle, hostFiles, records, DoesStep, Busy
<1>2. /\ Alone' => Alone
      /\ overlapped = {} => Held(working[o])
      /\ Alone => Fits(working[o])
  BY <1>1, FromInv DEF Alone, BothInstalled
<1>3. CASE ~Bootstraps(o) /\ BreaksOff(o)
  <2>1. Completes(o) /\ installFaults' \in Nat
    BY <1>3, InstallFacts DEF BreaksOff, Fails
  <2> QED BY <1>1, <1>3, <2>1, BreaksKeep, InstallFacts DEF Bootstraps
<1>4. ASSUME NEW s \in {"monitor", "save", "services"}, NextStep(o, s), UNCHANGED installFaults,
             s = "save" => Bootstraps(o) /\ (working[o].kind = "bootstrap" => ~working[o].stack),
             s = "services" => ~Bootstraps(o)
      PROVE  InstallInv'
  <2>1. /\ working' \in [Operators -> InProgress \cup {Rested}]
        /\ \A p \in Operators : p # o => working'[p] = working[p]
        /\ working'[o] \in InProgress /\ working'[o].at = s
        /\ working'[o].kind = working[o].kind /\ working'[o].id = working[o].id
        /\ working'[o].token = working[o].token /\ working'[o].mode = working[o].mode
        /\ working'[o].stack = working[o].stack
    BY <1>4, NextFacts DEF OperationSteps
  <2>2. InstallTypeOK'
    BY <1>1, <1>4, <2>1 DEF InstallInv, InstallTypeOK
  <2>3. KindOK(working[o])'
    BY <1>4, <2>1 DEF KindOK, Bootstraps
  <2>4. overlapped = {} => Held(working[o])'
    BY <1>1, <1>2, <1>4, <2>1 DEF Held, PartsAreCut, Uploads, Scrapes, Bootstraps
  <2>5. Alone' => Fits(working[o])'
    <3> SUFFICES ASSUME Alone' PROVE Fits(working[o])'
      OBVIOUS
    <3>1. Fits(working[o]) /\ Own' = Own
      BY <1>1, <1>2 DEF Own
    <3> QED BY <1>1, <1>4, <2>1, <3>1 DEF Fits, AgentIsOwn, WorksOnOwn, Tells, Replaces,
                                          Configured, Verified, Upgraded, Bootstraps
  <2> QED BY <1>1, <2>1, <2>2, <2>3, <2>4, <2>5, ToInv
<1> QED BY <1>3, <1>4 DEF Inventory, Bootstraps

LEMMA DeployStackKeeps ==
    ASSUME InstallInv, NEW o \in Busy, DeployStack(o)
    PROVE  InstallInv'
<1>1. /\ UNCHANGED <<upload, binary, agentConfig, cutShort, unit, agent, known, unsettled,
                     systemdUser, operations, overlapped>>
      /\ working[o].at = "monitor" /\ working[o] \in InProgress
  BY InstallFacts DEF DeployStack, Idle, hostFiles, DoesStep, Busy
<1>2. /\ Alone' => Alone
      /\ overlapped = {} => Held(working[o])
      /\ Alone => Fits(working[o])
  BY <1>1, FromInv DEF Alone, BothInstalled
<1>3. /\ working[o].kind \in {"bootstrap", "cli", "upgrade"} /\ working[o].token \in Operation
      /\ working[o].stack \in BOOLEAN
  BY <1>1 DEF InProgress
<1>4. CASE /\ stack' \in {stack, Missing, working[o].token} /\ Fails /\ Completes(o)
           /\ ~Bootstraps(o) /\ UNCHANGED staleStack
  <2>1. stack' \in Operation \cup {Missing} /\ installFaults' \in Nat
    BY <1>3, <1>4, InstallFacts DEF Fails
  <2>2. InstallTypeOK'
    BY <1>1, <1>4, <2>1, CompletesFacts DEF InstallInv, InstallTypeOK
  <2>3. overlapped = {} =>
             /\ PartsAreCut'
             /\ known'.monitoring /\ ~unsettled' /\ ~staleStack' => stack' \in {known'.token, Missing}
    BY <1>1, <1>2, <1>4 DEF Held, PartsAreCut, Scrapes, Bootstraps
  <2>4. Alone' =>
             /\ AgentIsOwn'
             /\ ~unsettled' => /\ agentConfig'[Own'] \in {known'.token, Missing}
                               /\ agent' # Missing => agent'.token \in {known'.token, Missing}
    BY <1>1, <1>2, <1>4 DEF Fits, AgentIsOwn, Own, Bootstraps
  <2> QED BY <1>1, <1>4, <2>2, <2>3, <2>4, EndsKeep
<1>5. ASSUME NEW s \in {"save", "services"}, NEW b \in BOOLEAN,
             /\ working' \in [Operators -> InProgress \cup {Rested}]
             /\ \A p \in Operators : p # o => working'[p] = working[p]
             /\ working'[o] \in InProgress /\ working'[o].at = s
             /\ working'[o].kind = working[o].kind /\ working'[o].id = working[o].id
             /\ working'[o].token = working[o].token /\ working'[o].mode = working[o].mode
             /\ working'[o].stack = b,
             stack' \in {stack, Missing, working[o].token},
             b \/ ~Bootstraps(o) => stack' = working[o].token,
             s = "services" => ~Bootstraps(o),
             staleStack' \in BOOLEAN, installFaults' \in Nat
      PROVE  InstallInv'
  <2>1. stack' \in Operation \cup {Missing}
    BY <1>3, <1>5, InstallFacts
  <2>2. InstallTypeOK'
    BY <1>1, <1>5, <2>1 DEF InstallInv, InstallTypeOK
  <2>3. KindOK(working[o])'
    BY <1>5 DEF KindOK, Bootstraps
  <2>4. overlapped = {} => Held(working[o])'
    <3> SUFFICES ASSUME overlapped = {} PROVE Held(working[o])'
      OBVIOUS
    <3>1. Held(working[o])
      BY <1>2
    <3>2. working[o].kind = "upgrade" => stack' = known.token
      BY <1>1, <1>5, <3>1 DEF Held, Scrapes, Bootstraps
    <3> QED BY <1>1, <1>5, <3>1, <3>2 DEF Held, PartsAreCut, Uploads, Scrapes, Bootstraps
  <2>5. Alone' => Fits(working[o])'
    <3> SUFFICES ASSUME Alone' PROVE Fits(working[o])'
      OBVIOUS
    <3>1. Fits(working[o]) /\ Own' = Own
      BY <1>1, <1>2 DEF Own
    <3> QED BY <1>1, <1>5, <3>1 DEF Fits, AgentIsOwn, WorksOnOwn, Tells, Replaces,
                                    Configured, Verified, Upgraded, Bootstraps
  <2> QED BY <1>1, <1>5, <2>2, <2>3, <2>4, <2>5, ToInv
<1>6. CASE /\ stack' = working[o].token /\ staleStack' = FALSE /\ UNCHANGED installFaults
           /\ NextStep(o, IF Bootstraps(o) \/ ~working[o].stack THEN "save" ELSE "services")
  <2>1. ASSUME NEW s \in {"save", "services"}, NextStep(o, s), s = "services" => ~Bootstraps(o)
        PROVE  InstallInv'
    BY <1>3, <1>5, <1>6, <2>1, NextFacts, InstallFacts DEF OperationSteps
  <2> QED BY <1>6, <2>1
<1>7. CASE /\ stack' \in {stack, Missing, working[o].token} /\ Fails /\ UNCHANGED staleStack
           /\ Bootstraps(o) /\ working' = [working EXCEPT ![o].at = "save", ![o].stack = FALSE]
  <2>1. "save" \in OperationSteps /\ FALSE \in BOOLEAN /\ installFaults' \in Nat
    BY <1>7, InstallFacts DEF OperationSteps, Fails
  <2> QED BY <1>5, <1>7, <2>1, StackFacts, InstallFacts
<1> QED BY <1>4, <1>6, <1>7 DEF DeployStack

LEMMA SaveDeviceKeeps ==
    ASSUME InstallInv, NEW o \in Busy, SaveDevice(o)
    PROVE  InstallInv'
<1>1. /\ UNCHANGED <<upload, binary, agentConfig, cutShort, unit, agent, stack,
                     systemdUser, operations, overlapped>>
      /\ working[o].at = "save" /\ working[o] \in InProgress
  BY InstallFacts DEF SaveDevice, Idle, hostFiles, DoesStep, Busy
<1>2. /\ Alone' => Alone
      /\ overlapped = {} => Held(working[o])
      /\ Alone => Fits(working[o])
  BY <1>1, FromInv DEF Alone, BothInstalled
<1>3. /\ working[o].kind \in {"bootstrap", "cli", "upgrade"} /\ working[o].stack \in BOOLEAN
      /\ working[o].token \in Operation
  BY <1>1 DEF InProgress
<1>4. CASE BreaksOff(o) /\ UNCHANGED <<known, staleStack>> /\ unsettled' = (unsettled \/ Bootstraps(o))
  <2>1. Completes(o) /\ installFaults' \in Nat
    BY <1>4, InstallFacts DEF BreaksOff, Fails
  <2> QED BY <1>1, <1>4, <2>1, BreaksKeep, InstallFacts DEF Bootstraps
<1>5. CASE /\ Bootstraps(o) /\ Completes(o) /\ unsettled' = FALSE /\ UNCHANGED installFaults
           /\ known' = [token |-> working[o].token, monitoring |-> working[o].stack]
           /\ staleStack' = (staleStack \/ working[o].kind = "cli")
  <2>1. /\ known' \in [token: Operation, monitoring: BOOLEAN]
        /\ known'.token = working[o].token /\ known'.monitoring = working[o].stack
    BY <1>3, <1>5
  <2>2. InstallTypeOK'
    BY <1>1, <1>5, <2>1, CompletesFacts, InstallFacts DEF InstallInv, InstallTypeOK
  <2>3. overlapped = {} =>
             /\ PartsAreCut'
             /\ known'.monitoring /\ ~unsettled' /\ ~staleStack' => stack' \in {known'.token, Missing}
    BY <1>1, <1>2, <1>3, <1>5, <2>1 DEF Held, PartsAreCut, Scrapes, Bootstraps
  <2>4. Alone' =>
             /\ AgentIsOwn'
             /\ ~unsettled' => /\ agentConfig'[Own'] \in {known'.token, Missing}
                               /\ agent' # Missing => agent'.token \in {known'.token, Missing}
    BY <1>1, <1>2, <1>3, <1>5, <2>1 DEF Fits, AgentIsOwn, Own, Tells, Configured, Verified, WorksOnOwn,
                                        Bootstraps
  <2> QED BY <1>1, <1>5, <2>2, <2>3, <2>4, EndsKeep
<1>6. CASE /\ ~Bootstraps(o) /\ known' = [known EXCEPT !.monitoring = TRUE]
           /\ NextStep(o, "services") /\ UNCHANGED <<unsettled, installFaults>>
           /\ staleStack' = (staleStack \/ working[o].kind = "cli")
  <2>1. known' \in [token: Operation, monitoring: BOOLEAN] /\ known'.token = known.token
    BY <1>6, InstallFacts
  <2>2. /\ working' \in [Operators -> InProgress \cup {Rested}]
        /\ \A p \in Operators : p # o => working'[p] = working[p]
        /\ working'[o] \in InProgress /\ working'[o].at = "services"
        /\ working'[o].kind = working[o].kind /\ working'[o].id = working[o].id
        /\ working'[o].token = working[o].token /\ working'[o].mode = working[o].mode
        /\ working'[o].stack = working[o].stack
    BY <1>6, NextFacts DEF OperationSteps
  <2>3. staleStack' = staleStack
    BY <1>6, InstallFacts DEF Bootstraps
  <2>4. InstallTypeOK'
    BY <1>1, <1>6, <2>1, <2>2, <2>3 DEF InstallInv, InstallTypeOK
  <2>5. KindOK(working[o])'
    BY <1>6, <2>2 DEF KindOK, Bootstraps
  <2>6. overlapped = {} => Held(working[o])'
    BY <1>1, <1>2, <1>6, <2>1, <2>2, <2>3 DEF Held, PartsAreCut, Uploads, Scrapes, Bootstraps
  <2>7. Alone' => Fits(working[o])'
    <3> SUFFICES ASSUME Alone' PROVE Fits(working[o])'
      OBVIOUS
    <3>1. Fits(working[o]) /\ Own' = Own
      BY <1>1, <1>2 DEF Own
    <3> QED BY <1>1, <1>6, <2>1, <2>2, <3>1
            DEF Fits, AgentIsOwn, WorksOnOwn, Tells, Replaces, Configured, Verified, Upgraded, Bootstraps
  <2> QED BY <1>1, <2>2, <2>4, <2>5, <2>6, <2>7, ToInv
<1> QED BY <1>4, <1>5, <1>6 DEF SaveDevice

LEMMA EnsureServicesKeeps ==
    ASSUME InstallInv, NEW o \in Busy, EnsureServices(o)
    PROVE  InstallInv'
<1>1. /\ UNCHANGED <<upload, binary, agentConfig, cutShort, unit, agent, stack, known, staleStack,
                     unsettled, systemdUser, operations, overlapped>>
      /\ Completes(o) /\ installFaults' \in Nat /\ working[o].at = "services"
  BY InstallFacts DEF EnsureServices, Idle, hostFiles, records, DoesStep, BreaksOff, Fails
<1> QED BY <1>1, BreaksKeep, InstallFacts DEF Configured

LEMMA OperatorFacts ==
    ASSUME InstallInv, NEW o \in Operators,
           \/ Locate(o) \/ UploadBinary(o) \/ ChooseMode(o) \/ PlaceBinary(o) \/ Configure(o)
           \/ Kill(o) \/ RestartAgent(o) \/ Verify(o) \/ Inventory(o) \/ DeployStack(o) \/ SaveDevice(o)
           \/ EnsureServices(o)
    PROVE  o \in Busy
<1>1. working[o].at # "rest"
  BY DEF Locate, UploadBinary, ChooseMode, PlaceBinary, Configure, Kill, RestartAgent, Verify,
         Inventory, DeployStack, SaveDevice, EnsureServices, DoesStep
<1> QED BY <1>1 DEF Busy, DoesStep

\* The start of an operation: with another one in progress they overlap.
LEMMA StartingKeeps ==
    ASSUME InstallInv, NEW o \in Operators, NEW kind \in {"bootstrap", "cli", "upgrade"},
           NEW first \in {"upload", "locate"}, NEW token \in Operation, NEW withStack \in BOOLEAN,
           first = "locate" <=> kind = "upgrade", kind = "upgrade" => token = known.token,
           Starting(o, kind, first, token, withStack)
    PROVE  InstallInv'
<1> DEFINE r == [kind |-> kind, at |-> first, id |-> operations + 1, token |-> token,
                 mode |-> "user", stack |-> withStack]
<1>1. /\ UNCHANGED <<cutShort, upload, binary, agentConfig, unit, agent, stack, known, staleStack, systemdUser, unsettled,
                     installFaults>>
      /\ working' = [working EXCEPT ![o] = r]
      /\ operations' = operations + 1 /\ operations < MaxOperations /\ working[o].at = "rest"
      /\ overlapped' = (IF Busy = {} THEN overlapped
                        ELSE overlapped \cup {operations'} \cup {working[b].id : b \in Busy})
  BY DEF Starting, hostFiles, records, DoesStep
<1>2. operations' \in Operation
  BY <1>1, InstallFacts, InstallAssumption DEF Operation
<1>3. /\ r \in InProgress /\ r.at = first /\ r.kind = kind /\ r.token = token /\ r.mode = "user"
      /\ r.stack = withStack
  BY <1>1, <1>2 DEF InProgress, OperationSteps, Modes
<1> HIDE DEF r
<1>4. /\ working' \in [Operators -> InProgress \cup {Rested}] /\ working'[o] = r
      /\ \A p \in Operators : p # o => working'[p] = working[p]
  BY <1>1, <1>3, InstallFacts
<1>5. overlapped' \subseteq Operation /\ (overlapped' = {} => overlapped = {} /\ Busy = {})
  <2>1. \A b \in Busy : working[b].id \in Operation
    BY InstallFacts DEF Busy, InProgress
  <2> QED BY <1>1, <1>2, <2>1, InstallFacts
<1>6. InstallTypeOK'
  BY <1>1, <1>2, <1>4, <1>5 DEF InstallInv, InstallTypeOK
<1>7. \A p \in Busy' : KindOK(working[p])'
  <2> TAKE p \in Busy'
  <2>1. CASE p = o
    BY <1>3, <1>4, <2>1 DEF KindOK
  <2>2. CASE p # o
    <3>1. p \in Busy /\ working'[p] = working[p]
      BY <1>4, <2>2 DEF Busy, DoesStep
    <3> QED BY <3>1 DEF InstallInv, KindOK
  <2> QED BY <2>1, <2>2
<1>8. overlapped' = {} => \A p \in Busy' : p = o
  BY <1>4, <1>5 DEF Busy, DoesStep
<1>9. overlapped' = {} => /\ PartsAreCut'
                          /\ \A p \in Busy' : Uploads(working[p])' /\ Scrapes(working[p])'
                          /\ Settled'
  BY <1>1, <1>3, <1>4, <1>5, <1>8 DEF InstallInv, PartsAreCut, Uploads, Scrapes, Settled, Bootstrapping
<1>10. Alone' =>
        /\ \A p \in Busy' : WorksOnOwn(working[p])' /\ Tells(working[p])' /\ Replaces(working[p])'
        /\ AgentIsOwn' /\ TokenKept'
  <2> SUFFICES ASSUME Alone'
               PROVE  /\ \A p \in Busy' : /\ WorksOnOwn(working[p])' /\ Tells(working[p])'
                                          /\ Replaces(working[p])'
                      /\ AgentIsOwn' /\ TokenKept'
    OBVIOUS
  <2>1. Alone /\ Busy = {} /\ Own' = Own /\ \A p \in Busy' : p = o
    BY <1>1, <1>5, <1>8 DEF Alone, BothInstalled, Own
  <2>2. \A p \in Busy' : WorksOnOwn(working[p])' /\ Tells(working[p])' /\ Replaces(working[p])'
    BY <1>3, <1>4, <2>1 DEF WorksOnOwn, Tells, Replaces, Configured, Verified, Upgraded
  <2> QED BY <1>1, <2>1, <2>2 DEF InstallInv, AgentIsOwn, TokenKept, Bootstrapping
<1> QED BY <1>1, <1>5, <1>6, <1>7, <1>8, <1>9, <1>10 DEF InstallInv

-----------------------------------------------------------------------------
\* Steps of the device, and every step.

LEMMA AgentCrashesKeeps ==
    ASSUME InstallInv, AgentCrashes
    PROVE  InstallInv'
<1>1. /\ UNCHANGED <<cutShort, upload, binary, agentConfig, unit, stack, known, staleStack, working, unsettled,
                     systemdUser, operations, overlapped>>
      /\ agent' = Missing /\ installFaults' \in Nat
  BY InstallFacts DEF AgentCrashes, Idle, hostFiles, records, Fails
<1>2. Busy' = Busy /\ Own' = Own /\ (Alone' <=> Alone)
  BY <1>1 DEF Busy, Own, Alone, BothInstalled, DoesStep
<1>3. InstallTypeOK'
  BY <1>1 DEF InstallInv, InstallTypeOK
<1>4. /\ \A o \in Busy' : KindOK(working[o])'
      /\ overlapped' = {} =>
           /\ \A o, p \in Busy' : o = p
           /\ PartsAreCut'
           /\ \A o \in Busy' : Uploads(working[o])' /\ Scrapes(working[o])'
           /\ Settled'
  BY <1>1, <1>2 DEF InstallInv, KindOK, PartsAreCut, Uploads, Scrapes, Settled, Bootstrapping, Bootstraps
<1>5. Alone' =>
        /\ \A o \in Busy' : WorksOnOwn(working[o])' /\ Tells(working[o])' /\ Replaces(working[o])'
        /\ AgentIsOwn' /\ TokenKept'
  BY <1>1, <1>2 DEF InstallInv, WorksOnOwn, Tells, Replaces, AgentIsOwn, TokenKept,
                    Bootstrapping, Bootstraps
<1> QED BY <1>3, <1>4, <1>5 DEF InstallInv

LEMMA UnitStartsKeeps ==
    ASSUME InstallInv, NEW m \in Modes, UnitStarts(m)
    PROVE  InstallInv'
<1>1. /\ UNCHANGED <<cutShort, upload, binary, agentConfig, unit, stack, known, staleStack, working, unsettled, installFaults,
                     systemdUser, operations, overlapped>>
      /\ unit[m] = "enabled" /\ agent = Missing /\ agent' = Starts(m, m, Missing)
  BY DEF UnitStarts, Idle, hostFiles, records
<1>2. Busy' = Busy /\ Own' = Own /\ (Alone' <=> Alone)
  BY <1>1 DEF Busy, Own, Alone, BothInstalled, DoesStep
<1>3. /\ agent' \in AnsweringAgent \cup {Missing}
      /\ agent' # Missing => /\ agent'.mode = m /\ agent'.binary = binary[m]
                             /\ agent'.token = agentConfig[m]
  BY <1>1, StartsFacts DEF Modes
<1>4. InstallTypeOK'
  BY <1>1, <1>3 DEF InstallInv, InstallTypeOK
<1>5. /\ \A o \in Busy' : KindOK(working[o])'
      /\ overlapped' = {} =>
           /\ \A o, p \in Busy' : o = p
           /\ PartsAreCut'
           /\ \A o \in Busy' : Uploads(working[o])' /\ Scrapes(working[o])'
           /\ Settled'
  BY <1>1, <1>2 DEF InstallInv, KindOK, PartsAreCut, Uploads, Scrapes, Settled, Bootstrapping, Bootstraps
<1>6. Alone' =>
        /\ \A o \in Busy' : WorksOnOwn(working[o])' /\ Tells(working[o])' /\ Replaces(working[o])'
        /\ AgentIsOwn' /\ TokenKept'
  <2> SUFFICES ASSUME Alone'
               PROVE  /\ \A o \in Busy' : /\ WorksOnOwn(working[o])' /\ Tells(working[o])'
                                          /\ Replaces(working[o])'
                      /\ AgentIsOwn' /\ TokenKept'
    OBVIOUS
  <2>1. Alone /\ m = Own
    BY <1>1, <1>2 DEF Alone, BothInstalled, Own, Modes
  <2>2. \A o \in Busy' : WorksOnOwn(working[o])' /\ Tells(working[o])' /\ Replaces(working[o])'
    BY <1>1, <1>2, <1>3, <2>1 DEF InstallInv, WorksOnOwn, Tells, Replaces, Configured, Verified,
                                  Upgraded
  <2>3. AgentIsOwn' /\ TokenKept'
    BY <1>1, <1>2, <1>3, <2>1 DEF InstallInv, AgentIsOwn, TokenKept, Own, Bootstrapping,
                                  Bootstraps, Modes
  <2> QED BY <2>2, <2>3
<1> QED BY <1>4, <1>5, <1>6 DEF InstallInv

LEMMA InstallStep ==
    ASSUME InstallInv, InstallNext
    PROVE  InstallInv'
<1>1. CASE AgentCrashes
  BY <1>1, AgentCrashesKeeps
<1>2. CASE \E m \in Modes : UnitStarts(m)
  BY <1>2, UnitStartsKeeps
<1>3. ASSUME NEW o \in Operators, OperatorStep(o)
      PROVE  InstallInv'
  <2>1. ASSUME NEW token \in Operation, NEW withStack \in BOOLEAN, BeginBootstrap(o, token, withStack)
        PROVE  InstallInv'
    BY <2>1, StartingKeeps DEF BeginBootstrap
  <2>2. CASE BeginAgentUpgrade(o)
    <3>1. known.token \in Operation /\ known.monitoring \in BOOLEAN
      BY InstallFacts
    <3> QED BY <2>2, <3>1, StartingKeeps DEF BeginAgentUpgrade
  <2>3. CASE Locate(o) \/ UploadBinary(o) \/ ChooseMode(o) \/ PlaceBinary(o) \/ Configure(o)
    BY <2>3, OperatorFacts, LocateKeeps, UploadKeeps, ChooseModeKeeps, PlaceBinaryKeeps,
       ConfigureKeeps
  <2>4. CASE Kill(o) \/ RestartAgent(o) \/ Verify(o) \/ Inventory(o) \/ DeployStack(o) \/ SaveDevice(o)
             \/ EnsureServices(o)
    BY <2>4, OperatorFacts, KillKeeps, RestartAgentKeeps, VerifyKeeps, InventoryKeeps,
       DeployStackKeeps, SaveDeviceKeeps, EnsureServicesKeeps
  <2>5. CASE BeginCliBootstrap(o)
    <3>1. known.monitoring \in BOOLEAN
      BY InstallFacts
    <3>2. operations < MaxOperations
      BY <2>5 DEF BeginCliBootstrap, Starting
    <3>3. operations + 1 \in Operation
      BY <3>2, InstallFacts, InstallAssumption DEF Operation
    <3> QED BY <2>5, <3>1, <3>3, StartingKeeps DEF BeginCliBootstrap
  <2> QED BY <1>3, <2>1, <2>2, <2>3, <2>4, <2>5 DEF OperatorStep
<1> QED BY <1>1, <1>2, <1>3 DEF InstallNext

LEMMA InstallStart == InstallInit => InstallInv
<1> SUFFICES ASSUME InstallInit PROVE InstallInv
  OBVIOUS
<1>1. PICK present \in SUBSET Modes :
         /\ "user" \in present => systemdUser
         /\ unit = [m \in Modes |-> IF m \in present THEN "enabled" ELSE "none"]
         /\ binary = [m \in Modes |-> IF m \in present THEN 0 ELSE Missing]
         /\ agentConfig = [m \in Modes |-> IF m \in present THEN 0 ELSE Missing]
  BY DEF InstallInit
<1>2. 0 \in Operation /\ Part # 0 /\ Part # Missing
  BY InstallAssumption, MissingAssumption DEF Operation, Part
<1>3. Busy = {}
  BY DEF InstallInit, Busy, DoesStep, Rested
<1>4. InstallTypeOK
  BY <1>1, <1>2 DEF InstallInit, InstallTypeOK
<1>5. PartsAreCut
  BY <1>1, <1>2 DEF PartsAreCut
<1>6. agentConfig[Own] \in {0, Missing}
  BY <1>1 DEF Own, Modes
<1> QED BY <1>3, <1>4, <1>5, <1>6 DEF InstallInit, InstallInv, Settled, AgentIsOwn, TokenKept

\* What holds of a host between any two commands, transfers and crashes of its
\* installations: where operations do not overlap, uploads are the operation's own
\* (deployAgent, UpgradeAgent), and on a host with one kind of service, binary,
\* configuration and agent agree with how far the operation has come.
THEOREM InstallInvariance == InstallSpec => []InstallInv
<1>1. InstallInit => InstallInv
  BY InstallStart
<1>2. InstallInv /\ [InstallNext]_installVars => InstallInv'
  <2>1. CASE InstallNext
    BY <2>1, InstallStep
  <2>2. CASE UNCHANGED installVars
    BY <2>2 DEF installVars, InstallInv, InstallTypeOK, Busy, KindOK, PartsAreCut, Uploads, Scrapes, Settled,
                Bootstrapping, Bootstraps, Alone, BothInstalled, WorksOnOwn, Tells, Replaces,
                AgentIsOwn, TokenKept, Own, DoesStep
  <2> QED BY <2>1, <2>2
<1> QED BY <1>1, <1>2, PTL DEF InstallSpec

\* verifyAgentAuth, deployMonitoringStack and the upload of deployAgent: between
\* operations that did not overlap, the agent takes the token that is saved, the stack
\* scrapes with it unless a bootstrap from the command line came after it was deployed,
\* and a partial binary in place is what an install that broke off left, never a
\* partial upload that was installed, whichever commands failed or were lost and
\* whichever agents crashed.
THEOREM InstallIsSafe == InstallSpec => []InstallSafety
<1>1. InstallInv => InstallSafety
  <2> SUFFICES ASSUME InstallInv PROVE InstallSafety
    OBVIOUS
  <2>1. KnownTokenWorks
    BY DEF InstallInv, KnownTokenWorks, TokenKept, Bootstrapping, Alone
  <2>2. ScrapeTokenAgrees
    BY DEF InstallInv, ScrapeTokenAgrees, Settled, Bootstrapping
  <2>3. InstalledWhole
    BY DEF InstallInv, InstalledWhole, PartsAreCut
  <2> QED BY <2>1, <2>2, <2>3 DEF InstallInv, InstallSafety
<1> QED BY <1>1, InstallInvariance, PTL

\* UpgradeAgent reports success only after its health check: where a service manager
\* restarts the agent, what answered that check runs the binary just uploaded.
THEOREM UpgradesRunNew == InstallSpec => UpgradeRunsNew
<1> DEFINE Runs ==
      \A o \in Operators :
         DoesStep(o, "verify") /\ ~Bootstraps(o) /\ working'[o].at = "inventory"
         /\ Alone /\ Manager(o) # "bare" => agent.binary = working[o].id
<1>1. InstallInv /\ [InstallNext]_installVars => [Runs]_installVars
  <2> SUFFICES ASSUME InstallInv, InstallNext, NEW o \in Operators,
                      DoesStep(o, "verify"), ~Bootstraps(o), working'[o].at = "inventory",
                      Alone, Manager(o) # "bare"
               PROVE  agent.binary = working[o].id
    OBVIOUS
  <2>1. /\ o \in Busy /\ working[o] \in InProgress /\ working[o].kind = "upgrade"
        /\ working[o].at = "verify"
    BY InstallFacts DEF DoesStep, Busy, Bootstraps, InProgress
  <2>2. Fits(working[o]) /\ Busy = {o}
    BY <2>1, FromInv DEF Alone
  <2>3. Own = "system" \/ systemdUser
    BY <2>2 DEF Manager, Own, Alone, BothInstalled, Bootstraps
  <2>4. agent # Missing
    <3>1. Verify(o)
      <4>1. ~UNCHANGED working
        BY <2>1
      <4>2. PICK p \in Operators : OperatorStep(p)
        BY <4>1 DEF InstallNext, AgentCrashes, UnitStarts, Idle
      <4>3. ASSUME DoesStep(p, "rest"), NEW w, working' = [working EXCEPT ![p] = w]
            PROVE  FALSE
        BY <2>1, <4>3, InstallFacts DEF DoesStep, Busy
      <4>4. ~(\E token \in Operation, withStack \in BOOLEAN : BeginBootstrap(p, token, withStack))
            /\ ~BeginCliBootstrap(p) /\ ~BeginAgentUpgrade(p)
        BY <4>3 DEF BeginBootstrap, BeginCliBootstrap, BeginAgentUpgrade, Starting
      <4>5. p = o
        BY <2>2, <4>2, <4>4, OperatorFacts DEF OperatorStep
      <4> QED BY <2>1, <4>2, <4>4, <4>5
              DEF OperatorStep, Locate, UploadBinary, ChooseMode, PlaceBinary, Configure, Kill,
                  RestartAgent, Inventory, DeployStack, SaveDevice, EnsureServices, DoesStep
    <3> QED BY <2>1, <3>1, CompletesFacts DEF Verify
  <2> QED BY <2>1, <2>2, <2>3, <2>4 DEF Fits, Replaces
<1> QED BY <1>1, InstallInvariance, PTL DEF InstallSpec, UpgradeRunsNew

-----------------------------------------------------------------------------
\* LaunchFiles.

Preparation == [pc: Stages, at: 0..Pieces, fd: {"none", "partial", "place", "gone"}, staged: Content]
FetchStages == {"idle", "look", "get", "create", "copy", "ready"}
RecipeStages == {"idle", "look", "copy", "verify", "environment", "write environment", "ready"}

\* A file of which the first parts are there.
Grown(file, at) == file # NoFile /\ file.size = at /\ file.parts = 1..at /\ ~file.stray

\* What the stage of a preparation says of the file it has open.
StageOf(l) ==
    LET p == prep[l] IN
    /\ p.pc # "copy" => p.at = 0 /\ p.fd = "none" /\ p.staged = Nil
    /\ p.fd = "place" => place # NoFile
    /\ p.fd = "partial" => partial # NoFile
    /\ IF artifact = "recipe"
       THEN p.pc \in RecipeStages /\ p.fd = "none" /\ Grown(p.staged, p.at)
       ELSE p.pc \in FetchStages /\ (p.pc = "copy" => p.fd # "none")
    /\ artifact = "asset" => p.fd \in {"none", "place"}

\* Preparations that do not overlap: a file in its place is complete, or the one
\* that has it open is at its end.
Uncontested(l) ==
    /\ prep[l].fd = "place" => Grown(place, prep[l].at)
    /\ prep[l].fd = "partial" => Grown(partial, prep[l].at)
    /\ prep[l].pc = "ready" => Complete(place)
    /\ artifact = "shard" => prep[l].fd \in {"none", "partial"}
Solitary ==
    ~together \/ artifact = "recipe" => \A l, o \in Preparers : Active(l) /\ Active(o) => l = o
Sound ==
    artifact # "recipe" /\ ~together /\ ~cut =>
        /\ place = NoFile \/ Complete(place) \/ \E l \in Preparers : prep[l].fd = "place"
        /\ \A l \in Preparers : Uncontested(l)

\* As long as nothing failed, somebody who has the file open still has to write each
\* part that is missing, whoever truncated it.
Mended(file, fd) ==
    file # NoFile => \A i \in 1..Pieces :
        i \in file.parts \/ \E l \in Preparers : prep[l].fd = fd /\ prep[l].at < i
Mending == fetchFaults = 0 => Mended(place, "place") /\ Mended(partial, "partial")

\* A recipe is only ever put in its place complete.
Checked ==
    artifact = "recipe" =>
        /\ place # NoFile => /\ Complete(place)
                             /\ place.stray =>
                                    cut \/ \E l \in Preparers : prep[l].pc = "write environment"
        /\ \A l \in Preparers :
             prep[l].pc \in {"environment", "write environment", "ready"} => place # NoFile

LaunchFilesInv ==
    FilesTypeOK /\ (\A l \in Preparers : StageOf(l)) /\ Solitary /\ Sound /\ Mending /\ Checked

-----------------------------------------------------------------------------
\* Records.

LEMMA NilFacts == Nil \in Content /\ Grown(Nil, 0) /\ Nil # NoFile /\ Nil.parts = {} /\ Nil.size = 0
<1>1. Nil \in Content /\ Nil.size = 0 /\ Nil.parts = {} /\ Nil.stray = FALSE
  BY PiecesAssumption DEF Nil, Content
<1>2. 1..0 = {}
  OBVIOUS
<1> QED BY <1>1, <1>2, NoFileAssumption DEF Grown

LEMMA RestingFacts ==
    /\ Resting \in Preparation /\ Resting.pc = "idle" /\ Resting.at = 0 /\ Resting.fd = "none"
    /\ Resting.staged = Nil
BY NilFacts, PiecesAssumption DEF Resting, Preparation, Stages

LEMMA RestedFacts ==
    ASSUME NEW x \in Stages
    PROVE  LET r == [Resting EXCEPT !.pc = x] IN
           r \in Preparation /\ r.pc = x /\ r.at = 0 /\ r.fd = "none" /\ r.staged = Nil
BY NilFacts, PiecesAssumption DEF Resting, Preparation

LEMMA TurnFacts ==
    ASSUME prep \in [Preparers -> Preparation], NEW l \in Preparers, NEW r \in Preparation,
           Turns(l, r)
    PROVE  /\ prep' \in [Preparers -> Preparation] /\ prep'[l] = r
           /\ \A o \in Preparers : o # l => prep'[o] = prep[o]
BY DEF Turns

\* A part more at its offset.
LEMMA ExtendedFacts ==
    ASSUME NEW file \in Content, NEW at \in 0..(Pieces - 1), file.parts \subseteq 1..file.size
    PROVE  LET new == Extended(file, at) IN
           /\ new \in Content /\ new.parts = file.parts \cup {at + 1} /\ new.stray = file.stray
           /\ new.parts \subseteq 1..new.size
           /\ Grown(file, at) => Grown(new, at + 1)
<1> DEFINE size == IF file.size > at THEN file.size ELSE at + 1
           k == [file EXCEPT !.size = size]
           new == [k EXCEPT !.parts = file.parts \cup {at + 1}]
<1>1. /\ size \in 0..Pieces /\ file.size \in 0..Pieces /\ file.size <= size /\ at + 1 <= size
      /\ file.parts \subseteq 1..Pieces /\ at + 1 \in 1..Pieces
      /\ (file.size = at => size = at + 1)
  BY PiecesAssumption DEF Content
<1> HIDE DEF size
<1>2. /\ k \in Content /\ k.size = size /\ k.parts = file.parts /\ k.stray = file.stray
  BY <1>1 DEF Content
<1> HIDE DEF k
<1>3. /\ new \in Content /\ new.size = size /\ new.parts = file.parts \cup {at + 1}
      /\ new.stray = file.stray
  BY <1>1, <1>2 DEF Content
<1>4. Extended(file, at) = new
  BY DEF Extended, k, size, Content
<1> HIDE DEF new
<1>5. new.parts \subseteq 1..new.size
  BY <1>1, <1>3
<1>6. Grown(file, at) => Grown(new, at + 1)
  <2> SUFFICES ASSUME Grown(file, at) PROVE Grown(new, at + 1)
    OBVIOUS
  <2>1. (1..at) \cup {at + 1} = 1..(at + 1)
    BY PiecesAssumption
  <2> QED BY <1>1, <1>3, <2>1, NoFileAssumption DEF Grown
<1> QED BY <1>3, <1>4, <1>5, <1>6

LEMMA NoPieceAfter == \A i \in 1..Pieces : ~(Pieces < i)
BY PiecesAssumption

LEMMA GrownIsComplete ==
    ASSUME NEW file, Grown(file, Pieces) PROVE Complete(file)
BY DEF Grown, Complete

LEMMA FilesFacts ==
    ASSUME LaunchFilesInv
    PROVE  /\ artifact \in Artifacts /\ place \in Contents /\ partial \in Contents
           /\ place # NoFile => place \in Content /\ place.parts \subseteq 1..place.size
           /\ partial # NoFile => partial \in Content /\ partial.parts \subseteq 1..partial.size
           /\ prep \in [Preparers -> Preparation]
           /\ \A l \in Preparers : prep[l] \in Preparation /\ StageOf(l)
           /\ together \in BOOLEAN /\ cut \in BOOLEAN
           /\ preparations \in Nat /\ fetchFaults \in Nat
<1>1. FilesTypeOK /\ \A l \in Preparers : StageOf(l)
  BY DEF LaunchFilesInv
<1>2. place \in Contents /\ partial \in Contents /\ prep \in [Preparers -> Preparation]
  BY <1>1 DEF FilesTypeOK, Preparation
<1>3. /\ place # NoFile => place.parts \subseteq 1..place.size
      /\ partial # NoFile => partial.parts \subseteq 1..partial.size
  BY <1>1 DEF FilesTypeOK
<1>4. /\ artifact \in Artifacts /\ together \in BOOLEAN /\ cut \in BOOLEAN
      /\ preparations \in Nat /\ fetchFaults \in Nat
  BY <1>1 DEF FilesTypeOK
<1> QED BY <1>1, <1>2, <1>3, <1>4 DEF Contents

LEMMA SameRecord ==
    ASSUME NEW q \in Preparation, q.at = 0, q.fd = "none", q.staged = Nil, NEW x
    PROVE  [q EXCEPT !.pc = x] = [Resting EXCEPT !.pc = x]
BY DEF Preparation, Resting

LEMMA EnterFacts ==
    ASSUME LaunchFilesInv, NEW l \in Preparers, prep[l].pc # "copy", NEW x \in Stages, Enters(l, x)
    PROVE  /\ prep' \in [Preparers -> Preparation] /\ prep'[l] = [Resting EXCEPT !.pc = x]
           /\ prep'[l].pc = x /\ prep'[l].at = 0 /\ prep'[l].fd = "none" /\ prep'[l].staged = Nil
           /\ \A o \in Preparers : o # l => prep'[o] = prep[o]
<1>1. PICK q \in Preparation : q = prep[l]
  BY FilesFacts
<1>2. q.at = 0 /\ q.fd = "none" /\ q.staged = Nil
  BY <1>1, FilesFacts DEF StageOf
<1>3. [q EXCEPT !.pc = x] = [Resting EXCEPT !.pc = x]
  BY <1>2, SameRecord
<1> DEFINE r == [Resting EXCEPT !.pc = x]
<1>4. Turns(l, r)
  BY <1>1, <1>3 DEF Enters
<1>5. r \in Preparation /\ r.pc = x /\ r.at = 0 /\ r.fd = "none" /\ r.staged = Nil
  BY RestedFacts
<1>6. prep \in [Preparers -> Preparation]
  BY FilesFacts
<1> HIDE DEF r
<1>7. prep' \in [Preparers -> Preparation] /\ prep'[l] = r
      /\ \A o \in Preparers : o # l => prep'[o] = prep[o]
  BY <1>4, <1>5, <1>6, TurnFacts
<1> QED BY <1>5, <1>7 DEF r

-----------------------------------------------------------------------------
\* Steps.

\* Of the variables, only `prep` changes, and the note of a fault.
OnlyPrep ==
    /\ UNCHANGED <<artifact, place, partial>>
    /\ together' \in BOOLEAN /\ (together => together') /\ cut' \in BOOLEAN /\ (cut => cut')
    /\ preparations' \in Nat /\ fetchFaults' \in Nat /\ (fetchFaults' = 0 => fetchFaults = 0)

\* Whoever leaves a file has finished it, or there was a fault.
Leaves(l) ==
    /\ fetchFaults' = 0 => prep[l].fd = "none" \/ prep[l].at = Pieces
    /\ artifact # "recipe" /\ ~together' /\ ~cut' => prep[l].fd # "place" \/ Complete(place)

Admits(x) ==
    /\ IF artifact = "recipe" THEN x \in RecipeStages ELSE x \in FetchStages
    /\ x \in {"environment", "write environment", "ready"} /\ artifact = "recipe" => place # NoFile
    /\ x = "ready" /\ artifact # "recipe" /\ ~together' /\ ~cut' => Complete(place)

\* A preparation goes on, or ends, without a file.
LEMMA MovesKeep ==
    ASSUME LaunchFilesInv, NEW l \in Preparers, NEW x \in Stages \ {"copy"},
           prep' \in [Preparers -> Preparation],
           prep'[l].pc = x /\ prep'[l].at = 0 /\ prep'[l].fd = "none" /\ prep'[l].staged = Nil,
           \A o \in Preparers : o # l => prep'[o] = prep[o],
           OnlyPrep, Leaves(l), Admits(x),
           \/ Active(l) \/ x = "idle"
           \/ ~together' \/ artifact = "recipe" => \A o \in Preparers : ~Active(o),
           prep[l].pc = "write environment" => ~place.stray
    PROVE  LaunchFilesInv'
<1>1. FilesTypeOK'
  BY FilesFacts DEF LaunchFilesInv, FilesTypeOK, Preparation, OnlyPrep
<1>2. \A o \in Preparers : StageOf(o)'
  BY FilesFacts, NilFacts DEF StageOf, OnlyPrep, Admits
<1>3. Solitary'
  <2> SUFFICES ASSUME ~together' \/ artifact = "recipe", NEW o \in Preparers, NEW p \in Preparers,
                      Active(o)', Active(p)'
               PROVE  o = p
    BY DEF Solitary, OnlyPrep
  <2>1. /\ Solitary /\ (together => together') /\ artifact' = artifact
        /\ \A q \in Preparers : q # l => (Active(q)' <=> Active(q))
    BY DEF LaunchFilesInv, Active, OnlyPrep
  <2>2. CASE x = "idle"
    BY <2>1, <2>2 DEF Solitary, Active
  <2>3. CASE x # "idle"
    BY <2>1, <2>3 DEF Solitary
  <2> QED BY <2>2, <2>3
<1>4. Sound'
  BY DEF LaunchFilesInv, Sound, Uncontested, Complete, OnlyPrep, Leaves, Admits
<1>5. Mending'
  <2> SUFFICES ASSUME fetchFaults' = 0 PROVE Mended(place, "place")' /\ Mended(partial, "partial")'
    BY DEF Mending
  <2>1. \A o \in Preparers, i \in 1..Pieces :
          prep[o].fd \in {"place", "partial"} /\ prep[o].at < i => prep'[o] = prep[o]
    <3> SUFFICES ASSUME NEW i \in 1..Pieces, prep[l].fd \in {"place", "partial"}, prep[l].at < i
                 PROVE  FALSE
      OBVIOUS
    <3>1. prep[l].at = Pieces
      BY DEF Leaves
    <3> QED BY <3>1, NoPieceAfter
  <2>2. /\ Mended(place, "place") /\ Mended(partial, "partial")
        /\ place' = place /\ partial' = partial
    BY DEF LaunchFilesInv, Mending, OnlyPrep
  <2>3. Mended(place, "place")'
    BY <2>1, <2>2 DEF Mended
  <2>4. Mended(partial, "partial")'
    BY <2>1, <2>2 DEF Mended
  <2> QED BY <2>3, <2>4
<1>6. Checked'
  BY DEF LaunchFilesInv, Checked, Complete, OnlyPrep, Admits
<1> QED BY <1>1, <1>2, <1>3, <1>4, <1>5, <1>6 DEF LaunchFilesInv

LEMMA InitialFiles ==
    ASSUME FilesInit PROVE LaunchFilesInv
<1>1. \A l \in Preparers : prep[l] = Resting
  BY DEF FilesInit
<1>2. FilesTypeOK
  BY RestingFacts DEF FilesInit, FilesTypeOK, Preparation, Contents
<1>3. \A l \in Preparers : StageOf(l)
  BY <1>1, RestingFacts, NilFacts DEF StageOf, RecipeStages, FetchStages
<1> QED BY <1>1, <1>2, <1>3, RestingFacts DEF FilesInit, LaunchFilesInv, Solitary, Active,
                                              Sound, Uncontested, Mending, Mended, Checked

LEMMA PrepareKeeps ==
    ASSUME LaunchFilesInv, NEW l \in Preparers, Prepare(l) PROVE LaunchFilesInv'
<1>1. prep[l].pc = "idle" /\ prep[l].fd = "none"
  BY FilesFacts DEF Prepare, Active, StageOf
<1>2. /\ prep' \in [Preparers -> Preparation]
      /\ prep'[l].pc = "look" /\ prep'[l].at = 0 /\ prep'[l].fd = "none" /\ prep'[l].staged = Nil
      /\ \A o \in Preparers : o # l => prep'[o] = prep[o]
  BY <1>1, EnterFacts DEF Prepare, Stages
<1>3. OnlyPrep /\ Leaves(l) /\ Admits("look")
  BY <1>1, FilesFacts DEF Prepare, OnlyPrep, Leaves, Admits, RecipeStages, FetchStages
<1>4. ~together' \/ artifact = "recipe" => \A o \in Preparers : ~Active(o)
  BY DEF Prepare
<1> QED BY <1>1, <1>2, <1>3, <1>4, MovesKeep DEF Stages

\* What a step that is about one preparation starts from.
LEMMA EnteredKeeps ==
    ASSUME LaunchFilesInv, NEW l \in Preparers, NEW x \in Stages \ {"copy"}, Active(l),
           \/ prep[l].pc # "copy" /\ Enters(l, x)
           \/ Turns(l, [Resting EXCEPT !.pc = x])
           \/ x = "idle" /\ Turns(l, Resting),
           OnlyPrep, Leaves(l), Admits(x),
           prep[l].pc # "write environment"
    PROVE  LaunchFilesInv'
<1>1. /\ prep' \in [Preparers -> Preparation]
      /\ prep'[l].pc = x /\ prep'[l].at = 0 /\ prep'[l].fd = "none" /\ prep'[l].staged = Nil
      /\ \A o \in Preparers : o # l => prep'[o] = prep[o]
  <2>1. CASE prep[l].pc # "copy" /\ Enters(l, x)
    BY <2>1, EnterFacts
  <2>2. CASE Turns(l, [Resting EXCEPT !.pc = x])
    <3> DEFINE r == [Resting EXCEPT !.pc = x]
    <3>1. r \in Preparation /\ r.pc = x /\ r.at = 0 /\ r.fd = "none" /\ r.staged = Nil
      BY RestedFacts
    <3> HIDE DEF r
    <3> QED BY <2>2, <3>1, FilesFacts, TurnFacts DEF r
  <2>3. CASE x = "idle" /\ Turns(l, Resting)
    BY <2>3, RestingFacts, FilesFacts, TurnFacts
  <2> QED BY <2>1, <2>2, <2>3
<1> QED BY <1>1, MovesKeep

\* A recipe begins to be staged.
LEMMA EntersCopy ==
    ASSUME LaunchFilesInv, NEW l \in Preparers, prep[l].pc = "look", artifact = "recipe",
           Enters(l, "copy"), OnlyPrep, fetchFaults' = fetchFaults
    PROVE  LaunchFilesInv'
<1>1. /\ prep' \in [Preparers -> Preparation]
      /\ prep'[l].pc = "copy" /\ prep'[l].at = 0 /\ prep'[l].fd = "none" /\ prep'[l].staged = Nil
      /\ \A o \in Preparers : o # l => prep'[o] = prep[o]
  BY EnterFacts DEF Stages
<1>2. prep[l].fd = "none"
  BY FilesFacts DEF StageOf
<1>3. FilesTypeOK'
  BY <1>1, FilesFacts DEF LaunchFilesInv, FilesTypeOK, Preparation, OnlyPrep
<1>4. \A o \in Preparers : StageOf(o)'
  BY <1>1, FilesFacts, NilFacts DEF StageOf, RecipeStages, OnlyPrep
<1>5. Solitary' /\ Sound' /\ Checked'
  BY <1>1 DEF LaunchFilesInv, Solitary, Active, Sound, Checked, Complete, OnlyPrep
<1>6. Mending'
  BY <1>1, <1>2 DEF LaunchFilesInv, Mending, Mended, OnlyPrep
<1> QED BY <1>3, <1>4, <1>5, <1>6 DEF LaunchFilesInv

LEMMA LooksKeep ==
    ASSUME LaunchFilesInv, NEW l \in Preparers,
           LookAtShard(l) \/ LookAtAsset(l) \/ LookAtRecipe(l) \/ Get(l) \/ VerifyRecipe(l)
             \/ LaunchOnFile(l)
    PROVE  LaunchFilesInv'
<1>1. /\ prep[l].pc \in {"look", "get", "verify", "ready"} /\ prep[l].fd = "none" /\ Active(l)
      /\ OnlyPrep /\ Leaves(l) /\ UNCHANGED <<together, cut>>
  BY FilesFacts DEF LookAtShard, LookAtAsset, LookAtRecipe, Get, VerifyRecipe, LaunchOnFile,
                    StageOf, Steady, Active, FetchFault, OnlyPrep, Leaves
<1>2. {"idle", "ready", "get", "create", "verify", "environment"} \subseteq Stages \ {"copy"}
  BY DEF Stages
<1>w. artifact # "recipe" /\ ~together /\ ~cut /\ place # NoFile => Complete(place)
  <2> SUFFICES ASSUME artifact # "recipe", ~together, ~cut, place # NoFile, ~Complete(place)
               PROVE  FALSE
    OBVIOUS
  <2>1. PICK o \in Preparers : prep[o].fd = "place"
    BY DEF LaunchFilesInv, Sound
  <2>2. prep[o].pc = "copy"
    BY <2>1, FilesFacts DEF StageOf
  <2> QED BY <1>1, <2>2 DEF LaunchFilesInv, Solitary, Active
<1>3. CASE LookAtShard(l)
  <2>1. CASE place # NoFile /\ Enters(l, "ready")
    <3>1. Admits("ready")
      BY <1>1, <1>3, <1>w, <2>1 DEF LookAtShard, FetchStages, Admits
    <3> QED BY <1>1, <1>2, <2>1, <3>1, EnteredKeeps
  <2>2. CASE Enters(l, "get")
    BY <1>1, <1>2, <1>3, <2>2, EnteredKeeps DEF LookAtShard, FetchStages, Admits
  <2> QED BY <1>3, <2>1, <2>2 DEF LookAtShard
<1>4. CASE LookAtAsset(l)
  <2>1. CASE place # NoFile /\ Enters(l, "ready")
    <3>1. Admits("ready")
      BY <1>1, <1>4, <1>w, <2>1 DEF LookAtAsset, FetchStages, Admits
    <3> QED BY <1>1, <1>2, <2>1, <3>1, EnteredKeeps
  <2>2. CASE Enters(l, "get")
    BY <1>1, <1>2, <1>4, <2>2, EnteredKeeps DEF LookAtAsset, FetchStages, Admits
  <2> QED BY <1>4, <2>1, <2>2 DEF LookAtAsset
<1>5. CASE LookAtRecipe(l)
  <2>1. CASE Enters(l, "verify")
    BY <1>1, <1>2, <1>5, <2>1, EnteredKeeps DEF LookAtRecipe, RecipeStages, Admits
  <2>2. CASE Enters(l, "copy")
    BY <1>1, <1>5, <2>2, EntersCopy DEF LookAtRecipe
  <2> QED BY <1>5, <2>1, <2>2 DEF LookAtRecipe
<1>6. CASE Get(l)
  <2>1. artifact # "recipe"
    BY <1>6, FilesFacts DEF Get, StageOf, RecipeStages
  <2>2. CASE Enters(l, "create")
    BY <1>1, <1>2, <1>6, <2>1, <2>2, EnteredKeeps DEF Get, FetchStages, Admits
  <2>3. CASE Turns(l, Resting)
    BY <1>1, <1>2, <1>6, <2>1, <2>3, EnteredKeeps DEF Get, FetchStages, Admits
  <2> QED BY <1>6, <2>2, <2>3 DEF Get
<1>7. CASE VerifyRecipe(l)
  <2>1. artifact = "recipe"
    BY <1>7, FilesFacts DEF VerifyRecipe, StageOf, FetchStages
  <2>2. CASE Complete(place) /\ Enters(l, "environment")
    BY <1>1, <1>2, <1>7, <2>1, <2>2, EnteredKeeps DEF VerifyRecipe, RecipeStages, Complete,
                                                      Admits
  <2>3. CASE Turns(l, Resting)
    BY <1>1, <1>2, <1>7, <2>1, <2>3, EnteredKeeps DEF VerifyRecipe, RecipeStages, Admits
  <2> QED BY <1>7, <2>2, <2>3 DEF VerifyRecipe, Accepted
<1>8. CASE LaunchOnFile(l)
  BY <1>1, <1>2, <1>8, EnteredKeeps DEF LaunchOnFile, RecipeStages, FetchStages, Admits
<1> QED BY <1>3, <1>4, <1>5, <1>6, <1>7, <1>8

\* os.Create and os.WriteFile.
LEMMA CreatesKeep ==
    ASSUME LaunchFilesInv, NEW l \in Preparers, CreatePartial(l) \/ CreateAsset(l)
    PROVE  LaunchFilesInv'
<1> DEFINE fd == IF artifact = "shard" THEN "partial" ELSE "place"
           r == [prep[l] EXCEPT !.pc = "copy", !.fd = fd]
<1>1. /\ r \in Preparation /\ r.pc = "copy" /\ r.fd = fd /\ r.at = 0 /\ r.staged = Nil
      /\ prep[l].fd = "none" /\ prep[l].pc = "create" /\ artifact \in {"shard", "asset"}
  BY FilesFacts DEF CreatePartial, CreateAsset, Preparation, Stages, StageOf
<1>2. Turns(l, r)
  BY DEF CreatePartial, CreateAsset
<1> HIDE DEF r
<1>3. /\ prep' \in [Preparers -> Preparation] /\ prep'[l] = r
      /\ \A o \in Preparers : o # l => prep'[o] = prep[o]
  BY <1>1, <1>2, FilesFacts, TurnFacts
<1>4. /\ artifact = "shard" => partial' = Nil /\ place' = place
      /\ artifact = "asset" => place' = Nil /\ partial' = partial
      /\ UNCHANGED <<artifact, together, cut, preparations, fetchFaults>>
  BY DEF CreatePartial, CreateAsset, Steady
<1>5. FilesTypeOK'
  <2>1. prep' \in [Preparers -> [pc: Stages, at: 0..Pieces, fd: {"none", "partial", "place", "gone"},
                                staged: Content]]
    BY <1>3 DEF Preparation
  <2>2. Nil \in Contents /\ Nil.parts \subseteq 1..Nil.size /\ ~Nil.stray
    BY NilFacts DEF Contents, Grown
  <2> QED BY <1>1, <1>4, <2>1, <2>2 DEF LaunchFilesInv, FilesTypeOK
<1>6. ASSUME NEW o \in Preparers PROVE StageOf(o)'
  BY <1>1, <1>3, <1>4, FilesFacts, NilFacts DEF StageOf, FetchStages
<1>7. Solitary' /\ Checked'
  BY <1>1, <1>3, <1>4 DEF LaunchFilesInv, Solitary, Active, Checked
<1>8. Sound'
  BY <1>1, <1>3, <1>4, <1>7, FilesFacts, NilFacts
     DEF LaunchFilesInv, Solitary, Active, Sound, Uncontested, StageOf
<1>9. Mending'
  BY <1>1, <1>3, <1>4, NilFacts, PiecesAssumption DEF LaunchFilesInv, Mending, Mended
<1> QED BY <1>5, <1>6, <1>7, <1>8, <1>9 DEF LaunchFilesInv

LEMMA CopyPartKeeps ==
    ASSUME LaunchFilesInv, NEW l \in Preparers, CopyPart(l) PROVE LaunchFilesInv'
<1> DEFINE r == [prep[l] EXCEPT !.at = prep[l].at + 1]
<1>1. /\ prep[l] \in Preparation /\ prep[l].at \in 0..(Pieces - 1) /\ prep[l].pc = "copy"
      /\ artifact \in {"shard", "asset"}
  BY FilesFacts, PiecesAssumption DEF CopyPart, Preparation, Artifacts
<1>2. /\ r \in Preparation /\ r.at = prep[l].at + 1 /\ r.fd = prep[l].fd /\ r.pc = prep[l].pc
      /\ r.staged = prep[l].staged
  BY <1>1, PiecesAssumption DEF Preparation
<1>3. Turns(l, r)
  BY DEF CopyPart
<1> HIDE DEF r
<1>4. /\ prep' \in [Preparers -> Preparation] /\ prep'[l] = r
      /\ \A o \in Preparers : o # l => prep'[o] = prep[o]
  BY <1>2, <1>3, FilesFacts, TurnFacts
<1>5. /\ prep[l].fd = "partial" => partial' = Extended(partial, prep[l].at) /\ place' = place
      /\ prep[l].fd = "place" => place' = Extended(place, prep[l].at) /\ partial' = partial
      /\ prep[l].fd \notin {"place", "partial"} => UNCHANGED <<place, partial>>
      /\ UNCHANGED <<artifact, together, cut, preparations, fetchFaults>>
  BY DEF CopyPart, Written, Steady
<1>6. /\ prep[l].fd = "partial" => partial \in Content /\ partial.parts \subseteq 1..partial.size
      /\ prep[l].fd = "place" => place \in Content /\ place.parts \subseteq 1..place.size
  BY FilesFacts DEF StageOf
<1>7. ASSUME NEW file, NEW new, NEW fd, prep[l].fd = fd, file \in Content,
             file.parts \subseteq 1..file.size, new = Extended(file, prep[l].at)
      PROVE  /\ new \in Content /\ new # NoFile /\ new.parts = file.parts \cup {prep[l].at + 1}
             /\ new.stray = file.stray /\ new.parts \subseteq 1..new.size
             /\ Grown(file, prep[l].at) => Grown(new, r.at)
  BY <1>1, <1>2, <1>7, ExtendedFacts, NoFileAssumption
<1>8. /\ prep[l].fd = "partial" =>
           /\ partial' \in Content /\ partial' # NoFile
           /\ partial'.parts = partial.parts \cup {prep[l].at + 1}
           /\ partial'.stray = partial.stray /\ partial'.parts \subseteq 1..partial'.size
           /\ Grown(partial, prep[l].at) => Grown(partial', r.at)
      /\ prep[l].fd = "place" =>
           /\ place' \in Content /\ place' # NoFile
           /\ place'.parts = place.parts \cup {prep[l].at + 1}
           /\ place'.stray = place.stray /\ place'.parts \subseteq 1..place'.size
           /\ Grown(place, prep[l].at) => Grown(place', r.at)
  BY <1>5, <1>6, <1>7
<1>9. FilesTypeOK'
  <2>1. prep' \in [Preparers -> [pc: Stages, at: 0..Pieces, fd: {"none", "partial", "place", "gone"},
                                staged: Content]]
    BY <1>4 DEF Preparation
  <2>2. /\ place' \in Contents /\ partial' \in Contents
        /\ place' # NoFile => /\ place'.parts \subseteq 1..place'.size
                              /\ place'.stray => place.stray /\ place # NoFile
        /\ partial' # NoFile => /\ partial'.parts \subseteq 1..partial'.size
                                /\ partial'.stray => partial.stray /\ partial # NoFile
    BY <1>5, <1>6, <1>8, FilesFacts, NoFileAssumption DEF Contents
  <2>3. artifact # "shard" => partial' = NoFile
    BY <1>5, <1>1, FilesFacts DEF LaunchFilesInv, FilesTypeOK, StageOf
  <2> QED BY <1>5, <2>1, <2>2, <2>3 DEF LaunchFilesInv, FilesTypeOK
<1>10. ASSUME NEW o \in Preparers PROVE StageOf(o)'
  BY <1>1, <1>2, <1>4, <1>5, <1>8, FilesFacts DEF StageOf
<1>11. Solitary' /\ Checked'
  BY <1>1, <1>2, <1>4, <1>5 DEF LaunchFilesInv, Solitary, Active, Checked
<1>12. Sound'
  BY <1>1, <1>2, <1>4, <1>5, <1>8, FilesFacts
     DEF LaunchFilesInv, Solitary, Active, Sound, Uncontested, StageOf
<1>13. Mending'
  <2> SUFFICES ASSUME fetchFaults = 0 PROVE Mended(place, "place")' /\ Mended(partial, "partial")'
    BY <1>5 DEF Mending, Mended
  <2>0. Mended(place, "place") /\ Mended(partial, "partial")
    BY DEF LaunchFilesInv, Mending
  <2>1. ASSUME NEW i \in 1..Pieces, NEW o \in Preparers, prep[o].at < i
        PROVE  prep'[o].at < i \/ (o = l /\ i = prep[l].at + 1)
    BY <1>1, <1>2, <1>4, <2>1
  <2>2. Mended(place, "place")'
    <3> SUFFICES ASSUME place' # NoFile, NEW i \in 1..Pieces, i \notin place'.parts
                 PROVE  \E o \in Preparers : prep'[o].fd = "place" /\ prep'[o].at < i
      BY DEF Mended
    <3>1. place # NoFile /\ i \notin place.parts
      BY <1>5, <1>6, <1>8, NoFileAssumption
    <3>2. PICK o \in Preparers : prep[o].fd = "place" /\ prep[o].at < i
      BY <2>0, <3>1 DEF Mended
    <3>3. ~(o = l /\ i = prep[l].at + 1)
      BY <1>8, <3>2
    <3>4. prep'[o].fd = "place"
      BY <1>2, <1>4, <3>2
    <3> QED BY <2>1, <3>2, <3>3, <3>4
  <2>3. Mended(partial, "partial")'
    <3> SUFFICES ASSUME partial' # NoFile, NEW i \in 1..Pieces, i \notin partial'.parts
                 PROVE  \E o \in Preparers : prep'[o].fd = "partial" /\ prep'[o].at < i
      BY DEF Mended
    <3>1. partial # NoFile /\ i \notin partial.parts
      BY <1>5, <1>6, <1>8, NoFileAssumption
    <3>2. PICK o \in Preparers : prep[o].fd = "partial" /\ prep[o].at < i
      BY <2>0, <3>1 DEF Mended
    <3>3. ~(o = l /\ i = prep[l].at + 1)
      BY <1>8, <3>2
    <3>4. prep'[o].fd = "partial"
      BY <1>2, <1>4, <3>2
    <3> QED BY <2>1, <3>2, <3>3, <3>4
  <2> QED BY <2>2, <2>3
<1> QED BY <1>9, <1>10, <1>11, <1>12, <1>13 DEF LaunchFilesInv

LEMMA ElsewhereFacts ==
    ASSUME NEW p \in Preparation, NEW renamed \in BOOLEAN
    PROVE  /\ Elsewhere(p, renamed) \in Preparation /\ Elsewhere(p, renamed).pc = p.pc
           /\ Elsewhere(p, renamed).at = p.at /\ Elsewhere(p, renamed).staged = p.staged
           /\ Elsewhere(p, renamed).fd = IF p.fd = "partial" THEN IF renamed THEN "place" ELSE "gone"
                                         ELSE IF p.fd = "place" THEN IF renamed THEN "gone" ELSE "place"
                                         ELSE p.fd
BY DEF Elsewhere, Preparation

\* What a rename or a removal of .partial makes of the files that are open.
LEMMA RestFacts ==
    ASSUME LaunchFilesInv, NEW l \in Preparers, NEW mine \in Preparation, NEW renamed \in BOOLEAN,
           Rest(l, mine, renamed)
    PROVE  /\ prep' \in [Preparers -> Preparation] /\ prep'[l] = mine
           /\ \A o \in Preparers : o # l =>
                /\ prep'[o].pc = prep[o].pc /\ prep'[o].at = prep[o].at
                /\ prep'[o].staged = prep[o].staged
                /\ prep'[o].fd = IF prep[o].fd = "partial" THEN IF renamed THEN "place" ELSE "gone"
                                 ELSE IF prep[o].fd = "place" THEN IF renamed THEN "gone" ELSE "place"
                                 ELSE prep[o].fd
<1>1. \A o \in Preparers : prep'[o] = IF o = l THEN mine ELSE Elsewhere(prep[o], renamed)
  BY DEF Rest
<1>2. \A o \in Preparers : prep[o] \in Preparation
  BY FilesFacts
<1>3. \A o \in Preparers : o # l =>
         /\ Elsewhere(prep[o], renamed) \in Preparation
         /\ Elsewhere(prep[o], renamed).pc = prep[o].pc
         /\ Elsewhere(prep[o], renamed).at = prep[o].at
         /\ Elsewhere(prep[o], renamed).staged = prep[o].staged
         /\ Elsewhere(prep[o], renamed).fd =
              IF prep[o].fd = "partial" THEN IF renamed THEN "place" ELSE "gone"
              ELSE IF prep[o].fd = "place" THEN IF renamed THEN "gone" ELSE "place"
              ELSE prep[o].fd
  BY <1>2, ElsewhereFacts
<1>4. prep' \in [Preparers -> Preparation]
  BY <1>3 DEF Rest
<1> QED BY <1>1, <1>3, <1>4

LEMMA CopyFailsKeeps ==
    ASSUME LaunchFilesInv, NEW l \in Preparers, CopyFails(l) PROVE LaunchFilesInv'
<1>1. /\ prep[l].pc = "copy" /\ artifact \in {"shard", "asset"} /\ Active(l)
      /\ fetchFaults \in Nat /\ fetchFaults' = fetchFaults + 1 /\ fetchFaults' # 0
      /\ UNCHANGED <<artifact, together, preparations, place>>
  BY FilesFacts DEF CopyFails, FetchFault, Steady, Artifacts, Active
<1>2. CASE artifact = "asset"
  <2>1. cut' = TRUE /\ partial' = partial /\ Turns(l, Resting)
    BY <1>2 DEF CopyFails
  <2>2. OnlyPrep /\ Leaves(l) /\ Admits("idle")
    BY <1>1, <1>2, <2>1, FilesFacts DEF OnlyPrep, Leaves, Admits, FetchStages
  <2> QED BY <1>1, <2>1, <2>2, EnteredKeeps DEF Stages
<1>3. CASE artifact = "shard"
  <2>1. partial' = NoFile /\ Rest(l, Resting, FALSE) /\ cut' = cut
    BY <1>3 DEF CopyFails
  <2>2. /\ prep' \in [Preparers -> Preparation] /\ prep'[l] = Resting
        /\ \A o \in Preparers : o # l =>
             /\ prep'[o].pc = prep[o].pc /\ prep'[o].at = prep[o].at
             /\ prep'[o].staged = prep[o].staged
             /\ prep'[o].fd = IF prep[o].fd = "partial" THEN "gone" ELSE prep[o].fd
    <3>1. Resting \in Preparation /\ FALSE \in BOOLEAN /\ Rest(l, Resting, FALSE)
      BY <2>1, RestingFacts, Zenon
    <3> QED BY <3>1, RestFacts
  <2>3. FilesTypeOK'
    BY <1>1, <2>1, <2>2, FilesFacts DEF LaunchFilesInv, FilesTypeOK, Preparation, Contents
  <2>4. ASSUME NEW o \in Preparers PROVE StageOf(o)'
    <3>1. CASE o = l
      BY <1>1, <1>3, <2>2, <3>1, RestingFacts DEF StageOf, FetchStages
    <3>2. CASE o # l
      BY <1>1, <1>3, <2>1, <2>2, <3>2, FilesFacts DEF StageOf
    <3> QED BY <3>1, <3>2
  <2>5. Solitary' /\ Checked' /\ Mending'
    BY <1>1, <1>3, <2>2, RestingFacts DEF LaunchFilesInv, Solitary, Active, Checked, Mending
  <2>6. Sound'
    <3> SUFFICES ASSUME ~together, ~cut PROVE Sound'
      BY <1>1, <2>1 DEF Sound
    <3>1. \A o \in Preparers : o # l => prep[o].pc = "idle" /\ prep[o].fd = "none"
      BY <1>1, FilesFacts DEF LaunchFilesInv, Solitary, Active, StageOf
    <3>2. \A o \in Preparers : prep'[o].fd = "none" /\ prep'[o].pc = "idle"
      BY <2>2, <3>1, RestingFacts
    <3>3. place = NoFile \/ Complete(place)
      BY <1>1, <1>3 DEF LaunchFilesInv, Sound, Uncontested
    <3> QED BY <1>1, <3>2, <3>3 DEF Sound, Uncontested, Complete
  <2> QED BY <2>3, <2>4, <2>5, <2>6 DEF LaunchFilesInv
<1> QED BY <1>1, <1>2, <1>3

LEMMA AssetWrittenKeeps ==
    ASSUME LaunchFilesInv, NEW l \in Preparers, AssetWritten(l) PROVE LaunchFilesInv'
<1>1. /\ prep[l].pc = "copy" /\ prep[l].at = Pieces /\ artifact = "asset" /\ Active(l)
      /\ Turns(l, [Resting EXCEPT !.pc = "ready"])
      /\ UNCHANGED <<artifact, together, preparations, place, partial, cut, fetchFaults>>
  BY DEF AssetWritten, Steady, Active
<1>2. ~together /\ ~cut => Complete(place)
  <2> SUFFICES ASSUME ~together, ~cut, ~Complete(place) PROVE FALSE
    OBVIOUS
  <2>1. prep[l].fd # "place"
    BY <1>1, GrownIsComplete DEF LaunchFilesInv, Sound, Uncontested
  <2>2. prep[l].fd = "place"
    BY <1>1, FilesFacts DEF StageOf
  <2> QED BY <2>1, <2>2
<1>3. OnlyPrep /\ Leaves(l) /\ Admits("ready")
  BY <1>1, <1>2, FilesFacts DEF OnlyPrep, Leaves, Admits, FetchStages
<1> QED BY <1>1, <1>3, EnteredKeeps DEF Stages

LEMMA RenamePartialKeeps ==
    ASSUME LaunchFilesInv, NEW l \in Preparers, RenamePartial(l) PROVE LaunchFilesInv'
<1>1. /\ prep[l].pc = "copy" /\ prep[l].at = Pieces /\ artifact = "shard" /\ Active(l)
      /\ UNCHANGED <<artifact, together, preparations, cut, fetchFaults>>
  BY DEF RenamePartial, Steady, Active
<1>2. CASE partial = NoFile
  <2>1. Turns(l, Resting) /\ UNCHANGED <<place, partial>>
    BY <1>2 DEF RenamePartial
  <2>2. OnlyPrep /\ Leaves(l) /\ Admits("idle")
    BY <1>1, <2>1, FilesFacts
       DEF OnlyPrep, Leaves, Admits, FetchStages, LaunchFilesInv, Sound, Uncontested
  <2> QED BY <1>1, <2>1, <2>2, EnteredKeeps DEF Stages
<1>3. CASE partial # NoFile
  <2> DEFINE r == [Resting EXCEPT !.pc = "ready"]
  <2>1. place' = partial /\ partial' = NoFile /\ Rest(l, r, TRUE)
    BY <1>3 DEF RenamePartial
  <2>2. r \in Preparation /\ r.pc = "ready" /\ r.at = 0 /\ r.fd = "none" /\ r.staged = Nil
    BY RestedFacts DEF Stages
  <2> HIDE DEF r
  <2>3. /\ prep' \in [Preparers -> Preparation] /\ prep'[l] = r
        /\ \A o \in Preparers : o # l =>
             /\ prep'[o].pc = prep[o].pc /\ prep'[o].at = prep[o].at
             /\ prep'[o].staged = prep[o].staged
             /\ prep'[o].fd = IF prep[o].fd = "partial" THEN "place"
                              ELSE IF prep[o].fd = "place" THEN "gone" ELSE prep[o].fd
    <3>1. r \in Preparation /\ TRUE \in BOOLEAN /\ Rest(l, r, TRUE)
      BY <2>1, <2>2, Zenon
    <3>2. /\ prep' \in [Preparers -> Preparation] /\ prep'[l] = r
          /\ \A o \in Preparers : o # l =>
               /\ prep'[o].pc = prep[o].pc /\ prep'[o].at = prep[o].at
               /\ prep'[o].staged = prep[o].staged
               /\ prep'[o].fd = IF prep[o].fd = "partial" THEN IF TRUE THEN "place" ELSE "gone"
                                ELSE IF prep[o].fd = "place" THEN IF TRUE THEN "gone" ELSE "place"
                                ELSE prep[o].fd
      BY <3>1, RestFacts, Zenon
    <3> QED BY <3>2
  <2>4. FilesTypeOK'
    BY <1>1, <2>1, <2>3, FilesFacts DEF LaunchFilesInv, FilesTypeOK, Preparation, Contents
  <2>5. ASSUME NEW o \in Preparers PROVE StageOf(o)'
    <3>1. CASE o = l
      BY <1>1, <2>2, <2>3, <3>1 DEF StageOf, FetchStages
    <3>2. CASE o # l
      BY <1>1, <1>3, <2>1, <2>3, <3>2, FilesFacts DEF StageOf
    <3> QED BY <3>1, <3>2
  <2>6. Solitary' /\ Checked'
    BY <1>1, <2>2, <2>3 DEF LaunchFilesInv, Solitary, Active, Checked
  <2>7. Sound'
    <3> SUFFICES ASSUME ~together, ~cut PROVE Sound'
      BY <1>1 DEF Sound
    <3>1. prep[l].fd = "partial"
      BY <1>1, FilesFacts DEF LaunchFilesInv, Sound, Uncontested, StageOf
    <3>2. Complete(place')
      BY <1>1, <2>1, <3>1, GrownIsComplete DEF LaunchFilesInv, Sound, Uncontested
    <3>3. \A o \in Preparers : o # l => prep[o].pc = "idle" /\ prep[o].fd = "none"
      BY <1>1, FilesFacts DEF LaunchFilesInv, Solitary, Active, StageOf
    <3>4. \A o \in Preparers : prep'[o].fd = "none" /\ (o # l => prep'[o].pc = "idle")
      BY <2>2, <2>3, <3>3
    <3> QED BY <3>2, <3>4 DEF Sound, Uncontested, Complete
  <2>8. Mending'
    <3> SUFFICES ASSUME fetchFaults = 0, NEW i \in 1..Pieces, i \notin partial.parts
                 PROVE  \E o \in Preparers : prep'[o].fd = "place" /\ prep'[o].at < i
      BY <1>1, <2>1 DEF Mending, Mended
    <3>1. PICK o \in Preparers : prep[o].fd = "partial" /\ prep[o].at < i
      BY <1>3 DEF LaunchFilesInv, Mending, Mended
    <3>2. o # l
      BY <1>1, <3>1, NoPieceAfter
    <3> QED BY <2>3, <3>1, <3>2
  <2> QED BY <2>4, <2>5, <2>6, <2>7, <2>8 DEF LaunchFilesInv
<1> QED BY <1>2, <1>3

\* The recipe is prepared by one launch at a time.
LEMMA StageRecipeKeeps ==
    ASSUME LaunchFilesInv, NEW l \in Preparers, StageRecipe(l) PROVE LaunchFilesInv'
<1>1. /\ prep[l] \in Preparation /\ prep[l].pc = "copy" /\ prep[l].at \in 0..(Pieces - 1)
      /\ prep[l].fd = "none" /\ Grown(prep[l].staged, prep[l].at)
      /\ artifact = "recipe" /\ Active(l) /\ fetchFaults \in Nat
      /\ UNCHANGED <<artifact, together, preparations, place, partial, cut>>
  BY FilesFacts, PiecesAssumption DEF StageRecipe, Steady, Active, StageOf, Preparation
<1>2. CASE Turns(l, Resting) /\ FetchFault
  <2>1. OnlyPrep /\ Leaves(l) /\ Admits("idle")
    BY <1>1, <1>2, FilesFacts DEF OnlyPrep, Leaves, Admits, RecipeStages, FetchFault
  <2> QED BY <1>1, <1>2, <2>1, EnteredKeeps DEF Stages
<1>3. CASE /\ Turns(l, [prep[l] EXCEPT !.at = @ + 1, !.staged = Extended(@, prep[l].at)])
           /\ UNCHANGED fetchFaults
  <2> DEFINE at == prep[l].at + 1
             new == Extended(prep[l].staged, prep[l].at)
             k == [prep[l] EXCEPT !.at = at]
             r == [k EXCEPT !.staged = new]
  <2>1. new \in Content /\ Grown(new, at)
    BY <1>1, ExtendedFacts DEF Grown, Preparation
  <2>2. at \in 0..Pieces
    BY <1>1, PiecesAssumption
  <2> HIDE DEF at, new
  <2>3. k \in Preparation /\ k.at = at /\ k.pc = prep[l].pc /\ k.fd = prep[l].fd
    BY <1>1, <2>2 DEF Preparation
  <2>4. Turns(l, [k EXCEPT !.staged = new])
    BY <1>1, <1>3 DEF at, new, k
  <2> HIDE DEF k
  <2>5. /\ r \in Preparation /\ r.at = at /\ r.staged = new /\ r.pc = prep[l].pc /\ r.fd = prep[l].fd
    BY <2>1, <2>3 DEF Preparation
  <2> HIDE DEF r
  <2>6. /\ prep' \in [Preparers -> Preparation] /\ prep'[l] = r
        /\ \A o \in Preparers : o # l => prep'[o] = prep[o]
    BY <2>4, <2>5, FilesFacts, TurnFacts DEF r
  <2>7. FilesTypeOK'
    BY <1>1, <1>3, <2>6 DEF LaunchFilesInv, FilesTypeOK, Preparation
  <2>8. ASSUME NEW o \in Preparers PROVE StageOf(o)'
    BY <1>1, <2>1, <2>5, <2>6, FilesFacts DEF StageOf, RecipeStages
  <2>9. Solitary' /\ Checked' /\ Sound'
    BY <1>1, <2>5, <2>6 DEF LaunchFilesInv, Solitary, Active, Checked, Complete, Sound
  <2>10. Mending'
    BY <1>1, <1>3, <2>5, <2>6 DEF LaunchFilesInv, Mending, Mended
  <2> QED BY <2>7, <2>8, <2>9, <2>10 DEF LaunchFilesInv
<1> QED BY <1>2, <1>3 DEF StageRecipe

\* A recipe in its place is complete before and after.
LEMMA PlacedKeeps ==
    ASSUME LaunchFilesInv, NEW l \in Preparers, Active(l), artifact = "recipe",
           NEW x \in Stages \ {"copy"}, Turns(l, [Resting EXCEPT !.pc = x]), x \in RecipeStages,
           place' \in Content, Complete(place'),
           place'.stray => x = "write environment" \/ (cut /\ place.stray /\ place # NoFile),
           UNCHANGED <<artifact, together, preparations, partial, cut>>,
           fetchFaults' \in Nat, fetchFaults' = 0 => fetchFaults = 0
    PROVE  LaunchFilesInv'
<1> DEFINE r == [Resting EXCEPT !.pc = x]
<1>1. r \in Preparation /\ r.pc = x /\ r.at = 0 /\ r.fd = "none" /\ r.staged = Nil
  BY RestedFacts
<1> HIDE DEF r
<1>2. /\ prep' \in [Preparers -> Preparation] /\ prep'[l] = r
      /\ \A o \in Preparers : o # l => prep'[o] = prep[o]
  BY <1>1, FilesFacts, TurnFacts DEF r
<1>3. place' # NoFile /\ place'.size = Pieces /\ place'.parts = 1..Pieces
  BY DEF Complete
<1>4. FilesTypeOK'
  <2>1. /\ place' \in Contents /\ place'.parts \subseteq 1..place'.size /\ partial = NoFile
        /\ NoFile \in Contents
    BY <1>3 DEF Contents, LaunchFilesInv, FilesTypeOK
  <2> QED BY <1>2, <2>1 DEF LaunchFilesInv, FilesTypeOK, Preparation
<1>5. ASSUME NEW o \in Preparers PROVE StageOf(o)'
  <2>1. CASE o = l
    BY <1>1, <1>2, <2>1, NilFacts DEF StageOf
  <2>2. CASE o # l
    BY <1>2, <1>3, <2>2, FilesFacts DEF StageOf
  <2> QED BY <2>1, <2>2
<1>6. Solitary' /\ Sound'
  <2>1. \A o \in Preparers : Active(o)' => Active(o)
    BY <1>2 DEF Active
  <2> QED BY <2>1 DEF LaunchFilesInv, Solitary, Sound
<1>7. Checked'
  BY <1>1, <1>2, <1>3 DEF Checked, Complete
<1>8. Mending'
  <2>1. Mended(place, "place")'
    BY <1>3 DEF Mended
  <2>2. Mended(partial, "partial")'
    BY DEF LaunchFilesInv, FilesTypeOK, Mended
  <2> QED BY <2>1, <2>2 DEF Mending
<1> QED BY <1>4, <1>5, <1>6, <1>7, <1>8 DEF LaunchFilesInv

LEMMA RenameRecipeKeeps ==
    ASSUME LaunchFilesInv, NEW l \in Preparers, RenameRecipe(l) PROVE LaunchFilesInv'
<1>1. /\ prep[l] \in Preparation /\ Grown(prep[l].staged, Pieces) /\ Active(l) /\ artifact = "recipe"
  BY FilesFacts DEF RenameRecipe, StageOf, Active
<1>2. place' \in Content /\ Complete(place') /\ ~place'.stray
  BY <1>1, GrownIsComplete DEF RenameRecipe, Preparation, Grown
<1> QED BY <1>1, <1>2, PlacedKeeps, FilesFacts DEF RenameRecipe, Steady, Stages, RecipeStages

LEMMA EnvironmentKeeps ==
    ASSUME LaunchFilesInv, NEW l \in Preparers, BeginEnvironment(l) \/ WriteEnvironment(l)
    PROVE  LaunchFilesInv'
<1>1. /\ prep[l] \in Preparation /\ prep[l].pc \in {"environment", "write environment"} /\ Active(l)
      /\ prep[l].at = 0 /\ prep[l].fd = "none" /\ prep[l].staged = Nil
  BY FilesFacts DEF BeginEnvironment, WriteEnvironment, StageOf, Active
<1>2. artifact = "recipe"
  BY <1>1, FilesFacts DEF StageOf, FetchStages
<1>3. place # NoFile /\ place \in Content /\ Complete(place)
  BY <1>1, <1>2, FilesFacts DEF LaunchFilesInv, Checked
<1>4. ASSUME NEW s \in BOOLEAN
      PROVE  LET new == [place EXCEPT !.stray = s] IN
             new \in Content /\ Complete(new) /\ new.stray = s
  <2> DEFINE new == [place EXCEPT !.stray = s]
  <2>1. new \in Content /\ new.size = place.size /\ new.parts = place.parts /\ new.stray = s
    BY <1>3 DEF Content
  <2> HIDE DEF new
  <2> QED BY <1>3, <2>1, NoFileAssumption DEF Complete, new
<1>5. CASE BeginEnvironment(l)
  <2>1. place' \in Content /\ Complete(place')
    BY <1>4, <1>5 DEF BeginEnvironment
  <2>2. [prep[l] EXCEPT !.pc = "write environment"] = [Resting EXCEPT !.pc = "write environment"]
    <3>1. PICK q \in Preparation : q = prep[l]
      BY <1>1
    <3>2. q.at = 0 /\ q.fd = "none" /\ q.staged = Nil
      BY <1>1, <3>1
    <3>3. [q EXCEPT !.pc = "write environment"] = [Resting EXCEPT !.pc = "write environment"]
      BY <3>2, SameRecord
    <3> QED BY <3>1, <3>3
  <2>3. Turns(l, [Resting EXCEPT !.pc = "write environment"])
    BY <1>5, <2>2 DEF BeginEnvironment, Enters
  <2>4. UNCHANGED <<artifact, together, preparations, partial, cut, fetchFaults>>
    BY <1>5 DEF BeginEnvironment, Steady
  <2> QED BY <1>1, <1>2, <2>1, <2>3, <2>4, PlacedKeeps, FilesFacts DEF Stages, RecipeStages
<1>6. CASE WriteEnvironment(l)
  <2>1. place' \in Content /\ Complete(place') /\ ~place'.stray
    BY <1>4, <1>6 DEF WriteEnvironment
  <2>2. /\ UNCHANGED <<artifact, together, preparations, partial, cut>>
        /\ fetchFaults \in Nat /\ fetchFaults' \in {fetchFaults, fetchFaults + 1}
    BY <1>6, FilesFacts DEF WriteEnvironment, Steady, FetchFault
  <2>3. PICK x \in {"idle", "ready"} : Turns(l, [Resting EXCEPT !.pc = x])
    <3>1. [Resting EXCEPT !.pc = "idle"] = Resting
      BY DEF Resting
    <3> QED BY <1>6, <3>1 DEF WriteEnvironment
  <2>4. x \in Stages \ {"copy"} /\ x \in RecipeStages
    BY DEF Stages, RecipeStages
  <2>5. fetchFaults' \in Nat /\ (fetchFaults' = 0 => fetchFaults = 0)
    BY <2>2
  <2> QED BY <1>1, <1>2, <2>1, <2>2, <2>3, <2>4, <2>5, PlacedKeeps
<1> QED BY <1>5, <1>6

LEMMA RestartKeeps ==
    ASSUME LaunchFilesInv, AgentRestarts PROVE LaunchFilesInv'
<1>1. /\ \A l \in Preparers : prep'[l] = Resting
      /\ prep' \in [Preparers -> Preparation]
      /\ UNCHANGED <<artifact, together, preparations, place, partial>>
      /\ fetchFaults' \in Nat /\ fetchFaults' # 0
      /\ cut' = (cut \/ \E l \in Preparers :
                          prep[l].fd = "place" \/ prep[l].pc = "write environment")
  <2>1. prep' = [l \in Preparers |-> Resting]
    BY DEF AgentRestarts
  <2>2. prep' \in [Preparers -> Preparation]
    BY <2>1, RestingFacts
  <2>3. fetchFaults' \in Nat /\ fetchFaults' # 0
    <3>1. fetchFaults \in Nat /\ fetchFaults' = fetchFaults + 1
      BY FilesFacts DEF AgentRestarts, FetchFault
    <3> QED BY <3>1
  <2> QED BY <2>1, <2>2, <2>3 DEF AgentRestarts, Steady
<1>2. FilesTypeOK'
  BY <1>1, FilesFacts DEF LaunchFilesInv, FilesTypeOK, Preparation
<1>3. ASSUME NEW l \in Preparers PROVE StageOf(l)'
  BY <1>1, RestingFacts, NilFacts DEF StageOf, RecipeStages, FetchStages
<1>4. Solitary' /\ Mending'
  BY <1>1, RestingFacts DEF Solitary, Active, Mending
<1>5. Sound'
  BY <1>1, RestingFacts DEF LaunchFilesInv, Sound, Uncontested, Complete
<1>6. Checked'
  BY <1>1, RestingFacts DEF LaunchFilesInv, Checked, Complete
<1> QED BY <1>2, <1>3, <1>4, <1>5, <1>6 DEF LaunchFilesInv

-----------------------------------------------------------------------------
LEMMA LaunchFilesStep ==
    ASSUME LaunchFilesInv, [FilesNext]_filesVars PROVE LaunchFilesInv'
<1>1. CASE UNCHANGED filesVars
  <2>1. FilesTypeOK' /\ (\A l \in Preparers : StageOf(l)') /\ Solitary'
    BY <1>1 DEF filesVars, LaunchFilesInv, FilesTypeOK, StageOf, Solitary, Active
  <2>2. Sound'
    BY <1>1 DEF filesVars, LaunchFilesInv, Sound, Uncontested
  <2>3. Mending' /\ Checked'
    BY <1>1 DEF filesVars, LaunchFilesInv, Mending, Mended, Checked
  <2> QED BY <2>1, <2>2, <2>3 DEF LaunchFilesInv
<1>2. CASE AgentRestarts
  BY <1>2, RestartKeeps
<1>3. ASSUME NEW l \in Preparers,
             \/ Prepare(l) \/ LookAtShard(l) \/ LookAtAsset(l) \/ LookAtRecipe(l) \/ Get(l)
             \/ CreatePartial(l) \/ CreateAsset(l) \/ CopyPart(l) \/ CopyFails(l)
             \/ AssetWritten(l) \/ RenamePartial(l)
             \/ StageRecipe(l) \/ RenameRecipe(l) \/ VerifyRecipe(l)
             \/ BeginEnvironment(l) \/ WriteEnvironment(l)
             \/ LaunchOnFile(l)
      PROVE  LaunchFilesInv'
  BY <1>3, PrepareKeeps, LooksKeep, CreatesKeep, CopyPartKeeps, CopyFailsKeeps,
     AssetWrittenKeeps, RenamePartialKeeps, StageRecipeKeeps, RenameRecipeKeeps,
     EnvironmentKeeps
<1> QED BY <1>1, <1>2, <1>3 DEF FilesNext

\* What holds of a shard, an asset or the recipe between any two steps of Download,
\* ensurePluginAsset and ensurePinnedRecipe: a file in its place is complete or one
\* preparation is at its end; parts that are missing are still to be written.
THEOREM FilesInvariance == FilesSpec => []LaunchFilesInv
BY InitialFiles, LaunchFilesStep, PTL DEF FilesSpec

LEMMA FilesSafe ==
    ASSUME LaunchFilesInv PROVE FilesSafety
<1>1. LaunchedOnWhole
  BY DEF LaunchFilesInv, LaunchedOnWhole, Checked, Sound, Uncontested
<1>2. SettledWhole
  <2> SUFFICES ASSUME fetchFaults = 0, \A l \in Preparers : ~Active(l), place # NoFile
               PROVE  Complete(place)
    BY DEF SettledWhole
  <2>1. \A l \in Preparers : prep[l].fd = "none"
    BY FilesFacts DEF StageOf, Active
  <2>2. \A i \in 1..Pieces : i \in place.parts
    BY <2>1 DEF LaunchFilesInv, Mending, Mended
  <2>3. place \in Content /\ place.parts \subseteq 1..place.size /\ place.size \in 0..Pieces
    BY FilesFacts DEF Content
  <2>4. Pieces \in 1..Pieces /\ Pieces \in place.parts
    BY <2>2, PiecesAssumption
  <2>5. place.size = Pieces
    BY <2>3, <2>4, PiecesAssumption
  <2> QED BY <2>2, <2>3, <2>5 DEF Complete
<1>3. RecipeStaysUsable
  BY DEF LaunchFilesInv, RecipeStaysUsable, Checked, Accepted
<1> QED BY <1>1, <1>2, <1>3 DEF LaunchFilesInv, FilesSafety

\* A container is launched on a complete file, unless preparations of it overlapped or
\* an asset's write was cut short; overlapping preparations that do not fail leave a
\* complete one; and the recipe stays one that the next launch accepts (Download,
\* ensurePluginAsset, ensurePinnedRecipe).
THEOREM FilesAreSafe == FilesSpec => []FilesSafety
BY FilesInvariance, FilesSafe, PTL

-----------------------------------------------------------------------------
\* EditorSettings: what a request knows of its search and of the files.

Request == [pc: Labels, left: Seq(Addresses), found: Seq(Addresses), held: SettingsFiles,
            next: Whole, fd: {"none", "draft", "settings", "gone"}, migrating: BOOLEAN,
            answered: SUBSET Addresses, steady: SUBSET Addresses]
Distinct(s) == \A i, j \in 1 .. Len(s) : i # j => s[i] # s[j]
Members(s) == {s[i] : i \in 1 .. Len(s)}

\* What a request has found, and still has to ask.
SearchOK(c) ==
    /\ Distinct(c.left) /\ Distinct(c.found) /\ Members(c.left) \cap Members(c.found) = {}
    /\ Members(c.found) \subseteq c.answered
    /\ c.pc = "probe" => /\ answering \subseteq c.answered /\ c.steady \subseteq answering
                         /\ c.steady \subseteq Members(c.left) \cup Members(c.found)
    /\ InFile(c) => c.found # <<>> /\ c.steady \subseteq Members(c.found)

\* What a request alone in the file relies on.
Offers(c) == IF tool \in {"claudecode", "codex"} THEN c.next.yokai # {}
             ELSE c.steady \subseteq c.next.yokai
Guarded(c) ==
    /\ Holds(c) => \A i \in written \ (raced \cup Overwritten) : i \in c.next.own
    /\ c.pc = "fill" => copy = Blank
    /\ c.pc \in {"open", "write", "rename"} /\ ~c.migrating /\ c.held # NoSettings => copy = c.held
    /\ c.pc = "write" => c.fd = "draft" /\ draft = Blank
    /\ c.pc = "rename" => draft = c.next
    /\ Holds(c) /\ ~c.migrating => c.next.yokai \subseteq c.answered \cup Kept /\ Offers(c)

SettingsTyped ==
    /\ tool \in Tools /\ {settings, copy, draft} \subseteq SettingsFiles
    /\ answering \subseteq Addresses /\ written \subseteq OwnSettings /\ raced \subseteq written
    /\ crowded \in BOOLEAN /\ configure \in [Requests -> Request]
    /\ configures \in Nat /\ shifts \in Nat /\ edits \in Nat /\ settingsFaults \in Nat
OneInFile == \A r, o \in Requests : InFile(configure[r]) /\ InFile(configure[o]) => r = o
SettingsInv ==
    /\ SettingsTyped /\ \A r \in Requests : SearchOK(configure[r])
    /\ ~crowded => OneInFile /\ UserSettingsKept /\ \A r \in Requests : Guarded(configure[r])

-----------------------------------------------------------------------------
\* Sequences of services without repetition.

LEMMA SameCardinality == ASSUME NEW S PROVE SeqExt!Cardinality(S) = Cardinality(S)
BY Zenon DEF SeqExt!Cardinality, Cardinality

\* An order of a set names each of its elements once.
LEMMA OrderFacts ==
    ASSUME NEW S \in SUBSET Addresses, NEW f \in SeqExt!SetToSeqs(S)
    PROVE  f \in Seq(Addresses) /\ Distinct(f) /\ Members(f) = S
<1>1. IsFiniteSet(S) /\ Cardinality(S) \in Nat
  BY SettingsAssumption, FS_Subset, FS_CardinalityType
<1> DEFINE D == 1 .. Cardinality(S)
<1>2. f \in [D -> S] /\ \A i, j \in D : i # j => f[i] # f[j]
  BY SameCardinality DEF SeqExt!SetToSeqs
<1>3. f \in Seq(Addresses) /\ Len(f) = Cardinality(S)
  BY <1>1, <1>2
<1>4. f \in Injection(D, S)
  BY <1>2 DEF Injection, IsInjective
<1>5. Cardinality(D) = Cardinality(S)
  <2>1. /\ IsFiniteSet(D)
        /\ Cardinality(D) = IF 1 > Cardinality(S) THEN 0 ELSE Cardinality(S) - 1 + 1
    <3>1. 1 \in Int /\ Cardinality(S) \in Int
      BY <1>1
    <3> QED BY <3>1, FS_Interval, Zenon
  <2> QED BY <1>1, <2>1
<1>6. f \in Surjection(D, S)
  BY <1>1, <1>4, <1>5, FS_Injection
<1>7. Members(f) = S
  BY <1>2, <1>3, <1>6 DEF Members, Surjection
<1> QED BY <1>2, <1>3, <1>7 DEF Distinct

LEMMA DistinctIsOrder ==
    ASSUME NEW f \in Seq(Addresses), Distinct(f)
    PROVE  f \in SeqExt!SetToAllKPermutations(Addresses)
<1> DEFINE D == 1 .. Len(f)
           S == Members(f)
<1>1. f \in [D -> S] /\ S \in SUBSET Addresses /\ Len(f) \in Nat
  BY DEF Members
<1>2. f \in Bijection(D, S)
  BY <1>1 DEF Bijection, Injection, Surjection, IsInjective, Distinct, Members
<1>3. Cardinality(D) = Len(f) /\ IsFiniteSet(D)
  <2>1. /\ IsFiniteSet(D)
        /\ Cardinality(D) = IF 1 > Len(f) THEN 0 ELSE Len(f) - 1 + 1
    <3>1. 1 \in Int /\ Len(f) \in Int
      BY <1>1
    <3> QED BY <3>1, FS_Interval, Zenon
  <2> QED BY <1>1, <2>1
<1>4. ExistsBijection(D, S)
  BY <1>2 DEF ExistsBijection
<1>5. Cardinality(S) = Len(f)
  BY <1>3, <1>4, FS_Bijection
<1>6. f \in SeqExt!SetToSeqs(S)
  BY <1>1, <1>5, SameCardinality DEF SeqExt!SetToSeqs, Distinct
<1> HIDE DEF S
<1> QED BY <1>1, <1>6 DEF SeqExt!SetToAllKPermutations

LEMMA ConcatFacts ==
    ASSUME NEW f \in Seq(Addresses), NEW g \in Seq(Addresses), Distinct(f), Distinct(g),
           Members(f) \cap Members(g) = {}
    PROVE  f \o g \in Seq(Addresses) /\ Distinct(f \o g) /\ Members(f \o g) = Members(f) \cup Members(g)
<1> DEFINE h == f \o g
<1>1. /\ h \in Seq(Addresses) /\ Len(h) = Len(f) + Len(g) /\ Len(f) \in Nat /\ Len(g) \in Nat
      /\ \A i \in 1 .. Len(h) : h[i] = IF i <= Len(f) THEN f[i] ELSE g[i - Len(f)]
  OBVIOUS
<1> HIDE DEF h
<1>2. \A i \in 1 .. Len(h) : IF i <= Len(f) THEN i \in 1 .. Len(f) ELSE i - Len(f) \in 1 .. Len(g)
  BY <1>1
<1>3. Distinct(h)
  <2> SUFFICES ASSUME NEW i \in 1 .. Len(h), NEW j \in 1 .. Len(h), i # j PROVE h[i] # h[j]
    BY DEF Distinct
  <2>1. CASE i <= Len(f) /\ j <= Len(f)
    BY <1>1, <1>2, <2>1 DEF Distinct
  <2>2. CASE ~(i <= Len(f)) /\ ~(j <= Len(f))
    <3>1. i - Len(f) # j - Len(f)
      BY <1>1
    <3> QED BY <1>1, <1>2, <2>2, <3>1 DEF Distinct
  <2>3. CASE i <= Len(f) /\ ~(j <= Len(f))
    BY <1>1, <1>2, <2>3 DEF Members
  <2>4. CASE ~(i <= Len(f)) /\ j <= Len(f)
    BY <1>1, <1>2, <2>4 DEF Members
  <2> QED BY <2>1, <2>2, <2>3, <2>4
<1>4. Members(h) \subseteq Members(f) \cup Members(g)
  BY <1>1, <1>2 DEF Members
<1>5. ASSUME NEW i \in 1 .. Len(f) PROVE f[i] \in Members(h)
  <2>1. i \in 1 .. Len(h) /\ h[i] = f[i]
    BY <1>1
  <2> QED BY <2>1 DEF Members
<1>6. ASSUME NEW i \in 1 .. Len(g) PROVE g[i] \in Members(h)
  <2>1. i + Len(f) \in 1 .. Len(h) /\ ~(i + Len(f) <= Len(f)) /\ (i + Len(f)) - Len(f) = i
    BY <1>1
  <2>2. h[i + Len(f)] = g[i]
    BY <1>1, <2>1
  <2> QED BY <2>1, <2>2 DEF Members
<1>7. Members(f) \subseteq Members(h) /\ Members(g) \subseteq Members(h)
  BY <1>5, <1>6 DEF Members
<1> QED BY <1>1, <1>3, <1>4, <1>7 DEF h

LEMMA TailFacts ==
    ASSUME NEW f \in Seq(Addresses), f # <<>>, Distinct(f)
    PROVE  /\ Tail(f) \in Seq(Addresses) /\ Distinct(Tail(f)) /\ Head(f) \in Addresses
           /\ Head(f) \in Members(f) /\ Head(f) \notin Members(Tail(f))
           /\ Members(f) = Members(Tail(f)) \cup {Head(f)}
<1> DEFINE t == Tail(f)
<1>1. /\ t \in Seq(Addresses) /\ Len(f) \in Nat /\ Len(f) # 0 /\ Len(t) = Len(f) - 1
      /\ \A i \in 1 .. Len(t) : t[i] = f[i + 1] /\ i + 1 \in 1 .. Len(f)
      /\ Head(f) = f[1] /\ 1 \in 1 .. Len(f) /\ Head(f) \in Addresses
  OBVIOUS
<1> HIDE DEF t
<1>2. Distinct(t)
  BY <1>1 DEF Distinct
<1>3. f[1] \notin Members(t)
  BY <1>1 DEF Distinct, Members
<1>4. Members(t) \subseteq Members(f) /\ f[1] \in Members(f)
  BY <1>1 DEF Members
<1>5. ASSUME NEW i \in 1 .. Len(f), i # 1 PROVE f[i] \in Members(t)
  <2>1. i - 1 \in 1 .. Len(t) /\ t[i - 1] = f[i]
    BY <1>1, <1>5
  <2> QED BY <2>1 DEF Members
<1>6. Members(f) \subseteq Members(t) \cup {f[1]}
  BY <1>5 DEF Members
<1> QED BY <1>1, <1>2, <1>3, <1>4, <1>6 DEF t

LEMMA AppendFacts ==
    ASSUME NEW f \in Seq(Addresses), NEW a \in Addresses, Distinct(f), a \notin Members(f)
    PROVE  /\ Append(f, a) \in Seq(Addresses) /\ Distinct(Append(f, a)) /\ Append(f, a) # <<>>
           /\ Members(Append(f, a)) = Members(f) \cup {a}
<1> DEFINE g == Append(f, a)
<1>1. /\ g \in Seq(Addresses) /\ Len(f) \in Nat /\ Len(g) = Len(f) + 1
      /\ \A i \in 1 .. Len(f) : g[i] = f[i] /\ i \in 1 .. Len(g)
      /\ g[Len(g)] = a /\ Len(g) \in 1 .. Len(g)
      /\ \A i \in 1 .. Len(g) : i \in 1 .. Len(f) \/ i = Len(g)
  OBVIOUS
<1> HIDE DEF g
<1>2. g # <<>>
  BY <1>1
<1>3. Distinct(g)
  BY <1>1 DEF Distinct, Members
<1>4. Members(g) \subseteq Members(f) \cup {a} /\ a \in Members(g)
  BY <1>1 DEF Members
<1>5. Members(f) \subseteq Members(g)
  BY <1>1 DEF Members
<1> QED BY <1>1, <1>2, <1>3, <1>4, <1>5 DEF g

LEMMA EmptyFacts == <<>> \in Seq(Addresses) /\ Distinct(<<>>) /\ Members(<<>>) = {}
BY DEF Distinct, Members

-----------------------------------------------------------------------------
\* The records of the requests, one update at a time.

SameSearch(c, d) == d.left = c.left /\ d.found = c.found /\ d.answered = c.answered /\ d.steady = c.steady
SameData(c, d) == d.held = c.held /\ d.next = c.next /\ d.migrating = c.migrating

\* What is overwritten depends on whose settings they are.
LEMMA OverwrittenKept == tool' = tool => Overwritten' = Overwritten
BY DEF Overwritten

LEMMA NothingFacts ==
    /\ Nothing \in Request /\ Nothing.pc = "idle" /\ ~InFile(Nothing) /\ ~Holds(Nothing)
    /\ Nothing.left = <<>> /\ Nothing.found = <<>> /\ Nothing.answered = {} /\ Nothing.steady = {}
BY EmptyFacts, SettingsAssumption
   DEF Nothing, Request, Labels, InFile, Holds, SettingsFiles, Whole, Fresh

LEMMA RequestLabelFacts ==
    ASSUME NEW c \in Request, NEW l \in Labels, NEW d, d = [c EXCEPT !.pc = l]
    PROVE  d \in Request /\ d.pc = l /\ d.fd = c.fd /\ SameSearch(c, d) /\ SameData(c, d)
BY DEF Request, SameSearch, SameData

\* A write that is over leaves nothing of a request, or takes a migration to the read.
LEMMA WrittenFacts ==
    ASSUME NEW c \in Request, NEW d, d = Wrote(c) \/ d = WriteFails(c)
    PROVE  /\ d \in Request /\ (~c.migrating => d = Nothing)
           /\ d = Nothing \/ (d.pc = "read" /\ SameSearch(c, d))
<1>1. CASE c.migrating
  <2>1. \/ d = [c EXCEPT !.pc = "read", !.migrating = FALSE]
        \/ d = [c EXCEPT !.pc = "read", !.migrating = FALSE, !.fd = "none"]
    BY <1>1 DEF Wrote, WriteFails
  <2> QED BY <1>1, <2>1 DEF Request, SameSearch, Labels
<1>2. CASE ~c.migrating
  <2>1. d = Nothing
    BY <1>2, Zenon DEF Wrote, WriteFails
  <2> QED BY <2>1, NothingFacts, Zenon
<1> QED BY <1>1, <1>2

LEMMA ShiftedFacts ==
    ASSUME NEW c \in Request, NEW b \in BOOLEAN, NEW d, d = Shifted(c, b)
    PROVE  d \in Request /\ d.pc = c.pc /\ SameSearch(c, d)
<1>1. PICK f \in {"none", "draft", "settings", "gone"} : d = [c EXCEPT !.fd = f] \/ d = c
  BY DEF Shifted, Request
<1> QED BY <1>1 DEF Request, SameSearch

\* What a request found is of what it was to ask.
LEMMA FoundIsMembers ==
    ASSUME NEW c \in Request
    PROVE  /\ Found(c) = Members(c.found) /\ Found(c) \subseteq Addresses
           /\ c.found # <<>> => c.found[1] \in Found(c)
BY DEF Request, Found, Members

-----------------------------------------------------------------------------
\* The steps of the requests.

\* A request's step: the others go on as they were, and outside the file nothing
\* depends on the files.
LEMMA RequestStep ==
    ASSUME SettingsInv, NEW r \in Requests, SettingsTyped', answering' = answering,
           \A o \in Requests \ {r} : configure'[o].pc = configure[o].pc
                                     /\ SameSearch(configure[o], configure'[o]),
           SearchOK(configure[r])',
           ~crowded' => ~crowded /\ UserSettingsKept' /\ Guarded(configure[r])',
           ~crowded' => \A o \in Requests \ {r} : Guarded(configure[o])',
           ~crowded' /\ InFile(configure'[r]) => \A o \in Requests \ {r} : ~InFile(configure[o])
    PROVE  SettingsInv'
<1>1. ASSUME NEW o \in Requests PROVE SearchOK(configure[o])'
  <2>1. CASE o = r
    BY <2>1
  <2>2. CASE o # r
    <3>1. SearchOK(configure[o]) /\ configure'[o].pc = configure[o].pc
          /\ SameSearch(configure[o], configure'[o])
      BY <2>2 DEF SettingsInv
    <3> QED BY <3>1 DEF SearchOK, SameSearch, InFile
  <2> QED BY <2>1, <2>2
<1>2. ASSUME ~crowded' PROVE OneInFile'
  <2>1. \A o \in Requests \ {r} : InFile(configure'[o]) = InFile(configure[o])
    BY DEF InFile
  <2>2. OneInFile
    BY <1>2 DEF SettingsInv
  <2> QED BY <1>2, <2>1, <2>2, Zenon DEF OneInFile
<1>3. ASSUME ~crowded', NEW o \in Requests PROVE Guarded(configure[o])'
  BY <1>3, Zenon
<1> QED BY <1>1, <1>2, <1>3, Zenon DEF SettingsInv

\* The step of a request in the file, which is alone there if it must.
LEMMA FileStep ==
    ASSUME SettingsInv, NEW r \in Requests, SettingsTyped', answering' = answering,
           crowded' = crowded, InFile(configure[r]),
           \A o \in Requests \ {r} : configure'[o].pc = configure[o].pc
                                     /\ SameSearch(configure[o], configure'[o]),
           SearchOK(configure[r])',
           ~crowded => UserSettingsKept' /\ Guarded(configure[r])'
    PROVE  SettingsInv'
<1>1. ASSUME ~crowded, NEW o \in Requests \ {r} PROVE ~InFile(configure[o])
  BY <1>1 DEF SettingsInv, OneInFile
<1>2. ASSUME ~crowded, NEW o \in Requests \ {r} PROVE Guarded(configure[o])'
  <2>1. configure'[o].pc \in {"idle", "probe"}
    <3>1. configure'[o].pc = configure[o].pc /\ configure[o].pc \in Labels
      BY DEF SettingsInv, SettingsTyped, Request
    <3> QED BY <1>1, <1>2, <3>1 DEF InFile
  <2> QED BY <2>1 DEF Guarded, Holds
<1> QED BY <1>1, <1>2, RequestStep

\* The step of a request that is not in the file.
LEMMA SearchStep ==
    ASSUME SettingsInv, NEW r \in Requests, SettingsTyped',
           UNCHANGED <<tool, settingsFiles, answering, written, raced, crowded>>,
           \A o \in Requests \ {r} : configure'[o] = configure[o],
           SearchOK(configure[r])', ~InFile(configure'[r])
    PROVE  SettingsInv'
<1>1. ASSUME ~crowded PROVE UserSettingsKept' /\ Guarded(configure[r])'
  <2>1. UserSettingsKept'
    BY <1>1, OverwrittenKept DEF SettingsInv, UserSettingsKept, settingsFiles
  <2>2. configure'[r].pc \in {"idle", "probe"}
    BY DEF SettingsTyped, Request, InFile
  <2> QED BY <2>1, <2>2 DEF Guarded, Holds
<1>2. ASSUME ~crowded, NEW o \in Requests \ {r} PROVE Guarded(configure[o])'
  <2>1. Guarded(configure[o]) /\ configure'[o] = configure[o]
    BY <1>2 DEF SettingsInv
  <2> QED BY <2>1, OverwrittenKept DEF Guarded, settingsFiles, Kept, Offers
<1> QED BY <1>1, <1>2, RequestStep DEF SameSearch


\* A request ends: nothing of it is left.
LEMMA EndFacts ==
    ASSUME SettingsInv, NEW r \in Requests, Ends(r)
    PROVE  /\ configure' \in [Requests -> Request] /\ configure'[r] = Nothing
           /\ \A o \in Requests \ {r} : configure'[o] = configure[o]
BY NothingFacts DEF SettingsInv, SettingsTyped, Ends

LEMMA ProceedFacts ==
    ASSUME SettingsInv, NEW r \in Requests, NEW l \in Labels, Proceeds(r, l)
    PROVE  /\ configure' \in [Requests -> Request] /\ configure'[r].pc = l
           /\ configure'[r].fd = configure[r].fd
           /\ SameSearch(configure[r], configure'[r]) /\ SameData(configure[r], configure'[r])
           /\ \A o \in Requests \ {r} : configure'[o] = configure[o]
<1> DEFINE d == [configure[r] EXCEPT !.pc = l]
<1>1. configure \in [Requests -> Request] /\ configure[r] \in Request
  BY DEF SettingsInv, SettingsTyped
<1>2. configure' = [configure EXCEPT ![r] = d]
  BY Zenon DEF Proceeds
<1>3. /\ d \in Request /\ d.pc = l /\ d.fd = configure[r].fd
      /\ SameSearch(configure[r], d) /\ SameData(configure[r], d)
  <2>1. ASSUME NEW e, e = d
        PROVE /\ e \in Request /\ e.pc = l /\ e.fd = configure[r].fd
              /\ SameSearch(configure[r], e) /\ SameData(configure[r], e)
    BY <1>1, <2>1, RequestLabelFacts
  <2> QED BY <2>1
<1> HIDE DEF d
<1> QED BY <1>1, <1>2, <1>3

LEMMA ConfigureToolSafe ==
    ASSUME SettingsInv, NEW r \in Requests, NEW configured \in SUBSET Addresses,
           NEW live \in SUBSET Addresses, ConfigureTool(r, configured, live)
    PROVE  SettingsInv'
<1>1. PICK c \in Candidates(configured, live) :
         configure' = [configure EXCEPT ![r] =
             [Nothing EXCEPT !.pc = "probe", !.left = c[1] \o c[2],
                             !.answered = answering,
                             !.steady = (configured \cup live) \cap answering]]
  BY Zenon DEF ConfigureTool
<1>2. c[1] \in SeqExt!SetToSeqs(configured) /\ c[2] \in SeqExt!SetToSeqs(live \ configured)
  BY DEF Candidates
<1>3. /\ c[1] \in Seq(Addresses) /\ Distinct(c[1]) /\ Members(c[1]) = configured
      /\ c[2] \in Seq(Addresses) /\ Distinct(c[2]) /\ Members(c[2]) = live \ configured
  BY <1>2, OrderFacts
<1>4. /\ c[1] \o c[2] \in Seq(Addresses) /\ Distinct(c[1] \o c[2])
      /\ Members(c[1] \o c[2]) = configured \cup live
  BY <1>3, ConcatFacts
<1> DEFINE f == c[1] \o c[2]
           d == [Nothing EXCEPT !.pc = "probe", !.left = f, !.answered = answering,
                                !.steady = (configured \cup live) \cap answering]
<1>5. f \in Seq(Addresses) /\ Distinct(f) /\ Members(f) = configured \cup live
  BY <1>4
<1> HIDE DEF f
<1>6. /\ d \in Request /\ d.pc = "probe" /\ d.left = f /\ d.found = <<>> /\ d.answered = answering
      /\ d.steady = (configured \cup live) \cap answering
  <2>1. answering \in SUBSET Addresses
    BY DEF SettingsInv, SettingsTyped
  <2> QED BY <1>5, <2>1, NothingFacts DEF Nothing, Request, Labels
<1>7. configure' = [configure EXCEPT ![r] = d]
  BY <1>1 DEF f
<1> HIDE DEF d
<1>8. configure' \in [Requests -> Request] /\ configure'[r] = d
      /\ \A o \in Requests \ {r} : configure'[o] = configure[o]
  BY <1>6, <1>7 DEF SettingsInv, SettingsTyped
<1>9. UNCHANGED <<tool, settingsFiles, answering, written, raced, crowded>> /\ SettingsTyped'
  BY <1>8 DEF ConfigureTool, SettingsInv, SettingsTyped, settingsFiles
<1>10. SearchOK(configure[r])'
  BY <1>5, <1>6, <1>8, <1>9, EmptyFacts DEF SearchOK, InFile
<1>11. ~InFile(configure'[r])
  BY <1>6, <1>8 DEF InFile
<1> QED BY <1>8, <1>9, <1>10, <1>11, SearchStep

LEMMA ProbeSafe ==
    ASSUME SettingsInv, NEW r \in Requests, Probe(r)
    PROVE  SettingsInv'
<1> DEFINE c == configure[r]
           f == Tail(c.left)
           g == IF Head(c.left) \in answering THEN Append(c.found, Head(c.left)) ELSE c.found
           d == [c EXCEPT !.left = f, !.found = g]
<1>1. c \in Request /\ c.pc = "probe" /\ c.left # <<>> /\ SearchOK(c) /\ configure' = [configure EXCEPT ![r] = d]
  BY DEF Probe, Probed, SettingsInv, SettingsTyped
<1>2. /\ f \in Seq(Addresses) /\ Distinct(f) /\ Head(c.left) \in Addresses
      /\ Head(c.left) \notin Members(f) /\ Members(c.left) = Members(f) \cup {Head(c.left)}
      /\ Head(c.left) \notin Members(c.found)
  <2>1. c.left \in Seq(Addresses) /\ Distinct(c.left) /\ Members(c.left) \cap Members(c.found) = {}
    BY <1>1 DEF Request, SearchOK
  <2>2. ASSUME NEW s \in Seq(Addresses), s = c.left
        PROVE  /\ Tail(s) \in Seq(Addresses) /\ Distinct(Tail(s)) /\ Head(s) \in Addresses
               /\ Head(s) \in Members(s) /\ Head(s) \notin Members(Tail(s))
               /\ Members(s) = Members(Tail(s)) \cup {Head(s)}
    BY <1>1, <2>1, <2>2, TailFacts
  <2> QED BY <2>1, <2>2
<1>3. /\ g \in Seq(Addresses) /\ Distinct(g)
      /\ Members(g) = Members(c.found) \cup (answering \cap {Head(c.left)})
  <2>1. c.found \in Seq(Addresses) /\ Distinct(c.found)
    BY <1>1 DEF Request, SearchOK
  <2>2. CASE Head(c.left) \in answering
    BY <1>2, <2>1, <2>2, AppendFacts
  <2>3. CASE Head(c.left) \notin answering
    BY <2>1, <2>3
  <2> QED BY <2>2, <2>3
<1> HIDE DEF f, g
<1>4. /\ d \in Request /\ d.pc = "probe" /\ d.left = f /\ d.found = g /\ d.answered = c.answered
      /\ d.steady = c.steady
  BY <1>1, <1>2, <1>3 DEF Request
<1> HIDE DEF d
<1>5. configure' \in [Requests -> Request] /\ configure'[r] = d
      /\ \A o \in Requests \ {r} : configure'[o] = configure[o]
  BY <1>1, <1>4 DEF SettingsInv, SettingsTyped
<1>6. UNCHANGED <<tool, settingsFiles, answering, written, raced, crowded>> /\ SettingsTyped'
  BY <1>5 DEF Probe, Unmoved, SettingsInv, SettingsTyped, settingsFiles
<1>7. SearchOK(d)
  <2>1. /\ Members(c.left) \cap Members(c.found) = {} /\ Members(c.found) \subseteq c.answered
        /\ answering \subseteq c.answered /\ c.steady \subseteq answering
        /\ c.steady \subseteq Members(c.left) \cup Members(c.found)
    BY <1>1 DEF SearchOK
  <2>2. ~InFile(d)
    BY <1>4 DEF InFile
  <2> HIDE DEF c
  <2> QED BY <1>2, <1>3, <1>4, <2>1, <2>2 DEF SearchOK
<1>8. SearchOK(configure[r])' /\ ~InFile(configure'[r])
  BY <1>4, <1>5, <1>6, <1>7 DEF SearchOK, InFile
<1> QED BY <1>5, <1>6, <1>8, SearchStep


LEMMA DiscoveredSafe ==
    ASSUME SettingsInv, NEW r \in Requests, Discovered(r)
    PROVE  SettingsInv'
<1>1. configure[r] \in Request /\ SearchOK(configure[r]) /\ configure[r].pc = "probe"
      /\ configure[r].left = <<>>
  BY DEF SettingsInv, SettingsTyped, Discovered
<1>2. UNCHANGED <<tool, settingsFiles, answering, written, raced, configures, shifts, edits,
                  settingsFaults>>
  BY DEF Discovered, Unmoved
<1>3. CASE Ends(r) /\ UNCHANGED crowded
  <2>1. /\ configure' \in [Requests -> Request] /\ configure'[r] = Nothing
        /\ \A o \in Requests \ {r} : configure'[o] = configure[o]
    BY <1>3, EndFacts
  <2>2. SettingsTyped'
    BY <1>2, <1>3, <2>1 DEF SettingsInv, SettingsTyped, settingsFiles
  <2>3. SearchOK(configure[r])' /\ ~InFile(configure'[r])
    BY <2>1, NothingFacts, EmptyFacts DEF SearchOK
  <2> QED BY <1>2, <1>3, <2>1, <2>2, <2>3, SearchStep
<1>4. CASE /\ configure[r].found # <<>>
           /\ Proceeds(r, IF tool = "opencode" THEN "migrate" ELSE "read")
           /\ crowded' = (crowded \/ \E o \in Requests \ {r} : InFile(configure[o]))
  <2>1. PICK l \in {"migrate", "read"} : Proceeds(r, l)
    BY <1>4
  <2>2. /\ configure' \in [Requests -> Request] /\ configure'[r].pc = l
        /\ SameSearch(configure[r], configure'[r])
        /\ \A o \in Requests \ {r} : configure'[o] = configure[o]
    BY <2>1, ProceedFacts DEF Labels
  <2>3. crowded \in BOOLEAN /\ crowded' \in BOOLEAN
    BY <1>4 DEF SettingsInv, SettingsTyped
  <2>4. SettingsTyped'
    BY <1>2, <2>2, <2>3 DEF SettingsInv, SettingsTyped, settingsFiles
  <2>5. SearchOK(configure[r])'
    BY <1>1, <1>2, <1>4, <2>2, EmptyFacts DEF SearchOK, SameSearch
  <2>6. ASSUME ~crowded' PROVE ~crowded /\ \A o \in Requests \ {r} : ~InFile(configure[o])
    BY <1>4, <2>6
  <2>7. ASSUME ~crowded' PROVE UserSettingsKept' /\ Guarded(configure[r])'
    <3>1. UserSettingsKept'
      BY <1>2, <2>6, <2>7, OverwrittenKept DEF SettingsInv, UserSettingsKept, settingsFiles
    <3> QED BY <2>2, <3>1 DEF Guarded, Holds
  <2>8. ASSUME ~crowded', NEW o \in Requests \ {r} PROVE Guarded(configure[o])'
    <3>1. Guarded(configure[o]) /\ configure'[o] = configure[o]
      BY <2>2, <2>6, <2>8 DEF SettingsInv
    <3> QED BY <1>2, <3>1, OverwrittenKept DEF Guarded, settingsFiles, Kept, Offers
  <2> QED BY <1>2, <2>2, <2>4, <2>5, <2>6, <2>7, <2>8, RequestStep DEF SameSearch
<1> QED BY <1>3, <1>4 DEF Discovered

\* What a step of a request in the file starts from.
LEMMA FileFacts ==
    ASSUME SettingsInv, NEW r \in Requests,
           configure[r].pc \in Labels \ {"idle", "probe"}
    PROVE  /\ configure \in [Requests -> Request] /\ configure[r] \in Request
           /\ InFile(configure[r]) /\ SearchOK(configure[r])
           /\ ~crowded => UserSettingsKept /\ Guarded(configure[r])
BY DEF SettingsInv, SettingsTyped, InFile

\* The search of a request that stays in the file, or of one that ends.
LEMMA FileSearch ==
    ASSUME SettingsInv, NEW r \in Requests, answering' = answering,
           configure[r].pc \in Labels \ {"idle", "probe"}, configure'[r].pc # "probe",
           configure'[r] = Nothing \/ SameSearch(configure[r], configure'[r])
    PROVE  SearchOK(configure[r])'
<1>1. CASE configure'[r] = Nothing
  BY <1>1, NothingFacts, EmptyFacts DEF SearchOK
<1>2. CASE SameSearch(configure[r], configure'[r])
  BY <1>2, FileFacts DEF SearchOK, SameSearch
<1> QED BY <1>1, <1>2

LEMMA MigrateSafe ==
    ASSUME SettingsInv, NEW r \in Requests, Migrate(r)
    PROVE  SettingsInv'
<1>1. /\ configure[r].pc = "migrate"
      /\ UNCHANGED <<tool, settingsFiles, answering, written, raced, crowded, configures, shifts,
                     edits, settingsFaults>>
  BY DEF Migrate, Unmoved
<1>2. /\ configure \in [Requests -> Request] /\ configure[r] \in Request /\ InFile(configure[r])
      /\ ~crowded => UserSettingsKept
  BY <1>1, FileFacts DEF Labels
<1>3. ~crowded => UserSettingsKept'
  BY <1>1, <1>2, OverwrittenKept DEF UserSettingsKept, settingsFiles
<1>4. CASE Proceeds(r, "read")
  <2>1. /\ configure' \in [Requests -> Request] /\ configure'[r].pc = "read"
        /\ SameSearch(configure[r], configure'[r])
        /\ \A o \in Requests \ {r} : configure'[o] = configure[o]
    BY <1>4, ProceedFacts DEF Labels
  <2>2. SettingsTyped'
    BY <1>1, <2>1 DEF SettingsInv, SettingsTyped, settingsFiles
  <2>3. SearchOK(configure[r])'
    BY <1>1, <2>1, FileSearch DEF Labels
  <2>4. Guarded(configure[r])'
    BY <2>1 DEF Guarded, Holds
  <2> QED BY <1>1, <1>2, <1>3, <2>1, <2>2, <2>3, <2>4, FileStep DEF SameSearch
<1>5. CASE /\ settings \in Whole /\ settings.legacy
           /\ configure' = [configure EXCEPT ![r].pc = "open", ![r].migrating = TRUE,
                                ![r].next = [settings EXCEPT !.legacy = FALSE]]
  <2> DEFINE n == [settings EXCEPT !.legacy = FALSE]
             d == [configure[r] EXCEPT !.pc = "open", !.migrating = TRUE, !.next = n]
  <2>1. n \in Whole /\ n.own = settings.own
    BY <1>5 DEF Whole
  <2>2. configure' = [configure EXCEPT ![r] = d]
    BY <1>5
  <2> HIDE DEF n
  <2>3. d \in Request /\ d.pc = "open" /\ d.migrating /\ d.next = n /\ SameSearch(configure[r], d)
    BY <1>2, <2>1 DEF Request, SameSearch, Labels
  <2> HIDE DEF d
  <2>4. /\ configure' \in [Requests -> Request] /\ configure'[r] = d
        /\ \A o \in Requests \ {r} : configure'[o] = configure[o]
    BY <1>2, <2>2, <2>3
  <2>5. SettingsTyped'
    BY <1>1, <2>4 DEF SettingsInv, SettingsTyped, settingsFiles
  <2>6. SearchOK(configure[r])'
    BY <1>1, <2>3, <2>4, FileSearch DEF Labels
  <2>7. ASSUME ~crowded PROVE Guarded(configure[r])'
    <3>1. \A i \in written' \ (raced' \cup Overwritten') : i \in n.own
      BY <1>1, <1>2, <2>1, <2>7, OverwrittenKept DEF UserSettingsKept
    <3> QED BY <2>3, <2>4, <3>1 DEF Guarded, Holds
  <2> QED BY <1>1, <1>2, <1>3, <2>4, <2>5, <2>6, <2>7, FileStep DEF SameSearch
<1> QED BY <1>4, <1>5 DEF Migrate


\* The endpoints found join what the user wrote, less what is overwritten.
LEMMA AddedFacts ==
    ASSUME NEW file \in Whole, NEW c \in Request, tool \in Tools, c.found # <<>>,
           Members(c.found) \subseteq c.answered, c.steady \subseteq Members(c.found)
    PROVE  /\ Added(file, c) \in Whole /\ Added(file, c).own = file.own \ Overwritten
           /\ Added(file, c).yokai \subseteq c.answered
                                    \cup (IF tool = "vscode" THEN file.yokai ELSE {})
           /\ IF tool \in {"claudecode", "codex"} THEN Added(file, c).yokai # {}
              ELSE c.steady \subseteq Added(file, c).yokai
<1> DEFINE n == Added(file, c)
<1>1. PICK y \in SUBSET Addresses :
         /\ n = [file EXCEPT !.own = @ \ Overwritten, !.yokai = y]
         /\ y = IF tool = "vscode" THEN file.yokai \cup Found(c)
                ELSE IF tool \in {"claudecode", "codex"} THEN {c.found[1]} ELSE Found(c)
  <2>1. /\ file.yokai \cup Found(c) \in SUBSET Addresses /\ Found(c) \in SUBSET Addresses
        /\ {c.found[1]} \in SUBSET Addresses
    BY FoundIsMembers DEF Whole
  <2> QED BY <2>1 DEF Added, Tools, VSCodeAdded, ClaudeCodeAdded, CodexAdded, OpenCodeAdded,
                      OpenClawAdded, Overwritten
<1>2. n \in Whole /\ n.own = file.own \ Overwritten /\ n.yokai = y
  BY <1>1 DEF Whole
<1> HIDE DEF n
<1>3. n.yokai \subseteq c.answered \cup (IF tool = "vscode" THEN file.yokai ELSE {})
  BY <1>1, <1>2, FoundIsMembers
<1>4. IF tool \in {"claudecode", "codex"} THEN n.yokai # {} ELSE c.steady \subseteq n.yokai
  BY <1>1, <1>2, FoundIsMembers
<1> QED BY <1>2, <1>3, <1>4 DEF n

LEMMA ReadSettingsSafe ==
    ASSUME SettingsInv, NEW r \in Requests, ReadSettings(r)
    PROVE  SettingsInv'
<1>1. /\ configure[r].pc = "read"
      /\ UNCHANGED <<tool, settingsFiles, answering, written, raced, crowded, configures, shifts,
                     edits, settingsFaults>>
  BY DEF ReadSettings, Unmoved
<1>2. /\ configure \in [Requests -> Request] /\ configure[r] \in Request /\ InFile(configure[r])
      /\ SearchOK(configure[r])
      /\ ~crowded => UserSettingsKept
  BY <1>1, FileFacts DEF Labels
<1>3. ~crowded => UserSettingsKept'
  BY <1>1, <1>2, OverwrittenKept DEF UserSettingsKept, settingsFiles
<1>4. CASE Ends(r)
  <2>1. /\ configure' \in [Requests -> Request] /\ configure'[r] = Nothing
        /\ \A o \in Requests \ {r} : configure'[o] = configure[o]
    BY <1>4, EndFacts
  <2>2. SettingsTyped'
    BY <1>1, <2>1 DEF SettingsInv, SettingsTyped, settingsFiles
  <2>3. SearchOK(configure[r])' /\ Guarded(configure[r])'
    BY <2>1, NothingFacts, EmptyFacts DEF SearchOK, Guarded, Holds
  <2> QED BY <1>1, <1>2, <1>3, <2>1, <2>2, <2>3, FileStep DEF SameSearch
<1>5. CASE \E file \in ReadAs(settings) :
             configure' = [configure EXCEPT
                 ![r].pc = IF settings = NoSettings THEN "open" ELSE "backup",
                 ![r].held = settings, ![r].next = Added(file, configure[r])]
  <2>1. PICK file \in ReadAs(settings) :
             configure' = [configure EXCEPT
                 ![r].pc = IF settings = NoSettings THEN "open" ELSE "backup",
                 ![r].held = settings, ![r].next = Added(file, configure[r])]
    BY <1>5
  <2>2. /\ file \in Whole /\ settings \in SettingsFiles /\ tool \in Tools
        /\ settings = NoSettings => file = Fresh
        /\ settings # NoSettings /\ settings \notin {Blank, Mixed} => file = settings
    <3>1. Fresh \in Whole
      BY DEF Fresh, Whole
    <3>2. settings \in Whole \cup {NoSettings, Blank, Mixed} /\ tool \in Tools
      BY DEF SettingsInv, SettingsTyped, SettingsFiles
    <3>3. CASE settings = NoSettings
      BY <2>1, <3>1, <3>2, <3>3, SettingsAssumption DEF ReadAs, SettingsFiles
    <3>4. CASE settings \in Whole
      BY <2>1, <3>2, <3>4, SettingsAssumption DEF ReadAs, SettingsFiles
    <3>5. CASE settings \in {Blank, Mixed}
      BY <2>1, <3>1, <3>2, <3>5, SettingsAssumption DEF ReadAs, SettingsFiles
    <3> QED BY <3>2, <3>3, <3>4, <3>5
  <2> DEFINE n == Added(file, configure[r])
             l == IF settings = NoSettings THEN "open" ELSE "backup"
             d == [configure[r] EXCEPT !.pc = l, !.held = settings, !.next = n]
  <2>3. configure[r].found # <<>> /\ Members(configure[r].found) \subseteq configure[r].answered
        /\ configure[r].steady \subseteq Members(configure[r].found)
    BY <1>2 DEF SearchOK
  <2>4. /\ n \in Whole /\ n.own = file.own \ Overwritten
        /\ n.yokai \subseteq configure[r].answered
                              \cup (IF tool = "vscode" THEN file.yokai ELSE {})
        /\ IF tool \in {"claudecode", "codex"} THEN n.yokai # {}
           ELSE configure[r].steady \subseteq n.yokai
    BY <1>2, <2>2, <2>3, AddedFacts
  <2>5. configure' = [configure EXCEPT ![r] = d]
    BY <2>1
  <2> HIDE DEF n
  <2>6. /\ l \in {"open", "backup"} /\ d \in Request /\ d.pc = l /\ d.held = settings /\ d.next = n
        /\ SameSearch(configure[r], d)
    BY <1>2, <2>2, <2>4 DEF Request, SameSearch, Labels
  <2> HIDE DEF d
  <2>7. /\ configure' \in [Requests -> Request] /\ configure'[r] = d
        /\ \A o \in Requests \ {r} : configure'[o] = configure[o]
    BY <1>2, <2>5, <2>6
  <2>8. SettingsTyped'
    BY <1>1, <2>7 DEF SettingsInv, SettingsTyped, settingsFiles
  <2>9. SearchOK(configure[r])'
    BY <1>1, <2>6, <2>7, FileSearch DEF Labels
  <2>10. ASSUME ~crowded PROVE Guarded(configure[r])'
    <3>1. settings \notin {Blank, Mixed}
      BY <1>2, <2>10 DEF UserSettingsKept
    <3>2. \A i \in written' \ (raced' \cup Overwritten') : i \in n.own
      <4>1. CASE settings = NoSettings
        BY <1>1, <1>2, <2>10, <4>1, OverwrittenKept DEF UserSettingsKept
      <4>2. CASE settings # NoSettings
        BY <1>1, <1>2, <2>2, <2>4, <2>10, <3>1, <4>2, OverwrittenKept DEF UserSettingsKept
      <4> QED BY <4>1, <4>2
    <3>3. (IF tool = "vscode" THEN file.yokai ELSE {}) \subseteq Kept'
      <4>1. CASE settings = NoSettings
        BY <2>2, <4>1 DEF Fresh
      <4>2. CASE settings # NoSettings
        BY <1>1, <2>2, <3>1, <4>2 DEF Kept, settingsFiles
      <4> QED BY <4>1, <4>2
    <3>4. d.next.yokai \subseteq d.answered \cup Kept'
      BY <2>4, <2>6, <3>3 DEF SameSearch
    <3>5. Offers(configure[r])'
      BY <1>1, <2>4, <2>6, <2>7 DEF Offers, SameSearch
    <3>6. configure'[r].pc = "open" => configure'[r].held = NoSettings
      BY <2>6, <2>7
    <3> HIDE DEF l
    <3> QED BY <2>6, <2>7, <3>2, <3>4, <3>5, <3>6 DEF Guarded, Holds
  <2> QED BY <1>1, <1>2, <1>3, <2>7, <2>8, <2>9, <2>10, FileStep DEF SameSearch
<1> QED BY <1>4, <1>5 DEF ReadSettings


\* A request that gives up, or reads the file after its migration, relies on nothing.
LEMMA LeaveStep ==
    ASSUME SettingsInv, NEW r \in Requests, configure[r].pc \in Labels \ {"idle", "probe"},
           SettingsTyped', UNCHANGED <<answering, crowded>>, ~crowded => UserSettingsKept',
           \A o \in Requests \ {r} : configure'[o].pc = configure[o].pc
                                     /\ SameSearch(configure[o], configure'[o]),
           configure'[r] = Nothing
             \/ (configure'[r].pc = "read" /\ SameSearch(configure[r], configure'[r]))
    PROVE  SettingsInv'
<1>1. configure'[r].pc \in {"idle", "read"}
  BY NothingFacts
<1>2. SearchOK(configure[r])'
  BY <1>1, FileSearch
<1>3. Guarded(configure[r])'
  BY <1>1 DEF Guarded, Holds
<1> QED BY <1>2, <1>3, FileFacts, FileStep

LEMMA BeginBackupSafe ==
    ASSUME SettingsInv, NEW r \in Requests, BeginBackup(r)
    PROVE  SettingsInv'
<1>1. /\ configure[r].pc = "backup"
      /\ UNCHANGED <<tool, settings, draft, answering, written, raced, crowded, configures,
                     shifts, edits>>
  BY DEF BeginBackup, Unmoved
<1>2. /\ InFile(configure[r])
      /\ ~crowded => UserSettingsKept /\ Guarded(configure[r])
  BY <1>1, FileFacts DEF Labels
<1>3. ~crowded => UserSettingsKept'
  BY <1>1, <1>2, OverwrittenKept DEF UserSettingsKept
<1>4. CASE copy' = Blank /\ Proceeds(r, "fill") /\ UNCHANGED settingsFaults
  <2>1. /\ configure' \in [Requests -> Request] /\ configure'[r].pc = "fill"
        /\ SameSearch(configure[r], configure'[r]) /\ SameData(configure[r], configure'[r])
        /\ \A o \in Requests \ {r} : configure'[o] = configure[o]
    BY <1>4, ProceedFacts DEF Labels
  <2>2. SettingsTyped'
    BY <1>1, <1>4, <2>1 DEF SettingsInv, SettingsTyped, SettingsFiles
  <2>3. SearchOK(configure[r])'
    BY <1>1, <2>1, FileSearch DEF Labels
  <2>4. ASSUME ~crowded PROVE Guarded(configure[r])'
    BY <1>1, <1>2, <1>4, <2>1, <2>4, OverwrittenKept DEF Guarded, Holds, SameSearch, SameData, Kept, Offers
  <2> QED BY <1>1, <1>2, <1>3, <2>1, <2>2, <2>3, <2>4, FileStep DEF SameSearch
<1>5. CASE SettingsFault /\ Ends(r) /\ UNCHANGED copy
  <2>1. /\ configure' \in [Requests -> Request] /\ configure'[r] = Nothing
        /\ \A o \in Requests \ {r} : configure'[o] = configure[o]
    BY <1>5, EndFacts
  <2>2. SettingsTyped'
    BY <1>1, <1>5, <2>1 DEF SettingsInv, SettingsTyped, SettingsFault
  <2> QED BY <1>1, <1>3, <2>1, <2>2, LeaveStep DEF SameSearch, Labels
<1> QED BY <1>4, <1>5 DEF BeginBackup

LEMMA FilledFacts ==
    ASSUME NEW file, NEW data \in SettingsFiles, NEW f \in Filled(file, data)
    PROVE  f \in SettingsFiles /\ (file = Blank => f = data) /\ f \in {data, Mixed}
BY DEF Filled, SettingsFiles

LEMMA FillBackupSafe ==
    ASSUME SettingsInv, NEW r \in Requests, FillBackup(r)
    PROVE  SettingsInv'
<1>1. /\ configure[r].pc = "fill" /\ copy' \in Filled(copy, configure[r].held)
      /\ Proceeds(r, "open")
      /\ UNCHANGED <<tool, settings, draft, answering, written, raced, crowded, configures,
                     shifts, edits, settingsFaults>>
  BY DEF FillBackup, Unmoved
<1>2. /\ InFile(configure[r]) /\ configure[r].held \in SettingsFiles
      /\ ~crowded => UserSettingsKept /\ Guarded(configure[r])
  BY <1>1, FileFacts DEF Labels, Request
<1>3. ~crowded => UserSettingsKept'
  BY <1>1, <1>2, OverwrittenKept DEF UserSettingsKept
<1>4. copy' \in SettingsFiles /\ (copy = Blank => copy' = configure[r].held)
  BY <1>1, <1>2, FilledFacts
<1>5. /\ configure' \in [Requests -> Request] /\ configure'[r].pc = "open"
      /\ SameSearch(configure[r], configure'[r]) /\ SameData(configure[r], configure'[r])
      /\ \A o \in Requests \ {r} : configure'[o] = configure[o]
  BY <1>1, ProceedFacts DEF Labels
<1>6. SettingsTyped'
  BY <1>1, <1>4, <1>5 DEF SettingsInv, SettingsTyped
<1>7. SearchOK(configure[r])'
  BY <1>1, <1>5, FileSearch DEF Labels
<1>8. ASSUME ~crowded PROVE Guarded(configure[r])'
  BY <1>1, <1>2, <1>4, <1>5, <1>8, OverwrittenKept DEF Guarded, Holds, SameSearch, SameData, Kept, Offers
<1> QED BY <1>1, <1>2, <1>3, <1>5, <1>6, <1>7, <1>8, FileStep DEF SameSearch

LEMMA OpenDraftSafe ==
    ASSUME SettingsInv, NEW r \in Requests, OpenDraft(r)
    PROVE  SettingsInv'
<1>1. /\ configure[r].pc = "open"
      /\ UNCHANGED <<tool, settings, copy, answering, written, raced, crowded, configures,
                     shifts, edits>>
  BY DEF OpenDraft, Unmoved
<1>2. /\ InFile(configure[r]) /\ configure[r] \in Request /\ configure \in [Requests -> Request]
      /\ ~crowded => UserSettingsKept /\ Guarded(configure[r])
  BY <1>1, FileFacts DEF Labels
<1>3. ~crowded => UserSettingsKept'
  BY <1>1, <1>2, OverwrittenKept DEF UserSettingsKept
<1>4. CASE /\ draft' = Blank /\ UNCHANGED settingsFaults
           /\ configure' = [configure EXCEPT ![r].pc = "write", ![r].fd = "draft"]
  <2> DEFINE d == [configure[r] EXCEPT !.pc = "write", !.fd = "draft"]
  <2>1. configure' = [configure EXCEPT ![r] = d]
    BY <1>4
  <2>2. /\ d \in Request /\ d.pc = "write" /\ d.fd = "draft" /\ SameSearch(configure[r], d)
        /\ SameData(configure[r], d)
    BY <1>2 DEF Request, Labels, SameSearch, SameData
  <2> HIDE DEF d
  <2>3. /\ configure' \in [Requests -> Request] /\ configure'[r] = d
        /\ \A o \in Requests \ {r} : configure'[o] = configure[o]
    BY <1>2, <2>1, <2>2
  <2>4. SettingsTyped'
    BY <1>1, <1>4, <2>3 DEF SettingsInv, SettingsTyped, SettingsFiles
  <2>5. SearchOK(configure[r])'
    BY <1>1, <2>2, <2>3, FileSearch DEF Labels
  <2>6. ASSUME ~crowded PROVE Guarded(configure[r])'
    BY <1>1, <1>2, <1>4, <2>2, <2>3, <2>6, OverwrittenKept DEF Guarded, Holds, SameSearch, SameData, Kept, Offers
  <2> QED BY <1>1, <1>2, <1>3, <2>3, <2>4, <2>5, <2>6, FileStep DEF SameSearch
<1>5. CASE /\ SettingsFault /\ UNCHANGED draft
           /\ configure' = [configure EXCEPT ![r] = WriteFails(@)]
  <2> DEFINE d == WriteFails(configure[r])
  <2>1. d \in Request /\ (d = Nothing \/ (d.pc = "read" /\ SameSearch(configure[r], d)))
    BY <1>2, WrittenFacts
  <2>2. configure' = [configure EXCEPT ![r] = d]
    BY <1>5
  <2> HIDE DEF d
  <2>3. /\ configure' \in [Requests -> Request] /\ configure'[r] = d
        /\ \A o \in Requests \ {r} : configure'[o] = configure[o]
    BY <1>2, <2>1, <2>2
  <2>4. SettingsTyped'
    BY <1>1, <1>5, <2>3 DEF SettingsInv, SettingsTyped, SettingsFault
  <2> QED BY <1>1, <1>3, <2>1, <2>3, <2>4, LeaveStep DEF SameSearch, Labels
<1> QED BY <1>4, <1>5 DEF OpenDraft


LEMMA WriteDraftSafe ==
    ASSUME SettingsInv, NEW r \in Requests, WriteDraft(r)
    PROVE  SettingsInv'
<1> DEFINE c == configure[r]
           d == [c EXCEPT !.pc = "rename", !.fd = "none"]
<1>1. /\ c.pc = "write" /\ configure' = [configure EXCEPT ![r] = d]
      /\ UNCHANGED <<tool, copy, answering, written, raced, crowded, configures, shifts, edits,
                     settingsFaults>>
  BY DEF WriteDraft, Unmoved
<1>2. /\ InFile(c) /\ c \in Request /\ configure \in [Requests -> Request]
      /\ ~crowded => UserSettingsKept /\ Guarded(c)
  BY <1>1, FileFacts DEF Labels
<1>3. /\ d \in Request /\ d.pc = "rename" /\ SameSearch(c, d) /\ SameData(c, d)
  BY <1>2 DEF Request, Labels, SameSearch, SameData
<1> HIDE DEF d
<1>4. /\ configure' \in [Requests -> Request] /\ configure'[r] = d
      /\ \A o \in Requests \ {r} : configure'[o] = configure[o]
  BY <1>1, <1>2, <1>3
<1>5. {settings', draft'} \subseteq SettingsFiles
  <2>1. c.next \in SettingsFiles /\ settings \in SettingsFiles /\ draft \in SettingsFiles
    BY <1>2 DEF Request, SettingsFiles, SettingsInv, SettingsTyped
  <2>2. CASE c.fd = "draft"
    <3>1. draft' \in Filled(draft, c.next) /\ settings' = settings
      BY <2>2 DEF WriteDraft
    <3> QED BY <2>1, <3>1, FilledFacts
  <2>3. CASE c.fd = "settings"
    <3>1. settings' \in Filled(settings, c.next) /\ draft' = draft
      BY <2>3 DEF WriteDraft
    <3> QED BY <2>1, <3>1, FilledFacts
  <2>4. CASE c.fd \notin {"draft", "settings"}
    <3>1. settings' = settings /\ draft' = draft
      BY <2>4 DEF WriteDraft
    <3> QED BY <2>1, <3>1
  <2> QED BY <2>2, <2>3, <2>4
<1>6. SettingsTyped'
  BY <1>1, <1>4, <1>5 DEF SettingsInv, SettingsTyped
<1>7. SearchOK(configure[r])'
  BY <1>1, <1>3, <1>4, FileSearch DEF Labels
<1>8. ASSUME ~crowded PROVE UserSettingsKept' /\ Guarded(configure[r])'
  <2>1. c.fd = "draft" /\ draft = Blank /\ c.next \in SettingsFiles
    BY <1>1, <1>2, <1>8 DEF Guarded, Request, SettingsFiles
  <2>2. draft' \in Filled(draft, c.next) /\ settings' = settings
    BY <2>1 DEF WriteDraft
  <2>3. draft' = c.next
    BY <2>1, <2>2, FilledFacts
  <2>4. UserSettingsKept'
    BY <1>1, <1>2, <1>8, <2>2, OverwrittenKept DEF UserSettingsKept
  <2> QED BY <1>1, <1>2, <1>3, <1>4, <1>8, <2>2, <2>3, <2>4, OverwrittenKept
             DEF Guarded, Holds, SameSearch, SameData, Kept, Offers
<1> QED BY <1>1, <1>2, <1>4, <1>6, <1>7, <1>8, FileStep DEF SameSearch

\* After a rename, or a removal, of the draft the other requests are where they were.
LEMMA AfterFacts ==
    ASSUME SettingsInv, NEW r \in Requests, NEW b \in BOOLEAN, NEW d \in Request, After(r, d, b)
    PROVE  /\ configure' \in [Requests -> Request] /\ configure'[r] = d
           /\ \A o \in Requests \ {r} : configure'[o].pc = configure[o].pc
                                        /\ SameSearch(configure[o], configure'[o])
<1>1. \A o \in Requests : configure[o] \in Request
  BY DEF SettingsInv, SettingsTyped
<1>2. ASSUME NEW o \in Requests
      PROVE  /\ Shifted(configure[o], b) \in Request
             /\ Shifted(configure[o], b).pc = configure[o].pc
             /\ SameSearch(configure[o], Shifted(configure[o], b))
  BY <1>1, ShiftedFacts
<1>3. configure' = [o \in Requests |-> IF o = r THEN d ELSE Shifted(configure[o], b)]
  BY DEF After
<1> QED BY <1>2, <1>3

LEMMA RenameDraftSafe ==
    ASSUME SettingsInv, NEW r \in Requests, RenameDraft(r)
    PROVE  SettingsInv'
<1>1. /\ configure[r].pc = "rename"
      /\ UNCHANGED <<tool, copy, answering, written, raced, crowded, configures, shifts, edits>>
  BY DEF RenameDraft, Unmoved
<1>2. /\ configure[r] \in Request
      /\ ~crowded => UserSettingsKept /\ Guarded(configure[r])
  BY <1>1, FileFacts DEF Labels
<1>3. PICK d \in Request, b \in BOOLEAN :
         /\ After(r, d, b)
         /\ d = Nothing \/ (d.pc = "read" /\ SameSearch(configure[r], d))
  <2>1. ASSUME NEW d, d = Wrote(configure[r]) \/ d = WriteFails(configure[r])
        PROVE d \in Request /\ (d = Nothing \/ (d.pc = "read" /\ SameSearch(configure[r], d)))
    BY <1>2, <2>1, WrittenFacts
  <2>2. PICK b \in BOOLEAN : After(r, Wrote(configure[r]), b) \/ After(r, WriteFails(configure[r]), b)
    BY DEF RenameDraft
  <2> QED BY <2>1, <2>2
<1>4. /\ configure' \in [Requests -> Request] /\ configure'[r] = d
      /\ \A o \in Requests \ {r} : configure'[o].pc = configure[o].pc
                                   /\ SameSearch(configure[o], configure'[o])
  BY <1>3, AfterFacts
<1>5. /\ {settings', draft'} \subseteq SettingsFiles /\ settingsFaults' \in Nat
      /\ settings' \in {settings, draft}
  <2>1. {settings, draft} \subseteq SettingsFiles /\ settingsFaults \in Nat
    BY DEF SettingsInv, SettingsTyped
  <2>2. {settings', draft'} \subseteq {settings, draft, NoSettings} /\ settings' \in {settings, draft}
    BY DEF RenameDraft
  <2>3. settingsFaults' \in Nat
    <3>1. settingsFaults' = settingsFaults \/ settingsFaults' = settingsFaults + 1
      BY DEF RenameDraft, SettingsFault
    <3> QED BY <2>1, <3>1
  <2> QED BY <2>1, <2>2, <2>3 DEF SettingsFiles
<1>6. SettingsTyped'
  BY <1>1, <1>4, <1>5 DEF SettingsInv, SettingsTyped
<1>7. ASSUME ~crowded PROVE UserSettingsKept'
  <2>1. CASE settings' = settings
    BY <1>1, <1>2, <1>7, <2>1, OverwrittenKept DEF UserSettingsKept
  <2>2. CASE settings' = draft
    <3>1. /\ draft = configure[r].next
          /\ \A i \in written \ (raced \cup Overwritten) : i \in configure[r].next.own
      BY <1>1, <1>2, <1>7 DEF Guarded, Holds
    <3>2. configure[r].next \notin {NoSettings, Blank, Mixed}
      BY <1>2, SettingsAssumption DEF Request
    <3> QED BY <1>1, <2>2, <3>1, <3>2, OverwrittenKept DEF UserSettingsKept
  <2> QED BY <1>5, <2>1, <2>2
<1> QED BY <1>1, <1>3, <1>4, <1>6, <1>7, LeaveStep DEF Labels


LEMMA DaemonStopsSafe ==
    ASSUME SettingsInv, DaemonStops
    PROVE  SettingsInv'
<1>1. /\ configure' = [r \in Requests |-> Nothing]
      /\ UNCHANGED <<tool, settings, copy, draft, answering, written, raced, crowded, configures,
                     shifts, edits>>
  BY DEF DaemonStops, Unmoved, settingsFiles
<1>2. configure' \in [Requests -> Request] /\ \A r \in Requests : configure'[r] = Nothing
  BY <1>1, NothingFacts
<1>3. SettingsTyped'
  BY <1>1, <1>2 DEF DaemonStops, SettingsFault, SettingsInv, SettingsTyped
<1>4. ASSUME NEW r \in Requests PROVE SearchOK(configure[r])' /\ Guarded(configure[r])'
  BY <1>2, NothingFacts, EmptyFacts DEF SearchOK, Guarded, Holds
<1>5. ASSUME ~crowded PROVE OneInFile' /\ UserSettingsKept'
  BY <1>1, <1>2, <1>5, NothingFacts, OverwrittenKept DEF OneInFile, SettingsInv, UserSettingsKept
<1> QED BY <1>1, <1>3, <1>4, <1>5 DEF SettingsInv

LEMMA UserSavesSafe ==
    ASSUME SettingsInv, NEW i \in OwnSettings, UserSaves(i)
    PROVE  SettingsInv'
<1> DEFINE file == IF settings = NoSettings THEN Fresh ELSE settings
<1>1. /\ settings \notin {Blank, Mixed} /\ settings' = [file EXCEPT !.own = @ \cup {i}]
      /\ written' = written \cup {i} /\ edits' = edits + 1
      /\ UNCHANGED <<tool, copy, draft, answering, configure, crowded, configures, shifts,
                     settingsFaults>>
  BY DEF UserSaves
<1>2. file \in Whole /\ (settings # NoSettings => file = settings)
  <2>1. settings \in Whole \cup {NoSettings} /\ Fresh \in Whole
    BY <1>1 DEF SettingsInv, SettingsTyped, SettingsFiles, Whole, Fresh
  <2> QED BY <2>1
<1>3. file.yokai = IF settings = NoSettings THEN {} ELSE settings.yokai
  BY DEF Fresh
<1> HIDE DEF file
<1>4. /\ settings' \in Whole /\ settings'.own = file.own \cup {i} /\ settings'.yokai = file.yokai
  BY <1>1, <1>2 DEF Whole
<1>5. settings' \notin {NoSettings, Blank, Mixed}
  BY <1>4, SettingsAssumption
<1>6. raced' = raced \cup {i} \/ (raced' = raced \ {i} /\ \A r \in Requests : ~Holds(configure[r]))
  BY DEF UserSaves
<1>7. raced \subseteq written /\ raced' \subseteq written' /\ written' \subseteq OwnSettings
  BY <1>1, <1>6 DEF SettingsInv, SettingsTyped
<1>8. SettingsTyped'
  BY <1>1, <1>4, <1>7 DEF SettingsInv, SettingsTyped, SettingsFiles
<1>9. ASSUME ~crowded PROVE UserSettingsKept'
  <2>1. ASSUME NEW j \in written' \ (raced' \cup Overwritten') PROVE j \in settings'.own
    <3>1. CASE j = i
      BY <1>4, <3>1
    <3>2. CASE j # i
      <4>1. j \in written \ (raced \cup Overwritten)
        BY <1>1, <1>6, <3>2, OverwrittenKept
      <4>2. settings # NoSettings /\ j \in settings.own
        BY <1>9, <4>1, OverwrittenKept DEF SettingsInv, UserSettingsKept
      <4> QED BY <1>2, <1>4, <4>2
    <3> QED BY <3>1, <3>2
  <2> QED BY <1>5, <2>1 DEF UserSettingsKept
<1>10. Kept' = Kept
  BY <1>1, <1>3, <1>4, <1>5 DEF Kept
<1>11. ASSUME ~crowded, NEW r \in Requests PROVE Guarded(configure[r])'
  <2>1. Guarded(configure[r]) /\ configure'[r] = configure[r]
    BY <1>1, <1>11 DEF SettingsInv
  <2>2. Holds(configure[r]) => written' \ (raced' \cup Overwritten')
                                   \subseteq written \ (raced \cup Overwritten)
    BY <1>1, <1>6, OverwrittenKept
  <2> QED BY <1>1, <1>10, <2>1, <2>2, OverwrittenKept DEF Guarded, Offers
<1>12. \A r \in Requests : SearchOK(configure[r])'
  BY <1>1 DEF SettingsInv, SearchOK
<1>13. ~crowded => OneInFile'
  BY <1>1 DEF SettingsInv, OneInFile
<1> QED BY <1>1, <1>8, <1>9, <1>11, <1>12, <1>13 DEF SettingsInv

LEMMA ServiceShiftsSafe ==
    ASSUME SettingsInv, NEW a \in Addresses, ServiceShifts(a)
    PROVE  SettingsInv'
<1>1. /\ answering' \subseteq Addresses /\ shifts' = shifts + 1
      /\ UNCHANGED <<tool, settings, copy, draft, written, raced, crowded, configures, edits,
                     settingsFaults>>
  BY DEF ServiceShifts, SettingsInv, SettingsTyped, settingsFiles
<1>2. configure' = [r \in Requests |->
          IF configure[r].pc = "probe"
          THEN [configure[r] EXCEPT !.answered = @ \cup answering', !.steady = @ \cap answering']
          ELSE configure[r]]
  BY DEF ServiceShifts
<1>3. ASSUME NEW r \in Requests
      PROVE  /\ configure[r] \in Request /\ configure'[r] \in Request
             /\ configure[r].pc # "probe" => configure'[r] = configure[r]
             /\ configure'[r].pc = configure[r].pc
             /\ configure'[r].left = configure[r].left /\ configure'[r].found = configure[r].found
             /\ configure[r].pc = "probe" =>
                  /\ configure'[r].answered = configure[r].answered \cup answering'
                  /\ configure'[r].steady = configure[r].steady \cap answering'
  <2>1. configure[r] \in Request
    BY DEF SettingsInv, SettingsTyped
  <2>2. CASE configure[r].pc = "probe"
    <3>1. configure'[r] = [configure[r] EXCEPT !.answered = configure[r].answered \cup answering',
                                               !.steady = configure[r].steady \cap answering']
      BY <1>2, <2>2
    <3> QED BY <1>1, <2>1, <2>2, <3>1 DEF Request
  <2>3. CASE configure[r].pc # "probe"
    BY <1>2, <2>1, <2>3
  <2> QED BY <2>1, <2>2, <2>3
<1>4. SettingsTyped'
  <2>1. configure' \in [Requests -> Request]
    BY <1>2, <1>3
  <2> QED BY <1>1, <2>1 DEF SettingsInv, SettingsTyped
<1>5. ASSUME NEW r \in Requests PROVE SearchOK(configure[r])'
  <2>1. SearchOK(configure[r])
    BY DEF SettingsInv
  <2>2. CASE configure[r].pc = "probe"
    BY <1>3, <2>1, <2>2 DEF SearchOK, InFile
  <2>3. CASE configure[r].pc # "probe"
    BY <1>3, <2>1, <2>3 DEF SearchOK
  <2> QED BY <2>2, <2>3
<1>6. ASSUME ~crowded, NEW r \in Requests PROVE Guarded(configure[r])'
  <2>1. Guarded(configure[r])
    BY <1>6 DEF SettingsInv
  <2>2. CASE configure[r].pc = "probe"
    BY <1>3, <2>2 DEF Guarded, Holds
  <2>3. CASE configure[r].pc # "probe"
    BY <1>1, <1>3, <2>1, <2>3, OverwrittenKept DEF Guarded, Kept, Offers
  <2> QED BY <2>2, <2>3
<1>7. ASSUME ~crowded PROVE OneInFile' /\ UserSettingsKept'
  BY <1>1, <1>3, <1>7, OverwrittenKept DEF SettingsInv, OneInFile, UserSettingsKept, InFile
<1> QED BY <1>1, <1>4, <1>5, <1>6, <1>7 DEF SettingsInv

LEMMA SettingsStart == SettingsInit => SettingsInv
<1> SUFFICES ASSUME SettingsInit PROVE SettingsInv
  OBVIOUS
<1>1. settings \in Whole \cup {NoSettings}
  <2>1. CASE settings = NoSettings
    BY <2>1
  <2>2. CASE settings # NoSettings
    <3>1. PICK o \in {OwnSettings, OwnSettings \ Comments}, y \in {{}, Addresses},
               l \in {tool = "opencode"} : settings = [own |-> o, yokai |-> y, legacy |-> l]
      BY <2>2 DEF SettingsInit
    <3>2. o \in SUBSET OwnSettings /\ y \in SUBSET Addresses /\ l \in BOOLEAN
      OBVIOUS
    <3> QED BY <3>1, <3>2 DEF Whole
  <2> QED BY <2>1, <2>2
<1>2. /\ copy = NoSettings /\ draft = NoSettings /\ crowded = FALSE /\ raced = {}
      /\ written = (IF settings = NoSettings THEN {} ELSE settings.own)
      /\ configure = [r \in Requests |-> Nothing]
  BY DEF SettingsInit
<1>3. configure \in [Requests -> Request] /\ \A r \in Requests : configure[r] = Nothing
  BY <1>2, NothingFacts
<1>4. SettingsTyped
  <2>1. /\ tool \in Tools /\ answering \subseteq Addresses
        /\ configures = 0 /\ shifts = 0 /\ edits = 0 /\ settingsFaults = 0
    BY DEF SettingsInit
  <2>2. {settings, copy, draft} \subseteq SettingsFiles
    BY <1>1, <1>2 DEF SettingsFiles
  <2>3. written \subseteq OwnSettings /\ raced \subseteq written
    BY <1>1, <1>2 DEF Whole
  <2> QED BY <1>2, <1>3, <2>1, <2>2, <2>3 DEF SettingsTyped
<1>5. \A r \in Requests : SearchOK(configure[r]) /\ Guarded(configure[r])
  BY <1>3, NothingFacts, EmptyFacts DEF SearchOK, Guarded, Holds
<1>6. OneInFile
  BY <1>3, NothingFacts DEF OneInFile
<1>7. UserSettingsKept
  BY <1>1, <1>2, SettingsAssumption DEF UserSettingsKept
<1> QED BY <1>4, <1>5, <1>6, <1>7 DEF SettingsInv

LEMMA SettingsStep == SettingsInv /\ [SettingsNext]_settingsVars => SettingsInv'
<1> SUFFICES ASSUME SettingsInv, [SettingsNext]_settingsVars PROVE SettingsInv'
  OBVIOUS
<1>1. CASE \E r \in Requests, configured, live \in SUBSET Addresses :
             ConfigureTool(r, configured, live)
  BY <1>1, ConfigureToolSafe
<1>2. CASE \E r \in Requests : Probe(r) \/ Discovered(r) \/ Migrate(r) \/ ReadSettings(r)
  BY <1>2, ProbeSafe, DiscoveredSafe, MigrateSafe, ReadSettingsSafe
<1>3. CASE \E r \in Requests : BeginBackup(r) \/ FillBackup(r)
  BY <1>3, BeginBackupSafe, FillBackupSafe
<1>4. CASE \E r \in Requests : OpenDraft(r) \/ WriteDraft(r) \/ RenameDraft(r)
  BY <1>4, OpenDraftSafe, WriteDraftSafe, RenameDraftSafe
<1>5. CASE DaemonStops
  BY <1>5, DaemonStopsSafe
<1>6. CASE \E i \in OwnSettings : UserSaves(i)
  BY <1>6, UserSavesSafe
<1>7. CASE \E a \in Addresses : ServiceShifts(a)
  BY <1>7, ServiceShiftsSafe
<1>8. CASE UNCHANGED settingsVars
  <2>1. UNCHANGED <<tool, settings, copy, draft, answering, configure, written, raced, crowded,
                    configures, shifts, edits, settingsFaults>>
    BY <1>8 DEF settingsVars, settingsFiles, settingsBounds
  <2> QED BY <2>1, OverwrittenKept DEF SettingsInv, SettingsTyped, SearchOK, OneInFile, UserSettingsKept, Guarded,
                      Kept, Offers
<1> QED BY <1>1, <1>2, <1>3, <1>4, <1>5, <1>6, <1>7, <1>8 DEF SettingsNext


LEMMA SettingsHold == SettingsSpec => []SettingsInv
<1>1. SettingsInit => SettingsInv
  BY SettingsStart
<1>2. SettingsInv /\ [SettingsNext]_settingsVars => SettingsInv'
  BY SettingsStep
<1> QED BY <1>1, <1>2, PTL DEF SettingsSpec

-----------------------------------------------------------------------------
\* Theorems of the requests and the user's settings.

\* AddEndpointsToFile and writeConfig of the five packages: while requests follow each
\* other, the settings are whole and hold what the user wrote, but for what the package
\* writes over or drops by intent (its own keys and providers, comments), and .yokai.bak
\* holds all of the version about to be replaced, whichever writes fail and wherever
\* the daemon stops.
THEOREM SettingsAreSafe == SettingsSpec => []SettingsSafety
<1>1. ASSUME SettingsInv PROVE SettingsSafety
  <2>1. \A b \in DOMAIN settingsBounds : settingsBounds[b] \in Nat
    BY <1>1 DEF SettingsInv, SettingsTyped, settingsBounds
  <2>2. ASSUME NEW r \in Requests
        PROVE RequestOK(configure[r]) /\ (InFile(configure[r]) => configure[r].found # <<>>)
    <3>1. configure[r] \in Request /\ SearchOK(configure[r])
      BY <1>1 DEF SettingsInv, SettingsTyped
    <3>2. /\ configure[r].left \in SeqExt!SetToAllKPermutations(Addresses)
          /\ configure[r].found \in SeqExt!SetToAllKPermutations(Addresses)
      BY <3>1, DistinctIsOrder DEF SearchOK, Request
    <3> QED BY <3>1, <3>2 DEF RequestOK, SearchOK, Request
  <2>3. SettingsTypeOK
    BY <1>1, <2>1, <2>2 DEF SettingsInv, SettingsTyped, SettingsTypeOK
  <2>4. UserSettingsKept
    BY <1>1 DEF SettingsInv, UserSettingsKept
  <2>5. BackupComesFirst
    BY <1>1 DEF SettingsInv, Guarded, BackupComesFirst
  <2> QED BY <2>3, <2>4, <2>5 DEF SettingsSafety
<1> QED BY <1>1, SettingsHold, PTL

\* A request that finishes renames its own draft over the settings.
LEMMA FinishedWrites ==
    ASSUME SettingsInv, SettingsNext, ~crowded, NEW r \in Requests, Finishes(r)
    PROVE  /\ settings' = configure[r].next /\ Guarded(configure[r]) /\ Holds(configure[r])
           /\ ~configure[r].migrating
<1>1. /\ configure[r].pc = "rename" /\ draft # NoSettings /\ draft' = NoSettings
      /\ ~configure[r].migrating /\ settingsFaults' = settingsFaults
      /\ settingsFaults \in Nat /\ Guarded(configure[r]) /\ OneInFile
  BY DEF Finishes, SettingsInv, SettingsTyped
<1>2. PICK o \in Requests : RenameDraft(o)
  <2>1. CASE UNCHANGED draft
    BY <1>1, <2>1
  <2>2. ASSUME NEW o \in Requests, OpenDraft(o), draft' = Blank PROVE FALSE
    BY <1>1, <2>2, SettingsAssumption
  <2>3. ASSUME NEW o \in Requests, WriteDraft(o), draft' # draft PROVE FALSE
    <3>1. draft' \in Filled(draft, configure[o].next)
      BY <2>3 DEF WriteDraft
    <3>2. configure[o].next \in Whole
      BY DEF SettingsInv, SettingsTyped, Request
    <3>3. draft' \in {configure[o].next, Mixed}
      BY <3>1 DEF Filled
    <3> QED BY <1>1, <3>2, <3>3, SettingsAssumption
  <2> QED BY <2>1, <2>2, <2>3
         DEF SettingsNext, ConfigureTool, Probe, Discovered, Migrate, ReadSettings, BeginBackup,
             FillBackup, OpenDraft, DaemonStops, UserSaves, ServiceShifts, settingsFiles
<1>3. o = r
  BY <1>1, <1>2 DEF OneInFile, InFile, Labels, RenameDraft
<1>4. settings' = draft
  <2>1. ~SettingsFault
    BY <1>1 DEF SettingsFault
  <2> QED BY <1>1, <1>2, <2>1 DEF RenameDraft
<1>5. draft = configure[r].next
  BY <1>1 DEF Guarded
<1> QED BY <1>1, <1>4, <1>5 DEF Holds

\* The endpoints a request leaves in the settings answered while it looked, or are
\* those VS Code named before: discoverOpenAIEndpoints offers no silent service.
THEOREM OnlyAnsweringAreNamed == SettingsSpec => NamedEndpointsAnswered
<1>1. ASSUME SettingsInv, SettingsNext, ~crowded, NEW r \in Requests, Finishes(r)
      PROVE  settings'.yokai \subseteq configure[r].answered \cup Kept
  BY <1>1, FinishedWrites DEF Guarded
<1>2. SettingsInv /\ [SettingsNext]_settingsVars
        => [~crowded => \A r \in Requests : Finishes(r) =>
              settings'.yokai \subseteq configure[r].answered \cup Kept]_settingsVars
  BY <1>1
<1> QED BY <1>2, SettingsHold, PTL DEF SettingsSpec, NamedEndpointsAnswered

\* A service that was configured or polled and answered throughout the search is named
\* by the settings the request leaves; Claude Code and Codex are told of one.
THEOREM RunningAreNamed == SettingsSpec => RunningServicesNamed
<1>1. ASSUME SettingsInv, SettingsNext, ~crowded, NEW r \in Requests, Finishes(r)
      PROVE  IF tool \in {"claudecode", "codex"} THEN settings'.yokai # {}
             ELSE configure[r].steady \subseteq settings'.yokai
  BY <1>1, FinishedWrites DEF Guarded, Offers
<1>2. SettingsInv /\ [SettingsNext]_settingsVars
        => [~crowded => \A r \in Requests : Finishes(r) =>
              IF tool \in {"claudecode", "codex"} THEN settings'.yokai # {}
              ELSE configure[r].steady \subseteq settings'.yokai]_settingsVars
  BY <1>1
<1> QED BY <1>2, SettingsHold, PTL DEF SettingsSpec, RunningServicesNamed
=============================================================================
