----------------------------- MODULE SelfUpgrade -----------------------------
(***************************************************************************)
(* yokai upgrade: the pair of binaries is replaced by renames with a       *)
(* rollback, then a running daemon is found by its PID file or its port,   *)
(* stopped and started from the new binary.  Beside it daemons start and   *)
(* end, the text interface starts a daemon when none answers, and foreign  *)
(* programs come by the IDs and the port of daemons that are gone, some of *)
(* them with an argument "daemon" of their own.                            *)
(*                                                                         *)
(* A process that has ended and is not reaped counts as gone.              *)
(***************************************************************************)
EXTENDS Naturals, FiniteSets

CONSTANTS
    Pids,
    NoProcess,        \* also: no PID file, and nobody listens
    MaxSpawns,        \* bound on processes that are started
    MaxUpgrades,      \* bound on runs of the command
    MaxUpgradeFaults  \* bound on errors, crashes and kills

VARIABLES
    installed,  \* [Binaries -> Version], beside the one another
    backup,     \* [Binaries -> Version], the .old files of this run
    staged,     \* binaries of the new release staged beside them
    upgrade,    \* the run of the command
    process,    \* [Pids -> process | NoProcess]
    pidFile, listening,
    linux,      \* the platform can look a process up by port and arguments
    launching,  \* the text interface is starting a daemon
    spawns, upgrades, upgradeFaults

upgradeVars == <<installed, backup, staged, upgrade, process, pidFile, listening, linux,
                 launching, spawns, upgrades, upgradeFaults>>
fileVars == <<installed, backup, staged>>
processVars == <<process, pidFile, listening, launching, spawns>>

-----------------------------------------------------------------------------
Binaries == {"yokai", "yokai-tui"}
Version == {"old", "new", "none"}
\* "alike" is a foreign program with the argument "daemon".
Process == [kind: {"daemon", "alike", "other"}, version: {"old", "new"},
            at: {"boot", "startup", "serving", "stopping", "draining"}]

ASSUME UpgradeAssumption ==
    /\ IsFiniteSet(Pids) /\ NoProcess \notin Pids \cup Process
    /\ MaxSpawns \in Nat /\ MaxUpgrades \in Nat /\ MaxUpgradeFaults \in Nat

UpgradeSteps ==
    {"idle", "check", "fetch", "unpack", "stage", "back up", "back up tui", "install",
     "install tui", "undo install", "undo install tui", "restore", "restore tui", "drop backups",
     "look", "terminate", "await exit", "start", "await health", "restarted", "ended"}
\* `before` is the pair the run found, `seen` the daemons when it looked for one,
\* `rollback` whether its rollback failed.
UpgradeRun == [at: UpgradeSteps, own: {"old", "new"}, before: [Binaries -> Version],
               hadTUI: BOOLEAN, pid: Pids \cup {NoProcess}, seen: SUBSET Pids,
               rollbackFailed: BOOLEAN]

AtStep(s) == upgrade.at = s
Step(s) == upgrade' = [upgrade EXCEPT !.at = s]
Errs == upgradeFaults < MaxUpgradeFaults /\ upgradeFaults' = upgradeFaults + 1
Moves(from, to, b) == /\ to' = [to EXCEPT ![b] = from[b]] /\ from' = [from EXCEPT ![b] = "none"]

Daemons == {p \in Pids : process[p] # NoProcess /\ process[p].kind = "daemon"}
InUse == {p \in Pids : process[p] # NoProcess}
Foreign == InUse \ Daemons
\* A daemon answers GET /health, a foreign program that has the port may do so.
Healthy == listening \in Daemons

OnlyFiles == UNCHANGED <<processVars, linux, upgrades>>
OnlyUpgrade == UNCHANGED <<fileVars, processVars, linux, upgrades>>

-----------------------------------------------------------------------------
\* The release.

\* The command runs from the installed binary.
BeginUpgrade ==
    /\ upgrade.at \in {"idle", "restarted", "ended"} /\ installed["yokai"] # "none"
    /\ upgrades < MaxUpgrades /\ upgrades' = upgrades + 1
    /\ backup' = [b \in Binaries |-> "none"] /\ staged' = {}
    /\ upgrade' = [at |-> "check", own |-> installed["yokai"], before |-> installed, hadTUI |-> TRUE,
                   pid |-> NoProcess, seen |-> {}, rollbackFailed |-> FALSE]
    /\ UNCHANGED <<installed, processVars, linux, upgradeFaults>>

\* Another version than the running one is an update.
Check ==
    /\ AtStep("check") /\ Step(IF upgrade.own # "new" THEN "fetch" ELSE "ended")
    /\ OnlyUpgrade /\ UNCHANGED upgradeFaults

\* Run: the archive of the release for this platform, in a temporary file.
Fetch ==
    /\ AtStep("fetch") /\ OnlyUpgrade
    /\ \/ Step("unpack") /\ UNCHANGED upgradeFaults
       \/ Step("ended") /\ Errs

\* extractArchive: a damaged archive, or one without both binaries, is an error.
Unpack ==
    /\ AtStep("unpack") /\ OnlyUpgrade
    /\ \/ Step("stage") /\ UNCHANGED upgradeFaults
       \/ Step("ended") /\ Errs

-----------------------------------------------------------------------------
\* installUpdatePairWithOps.

StageBinaries ==
    /\ AtStep("stage")
    /\ \/ staged' = Binaries /\ Step("back up") /\ UNCHANGED upgradeFaults
       \/ Errs /\ staged' = {} /\ Step("ended")
    /\ UNCHANGED <<installed, backup>> /\ OnlyFiles

\* An error before anything was moved ends the run.
BackUp ==
    /\ AtStep("back up")
    /\ \/ /\ installed["yokai"] # "none" /\ Moves(installed, backup, "yokai")
          /\ Step("back up tui") /\ UNCHANGED <<staged, upgradeFaults>>
       \/ /\ Errs /\ staged' = {} /\ Step("ended") /\ UNCHANGED <<installed, backup>>
    /\ OnlyFiles

\* There may be no companion yet.
BackUpTUI ==
    /\ AtStep("back up tui")
    /\ \/ /\ installed["yokai-tui"] # "none" /\ Moves(installed, backup, "yokai-tui")
          /\ Step("install") /\ UNCHANGED <<staged, upgradeFaults>>
       \/ /\ installed["yokai-tui"] = "none"
          /\ upgrade' = [upgrade EXCEPT !.at = "install", !.hadTUI = FALSE]
          /\ UNCHANGED <<installed, backup, staged, upgradeFaults>>
       \/ /\ Errs /\ staged' = {}
          /\ \/ Moves(backup, installed, "yokai") /\ Step("ended")
             \/ /\ upgradeFaults' < MaxUpgradeFaults \* the rename back fails as well
                /\ upgrade' = [upgrade EXCEPT !.at = "ended", !.rollbackFailed = TRUE]
                /\ UNCHANGED <<installed, backup>>
    /\ OnlyFiles

Installs(b, next) ==
    \/ /\ installed' = [installed EXCEPT ![b] = "new"] /\ staged' = staged \ {b}
       /\ Step(next) /\ UNCHANGED upgradeFaults
    \/ Errs /\ Step("undo install") /\ UNCHANGED <<installed, staged>>

\* Mutant of InstallBinary: the backup goes as soon as the new binary is in place.
InstallDropping ==
    /\ AtStep("install") /\ Installs("yokai", "install tui")
    /\ backup' = [backup EXCEPT !["yokai"] = "none"] /\ OnlyFiles

InstallBinary == AtStep("install") /\ Installs("yokai", "install tui") /\ UNCHANGED backup /\ OnlyFiles

InstallTUI == AtStep("install tui") /\ Installs("yokai-tui", "drop backups") /\ UNCHANGED backup /\ OnlyFiles

\* rollbackUpdatePair goes on after an error.
Undoes(b, next) ==
    \/ installed' = [installed EXCEPT ![b] = "none"] /\ Step(next) /\ UNCHANGED upgradeFaults
    \/ /\ installed[b] # "none" /\ Errs /\ UNCHANGED installed
       /\ upgrade' = [upgrade EXCEPT !.at = next, !.rollbackFailed = TRUE]

UndoInstall ==
    /\ \/ AtStep("undo install") /\ Undoes("yokai", "undo install tui")
       \/ AtStep("undo install tui") /\ Undoes("yokai-tui", "restore")
    /\ UNCHANGED <<backup, staged>> /\ OnlyFiles

Restores(b, next) ==
    \/ Moves(backup, installed, b) /\ Step(next) /\ UNCHANGED upgradeFaults
    \/ /\ Errs /\ UNCHANGED <<installed, backup>>
       /\ upgrade' = [upgrade EXCEPT !.at = next, !.rollbackFailed = TRUE]

\* Mutant of RestorePair: only the main binary is restored.
RestoreMain ==
    /\ AtStep("restore") /\ Restores("yokai", "ended") /\ staged' = {} /\ OnlyFiles

RestorePair ==
    /\ \/ /\ AtStep("restore")
          /\ Restores("yokai", IF upgrade.hadTUI THEN "restore tui" ELSE "ended")
       \/ AtStep("restore tui") /\ Restores("yokai-tui", "ended")
    /\ staged' = (IF upgrade'.at = "ended" THEN {} ELSE staged) /\ OnlyFiles

\* Errors of the removal are not looked at.
DropBackups ==
    /\ AtStep("drop backups") /\ Step("look")
    /\ \E kept \in SUBSET Binaries :
         backup' = [b \in Binaries |-> IF b \in kept THEN backup[b] ELSE "none"]
    /\ UNCHANGED <<installed, staged, upgradeFaults>> /\ OnlyFiles

-----------------------------------------------------------------------------
\* restartRunningDaemon.

\* findDaemonPIDByPort: whoever has the port, unless its files may not be read.
ByPort == IF linux THEN {listening, NoProcess} ELSE {NoProcess}

\* daemonPIDLooksOwned: an argument "daemon", whatever the program, or the port.
Owned(p, holder) == linux /\ (process[p].kind \in {"daemon", "alike"} \/ holder = p)

FromPidFile(holder) == IF pidFile \in InUse /\ Owned(pidFile, holder) THEN pidFile ELSE NoProcess

\* The PID file comes first, then whoever has the port, where that can be found.
LookForDaemon ==
    /\ AtStep("look")
    /\ \E holder \in ByPort :
         LET found == IF FromPidFile(holder) # NoProcess THEN FromPidFile(holder) ELSE holder
         IN upgrade' = [upgrade EXCEPT
              !.at = IF found # NoProcess THEN "terminate" ELSE "ended", \* none, or not to be stopped
              !.pid = found, !.seen = Daemons]
    /\ OnlyUpgrade /\ UNCHANGED upgradeFaults

Dies(p) ==
    /\ process' = [process EXCEPT ![p] = NoProcess]
    /\ listening' = IF listening = p THEN NoProcess ELSE listening

\* SIGTERM: a daemon that serves shuts down, a foreign program may ignore it.
Signal(p) ==
    IF process[p] = NoProcess THEN UNCHANGED <<process, listening>>
    ELSE IF process[p].kind = "daemon" /\ process[p].at \in {"serving", "stopping", "draining"}
    THEN /\ process' = [process EXCEPT ![p].at = IF @ = "serving" THEN "stopping" ELSE @]
         /\ UNCHANGED listening
    ELSE Dies(p) \/ (p \in Foreign /\ UNCHANGED <<process, listening>>)

Terminate ==
    /\ AtStep("terminate") /\ Signal(upgrade.pid) /\ Step("await exit")
    /\ UNCHANGED <<fileVars, pidFile, linux, launching, spawns, upgrades, upgradeFaults>>

\* waitForExit, eight seconds.
AwaitExit ==
    /\ AtStep("await exit") /\ OnlyUpgrade
    /\ \/ process[upgrade.pid] = NoProcess /\ Step("start") /\ UNCHANGED upgradeFaults
       \/ process[upgrade.pid] # NoProcess /\ Step("ended") /\ UNCHANGED upgradeFaults

Spawns(p, kind, version) ==
    /\ p \notin InUse /\ spawns < MaxSpawns /\ spawns' = spawns + 1
    /\ process' = [process EXCEPT ![p] = [kind |-> kind, version |-> version, at |-> "boot"]]

StartNewDaemon ==
    /\ AtStep("start")
    /\ \/ /\ installed["yokai"] # "none"
          /\ \E p \in Pids : Spawns(p, "daemon", installed["yokai"])
          /\ Step("await health") /\ UNCHANGED upgradeFaults
       \/ Step("ended") /\ Errs /\ UNCHANGED <<process, spawns>>
    /\ UNCHANGED <<fileVars, pidFile, listening, linux, launching, upgrades>>

\* waitForDaemon, ten seconds: whoever has the port may be the one that answers.
AwaitHealth ==
    /\ AtStep("await health") /\ OnlyUpgrade /\ UNCHANGED upgradeFaults
    /\ \/ listening # NoProcess /\ Step("restarted")
       \/ ~Healthy /\ Step("ended")

\* The command is killed, or the machine stops, between two steps.
UpgradeKilled ==
    /\ upgrade.at \notin {"idle", "restarted", "ended"} /\ Step("idle") /\ Errs
    /\ OnlyUpgrade

-----------------------------------------------------------------------------
\* Daemons, from Run to its return.

DaemonAt(p, s) == p \in Daemons /\ process[p].at = s
DaemonTo(p, s) == process' = [process EXCEPT ![p].at = s]
OnlyDaemon == UNCHANGED <<fileVars, upgrade, linux, launching, spawns, upgrades>>

WritePidFile(p) ==
    /\ DaemonAt(p, "boot") /\ DaemonTo(p, "startup")
    /\ \/ pidFile' = p /\ UNCHANGED upgradeFaults
       \/ UNCHANGED pidFile /\ Errs
    /\ UNCHANGED listening /\ OnlyDaemon

\* A port that is taken ends the process and leaves its PID file; an error before
\* removes the file.
Serve(p) ==
    /\ DaemonAt(p, "startup")
    /\ \/ /\ listening = NoProcess /\ listening' = p /\ DaemonTo(p, "serving")
          /\ UNCHANGED <<pidFile, upgradeFaults>>
       \/ listening # NoProcess /\ Dies(p) /\ UNCHANGED <<pidFile, upgradeFaults>>
       \/ Dies(p) /\ pidFile' = NoProcess /\ Errs
    /\ OnlyDaemon

\* SIGTERM from outside.
AskedToStop(p) ==
    /\ DaemonAt(p, "serving") /\ DaemonTo(p, "stopping") /\ Errs
    /\ UNCHANGED <<pidFile, listening>> /\ OnlyDaemon

\* The port is free before the last requests have ended.
Drain(p) ==
    /\ DaemonAt(p, "stopping") /\ DaemonTo(p, "draining")
    /\ listening' = (IF listening = p THEN NoProcess ELSE listening)
    /\ UNCHANGED <<pidFile, upgradeFaults>> /\ OnlyDaemon

\* RemovePidFile, whoever wrote it last.
DaemonReturns(p) ==
    /\ DaemonAt(p, "draining") /\ Dies(p) /\ pidFile' = NoProcess
    /\ UNCHANGED upgradeFaults /\ OnlyDaemon

DaemonKilled(p) ==
    /\ p \in Daemons /\ Dies(p) /\ Errs /\ UNCHANGED pidFile /\ OnlyDaemon

\* Another program, under the ID of a process that is gone.
OtherStarts(p) ==
    /\ \E kind \in {"alike", "other"} : Spawns(p, kind, "old")
    /\ UNCHANGED <<fileVars, upgrade, pidFile, listening, linux, launching, upgrades, upgradeFaults>>

\* It takes the daemon's port, and ends.
OtherListens(p) ==
    /\ p \in Foreign /\ listening = NoProcess /\ listening' = p
    /\ UNCHANGED <<process, pidFile, upgradeFaults>> /\ OnlyDaemon

OtherEnds(p) ==
    /\ p \in Foreign /\ Dies(p)
    /\ UNCHANGED <<pidFile, upgradeFaults>> /\ OnlyDaemon

\* ensureDaemonRunning; a daemon that is slow to answer is taken for none.
LaunchDaemon ==
    /\ \/ /\ ~launching /\ launching' = TRUE
          /\ IF Healthy THEN Errs ELSE UNCHANGED upgradeFaults
          /\ UNCHANGED <<process, spawns>>
       \/ /\ launching /\ launching' = FALSE /\ installed["yokai"] # "none"
          /\ \E p \in Pids : Spawns(p, "daemon", installed["yokai"])
          /\ UNCHANGED upgradeFaults
    /\ UNCHANGED <<fileVars, upgrade, pidFile, listening, linux, upgrades>>

-----------------------------------------------------------------------------
UpgradeInit ==
    /\ installed \in {[b \in Binaries |-> "old"],
                      [b \in Binaries |-> IF b = "yokai" THEN "old" ELSE "none"]}
    /\ backup = [b \in Binaries |-> "none"] /\ staged = {}
    /\ upgrade = [at |-> "idle", own |-> "old", before |-> installed, hadTUI |-> TRUE,
                  pid |-> NoProcess, seen |-> {}, rollbackFailed |-> FALSE]
    /\ process = [p \in Pids |-> NoProcess]
    /\ pidFile = NoProcess /\ listening = NoProcess /\ linux \in BOOLEAN
    /\ launching = FALSE /\ spawns = 0 /\ upgrades = 0 /\ upgradeFaults = 0

Install ==
    \/ StageBinaries \/ BackUp \/ BackUpTUI \/ InstallBinary \/ InstallTUI
    \/ UndoInstall \/ RestorePair \/ DropBackups

RestartDaemon ==
    LookForDaemon \/ Terminate \/ AwaitExit \/ StartNewDaemon \/ AwaitHealth

DaemonStep(p) ==
    \/ WritePidFile(p) \/ Serve(p) \/ AskedToStop(p) \/ Drain(p) \/ DaemonReturns(p)
    \/ DaemonKilled(p) \/ OtherStarts(p) \/ OtherListens(p) \/ OtherEnds(p)

UpgradeNext ==
    \/ BeginUpgrade \/ Check \/ Fetch \/ Unpack \/ Install \/ RestartDaemon \/ UpgradeKilled
    \/ \E p \in Pids : DaemonStep(p)
    \/ LaunchDaemon

UpgradeSpec == UpgradeInit /\ [][UpgradeNext]_upgradeVars

-----------------------------------------------------------------------------
\* Properties.

UpgradeTypeOK ==
    /\ installed \in [Binaries -> Version] /\ backup \in [Binaries -> Version]
    /\ staged \subseteq Binaries /\ upgrade \in UpgradeRun
    /\ upgrade.at \in {"terminate", "await exit"} => upgrade.pid \in Pids
    /\ process \in [Pids -> Process \cup {NoProcess}]
    /\ pidFile \in Pids \cup {NoProcess} /\ listening \in InUse \cup {NoProcess}
    /\ linux \in BOOLEAN /\ launching \in BOOLEAN
    /\ spawns \in Nat /\ upgrades \in Nat /\ upgradeFaults \in Nat

\* installUpdatePairWithOps: an installation that ends by itself leaves the new pair
\* or the pair it found, unless its rollback failed as well.
PairWholeOrKept ==
    [][upgrade'.at # upgrade.at /\ upgrade'.at \in {"ended", "look"} /\ ~upgrade'.rollbackFailed
       => \/ installed' = upgrade.before
          \/ \A b \in Binaries : installed'[b] = "new"]_upgradeVars

\* At no instant, wherever the command fails or is killed, is a binary of the pair
\* it found lost before the new pair is in place.
OldPairKept ==
    (\E b \in Binaries : installed[b] # "new")
      => \A b \in Binaries : upgrade.before[b] \in {installed[b], backup[b], "none"}

\* restartRunningDaemon: "so a fresh install takes effect without a manual restart".
\* When it says so, a daemon that has the port runs the new binary, whatever else
\* started, ended or took IDs and the port meanwhile, provided the process it stopped
\* was the only daemon alive when it looked: what it finds may be a foreign program.
RestartTakesEffect ==
    AtStep("restarted") /\ upgrade.seen \subseteq {upgrade.pid} /\ Healthy
      => process[listening].version = "new"

\* Wherever an upgrade fails or is killed the old pair can be put back, and a restart
\* it reports took effect (installUpdatePairWithOps, restartRunningDaemon).
UpgradeSafety ==
    UpgradeTypeOK /\ OldPairKept /\ RestartTakesEffect
=============================================================================
