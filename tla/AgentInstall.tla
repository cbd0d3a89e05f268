----------------------------- MODULE AgentInstall -----------------------------
(***************************************************************************)
(* Installing and upgrading the agent on one device over SSH: bootstraps   *)
(* of the daemon and of the command line, and upgrades, each a sequence of *)
(* remote commands that may break off, against services, processes and     *)
(* files of the device.  All of them upload to one temporary file.         *)
(*                                                                         *)
(* An operation's number stands for the binary it uploads and for the      *)
(* token it generates; 0 is what was there before.                         *)
(***************************************************************************)
EXTENDS Naturals, FiniteSets

CONSTANTS
    Operators,
    Missing,         \* no file, no agent, no stack
    MaxOperations,   \* bound on operations
    MaxInstallFaults \* bound on failures and crashes

ASSUME InstallAssumption == MaxOperations \in Nat /\ MaxInstallFaults \in Nat

VARIABLES
    upload,      \* /tmp/yokai.new: [by, whole] or Missing
    binary,      \* [Modes -> operation, Part (of one), or Missing]
    agentConfig, \* [Modes -> token or Missing], agent.json
    unit,        \* [Modes -> state of the service]
    agent,       \* who has the port: [mode, binary, token, dying] or Missing
    stack,       \* token the monitoring stack scrapes with, or Missing
    known,       \* the daemon's record of the device: [token, monitoring]
    working,     \* [Operators -> operation in progress]
    systemdUser, \* services of a user are available
    operations,
    overlapped,  \* operations that ran while another one did
    unsettled,   \* an operation broke off after it had changed the agent's configuration
    cutShort,    \* modes whose binary an install that broke off was the last to change
    staleStack,  \* the command line gave the device a token since the stack was deployed
    installFaults

installVars == <<upload, binary, agentConfig, unit, agent, stack, known, working, systemdUser,
                 operations, overlapped, unsettled, cutShort, staleStack, installFaults>>
hostFiles == <<upload, binary, agentConfig, cutShort>>
records == <<known, unsettled, staleStack>>

-----------------------------------------------------------------------------
Modes == {"user", "system"}
Operation == 0 .. MaxOperations
Part == MaxOperations + 1
Uploaded == [by: Operation, whole: BOOLEAN]
AnsweringAgent == [mode: {"user", "system", "bare"}, binary: Operation, token: Operation \cup {Missing},
           dying: BOOLEAN]
OperationSteps ==
    {"locate", "upload", "uploading", "mode", "install", "configure", "kill", "restart", "verify",
     "inventory", "monitor", "save", "services"}
InProgress == [kind: {"bootstrap", "cli", "upgrade"}, at: OperationSteps, id: Operation, token: Operation,
               mode: Modes, stack: BOOLEAN]   \* stack: to be deployed, or as recorded
Rested == [at |-> "rest"]

\* What is not there is not taken for a binary, a token, an upload or an agent.
ASSUME MissingAssumption == Missing \notin Operation \cup {Part} \cup Uploaded \cup AnsweringAgent

DoesStep(o, s) == working[o].at = s
NextStep(o, s) == working' = [working EXCEPT ![o].at = s]
Completes(o) == working' = [working EXCEPT ![o] = Rested]
Busy == {o \in Operators : ~DoesStep(o, "rest")}
Fails == installFaults < MaxInstallFaults /\ installFaults' = installFaults + 1
Bootstraps(o) == working[o].kind # "upgrade"

\* An error, or a connection that is lost.
BreaksOff(o) == Completes(o) /\ Fails
BothInstalled == \A m \in Modes : unit[m] # "none"

Idle(vars) == UNCHANGED <<vars, systemdUser, operations, overlapped>>

-----------------------------------------------------------------------------
\* The device.

\* An agent starts if its binary is whole and the port is free; without a
\* configuration it takes every token.
Starts(m, bin, now) ==
    IF now # Missing \/ binary[bin] \in {Missing, Part} THEN now
    ELSE [mode |-> m, binary |-> binary[bin], token |-> agentConfig[bin], dying |-> FALSE]

StoppedAgent(m) == IF agent # Missing /\ agent.mode = m THEN Missing ELSE agent

AgentCrashes ==
    /\ agent # Missing
    /\ IF agent.dying THEN UNCHANGED installFaults ELSE Fails
    /\ agent' = Missing
    /\ Idle(<<hostFiles, unit, stack, working, records>>)

\* Restart=always, and a reboot.
UnitStarts(m) ==
    /\ unit[m] = "enabled" /\ agent = Missing /\ (m = "user" => systemdUser)
    /\ agent' = Starts(m, m, agent) /\ agent' # agent
    /\ Idle(<<hostFiles, unit, stack, working, records, installFaults>>)

-----------------------------------------------------------------------------
\* Operations.

Starting(o, kind, first, token, withStack) ==
    /\ DoesStep(o, "rest") /\ operations < MaxOperations /\ operations' = operations + 1
    /\ working' = [working EXCEPT ![o] =
         [kind |-> kind, at |-> first, id |-> operations', token |-> token, mode |-> "user",
          stack |-> withStack]]
    /\ overlapped' = IF Busy = {} THEN overlapped
                     ELSE overlapped \cup {operations'} \cup {working[b].id : b \in Busy}
    /\ UNCHANGED <<hostFiles, unit, agent, stack, records, systemdUser, installFaults>>

\* The checks before are passed; the token is a new one or that of the request.
BeginBootstrap(o, token, withStack) ==
    /\ token \in {operations + 1, known.token}
    /\ Starting(o, "bootstrap", "upload", token, withStack)

\* The command line: always a new token, and the rest of the record as it is loaded.
BeginCliBootstrap(o) == Starting(o, "cli", "upload", operations + 1, known.monitoring)

BeginAgentUpgrade(o) == Starting(o, "upgrade", "locate", known.token, known.monitoring)

\* pgrep: the path of the agent that runs.
Locate(o) ==
    /\ DoesStep(o, "locate")
    /\ IF agent = Missing THEN Completes(o)
       ELSE working' = [working EXCEPT ![o].at = "upload",
                                      ![o].mode = IF agent.mode = "system" THEN "system" ELSE "user"]
    /\ Idle(<<hostFiles, unit, agent, stack, records, installFaults>>)

\* Mutant of UploadBinary: the error of the transfer is not looked at.
UploadUnchecked(o) ==
    /\ \/ /\ DoesStep(o, "upload") /\ upload' = [by |-> working[o].id, whole |-> FALSE]
          /\ NextStep(o, "uploading") /\ UNCHANGED installFaults
       \/ /\ DoesStep(o, "uploading") /\ NextStep(o, IF Bootstraps(o) THEN "mode" ELSE "install")
          /\ \/ upload' = [by |-> working[o].id, whole |-> TRUE] /\ UNCHANGED installFaults
             \/ UNCHANGED upload /\ Fails
    /\ Idle(<<binary, agentConfig, cutShort, unit, agent, stack, records>>)

\* scp truncates the file and fills it; one that another operation has begun anew
\* is no longer this one's.
UploadBinary(o) ==
    LET mine == upload # Missing /\ upload.by = working[o].id IN
    /\ \/ /\ DoesStep(o, "upload") /\ upload' = [by |-> working[o].id, whole |-> FALSE]
          /\ NextStep(o, "uploading") /\ UNCHANGED installFaults
       \/ /\ DoesStep(o, "uploading") /\ NextStep(o, IF Bootstraps(o) THEN "mode" ELSE "install")
          /\ upload' = IF mine THEN [upload EXCEPT !.whole = TRUE] ELSE upload
          /\ UNCHANGED installFaults
       \/ /\ DoesStep(o, "uploading") /\ BreaksOff(o)
          /\ upload' \in IF mine THEN {upload, [upload EXCEPT !.whole = TRUE]} ELSE {upload}
    /\ Idle(<<binary, agentConfig, cutShort, unit, agent, stack, records>>)

\* hasSystemService; a service of the user is disabled before sudo is tried.
ChooseMode(o) ==
    /\ DoesStep(o, "mode")
    /\ IF unit["system"] # "none"
       THEN /\ unit' = [unit EXCEPT !["user"] = IF @ = "enabled" THEN "disabled" ELSE @]
            /\ agent' = StoppedAgent("user")
            /\ \/ working' = [working EXCEPT ![o].at = "install", ![o].mode = "system"]
                  /\ UNCHANGED installFaults
               \/ BreaksOff(o)
       ELSE NextStep(o, "install") /\ UNCHANGED <<unit, agent, installFaults>>
    /\ Idle(<<hostFiles, stack, records>>)

\* A system service gets a copy, the user and an upgrade the file itself.  Copies and
\* moves between file systems that break off may leave nothing, a part or all of it.
PlaceBinary(o) ==
    LET m == working[o].mode
        uploaded == IF upload.whole THEN upload.by ELSE Part
        Placed(b) == binary' = [binary EXCEPT ![m] = b]
        Taken == upload' = IF m = "system" /\ Bootstraps(o) THEN upload ELSE Missing
    IN /\ DoesStep(o, "install")
       /\ \/ /\ upload # Missing /\ Placed(uploaded) /\ Taken /\ cutShort' = cutShort \ {m}
             /\ NextStep(o, IF Bootstraps(o) THEN "configure" ELSE "kill") /\ UNCHANGED installFaults
          \/ upload = Missing /\ Completes(o) /\ UNCHANGED <<binary, upload, cutShort, installFaults>>
          \/ /\ upload # Missing /\ BreaksOff(o)
             /\ \/ UNCHANGED <<binary, upload, cutShort>>
                \/ /\ cutShort' = cutShort \cup {m}
                   /\ \/ \E b \in {Missing, Part} : Placed(b) /\ UNCHANGED upload
                      \/ Placed(uploaded) /\ Taken
       /\ Idle(<<agentConfig, unit, agent, stack, records>>)

Configure(o) ==
    /\ DoesStep(o, "configure")
    /\ \/ /\ agentConfig' = [agentConfig EXCEPT ![working[o].mode] = working[o].token]
          /\ NextStep(o, "kill") /\ UNCHANGED <<unsettled, installFaults>>
       \/ /\ agentConfig' \in {agentConfig, [agentConfig EXCEPT ![working[o].mode] = working[o].token]}
          /\ BreaksOff(o) /\ unsettled' = TRUE
    /\ Idle(<<upload, binary, cutShort, unit, agent, stack, known, staleStack>>)

\* How the agent is restarted: a bootstrap knows its mode, an upgrade takes the
\* first service it finds.
Manager(o) ==
    IF Bootstraps(o) THEN IF working[o].mode = "user" /\ ~systemdUser THEN "bare" ELSE working[o].mode
    ELSE IF unit["user"] # "none" /\ systemdUser THEN "user"
    ELSE IF unit["system"] # "none" THEN "system" ELSE "bare"

\* Without a service manager the agent is killed, and half a second is all it has.
Kill(o) ==
    /\ DoesStep(o, "kill") /\ NextStep(o, "restart")
    /\ agent' = IF Manager(o) = "bare" /\ agent # Missing /\ agent.mode # "system"
                THEN [agent EXCEPT !.dying = TRUE] ELSE agent
    /\ Idle(<<hostFiles, unit, stack, records, installFaults>>)

AfterRestart(m, bin) == IF m = "bare" THEN Starts(m, bin, agent) ELSE Starts(m, m, StoppedAgent(m))

\* Mutant of RestartAgent: the service is enabled but not restarted.
RestartOnlyStarts(o) ==
    LET m == Manager(o) IN
    /\ DoesStep(o, "restart")
    /\ unit' = IF m = "bare" THEN unit ELSE [unit EXCEPT ![m] = "enabled"]
    /\ agent' = Starts(m, working[o].mode, agent)
    /\ NextStep(o, "verify")
    /\ Idle(<<hostFiles, stack, records, installFaults>>)

\* A restart that breaks off may have been done, or stopped the service only.
RestartAgent(o) ==
    LET m == Manager(o)
        enabled == IF m = "bare" \/ (~Bootstraps(o) /\ unit[m] = "disabled") THEN unit
                   ELSE [unit EXCEPT ![m] = "enabled"]
        restarted == AfterRestart(m, working[o].mode)
    IN /\ DoesStep(o, "restart")
       /\ \/ /\ unit' = enabled /\ agent' = restarted
             /\ NextStep(o, "verify") /\ UNCHANGED <<unsettled, installFaults>>
          \/ /\ \/ UNCHANGED <<unit, agent>>
                \/ unit' = enabled /\ agent' \in {agent, StoppedAgent(m), restarted}
             /\ BreaksOff(o) /\ unsettled' = (unsettled \/ Bootstraps(o))
       /\ Idle(<<hostFiles, stack, known, staleStack>>)

\* After a second and a half a bootstrap asks with its token, an upgrade for health.
Verify(o) ==
    LET accepted == agent # Missing /\ (Bootstraps(o) => agent.token \in {working[o].token, Missing}) IN
    /\ DoesStep(o, "verify")
    /\ \/ accepted /\ NextStep(o, "inventory") /\ UNCHANGED unsettled
       \/ ~accepted /\ Completes(o) /\ unsettled' = (unsettled \/ Bootstraps(o))
    /\ Idle(<<hostFiles, unit, agent, stack, known, staleStack, installFaults>>)

\* The daemon's bootstrap deploys monitoring when asked to, the command line's never,
\* an upgrade when the record says so or the list of containers has it.
Inventory(o) ==
    LET monitors == /\ working[o].kind # "cli"
                    /\ working[o].stack \/ (~Bootstraps(o) /\ stack # Missing)
    IN /\ DoesStep(o, "inventory")
       /\ \/ /\ NextStep(o, IF monitors THEN "monitor" ELSE IF Bootstraps(o) THEN "save" ELSE "services")
             /\ UNCHANGED installFaults
          \/ ~Bootstraps(o) /\ BreaksOff(o)
       /\ Idle(<<hostFiles, unit, agent, stack, records>>)

\* deployMonitoringStack: files, pull, removal of the containers, compose up, the
\* firewall.  An error, which may leave the stack up, ends an upgrade, and a bootstrap
\* goes on without.
DeployStack(o) ==
    /\ DoesStep(o, "monitor")
    /\ \/ /\ stack' = working[o].token /\ staleStack' = FALSE /\ UNCHANGED installFaults
          /\ NextStep(o, IF Bootstraps(o) \/ ~working[o].stack THEN "save" ELSE "services")
       \/ /\ stack' \in {stack, Missing, working[o].token} /\ Fails /\ UNCHANGED staleStack
          /\ IF Bootstraps(o) THEN working' = [working EXCEPT ![o].at = "save", ![o].stack = FALSE]
             ELSE Completes(o)
    /\ Idle(<<hostFiles, unit, agent, known, unsettled>>)

\* The record of the device is written last: by the daemon's bootstrap with what came
\* of monitoring, by the command line's with what it loaded (the daemon then loads
\* the file), by an upgrade with monitoring noted.
SaveDevice(o) ==
    /\ DoesStep(o, "save")
    /\ \/ /\ IF Bootstraps(o)
             THEN /\ known' = [token |-> working[o].token, monitoring |-> working[o].stack]
                  /\ unsettled' = FALSE /\ Completes(o)
             ELSE /\ known' = [known EXCEPT !.monitoring = TRUE]
                  /\ NextStep(o, "services") /\ UNCHANGED unsettled
          /\ staleStack' = (staleStack \/ working[o].kind = "cli")
          /\ UNCHANGED installFaults
       \/ BreaksOff(o) /\ UNCHANGED <<known, staleStack>> /\ unsettled' = (unsettled \/ Bootstraps(o))
    /\ Idle(<<hostFiles, unit, agent, stack>>)

\* An upgrade ends with the services of the device, which are other containers.
EnsureServices(o) ==
    /\ DoesStep(o, "services")
    /\ (Completes(o) /\ UNCHANGED installFaults) \/ BreaksOff(o)
    /\ Idle(<<hostFiles, unit, agent, stack, records>>)

-----------------------------------------------------------------------------
\* The units are those of an earlier installation; the code never writes the
\* system's.
InstallInit ==
    /\ upload = Missing /\ systemdUser \in BOOLEAN
    /\ \E present \in SUBSET Modes :
         /\ "user" \in present => systemdUser
         /\ unit = [m \in Modes |-> IF m \in present THEN "enabled" ELSE "none"]
         /\ binary = [m \in Modes |-> IF m \in present THEN 0 ELSE Missing]
         /\ agentConfig = [m \in Modes |-> IF m \in present THEN 0 ELSE Missing]
    /\ agent = Missing /\ stack = Missing /\ known = [token |-> 0, monitoring |-> FALSE]
    /\ working = [o \in Operators |-> Rested]
    /\ operations = 0 /\ overlapped = {} /\ unsettled = FALSE /\ cutShort = {} /\ staleStack = FALSE
    /\ installFaults = 0

OperatorStep(o) ==
    \/ \E token \in Operation, withStack \in BOOLEAN : BeginBootstrap(o, token, withStack)
    \/ BeginCliBootstrap(o) \/ BeginAgentUpgrade(o)
    \/ Locate(o) \/ UploadBinary(o) \/ ChooseMode(o) \/ PlaceBinary(o) \/ Configure(o)
    \/ Kill(o) \/ RestartAgent(o) \/ Verify(o) \/ Inventory(o) \/ DeployStack(o) \/ SaveDevice(o)
    \/ EnsureServices(o)

InstallNext ==
    \/ AgentCrashes
    \/ \E m \in Modes : UnitStarts(m)
    \/ \E o \in Operators : OperatorStep(o)

InstallSpec == InstallInit /\ [][InstallNext]_installVars

-----------------------------------------------------------------------------
\* Properties.

InstallTypeOK ==
    /\ upload \in Uploaded \cup {Missing}
    /\ binary \in [Modes -> Operation \cup {Part, Missing}]
    /\ agentConfig \in [Modes -> Operation \cup {Missing}]
    /\ unit \in [Modes -> {"none", "disabled", "enabled"}]
    /\ agent \in AnsweringAgent \cup {Missing} /\ stack \in Operation \cup {Missing}
    /\ known \in [token: Operation, monitoring: BOOLEAN]
    /\ working \in [Operators -> InProgress \cup {Rested}]
    /\ systemdUser \in BOOLEAN /\ operations \in Operation /\ overlapped \subseteq Operation
    /\ unsettled \in BOOLEAN /\ cutShort \subseteq Modes /\ staleStack \in BOOLEAN
    /\ installFaults \in Nat

Alone == overlapped = {} /\ ~BothInstalled

\* verifyAgentAuth ("token mismatch or agent unavailable"): between operations the
\* agent takes the token the daemon has for it, across crashes, restarts, failed
\* and repeated bootstraps, unless one broke off after it had rewritten the agent's
\* configuration, two overlapped, or the device has an installation of either kind.
KnownTokenWorks ==
    Alone /\ ~unsettled /\ Busy = {} /\ agent # Missing => agent.token \in {known.token, Missing}

\* UpgradeAgent: where a service manager restarts the agent, an upgrade that
\* succeeds leaves no old binary running.
UpgradeRunsNew ==
    [][\A o \in Operators :
         DoesStep(o, "verify") /\ ~Bootstraps(o) /\ working'[o].at = "inventory"
         /\ Alone /\ Manager(o) # "bare" => agent.binary = working[o].id]_installVars

\* Operations that do not overlap never install a binary that was uploaded in part,
\* whatever transfers broke off before: a part in the agent's place is what an
\* install that broke off has left, and the next one that does not replaces it.
InstalledWhole == overlapped = {} => \A m \in Modes : binary[m] = Part => m \in cutShort

\* When the daemon's record says that monitoring is installed, the stack, if it
\* runs, scrapes with the token of the record, under the same provisos and unless a
\* bootstrap from the command line has replaced the token since the stack was
\* deployed: that one saves a new token and leaves stack and record of it alone
\* (cli/devices.go:301-313).
ScrapeTokenAgrees ==
    overlapped = {} /\ ~unsettled /\ Busy = {} /\ known.monitoring /\ ~staleStack
      => stack \in {known.token, Missing}

\* Binary, configuration, running agent, saved token and scraping stack of a host
\* fit each other after operations that failed at any command (deployAgent,
\* UpgradeAgent, handleBootstrapDevice).
InstallSafety ==
    InstallTypeOK /\ KnownTokenWorks /\ ScrapeTokenAgrees /\ InstalledWhole
=============================================================================
