---------------------------- MODULE EditorSettings ----------------------------
(***************************************************************************)
(* POST /integrations/configure: the daemon looks for the inference        *)
(* services that answer and writes them into the settings of one tool      *)
(* (VS Code, Claude Code, Codex, OpenCode or OpenClaw).                    *)
(*                                                                         *)
(* The five packages write alike: read the settings, copy them to          *)
(* `.yokai.bak`, write `.tmp`, rename it.  Nothing keeps two requests      *)
(* apart, or a request and the user, who edits the same file: `fd` says    *)
(* where the file a request has open is now.  A settings file is told by   *)
(* what the user wrote in it, the endpoints it names and whether OpenCode's*)
(* former format is in it.                                                 *)
(***************************************************************************)
EXTENDS Integers, FiniteSets, Sequences

CONSTANTS
    Addresses,           \* host and port of a service
    Requests,            \* requests that may be served at the same time
    OwnSettings,         \* what the user may write in the file ...
    Clashing,            \* ... of it, what is under keys or providers Yokai has for its own
    Comments,            \* ... and comments
    NoSettings,          \* there is no file
    Blank, Mixed,        \* a file just truncated, a file of two writes
    MaxConfigures,       \* bound on requests
    MaxShifts,           \* bound on services that start or stop answering
    MaxEdits,            \* bound on the user's edits
    MaxSettingsFaults    \* bound on failed writes and crashes of the daemon

VARIABLES
    tool,                \* whose settings they are
    settings, copy, draft, \* the file, its .yokai.bak and its .tmp
    answering,           \* services that answer GET /v1/models
    configure,           \* the requests in progress
    written,             \* what the user ever wrote (history)
    raced,               \* of it, what was written while a request held an older copy
    crowded,             \* whether two requests were ever in the file at a time
    configures, shifts, edits, settingsFaults

SeqExt == INSTANCE SequencesExt

settingsFiles == <<settings, copy, draft>>
settingsBounds == <<configures, shifts, edits, settingsFaults>>
settingsVars ==
    <<tool, settingsFiles, answering, configure, written, raced, crowded, settingsBounds>>

-----------------------------------------------------------------------------
Tools == {"vscode", "claudecode", "codex", "opencode", "openclaw"}
Whole == [own: SUBSET OwnSettings, yokai: SUBSET Addresses, legacy: BOOLEAN]
SettingsFiles == Whole \cup {NoSettings, Blank, Mixed}
Fresh == [own |-> {}, yokai |-> {}, legacy |-> FALSE]

\* There are finitely many services, and what stands for a file that is missing or
\* not whole is no whole file.
ASSUME SettingsAssumption ==
    /\ Clashing \cup Comments \subseteq OwnSettings
    /\ IsFiniteSet(Addresses) /\ NoSettings \notin {Blank, Mixed} /\ Blank # Mixed
    /\ {NoSettings, Blank, Mixed} \cap Whole = {}

Labels == {"idle", "probe", "migrate", "read", "backup", "fill", "open", "write", "rename"}
Nothing == [pc |-> "idle", left |-> <<>>, found |-> <<>>, held |-> NoSettings, next |-> Fresh,
            fd |-> "none", migrating |-> FALSE, answered |-> {}, steady |-> {}]

RequestOK(r) ==
    /\ r.pc \in Labels /\ r.fd \in {"none", "draft", "settings", "gone"}
    /\ r.left \in SeqExt!SetToAllKPermutations(Addresses) /\ r.found \in SeqExt!SetToAllKPermutations(Addresses)
    /\ r.held \in SettingsFiles /\ r.next \in Whole /\ r.migrating \in BOOLEAN
    /\ r.answered \subseteq Addresses /\ r.steady \subseteq Addresses

InFile(r) == r.pc \in Labels \ {"idle", "probe"}
Holds(r) == r.pc \in {"backup", "fill", "open", "write", "rename"}
Proceeds(r, label) == configure' = [configure EXCEPT ![r].pc = label]
Ends(r) == configure' = [configure EXCEPT ![r] = Nothing]
Unmoved == UNCHANGED <<tool, answering, written, raced, configures, shifts, edits>>

SettingsInit ==
    /\ tool \in Tools
    /\ settings \in {NoSettings}
         \cup {[own |-> o, yokai |-> y, legacy |-> l] :
                 o \in {OwnSettings, OwnSettings \ Comments}, y \in {{}, Addresses}, l \in {tool = "opencode"}}
    /\ copy = NoSettings /\ draft = NoSettings
    /\ answering \in SUBSET Addresses
    /\ configure = [r \in Requests |-> Nothing]
    /\ written = (IF settings = NoSettings THEN {} ELSE settings.own)
    /\ raced = {} /\ crowded = FALSE
    /\ configures = 0 /\ shifts = 0 /\ edits = 0 /\ settingsFaults = 0

-----------------------------------------------------------------------------
\* discoverOpenAIEndpoints: the configured services, then the containers of the
\* last poll on ports no service claims, are probed one after the other.
Candidates(configured, live) == SeqExt!SetToSeqs(configured) \X SeqExt!SetToSeqs(live \ configured)

ConfigureTool(r, configured, live) ==
    /\ configure[r].pc = "idle" /\ configures < MaxConfigures
    /\ \E c \in Candidates(configured, live) :
         configure' = [configure EXCEPT ![r] =
             [Nothing EXCEPT !.pc = "probe", !.left = c[1] \o c[2],
                             !.answered = answering,
                             !.steady = (configured \cup live) \cap answering]]
    /\ configures' = configures + 1
    /\ UNCHANGED <<tool, settingsFiles, answering, written, raced, crowded, shifts, edits,
                   settingsFaults>>

\* Mutant of Probed: a configured service is taken to answer.
ProbedOnTrust(c) == [c EXCEPT !.left = Tail(@), !.found = Append(@, Head(c.left))]

\* resolveOpenAIModelIDs: a service that does not answer is passed over.
Probed(c) ==
    [c EXCEPT !.left = Tail(@),
              !.found = IF Head(c.left) \in answering THEN Append(@, Head(c.left)) ELSE @]

Probe(r) ==
    /\ configure[r].pc = "probe" /\ configure[r].left # <<>>
    /\ configure' = [configure EXCEPT ![r] = Probed(@)]
    /\ Unmoved /\ UNCHANGED <<settingsFiles, crowded, settingsFaults>>

\* No endpoints, no change; OpenCode's former format is looked at first.
Discovered(r) ==
    /\ configure[r].pc = "probe" /\ configure[r].left = <<>>
    /\ \/ configure[r].found = <<>> /\ Ends(r) /\ UNCHANGED crowded
       \/ /\ configure[r].found # <<>>
          /\ Proceeds(r, IF tool = "opencode" THEN "migrate" ELSE "read")
          /\ crowded' = (crowded \/ \E o \in Requests \ {r} : InFile(configure[o]))
    /\ Unmoved /\ UNCHANGED <<settingsFiles, settingsFaults>>

-----------------------------------------------------------------------------
\* What each package makes of the settings it read.

Found(c) == {c.found[i] : i \in DOMAIN c.found}

\* VS Code's list of models gains the endpoints it does not name yet; comments go
\* with the parse (hujson), as they do with Claude Code's, and Codex's in TOML.
VSCodeAdded(file, c) == [file EXCEPT !.own = @ \ Comments, !.yokai = @ \cup Found(c)]

\* Claude Code and Codex are told of the first endpoint, which takes the place of
\* the one before: the model, its environment and its provider are Yokai's then.
ClaudeCodeAdded(file, c) ==
    [file EXCEPT !.own = @ \ (Comments \cup Clashing), !.yokai = {c.found[1]}]
CodexAdded(file, c) ==
    [file EXCEPT !.own = @ \ (Comments \cup Clashing), !.yokai = {c.found[1]}]

\* Mutant of OpenClawAdded: one provider for all, with the base URL of the first.
OneProvider(file, c) == [file EXCEPT !.own = @ \ Clashing, !.yokai = {c.found[1]}]

\* OpenCode and OpenClaw have one provider per base URL; every provider named
\* `yokai` or `yokai-...` is removed first, and OpenClaw's mode of merging is set.
OpenCodeAdded(file, c) == [file EXCEPT !.own = @ \ Clashing, !.yokai = Found(c)]
OpenClawAdded(file, c) == [file EXCEPT !.own = @ \ Clashing, !.yokai = Found(c)]

Added(file, c) ==
    CASE tool = "vscode" -> VSCodeAdded(file, c)
      [] tool = "claudecode" -> ClaudeCodeAdded(file, c)
      [] tool = "codex" -> CodexAdded(file, c)
      [] tool = "opencode" -> OpenCodeAdded(file, c)
      [] tool = "openclaw" -> OpenClawAdded(file, c)

-----------------------------------------------------------------------------
\* OpenCode and OpenClaw are read with encoding/json, which takes no comments.
Commented(file) == tool \in {"opencode", "openclaw"} /\ file \in Whole /\ file.own \cap Comments # {}

\* MigrateLegacyConfig: OpenCode's file is rewritten without the former entries;
\* there is no backup of it yet, and an error is not reported.
Migrate(r) ==
    /\ configure[r].pc = "migrate"
    /\ IF settings \in Whole /\ settings.legacy /\ ~Commented(settings)
       THEN configure' = [configure EXCEPT ![r].pc = "open", ![r].migrating = TRUE,
                              ![r].next = [settings EXCEPT !.legacy = FALSE]]
       ELSE Proceeds(r, "read")
    /\ Unmoved /\ UNCHANGED <<settingsFiles, crowded, settingsFaults>>

\* What a file is read as: a file of two writes is no JSON, and may be TOML.
ReadAs(file) ==
    CASE file = NoSettings -> {Fresh}
      [] file \in Whole -> IF Commented(file) THEN {} ELSE {file}
      [] file = Mixed /\ tool = "codex" -> {Fresh}
      [] OTHER -> {}

\* A file that does not parse ends the request.
ReadSettings(r) ==
    /\ configure[r].pc = "read"
    /\ \/ \E file \in ReadAs(settings) :
            configure' = [configure EXCEPT
                ![r].pc = IF settings = NoSettings THEN "open" ELSE "backup",
                ![r].held = settings, ![r].next = Added(file, configure[r])]
       \/ (settings \in {Blank, Mixed} \/ Commented(settings)) /\ Ends(r)
    /\ Unmoved /\ UNCHANGED <<settingsFiles, crowded, settingsFaults>>

SettingsFault == settingsFaults < MaxSettingsFaults /\ settingsFaults' = settingsFaults + 1

\* The backup is truncated ...
BeginBackup(r) ==
    /\ configure[r].pc = "backup"
    /\ \/ copy' = Blank /\ Proceeds(r, "fill") /\ UNCHANGED settingsFaults
       \/ SettingsFault /\ Ends(r) /\ UNCHANGED copy
    /\ Unmoved /\ UNCHANGED <<settings, draft, crowded>>

Filled(file, data) == IF file \in {Blank, data} THEN {data} ELSE {data, Mixed}

\* ... and filled.
FillBackup(r) ==
    /\ configure[r].pc = "fill"
    /\ copy' \in Filled(copy, configure[r].held)
    /\ Proceeds(r, "open")
    /\ Unmoved /\ UNCHANGED <<settings, draft, crowded, settingsFaults>>

-----------------------------------------------------------------------------
\* writeConfig, which is the same in the five packages.

\* A migration that fails is followed by the request proper, which a failed
\* write ends.
WriteFails(c) ==
    IF c.migrating THEN [c EXCEPT !.pc = "read", !.migrating = FALSE, !.fd = "none"] ELSE Nothing

\* Mutant of OpenDraft: the settings are written in place.
OpenInPlace(r) ==
    /\ configure[r].pc = "open" /\ settings' = Blank
    /\ configure' = [configure EXCEPT ![r].pc = "write", ![r].fd = "settings"]
    /\ Unmoved /\ UNCHANGED <<copy, draft, crowded, settingsFaults>>

OpenDraft(r) ==
    /\ configure[r].pc = "open"
    /\ \/ /\ draft' = Blank /\ UNCHANGED settingsFaults
          /\ configure' = [configure EXCEPT ![r].pc = "write", ![r].fd = "draft"]
       \/ /\ SettingsFault /\ UNCHANGED draft
          /\ configure' = [configure EXCEPT ![r] = WriteFails(@)]
    /\ Unmoved /\ UNCHANGED <<settings, copy, crowded>>

WriteDraft(r) ==
    LET data == configure[r].next
    IN /\ configure[r].pc = "write"
       /\ CASE configure[r].fd = "draft" -> draft' \in Filled(draft, data) /\ UNCHANGED settings
            [] configure[r].fd = "settings" ->
                 settings' \in Filled(settings, data) /\ UNCHANGED draft
            [] OTHER -> UNCHANGED <<settings, draft>>
       /\ configure' = [configure EXCEPT ![r].pc = "rename", ![r].fd = "none"]
       /\ Unmoved /\ UNCHANGED <<copy, crowded, settingsFaults>>

\* Where a file another request has open is after a rename, or a removal, of .tmp.
Shifted(c, renamed) ==
    CASE c.fd = "draft" -> [c EXCEPT !.fd = IF renamed THEN "settings" ELSE "gone"]
      [] c.fd = "settings" -> [c EXCEPT !.fd = IF renamed THEN "gone" ELSE "settings"]
      [] OTHER -> c

Wrote(c) == IF c.migrating THEN [c EXCEPT !.pc = "read", !.migrating = FALSE] ELSE Nothing

\* Every other request finds the file it has open elsewhere.
After(r, mine, renamed) ==
    configure' = [o \in Requests |-> IF o = r THEN mine ELSE Shifted(configure[o], renamed)]

RenameDraft(r) ==
    /\ configure[r].pc = "rename"
    /\ \/ /\ draft # NoSettings /\ settings' = draft /\ draft' = NoSettings
          /\ After(r, Wrote(configure[r]), TRUE) /\ UNCHANGED settingsFaults
       \/ /\ draft = NoSettings /\ After(r, WriteFails(configure[r]), FALSE)
          /\ UNCHANGED <<settings, draft, settingsFaults>>
       \/ /\ SettingsFault /\ draft' = NoSettings /\ UNCHANGED settings
          /\ After(r, WriteFails(configure[r]), FALSE)
    /\ Unmoved /\ UNCHANGED <<copy, crowded>>

-----------------------------------------------------------------------------
\* The daemon stops: its requests are lost, the files stay.
DaemonStops ==
    /\ SettingsFault /\ \E r \in Requests : configure[r] # Nothing
    /\ configure' = [r \in Requests |-> Nothing]
    /\ Unmoved /\ UNCHANGED <<settingsFiles, crowded>>

\* The user saves the settings in the editor, which keeps what it does not know.
UserSaves(i) ==
    /\ edits < MaxEdits /\ settings \notin {Blank, Mixed}
    /\ settings' = [(IF settings = NoSettings THEN Fresh ELSE settings) EXCEPT !.own = @ \cup {i}]
    /\ written' = written \cup {i} /\ edits' = edits + 1
    /\ raced' = IF \E r \in Requests : Holds(configure[r]) THEN raced \cup {i} ELSE raced \ {i}
    /\ UNCHANGED <<tool, copy, draft, answering, configure, crowded, configures, shifts,
                   settingsFaults>>

\* A service starts or stops answering.
ServiceShifts(a) ==
    /\ shifts < MaxShifts /\ shifts' = shifts + 1
    /\ answering' = (answering \ {a}) \cup ({a} \ answering)
    /\ configure' = [r \in Requests |->
          IF configure[r].pc = "probe"
          THEN [configure[r] EXCEPT !.answered = @ \cup answering', !.steady = @ \cap answering']
          ELSE configure[r]]
    /\ UNCHANGED <<tool, settingsFiles, written, raced, crowded, configures, edits,
                   settingsFaults>>

SettingsNext ==
    \/ \E r \in Requests :
         \/ \E configured, live \in SUBSET Addresses : ConfigureTool(r, configured, live)
         \/ Probe(r) \/ Discovered(r) \/ Migrate(r) \/ ReadSettings(r)
         \/ BeginBackup(r) \/ FillBackup(r)
         \/ OpenDraft(r) \/ WriteDraft(r) \/ RenameDraft(r)
    \/ DaemonStops
    \/ \E i \in OwnSettings : UserSaves(i)
    \/ \E a \in Addresses : ServiceShifts(a)

SettingsSpec == SettingsInit /\ [][SettingsNext]_settingsVars

-----------------------------------------------------------------------------
\* Properties.

\* Every file is what the program can write, and a request that got as far as the
\* file found an endpoint to put in it (the 400 of handleConfigureIntegrations).
SettingsTypeOK ==
    /\ tool \in Tools /\ {settings, copy, draft} \subseteq SettingsFiles
    /\ answering \subseteq Addresses /\ written \subseteq OwnSettings /\ raced \subseteq written
    /\ crowded \in BOOLEAN /\ \A b \in DOMAIN settingsBounds : settingsBounds[b] \in Nat
    /\ \A r \in Requests :
         RequestOK(configure[r]) /\ (InFile(configure[r]) => configure[r].found # <<>>)

\* What the tool's package writes over or drops: it has no copy but .yokai.bak, which
\* the next request writes anew.
Overwritten ==
    CASE tool = "vscode" -> Comments
      [] tool \in {"claudecode", "codex"} -> Comments \cup Clashing
      [] OTHER -> Clashing

\* Unless two requests were in the file at once, the settings are always whole,
\* wherever the daemon fails or stops, and hold what the user ever wrote but what
\* the package overwrites by intent and what was written while a request held an
\* older copy: a request merges its endpoints into what it read (AddEndpointsToFile),
\* the rename of writeConfig is all or nothing, and comments that the package cannot
\* parse end the request instead.
UserSettingsKept ==
    ~crowded => /\ settings \notin {Blank, Mixed}
                /\ \A i \in written \ (raced \cup Overwritten) :
                     settings # NoSettings /\ i \in settings.own

\* Unless two requests were in the file at once, a request that is about to
\* replace the settings it read has a whole copy of them in .yokai.bak: the
\* README's "writes a .yokai.bak of every config before modifying it".
BackupComesFirst ==
    \A r \in Requests :
        ~crowded /\ configure[r].pc \in {"open", "write", "rename"} /\ ~configure[r].migrating
                 /\ configure[r].held # NoSettings
            => copy = configure[r].held

\* The user's other settings survive requests that fail or die anywhere, and the last
\* version of all is backed up before it is replaced (AddEndpointsToFile, writeConfig).
SettingsSafety ==
    SettingsTypeOK /\ UserSettingsKept /\ BackupComesFirst

\* What VS Code's settings named before; the other tools' endpoints are replaced.
Kept == IF tool = "vscode" /\ settings # NoSettings THEN settings.yokai ELSE {}

\* A request that replaces the settings.
Finishes(r) ==
    /\ configure[r].pc = "rename" /\ ~configure[r].migrating
    /\ configure'[r].pc = "idle" /\ draft # NoSettings /\ draft' = NoSettings
    /\ settingsFaults' = settingsFaults

\* Unless two requests were in the file at once, an endpoint the settings name
\* after a request answered while the request looked for endpoints: a service that
\* was silent throughout is not offered, and one of an earlier request goes.
\* VS Code keeps those it named before.
NamedEndpointsAnswered ==
    [][~crowded =>
         \A r \in Requests : Finishes(r) =>
             settings'.yokai \subseteq configure[r].answered \cup Kept
      ]_settingsVars

\* Unless two requests were in the file at once, a service that is configured or
\* was polled, and answered all the time a request looked, is named after it: the
\* README's "registers every running inference service".  Claude Code and Codex
\* take one of them.
RunningServicesNamed ==
    [][~crowded =>
         \A r \in Requests : Finishes(r) =>
             IF tool \in {"claudecode", "codex"}
             THEN settings'.yokai # {}
             ELSE configure[r].steady \subseteq settings'.yokai
      ]_settingsVars
=============================================================================
