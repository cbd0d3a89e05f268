---------------------------- MODULE MCOperations ----------------------------
(***************************************************************************)
(* Instances of the operations that rewrite files or take over a service:  *)
(* the recipes, the upgrade of the own machine, the installation of an     *)
(* agent, the settings of editors and the files of a launch, side by side: *)
(* `part` is drawn once and names the one that moves.                      *)
(***************************************************************************)
EXTENDS RecipeOverlay, SelfUpgrade, AgentInstall, EditorSettings, LaunchFiles,
        TLC

CONSTANTS d1, before

VARIABLE part

Parts == {"recipes", "upgrade", "install", "settings", "files"}

\* Each configuration has a name of its own, the first device runs a service from
\* before.
OwnName == [c \in Configs |-> c]
ServiceBefore == [d \in Devices |-> IF d = d1 THEN before ELSE None]

\* Handlers and operators are the same values.
Symmetry == Permutations(Recipes) \cup Permutations(Configs) \cup Permutations(Handlers)

\* Operations that overlap come in pairs.
FewOperations ==
    /\ operations' <= 2 \/ overlapped' = {}
    /\ operations' + installFaults' <= 3

FewSettings == configures' + edits' + shifts' + settingsFaults' <= 3

FewUpgrades == upgrades' + upgradeFaults' <= 3

\* A part that does not move starts in one state.
MCOperationsInit ==
    /\ part \in Parts /\ Init /\ UpgradeInit /\ InstallInit /\ SettingsInit
    /\ FilesInit
    /\ part # "recipes" => store = [r \in Recipes |-> None]
    /\ part # "upgrade" => linux /\ installed["yokai-tui"] = "old"
    /\ part # "install" => ~systemdUser /\ unit["system"] = "none"
    /\ part # "settings" => tool = "codex" /\ settings = NoSettings /\ answering = {}
    /\ part # "files" => artifact = "shard"

Only(p) ==
    /\ part = p /\ UNCHANGED part
    /\ p # "recipes" => UNCHANGED vars
    /\ p # "upgrade" => UNCHANGED upgradeVars
    /\ p # "install" => UNCHANGED installVars
    /\ p # "settings" => UNCHANGED settingsVars
    /\ p # "files" => UNCHANGED filesVars

MCOperationsNext ==
    \/ Only("recipes") /\ Next
    \/ Only("upgrade") /\ UpgradeNext /\ FewUpgrades
    \/ Only("install") /\ InstallNext /\ FewOperations
    \/ Only("settings") /\ SettingsNext /\ FewSettings
    \/ Only("files") /\ FilesNext

operationsVars == <<part, vars, upgradeVars, installVars, settingsVars, filesVars>>

MCOperationsSpec == MCOperationsInit /\ [][MCOperationsNext]_operationsVars
=============================================================================
