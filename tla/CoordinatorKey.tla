--------------------------- MODULE CoordinatorKey ---------------------------
(***************************************************************************)
(* coordinator-signing-key: the daemon, when it starts, and the command    *)
(* line, when it bootstraps a device, load the key or create it.  They are *)
(* processes of their own that share nothing but the file.                 *)
(***************************************************************************)
EXTENDS Naturals

CONSTANTS
    Loaders,               \* processes that load the key
    KeyPairs,              \* keys that may be generated
    NoKeyFile, PartKeyFile \* no file; a file that is created and not yet written

ASSUME KeyAssumption ==
    /\ KeyPairs # {} /\ NoKeyFile # PartKeyFile
    /\ {NoKeyFile, PartKeyFile} \cap KeyPairs = {}

VARIABLES
    keyFile,
    loader,        \* [Loaders -> [pc, key]]
    generated      \* keys that were generated already

keyVars == <<keyFile, loader, generated>>

Holder == [pc: {"start", "create", "write", "again", "holds", "failed"}, key: KeyPairs]

Loads(p, label) == loader[p].pc = label
LoaderTo(p, label) == loader' = [loader EXCEPT ![p].pc = label]

\* loadSigningKey, first and after the file turned out to exist.
LoadKey(p) ==
    /\ loader[p].pc \in {"start", "again"}
    /\ \/ keyFile \in KeyPairs
          /\ loader' = [loader EXCEPT ![p] = [pc |-> "holds", key |-> keyFile]]
       \/ keyFile = PartKeyFile /\ LoaderTo(p, "failed")
       \/ keyFile = NoKeyFile /\ LoaderTo(p, IF Loads(p, "start") THEN "create" ELSE "failed")
    /\ UNCHANGED <<keyFile, generated>>

\* Mutant of CreateKey: the file is opened without O_EXCL.
CreateKeyAnyway(p) ==
    /\ Loads(p, "create")
    /\ \E k \in KeyPairs \ generated :
         /\ loader' = [loader EXCEPT ![p] = [pc |-> "write", key |-> k]]
         /\ generated' = generated \cup {k}
    /\ keyFile' = PartKeyFile

\* GenerateKey and os.OpenFile with O_EXCL.
CreateKey(p) ==
    /\ Loads(p, "create")
    /\ \E k \in KeyPairs \ generated :
         /\ generated' = generated \cup {k}
         /\ \/ /\ keyFile = NoKeyFile /\ keyFile' = PartKeyFile
               /\ loader' = [loader EXCEPT ![p] = [pc |-> "write", key |-> k]]
            \/ keyFile # NoKeyFile /\ LoaderTo(p, "again") /\ UNCHANGED keyFile

\* The key is written; an error leaves what was created.
WriteKey(p) ==
    /\ Loads(p, "write")
    /\ \/ keyFile' = loader[p].key /\ LoaderTo(p, "holds")
       \/ keyFile' \in {PartKeyFile, loader[p].key} /\ LoaderTo(p, "failed")
    /\ UNCHANGED generated

\* The process ends, before or after it used the key, and is started again.
LoaderRestarts(p) ==
    /\ ~Loads(p, "start") /\ LoaderTo(p, "start") /\ UNCHANGED <<keyFile, generated>>

KeyInit ==
    /\ keyFile = NoKeyFile /\ generated = {}
    /\ loader = [p \in Loaders |-> [pc |-> "start", key |-> CHOOSE k \in KeyPairs : TRUE]]

KeyNext ==
    \E p \in Loaders : LoadKey(p) \/ CreateKey(p) \/ WriteKey(p) \/ LoaderRestarts(p)

KeySpec == KeyInit /\ [][KeyNext]_keyVars

KeyTypeOK ==
    /\ keyFile \in KeyPairs \cup {NoKeyFile, PartKeyFile}
    /\ loader \in [Loaders -> Holder] /\ generated \subseteq KeyPairs

\* Two processes that create the key at the same time, and every later one, work
\* with the same key: grants signed by the daemon verify on every agent that the
\* command line bootstrapped.
KeyIsShared ==
    \A p \in Loaders : Loads(p, "holds") => keyFile = loader[p].key

\* The key's file, its loaders and the agreement between them (LoadOrCreateSigningKey).
KeySafety == KeyTypeOK /\ KeyIsShared
=============================================================================
