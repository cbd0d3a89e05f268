----------------------------- MODULE LaunchFiles -----------------------------
(***************************************************************************)
(* What the agent puts on disk before it launches a container: the shards  *)
(* of a GGUF model (ensureGGUFFiles, hf.Downloader), the assets of a plugin*)
(* (ensurePluginAsset) and the pinned TensorFold recipe                    *)
(* (ensurePinnedRecipe, writeRecipeEnvironment).  One file, of one of the  *)
(* three kinds, is followed.                                               *)
(*                                                                         *)
(* Deployments of different containers prepare the same file at the same   *)
(* time: downloads of a shard share `.partial`, and an asset is written in *)
(* its place.  The recipe is prepared under the manager's lock.  A file has*)
(* a size, and the parts that really were written: a writer whose file     *)
(* another one truncated leaves a hole.                                    *)
(***************************************************************************)
EXTENDS Integers, FiniteSets

CONSTANTS
    Preparers,       \* launches that may prepare the file at the same time
    NoFile,
    Pieces,           \* parts of the file
    MaxPreparations, \* bound on launches
    MaxFetchFaults   \* bound on failed transfers and writes, and agent restarts

ASSUME PiecesAssumption == Pieces \in Nat \ {0}

VARIABLES
    artifact,        \* the kind of file
    place,           \* the file where the launch looks for it
    partial,         \* a shard's .partial
    prep,            \* the preparations in progress
    together,        \* whether two preparations ever overlapped
    cut,             \* whether a write in the file's place was cut short
    preparations, fetchFaults

filesVars == <<artifact, place, partial, prep, together, cut, preparations, fetchFaults>>

-----------------------------------------------------------------------------
Artifacts == {"shard", "asset", "recipe"}
Content == [size: 0..Pieces, parts: SUBSET (1..Pieces), stray: BOOLEAN]
Nil == [size |-> 0, parts |-> {}, stray |-> FALSE]

\* No file is taken for a file.
ASSUME NoFileAssumption == NoFile \notin Content
Contents == Content \cup {NoFile}
Complete(file) == file # NoFile /\ file.size = Pieces /\ file.parts = 1..Pieces

Stages == {"idle", "look", "get", "create", "copy", "rename", "verify", "environment",
           "write environment", "ready"}
Resting == [pc |-> "idle", at |-> 0, fd |-> "none", staged |-> Nil]
Active(l) == prep[l].pc # "idle"

FetchFault == fetchFaults < MaxFetchFaults /\ fetchFaults' = fetchFaults + 1
Turns(l, p) == prep' = [prep EXCEPT ![l] = p]
Enters(l, label) == Turns(l, [prep[l] EXCEPT !.pc = label])
Steady == UNCHANGED <<artifact, together, preparations>>

\* The next part of a preparation, written at its own offset.
Extended(file, at) ==
    [file EXCEPT !.size = IF @ > at THEN @ ELSE at + 1, !.parts = @ \cup {at + 1}]

FilesInit ==
    /\ artifact \in Artifacts
    /\ place = NoFile /\ partial = NoFile
    /\ prep = [l \in Preparers |-> Resting]
    /\ together = FALSE /\ cut = FALSE
    /\ preparations = 0 /\ fetchFaults = 0

-----------------------------------------------------------------------------
Prepare(l) ==
    /\ ~Active(l) /\ preparations < MaxPreparations
    /\ artifact = "recipe" => \A o \in Preparers : ~Active(o)
    /\ Enters(l, "look") /\ preparations' = preparations + 1
    /\ together' = (together \/ \E o \in Preparers : Active(o))
    /\ UNCHANGED <<artifact, place, partial, cut, fetchFaults>>

\* Download: a shard of the size the server reports is left alone; without an
\* answer to the HEAD request it is fetched again.
LookAtShard(l) ==
    /\ artifact = "shard" /\ prep[l].pc = "look"
    /\ \/ place # NoFile /\ place.size = Pieces /\ Enters(l, "ready")
       \/ Enters(l, "get")
    /\ Steady /\ UNCHANGED <<place, partial, cut, fetchFaults>>

\* An asset that is not empty is left alone.
LookAtAsset(l) ==
    /\ artifact = "asset" /\ prep[l].pc = "look"
    /\ Enters(l, IF place # NoFile /\ place.size > 0 THEN "ready" ELSE "get")
    /\ Steady /\ UNCHANGED <<place, partial, cut, fetchFaults>>

\* A recipe that is there is verified as it is.
LookAtRecipe(l) ==
    /\ artifact = "recipe" /\ prep[l].pc = "look"
    /\ Enters(l, IF place # NoFile THEN "verify" ELSE "copy")
    /\ Steady /\ UNCHANGED <<place, partial, cut, fetchFaults>>

Get(l) ==
    /\ prep[l].pc = "get"
    /\ \/ Enters(l, "create") /\ UNCHANGED fetchFaults
       \/ FetchFault /\ Turns(l, Resting)
    /\ Steady /\ UNCHANGED <<place, partial, cut>>

-----------------------------------------------------------------------------
\* os.Create and os.WriteFile truncate a file another preparation has open.
CreatePartial(l) ==
    /\ artifact = "shard" /\ prep[l].pc = "create"
    /\ partial' = Nil
    /\ Turns(l, [prep[l] EXCEPT !.pc = "copy", !.fd = "partial"])
    /\ Steady /\ UNCHANGED <<place, cut, fetchFaults>>

CreateAsset(l) ==
    /\ artifact = "asset" /\ prep[l].pc = "create"
    /\ place' = Nil
    /\ Turns(l, [prep[l] EXCEPT !.pc = "copy", !.fd = "place"])
    /\ Steady /\ UNCHANGED <<partial, cut, fetchFaults>>

Written(file, at) == Extended(file, at)

CopyPart(l) ==
    /\ artifact # "recipe" /\ prep[l].pc = "copy" /\ prep[l].at < Pieces
    /\ CASE prep[l].fd = "partial" ->
              partial' = Written(partial, prep[l].at) /\ UNCHANGED place
         [] prep[l].fd = "place" -> place' = Written(place, prep[l].at) /\ UNCHANGED partial
         [] OTHER -> UNCHANGED <<place, partial>>
    /\ Turns(l, [prep[l] EXCEPT !.at = @ + 1])
    /\ Steady /\ UNCHANGED <<cut, fetchFaults>>

\* Where the file a preparation has open is once .partial is renamed or removed.
Elsewhere(p, renamed) ==
    CASE p.fd = "partial" -> [p EXCEPT !.fd = IF renamed THEN "place" ELSE "gone"]
      [] p.fd = "place" -> [p EXCEPT !.fd = IF renamed THEN "gone" ELSE "place"]
      [] OTHER -> p
Rest(l, mine, renamed) ==
    prep' = [o \in Preparers |-> IF o = l THEN mine ELSE Elsewhere(prep[o], renamed)]

\* A shard's transfer breaks off: .partial is removed, whoever has it open.  An
\* asset was read to its end before; if the write fails its part stays.
CopyFails(l) ==
    /\ artifact # "recipe" /\ prep[l].pc = "copy" /\ prep[l].at < Pieces /\ FetchFault
    /\ IF artifact = "shard"
       THEN partial' = NoFile /\ Rest(l, Resting, FALSE) /\ UNCHANGED cut
       ELSE Turns(l, Resting) /\ cut' = TRUE /\ UNCHANGED partial
    /\ Steady /\ UNCHANGED place

AssetWritten(l) ==
    /\ artifact = "asset" /\ prep[l].pc = "copy" /\ prep[l].at = Pieces
    /\ Turns(l, [Resting EXCEPT !.pc = "ready"])
    /\ Steady /\ UNCHANGED <<place, partial, cut, fetchFaults>>

\* The rename fails when another preparation has moved .partial away.
RenamePartial(l) ==
    /\ artifact = "shard" /\ prep[l].pc = "copy" /\ prep[l].at = Pieces
    /\ IF partial = NoFile
       THEN Turns(l, Resting) /\ UNCHANGED <<place, partial>>
       ELSE /\ place' = partial /\ partial' = NoFile
            /\ Rest(l, [Resting EXCEPT !.pc = "ready"], TRUE)
    /\ Steady /\ UNCHANGED <<cut, fetchFaults>>

-----------------------------------------------------------------------------
\* Mutant of StageRecipe: the recipe is checked out where launches look for it.
StageInPlace(l) ==
    /\ artifact = "recipe" /\ prep[l].pc = "copy" /\ prep[l].at < Pieces
    /\ \/ /\ place' = Extended(IF place = NoFile THEN Nil ELSE place, prep[l].at)
          /\ Turns(l, [prep[l] EXCEPT !.at = @ + 1, !.staged = Extended(@, prep[l].at)])
          /\ UNCHANGED fetchFaults
       \/ FetchFault /\ Turns(l, Resting) /\ UNCHANGED place
    /\ Steady /\ UNCHANGED <<partial, cut>>

\* stagePinnedRecipe: a directory of its own, removed when a command fails.
StageRecipe(l) ==
    /\ artifact = "recipe" /\ prep[l].pc = "copy" /\ prep[l].at < Pieces
    /\ \/ /\ Turns(l, [prep[l] EXCEPT !.at = @ + 1, !.staged = Extended(@, prep[l].at)])
          /\ UNCHANGED fetchFaults
       \/ FetchFault /\ Turns(l, Resting)
    /\ Steady /\ UNCHANGED <<place, partial, cut>>

RenameRecipe(l) ==
    /\ artifact = "recipe" /\ prep[l].pc = "copy" /\ prep[l].at = Pieces
    /\ place' = prep[l].staged /\ Turns(l, [Resting EXCEPT !.pc = "verify"])
    /\ Steady /\ UNCHANGED <<partial, cut, fetchFaults>>

\* The pinned commit, no file that is not its own, every hash as pinned.
Accepted(recipe) == Complete(recipe) /\ ~recipe.stray

VerifyRecipe(l) ==
    /\ prep[l].pc = "verify"
    /\ IF Accepted(place) THEN Enters(l, "environment") ELSE Turns(l, Resting)
    /\ Steady /\ UNCHANGED <<place, partial, cut, fetchFaults>>

\* writeRecipeEnvironment: a temporary file in the recipe, renamed to .env, which
\* the verification lets pass.
BeginEnvironment(l) ==
    /\ prep[l].pc = "environment"
    /\ place' = [place EXCEPT !.stray = TRUE] /\ Enters(l, "write environment")
    /\ Steady /\ UNCHANGED <<partial, cut, fetchFaults>>

WriteEnvironment(l) ==
    /\ prep[l].pc = "write environment"
    /\ place' = [place EXCEPT !.stray = FALSE]
    /\ \/ Turns(l, [Resting EXCEPT !.pc = "ready"]) /\ UNCHANGED fetchFaults
       \/ FetchFault /\ Turns(l, Resting)
    /\ Steady /\ UNCHANGED <<partial, cut>>

-----------------------------------------------------------------------------
\* The container is launched on the file.
LaunchOnFile(l) ==
    /\ prep[l].pc = "ready" /\ Turns(l, Resting)
    /\ Steady /\ UNCHANGED <<place, partial, cut, fetchFaults>>

AgentRestarts ==
    /\ FetchFault /\ \E l \in Preparers : Active(l)
    /\ prep' = [l \in Preparers |-> Resting]
    /\ cut' = (cut \/ \E l \in Preparers :
                  prep[l].fd = "place" \/ prep[l].pc = "write environment")
    /\ Steady /\ UNCHANGED <<place, partial>>

FilesNext ==
    \/ \E l \in Preparers :
         \/ Prepare(l) \/ LookAtShard(l) \/ LookAtAsset(l) \/ LookAtRecipe(l) \/ Get(l)
         \/ CreatePartial(l) \/ CreateAsset(l) \/ CopyPart(l) \/ CopyFails(l)
         \/ AssetWritten(l) \/ RenamePartial(l)
         \/ StageRecipe(l) \/ RenameRecipe(l) \/ VerifyRecipe(l)
         \/ BeginEnvironment(l) \/ WriteEnvironment(l)
         \/ LaunchOnFile(l)
    \/ AgentRestarts

FilesSpec == FilesInit /\ [][FilesNext]_filesVars

-----------------------------------------------------------------------------
\* Properties.

\* Every file is one the program can leave: only the recipe gains files of its
\* own, and the size of a file counts no part beyond it.
FilesTypeOK ==
    /\ artifact \in Artifacts /\ {place, partial} \subseteq Contents
    /\ \A f \in {place, partial} : f # NoFile =>
         f.parts \subseteq 1..f.size /\ (f.stray => artifact = "recipe")
    /\ prep \in [Preparers -> [pc: Stages, at: 0..Pieces, fd: {"none", "partial", "place", "gone"},
                               staged: Content]]
    /\ artifact # "shard" => partial = NoFile
    /\ together \in BOOLEAN /\ cut \in BOOLEAN /\ preparations \in Nat /\ fetchFaults \in Nat

\* A container is launched on a complete file, wherever earlier preparations broke
\* off, unless preparations overlapped or the write of an asset was cut short: the
\* size in Download, the rename of .partial, the verification of the recipe.
LaunchedOnWhole ==
    \A l \in Preparers :
        prep[l].pc = "ready" => Complete(place) \/ (artifact # "recipe" /\ (together \/ cut))

\* When nothing failed, overlapping preparations mend each other's file: once all
\* are done a file that is there is complete, though .partial was shared and an
\* asset was written by two.
SettledWhole ==
    fetchFaults = 0 /\ (\A l \in Preparers : ~Active(l)) => place = NoFile \/ Complete(place)

\* A recipe that is there passes the verification of every later launch, unless
\* the agent stopped while it wrote the environment: "an interrupted fetch never
\* leaves a partial recipe that every later create would reject"
\* (tensorfold_recipe.go:863).
RecipeStaysUsable ==
    artifact = "recipe" /\ place # NoFile /\ ~cut =>
        Accepted(place) \/ \E l \in Preparers : prep[l].pc = "write environment"

\* Whatever part an interrupted or overlapping preparation left, no container is
\* launched on it, and it does not make later launches fail (Download,
\* ensurePluginAsset, ensurePinnedRecipe).
FilesSafety ==
    FilesTypeOK /\ LaunchedOnWhole /\ SettledWhole /\ RecipeStaysUsable
=============================================================================
