-------------------------- MODULE MCRecipeOverlay --------------------------
(***************************************************************************)
(* Instances of RecipeOverlay: each configuration has a name of its own,   *)
(* the first device runs a service from before.                            *)
(***************************************************************************)
EXTENDS RecipeOverlay, TLC

CONSTANTS d1, before

OwnName == [c \in Configs |-> c]
ServiceBefore == [d \in Devices |-> IF d = d1 THEN before ELSE None]
Symmetry == Permutations(Recipes) \cup Permutations(Configs) \cup Permutations(Handlers)
=============================================================================
