------------------------------ MODULE SingleUse ------------------------------
(***************************************************************************)
(* What a store of consumed tokens promises: of the uses of one token at   *)
(* most one takes place, and only of a token that may be used here.        *)
(***************************************************************************)
CONSTANTS Tokens, Usable

VARIABLE used \* used[t]: how often token t was used

Init == used = [t \in Tokens |-> 0]

Use(t) == t \in Usable /\ used[t] = 0 /\ used' = [used EXCEPT ![t] = 1]

Next == \E t \in Tokens : Use(t)

Spec == Init /\ [][Next]_used
=============================================================================
