------------------------------ MODULE MCFetcher -----------------------------
(***************************************************************************)
(* Two blocks for TLC on top of a local chain of one: the second waits for *)
(* the first, which is too old once the second is imported.  The head b1   *)
(* of the local chain is as heavy as a2 on the other branch, so that the   *)
(* height may stay behind when a2 is imported.                             *)
(***************************************************************************)
EXTENDS Fetcher

CONSTANTS G, a1, a2, a3, b1, v, w

ForkBlock == {G, a1, a2, a3, b1}
ForkParent == [b \in ForkBlock |-> CASE b = a2 -> a1 [] b = a3 -> a2 [] OTHER -> G]
ForkNumber == [b \in ForkBlock |-> CASE b = G -> 0 [] b \in {a1, b1} -> 1 [] b = a2 -> 2 [] b = a3 -> 3]
ForkDifficulty == [b \in ForkBlock |-> IF b = b1 THEN 2 ELSE 1]

=============================================================================
