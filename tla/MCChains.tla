------------------------------ MODULE MCChains ------------------------------
(***************************************************************************)
(* A light node, which keeps a chain of headers (HeaderChain), and a full  *)
(* node, which keeps a chain of blocks (BlockChain), on one tree.  The b   *)
(* branch is shorter than the a branch and heavier; c forks off the a      *)
(* branch above b; d forks at the genesis, ties with a4, and shares        *)
(* transactions with b.                                                    *)
(*                                                                         *)
(*          G - a1 - a2 - a3 - a4                                          *)
(*          |    |    +-- c3                                               *)
(*          |    +-- b2 - b3                                               *)
(*          +-- d1 - d2                                                    *)
(***************************************************************************)
EXTENDS HeaderChain, BlockChain

CONSTANTS G, a1, a2, a3, a4, b2, b3, c3, d1, d2, txA, txB

ForkBlock == {G, a1, a2, a3, a4, b2, b3, c3, d1, d2}

ForkParent == [b \in ForkBlock |->
    CASE b \in {G, a1, d1} -> G [] b \in {a2, b2} -> a1 [] b \in {a3, c3} -> a2
      [] b = a4 -> a3 [] b = b3 -> b2 [] b = d2 -> d1]

ForkNumber == [b \in ForkBlock |->
    CASE b = G -> 0 [] b \in {a1, d1} -> 1 [] b \in {a2, b2, d2} -> 2
      [] b \in {a3, b3, c3} -> 3 [] b = a4 -> 4]

ForkDifficulty == [b \in ForkBlock |->
    CASE b = b2 -> 2 [] b \in {b3, d2} -> 3 [] OTHER -> 1]

ForkTxs == [b \in ForkBlock |->
    CASE b \in {b2, d2} -> {txA} [] b \in {b3, d1} -> {txB} [] OTHER -> {}]

\* What a full node is offered: a fast sync, and a node that crashes, see one fork only, and
\* a fast sync with rewinds, which has the most interleavings, two blocks on either side.
ForkOffered == [e \in Envs |->
    CASE {"fast", "rewind"} \subseteq e -> {a1, a2, b2}
      [] "fast" \in e /\ "rewind" \notin e -> {a1, a2, a3, b2}
      [] "fast" \notin e /\ "crash" \in e -> {a1, a2, a3, b2, b3}
      [] OTHER -> {a1, a2, a3, b2, b3, d1, d2}]

\* A node of one kind moves, the other kind's chain stays empty.
ChainsInit == Init /\ BlockInit

ChainsNext == \/ "light" \in env /\ Next /\ UNCHANGED blockVars
              \/ "light" \notin env /\ BlockNext /\ UNCHANGED vars

ChainsSpec == ChainsInit /\ [][ChainsNext]_<<vars, blockVars>>

=============================================================================
