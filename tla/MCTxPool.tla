------------------------------ MODULE MCTxPool ------------------------------
(***************************************************************************)
(* Small instances of the transaction pool.                                *)
(***************************************************************************)
EXTENDS TxPool

CONSTANTS A, B, C

T(a, n, p, c) == [from |-> a, nonce |-> n, price |-> p, cost |-> c]

Single(S) == {<<t>> : t \in S}

\* "still": the accounts overflow the lists of a pool of five and compete on price; A
\* can become local and B has a replacement.
\* "tight": a pool of three whose head moves, so that mined transactions come back.
\* "roomy": competing transactions for A's nonces, so that branches differ, and one
\* that only the higher balance pays for.
TxStill == {T(A, 0, 1, 1), T(A, 1, 3, 1), T(A, 2, 2, 1), T(A, 3, 1, 1), T(B, 0, 2, 1),
            T(B, 1, 1, 1), T(B, 1, 3, 1), T(B, 2, 2, 1), T(C, 0, 2, 1), T(C, 2, 1, 1)}
TxTight == {T(A, 0, 1, 1), T(A, 1, 2, 1), T(B, 0, 1, 1), T(B, 1, 2, 1), T(C, 0, 2, 1)}
TxRoomy == {T(A, 0, 1, 1), T(A, 0, 2, 1), T(A, 1, 1, 2), T(A, 1, 2, 1), T(A, 2, 1, 1), T(B, 0, 1, 1)}

PerConfig(still, tight, roomy) ==
    [k \in Config |-> CASE k = "still" -> still [] k = "tight" -> tight [] OTHER -> roomy]

MCTx == PerConfig(TxStill, TxTight, TxRoomy)
MCBatch == PerConfig(Single(TxStill) \cup {<<T(B, 1, 1, 1), T(B, 0, 2, 1)>>},
                     Single(TxTight), Single(TxRoomy))
MCMined == PerConfig({}, {T(A, 0, 1, 1), T(B, 0, 1, 1), T(C, 0, 2, 1)}, TxRoomy)
MCMaxHeight == PerConfig(0, 2, 2)
MCLocalAccount == PerConfig({A}, {A}, {})
MCPrice == PerConfig({1, 2}, {}, {})
MCBalance == LET one == [Account -> {1}]
             IN  PerConfig(one, one, {b \in [Account -> {1, 2}] : b[C] = 1})
MCAccountSlots == PerConfig(2, 1, 3)
MCGlobalSlots == PerConfig(3, 2, 6)
MCAccountQueue == PerConfig(1, 1, 6)
MCGlobalQueue == PerConfig(2, 1, 6)

=============================================================================
