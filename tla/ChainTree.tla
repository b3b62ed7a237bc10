------------------------------ MODULE ChainTree -----------------------------
(***************************************************************************)
(* The tree of blocks that the chain modules explore.  A block stands for  *)
(* its hash: its header names its parent, its number and its difficulty.   *)
(***************************************************************************)
EXTENDS Integers, FiniteSets

CONSTANTS
    Block,          \* the blocks
    Genesis,        \* the block that every chain starts with
    parent,         \* header.ParentHash (the genesis is its own parent here)
    number,         \* header.Number
    difficulty,     \* header.Difficulty
    MaxNumber,      \* the highest number of a block
    None            \* the zero hash

ASSUME BlockAssumption ==
    /\ Genesis \in Block /\ None \notin Block
    /\ MaxNumber \in Nat
    /\ parent \in [Block -> Block]
    /\ number \in [Block -> 0 .. MaxNumber]
    /\ difficulty \in [Block -> Nat]
    /\ \A b \in Block : number[b] = 0 <=> b = Genesis
    /\ \A b \in Block \ {Genesis} : number[b] = number[parent[b]] + 1

\* f is the branch from the genesis to b: the block at every number.
IsLine(f, b) == /\ f[0] = Genesis /\ f[number[b]] = b
                /\ \A n \in 1 .. number[b] : f[n] # Genesis /\ f[n - 1] = parent[f[n]] /\ number[f[n]] = n

\* The blocks are a tree: each of them descends from the genesis.
ASSUME LineAssumption == \A b \in Block : \E f \in [0 .. number[b] -> Block] : IsLine(f, b)

line == [b \in Block |-> CHOOSE f \in [0 .. number[b] -> Block] : IsLine(f, b)]

\* The total difficulty of the chain that ends with b.
Td[b \in Block] == IF b = Genesis THEN difficulty[b] ELSE Td[parent[b]] + difficulty[b]

=============================================================================
