----------------------------- MODULE HeaderChain ----------------------------
(***************************************************************************)
(* core.HeaderChain as light.LightChain drives it: the headers known, with *)
(* their total difficulties, the canonical numbering, and the head header. *)
(*                                                                         *)
(* Every operation runs under the chain's mutex, so an operation is one    *)
(* step; the headers of one InsertHeaderChain are separate steps, for the  *)
(* mutex is taken for each of them.  The tie between two branches of equal *)
(* difficulty is a coin toss in the code, a free choice here.  The caches  *)
(* (headers, difficulties, numbers) only ever repeat the database.         *)
(***************************************************************************)
EXTENDS ChainTree

VARIABLES
    headers,        \* the headers in the database
    td,             \* their total difficulties, -1 where none is stored
    canon,          \* the canonical hash of every number
    currentHeader,  \* the head, in memory and in the database; None is the nil header
    panicked,       \* whether the process died of a nil dereference
    rewound,        \* history: whether SetHead was called
    rolledBack      \* history: whether Rollback was called

past == <<rewound, rolledBack>>
vars == <<headers, td, canon, currentHeader, panicked, rewound, rolledBack>>

Init ==
    /\ headers = {Genesis}
    /\ td = [b \in Block |-> IF b = Genesis THEN difficulty[Genesis] ELSE -1]
    /\ canon = [n \in 0 .. MaxNumber |-> IF n = 0 THEN Genesis ELSE None]
    /\ currentHeader = Genesis
    /\ panicked = FALSE /\ rewound = FALSE /\ rolledBack = FALSE

-----------------------------------------------------------------------------
\* The number where the walk down from h meets the canonical chain.
IsJoint(j, h) ==
    /\ j \in 0 .. number[h] - 1
    /\ canon[j] = line[h][j]
    /\ \A n \in j + 1 .. number[h] - 1 : canon[n] # line[h][n]

\* The first number above h without a canonical hash, where the deletion of the
\* numbers above the new head stops.
IsEnd(e, h) ==
    /\ e \in number[h] + 1 .. MaxNumber + 1
    /\ e <= MaxNumber => canon[e] = None
    /\ \A n \in number[h] + 1 .. e - 1 : canon[n] # None

\* Mutant of Rerouted: the stale numbers below the new head are not overwritten.
TipOnly(h, j, e) ==
    [n \in 0 .. MaxNumber |->
        IF n > number[h] /\ n < e THEN None ELSE IF n = number[h] THEN h ELSE canon[n]]

\* The numbers after the canonical chain is re-routed to h.
Rerouted(h, j, e) ==
    [n \in 0 .. MaxNumber |->
        IF n > number[h] /\ n < e THEN None
        ELSE IF n > j /\ n <= number[h] THEN line[h][n]
        ELSE canon[n]]

\* What the numbers are when the walk dies at m, whose header is not stored.
Torn(h, m, e) ==
    [n \in 0 .. MaxNumber |->
        IF n > number[h] /\ n < e THEN None
        ELSE IF n >= m /\ n < number[h] THEN line[h][n]
        ELSE canon[n]]

\* The headers the walk from h dereferences on its way down to the joint.
Missing(h, j) == {n \in j + 1 .. number[h] - 1 : line[h][n] \notin headers}

-----------------------------------------------------------------------------
\* Mutant of Insertable: the parent's presence is not verified.
InsertableOrphan(h) == h \notin headers

\* A header that passed verification: it is new and its parent is known.
Insertable(h) == h \notin headers /\ parent[h] \in headers /\ td[parent[h]] # -1

externTd(h) == td[parent[h]] + difficulty[h]

\* WriteHeader stores h and its difficulty on whatever branch it is.
Store(h) ==
    /\ headers' = headers \cup {h}
    /\ td' = [td EXCEPT ![h] = externTd(h)]

InsertCanonical(h) ==
    /\ ~panicked /\ currentHeader # None
    /\ Insertable(h)
    /\ externTd(h) >= td[currentHeader]
    /\ Store(h)
    /\ \E j \in 0 .. MaxNumber, e \in 0 .. MaxNumber + 1 :
         /\ IsJoint(j, h) /\ IsEnd(e, h)
         /\ Missing(h, j) = {}
         /\ canon' = Rerouted(h, j, e)
    /\ currentHeader' = h
    /\ UNCHANGED panicked /\ UNCHANGED past

\* Mutant of InsertSide: branches are compared by their length.
InsertShorter(h) ==
    /\ ~panicked /\ currentHeader # None
    /\ Insertable(h)
    /\ number[h] <= number[currentHeader]
    /\ Store(h)
    /\ UNCHANGED <<canon, currentHeader, panicked>> /\ UNCHANGED past

InsertSide(h) ==
    /\ ~panicked /\ currentHeader # None
    /\ Insertable(h)
    /\ externTd(h) <= td[currentHeader]
    /\ Store(h)
    /\ UNCHANGED <<canon, currentHeader, panicked>> /\ UNCHANGED past

\* The walk reaches a block whose header was deleted: the process dies.
InsertPanics(h) ==
    /\ ~panicked /\ currentHeader # None
    /\ Insertable(h)
    /\ externTd(h) >= td[currentHeader]
    /\ Store(h)
    /\ \E j \in 0 .. MaxNumber, e \in 0 .. MaxNumber + 1, m \in 0 .. MaxNumber :
         /\ IsJoint(j, h) /\ IsEnd(e, h)
         /\ m \in Missing(h, j) /\ \A n \in Missing(h, j) : n <= m
         /\ canon' = Torn(h, m, e)
    /\ panicked' = TRUE
    /\ UNCHANGED currentHeader /\ UNCHANGED past

\* The difficulty of a nil head is looked up by its number: the process dies.
InsertHeadless(h) ==
    /\ ~panicked /\ currentHeader = None
    /\ Insertable(h)
    /\ panicked' = TRUE
    /\ UNCHANGED <<headers, td, canon, currentHeader>> /\ UNCHANGED past

-----------------------------------------------------------------------------
Height == IF currentHeader = None THEN 0 ELSE number[currentHeader]

\* SetHead deletes the head's own branch down to n, until it comes to the number of a
\* header that is not stored.
Cut(n) == {k \in n + 1 .. Height : line[currentHeader][k] \notin headers}

Gone(n) == {line[currentHeader][k] :
                k \in {i \in n + 1 .. Height : \A c \in Cut(n) : i > c}}

TdWithout(n) == [b \in Block |-> IF b \in Gone(n) THEN -1 ELSE td[b]]

\* Mutant of NumbersUpTo: the loop starts one below the old head.
NumbersBelow(n) == [k \in 0 .. MaxNumber |->
                        IF k > n /\ k < Height THEN None ELSE canon[k]]

NumbersUpTo(n) == [k \in 0 .. MaxNumber |->
                       IF k > n /\ k <= Height THEN None ELSE canon[k]]

\* Mutant of HeadAt: the new head is looked up by its number.
NumberedHead(n) == canon[n]

HeadAt(n) == IF currentHeader # None /\ Height <= n THEN currentHeader
             ELSE IF currentHeader # None /\ Cut(n) = {} /\ line[currentHeader][n] \in headers
                  THEN line[currentHeader][n] ELSE Genesis

SetHead(n) ==
    /\ ~panicked
    /\ rewound' = TRUE
    /\ headers' = headers \ Gone(n)
    /\ td' = TdWithout(n)
    /\ canon' = NumbersUpTo(n)
    /\ currentHeader' = HeadAt(n)
    /\ UNCHANGED panicked /\ UNCHANGED rolledBack

\* Rollback gives the headers of tip's branch from lo upwards back, newest first: the
\* head follows down as long as it is the one given back.
GivesBack(tip, lo) ==
    /\ tip \in headers /\ lo \in 1 .. number[tip] /\ currentHeader # None
    /\ lo <= number[currentHeader] /\ number[currentHeader] <= number[tip]
    /\ currentHeader = line[tip][number[currentHeader]]

\* The parents the head steps to.
Steps(tip, lo) == {line[tip][k] : k \in lo - 1 .. number[currentHeader] - 1}

Rollback(tip, lo) ==
    /\ ~panicked
    /\ GivesBack(tip, lo) /\ Steps(tip, lo) \subseteq headers
    /\ currentHeader' = line[tip][lo - 1]
    /\ rolledBack' = TRUE
    /\ UNCHANGED <<headers, td, canon, panicked>> /\ UNCHANGED rewound

\* GetHeader does not find one of them, and the nil that it returns becomes the head.
RollbackLosesHead(tip, lo) ==
    /\ ~panicked
    /\ GivesBack(tip, lo) /\ ~(Steps(tip, lo) \subseteq headers)
    /\ currentHeader' = None
    /\ rolledBack' = TRUE
    /\ UNCHANGED <<headers, td, canon, panicked>> /\ UNCHANGED rewound

Next ==
    \/ \E h \in Block : InsertCanonical(h) \/ InsertSide(h) \/ InsertPanics(h) \/ InsertHeadless(h)
    \/ \E n \in 0 .. MaxNumber : SetHead(n)
    \/ \E tip \in Block, lo \in 1 .. MaxNumber : Rollback(tip, lo) \/ RollbackLosesHead(tip, lo)

Spec == Init /\ [][Next]_vars

-----------------------------------------------------------------------------
(* Properties *)

\* Type correctness of the header chain's state.  The head is nil only where Rollback
\* stepped to a header that SetHead had deleted.
TypeOK ==
    /\ headers \subseteq Block
    /\ td \in [Block -> Nat \cup {-1}]
    /\ canon \in [0 .. MaxNumber -> Block \cup {None}]
    /\ currentHeader \in Block \cup {None}
    /\ currentHeader = None => rewound /\ rolledBack
    /\ panicked \in BOOLEAN /\ rewound \in BOOLEAN /\ rolledBack \in BOOLEAN

\* The canonical numbering is the chain of the head: the head has its number, and
\* below it every number holds the stored parent of the header one above, down to
\* the genesis, whatever mix of imports and reorganisations with rewinds, or with
\* rollbacks, led there (WriteHeader's deletion above the new head and walk below it).
CanonIsChain ==
    (~panicked /\ ~(rewound /\ rolledBack)) =>
        /\ canon[0] = Genesis
        /\ canon[number[currentHeader]] = currentHeader
        /\ \A n \in 1 .. number[currentHeader] :
              canon[n] \in headers /\ canon[n - 1] = parent[canon[n]]

\* A header chain that only imports follows the heaviest branch it knows: no header
\* stored, on any branch, has a total difficulty above the head's (the comparison in
\* WriteHeader, against the branch's own parent and not against the head).
HeaviestHead ==
    (~rewound /\ ~rolledBack) => \A h \in headers : td[h] <= td[currentHeader]

\* After SetHead(n) no number above n has a canonical header ("Everything above the
\* new head will be deleted and the new one set"), unless an earlier Rollback left
\* numbers above the head.
SetHeadClears ==
    [][\A n \in 0 .. MaxNumber :
          SetHead(n) => (rolledBack \/ \A k \in n + 1 .. MaxNumber : canon'[k] = None)]_vars

\* WriteHeader dereferences no header that is not stored, in a chain that has never been
\* rewound, however often headers were rolled back.
NeverPanics == ~rewound => ~panicked

\* headerchain.go:122 "WriteHeader writes a header into the local chain, given that its
\* parent is already known": it never dies on such a header.
WriteHeaderReturns == [][\A h \in Block : ~InsertPanics(h) /\ ~InsertHeadless(h)]_vars

=============================================================================
