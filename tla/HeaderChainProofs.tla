-------------------------- MODULE HeaderChainProofs -------------------------
(***************************************************************************)
(* For every tree of headers: a chain that was imported into and rewound,  *)
(* or imported into and rolled back, numbers exactly the chain of its      *)
(* head; a chain that was never rewound never dies of a missing header; a  *)
(* chain that was only imported into follows the heaviest branch.          *)
(*                                                                         *)
(* The canonical numbering is compared with the branch of a header by      *)
(* induction on the number, which is done here by looking at the least     *)
(* counterexample (LeastElement).                                          *)
(***************************************************************************)
EXTENDS HeaderChain, WellFoundedInduction, TLAPS

\* Every non-empty set of naturals has a least element.
LEMMA LeastElement ==
  ASSUME NEW T, T \subseteq Nat, T # {}
  PROVE  \E x \in T : \A y \in T : x <= y
<1> DEFINE R == OpToRel(<, Nat)
<1>1. IsWellFoundedOn(R, Nat)
  BY NatLessThanWellFounded
<1>2. \A x, y \in Nat : y < x => <<y, x>> \in R
  BY DEF OpToRel
<1> HIDE DEF R
<1>3. PICK x \in T : \A y \in T : ~ (<<y, x>> \in R)
  BY <1>1, WFMin
<1>4. ASSUME NEW y \in T PROVE x <= y
  <2>1. ~ (<<y, x>> \in R)
    BY <1>3
  <2>2. x \in Nat /\ y \in Nat
    OBVIOUS
  <2>3. ~(y < x)
    BY <2>1, <2>2, <1>2, Zenon
  <2> QED BY <2>2, <2>3
<1> QED BY <1>4

\* The line of a block is a branch from the genesis to it.
LEMMA LineIsLine ==
  ASSUME NEW b \in Block
  PROVE  /\ line[b] \in [0 .. number[b] -> Block]
         /\ line[b][0] = Genesis /\ line[b][number[b]] = b
         /\ \A n \in 1 .. number[b] :
              line[b][n] # Genesis /\ line[b][n - 1] = parent[line[b][n]] /\ number[line[b][n]] = n
<1>1. \E f \in [0 .. number[b] -> Block] : IsLine(f, b)
  BY LineAssumption
<1>2. line[b] = CHOOSE f \in [0 .. number[b] -> Block] : IsLine(f, b)
  BY DEF line
<1>3. line[b] \in [0 .. number[b] -> Block] /\ IsLine(line[b], b)
  BY <1>1, <1>2, Zenon
<1> QED BY <1>3 DEF IsLine

\* Two branches that meet at m are the same below m; in the first one only the
\* numbers that are taken need be linked.
LEMMA BranchesMeet ==
  ASSUME NEW f, NEW g, NEW m \in Nat, f[m] = g[m],
         \A n \in 1 .. m : f[n] # None => f[n - 1] = parent[f[n]],
         \A n \in 1 .. m : g[n] # None /\ g[n - 1] = parent[g[n]]
  PROVE  \A n \in 0 .. m : f[n] = g[n]
<1> DEFINE T == {k \in 0 .. m : f[m - k] # g[m - k]}
<1>1. CASE T = {}
  <2> TAKE n \in 0 .. m
  <2>1. m - n \in 0 .. m /\ m - (m - n) = n
    OBVIOUS
  <2>2. f[m - (m - n)] = g[m - (m - n)]
    BY <1>1, <2>1
  <2> QED BY <2>1, <2>2
<1>2. CASE T # {}
  <2>1. T \subseteq Nat
    OBVIOUS
  <2> HIDE DEF T
  <2>2. PICK x \in T : \A y \in T : x <= y
    BY <1>2, <2>1, LeastElement
  <2>3. x \in 0 .. m /\ f[m - x] # g[m - x]
    BY <2>2 DEF T
  <2>4. x # 0
    BY <2>3
  <2>5. x - 1 \in 0 .. m /\ x - 1 \notin T
    BY <2>2, <2>3, <2>4
  <2>6. f[m - (x - 1)] = g[m - (x - 1)]
    BY <2>5 DEF T
  <2> DEFINE n == m - (x - 1)
  <2>7. n \in 1 .. m /\ n - 1 = m - x
    BY <2>3, <2>4
  <2>8. f[n] = g[n]
    BY <2>6
  <2> HIDE DEF n
  <2>9. g[n] # None /\ g[n - 1] = parent[g[n]]
    BY <2>7
  <2>10. f[n - 1] = parent[f[n]]
    BY <2>7, <2>8, <2>9
  <2>11. f[m - x] = g[m - x]
    BY <2>7, <2>8, <2>9, <2>10
  <2> QED BY <2>3, <2>11
<1> QED BY <1>1, <1>2

-----------------------------------------------------------------------------
(* The inductive invariant.  The numbering may hold numbers above the head *)
(* once headers were rolled back, so it is a chain up to its own end, and  *)
(* ends at the head when nothing was rolled back.                          *)

Sound == ~panicked /\ ~(rewound /\ rolledBack)

Known == /\ currentHeader \in headers
         /\ \A h \in Block : h \in headers <=> td[h] # -1

Linked == \A n \in 1 .. MaxNumber :
              canon[n] # None => canon[n] \in headers /\ canon[n - 1] = parent[canon[n]]

HeadNumbered == canon[0] = Genesis /\ canon[number[currentHeader]] = currentHeader

NothingAbove == ~rolledBack => \A n \in number[currentHeader] + 1 .. MaxNumber : canon[n] = None

BaseInv == TypeOK /\ Genesis \in headers

ChainInv == /\ BaseInv
            /\ Sound => Known /\ Linked /\ HeadNumbered /\ NothingAbove

USE BlockAssumption

\* A sound chain has a head.
LEMMA HeadIsBlock ==
  ASSUME ChainInv, Sound
  PROVE  currentHeader \in Block /\ currentHeader # None /\ Height = number[currentHeader]
<1>1. currentHeader \in Block \cup {None} /\ (currentHeader = None => rewound /\ rolledBack)
  BY DEF ChainInv, BaseInv, TypeOK
<1>2. ~(rewound /\ rolledBack)
  BY DEF Sound
<1> QED BY <1>1, <1>2 DEF Height

\* Where the numbering meets a branch it is that branch down to the genesis.
LEMMA CanonMeets ==
  ASSUME ChainInv, Sound, NEW tip \in Block, NEW m \in 0 .. number[tip],
         canon[m] = line[tip][m]
  PROVE  \A n \in 0 .. m : canon[n] = line[tip][n]
<1> DEFINE g == line[tip]
<1>1. m \in Nat /\ m \in 0 .. MaxNumber /\ number[tip] \in Nat
  OBVIOUS
<1>2. /\ g \in [0 .. number[tip] -> Block]
      /\ \A n \in 1 .. number[tip] : g[n - 1] = parent[g[n]]
  <2>1. /\ line[tip] \in [0 .. number[tip] -> Block]
        /\ \A n \in 1 .. number[tip] : line[tip][n - 1] = parent[line[tip][n]]
    BY ONLY tip \in Block, LineIsLine
  <2> QED BY ONLY <2>1 DEF g
<1>3. canon[m] = g[m]
  OBVIOUS
<1>4. \A n \in 1 .. m : canon[n] # None => canon[n - 1] = parent[canon[n]]
  BY <1>1 DEF ChainInv, Linked
<1> HIDE DEF g
<1>5. \A n \in 1 .. m : g[n] # None /\ g[n - 1] = parent[g[n]]
  <2> TAKE n \in 1 .. m
  <2>1. n \in 0 .. number[tip] /\ n \in 1 .. number[tip]
    BY <1>1
  <2>2. g[n] \in Block
    BY <2>1, <1>2
  <2> QED BY <2>1, <2>2, <1>2
<1>6. m \in Nat
  BY <1>1
<1>7. \A n \in 0 .. m : canon[n] = g[n]
  BY ONLY <1>3, <1>4, <1>5, <1>6, BranchesMeet
<1> QED BY <1>7 DEF g

\* Up to the head's number the numbering is the head's own branch.
LEMMA CanonIsLine ==
  ASSUME ChainInv, Sound
  PROVE  \A n \in 0 .. number[currentHeader] : canon[n] = line[currentHeader][n]
<1>1. currentHeader \in Block /\ number[currentHeader] \in 0 .. number[currentHeader]
  BY HeadIsBlock
<1>2. canon[number[currentHeader]] = line[currentHeader][number[currentHeader]]
  BY <1>1, LineIsLine DEF ChainInv, HeadNumbered
<1> QED BY <1>1, <1>2, CanonMeets

\* The numbering of a sound chain, up to the head, is of stored headers; so a rollback
\* steps to stored headers only.
LEMMA StepsStored ==
  ASSUME ChainInv, Sound, NEW tip \in Block, NEW lo \in 1 .. MaxNumber, GivesBack(tip, lo)
  PROVE  Steps(tip, lo) \subseteq headers
<1> DEFINE m == number[currentHeader]
           g == line[tip]
<1>1. m <= number[tip] /\ lo <= m /\ currentHeader = g[m]
  BY DEF GivesBack
<1>2. currentHeader \in Block /\ m \in 0 .. MaxNumber /\ m \in 0 .. number[tip]
  BY <1>1, HeadIsBlock
<1>3. g \in [0 .. number[tip] -> Block] /\ g[0] = Genesis
  BY LineIsLine
<1>4. canon[m] = g[m]
  BY <1>1 DEF ChainInv, HeadNumbered
<1>5. \A n \in 0 .. m : canon[n] = g[n]
  BY <1>2, <1>4, CanonMeets
<1> HIDE DEF m, g
<1>6. ASSUME NEW k \in lo - 1 .. m - 1 PROVE g[k] \in headers
  <2>1. k \in 0 .. m /\ k \in 0 .. MaxNumber /\ k \in 0 .. number[tip]
    BY <1>2
  <2>2. CASE k = 0
    BY <2>2, <1>3 DEF ChainInv, BaseInv
  <2>3. CASE k # 0
    <3>1. k \in 1 .. MaxNumber
      BY <2>1, <2>3
    <3>2. canon[k] = g[k]
      BY <2>1, <1>5
    <3>3. g[k] \in Block
      BY <2>1, <1>3
    <3> QED BY <3>1, <3>2, <3>3 DEF ChainInv, Linked
  <2> QED BY <2>2, <2>3
<1> QED BY <1>6 DEF Steps, m, g

\* The part of the invariant that every step keeps, whatever the history.
LEMMA BaseKeeps ==
  ASSUME ChainInv, [Next]_vars
  PROVE  BaseInv'
<1>0. BaseInv
  BY DEF ChainInv
<1>1. ASSUME NEW h \in Block, Insertable(h), Store(h)
      PROVE  Genesis \in headers' /\ headers' \subseteq Block /\ td' \in [Block -> Nat \cup {-1}]
  BY <1>0, <1>1 DEF BaseInv, TypeOK, Insertable, Store, externTd
<1>2. ASSUME NEW h \in Block, InsertCanonical(h) PROVE BaseInv'
  <2>1. PICK j \in 0 .. MaxNumber, e \in 0 .. MaxNumber + 1 :
          IsJoint(j, h) /\ canon' = Rerouted(h, j, e)
    BY <1>2 DEF InsertCanonical
  <2>2. \A n \in 0 .. number[h] : line[h][n] \in Block
    <3>1. line[h] \in [0 .. number[h] -> Block]
      BY LineIsLine
    <3> QED BY <3>1
  <2>3. canon' \in [0 .. MaxNumber -> Block \cup {None}]
    <3> SUFFICES ASSUME NEW n \in 0 .. MaxNumber PROVE canon'[n] \in Block \cup {None}
      BY <2>1 DEF Rerouted
    <3>1. canon[n] \in Block \cup {None}
      BY <1>0 DEF BaseInv, TypeOK
    <3> QED BY <2>1, <2>2, <3>1 DEF Rerouted
  <2> QED BY <1>0, <1>1, <1>2, <2>3 DEF InsertCanonical, BaseInv, TypeOK, past
<1>3. ASSUME NEW h \in Block, InsertSide(h) PROVE BaseInv'
  BY <1>0, <1>1, <1>3 DEF InsertSide, BaseInv, TypeOK, past
<1>4. ASSUME NEW h \in Block, InsertPanics(h) PROVE BaseInv'
  <2>1. PICK j \in 0 .. MaxNumber, e \in 0 .. MaxNumber + 1, m \in 0 .. MaxNumber :
          canon' = Torn(h, m, e)
    BY <1>4 DEF InsertPanics
  <2>2. \A n \in 0 .. number[h] : line[h][n] \in Block
    <3>1. line[h] \in [0 .. number[h] -> Block]
      BY LineIsLine
    <3> QED BY <3>1
  <2>3. canon' \in [0 .. MaxNumber -> Block \cup {None}]
    <3> SUFFICES ASSUME NEW n \in 0 .. MaxNumber PROVE canon'[n] \in Block \cup {None}
      BY <2>1 DEF Torn
    <3>1. canon[n] \in Block \cup {None}
      BY <1>0 DEF BaseInv, TypeOK
    <3> QED BY <2>1, <2>2, <3>1 DEF Torn
  <2> QED BY <1>0, <1>1, <1>4, <2>3 DEF InsertPanics, BaseInv, TypeOK, past
<1>5. ASSUME NEW n \in 0 .. MaxNumber, SetHead(n) PROVE BaseInv'
  <2>1. TypeOK /\ currentHeader \in Block \cup {None}
    BY <1>0 DEF BaseInv, TypeOK
  <2>2. TdWithout(n) \in [Block -> Nat \cup {-1}] /\ NumbersUpTo(n) \in [0 .. MaxNumber -> Block \cup {None}]
    BY <2>1 DEF TypeOK, TdWithout, NumbersUpTo
  <2>3. Genesis \notin Gone(n) /\ HeadAt(n) \in Block
    <3>1. CASE currentHeader = None
      <4>1. Height = 0 /\ HeadAt(n) = Genesis
        BY <3>1 DEF Height, HeadAt
      <4>2. \A i \in n + 1 .. Height : FALSE
        BY <4>1
      <4> QED BY <4>1, <4>2 DEF Gone
    <3>2. CASE currentHeader # None
      <4>1. currentHeader \in Block /\ Height = number[currentHeader] /\ Height \in 0 .. MaxNumber
        BY <2>1, <3>2 DEF Height
      <4>2. /\ line[currentHeader] \in [0 .. Height -> Block]
            /\ \A k \in 1 .. Height : line[currentHeader][k] # Genesis
        BY <4>1, LineIsLine
      <4>3. Genesis \notin Gone(n)
        BY <4>1, <4>2 DEF Gone
      <4>4. ASSUME n <= Height PROVE line[currentHeader][n] \in Block
        <5>1. n \in 0 .. Height
          BY <4>1, <4>4
        <5> QED BY <4>2, <5>1
      <4> QED BY <4>1, <4>3, <4>4 DEF HeadAt
    <3> QED BY <3>1, <3>2
  <2> QED BY <1>0, <1>5, <2>2, <2>3 DEF SetHead, BaseInv, TypeOK
<1>6. ASSUME NEW tip \in Block, NEW lo \in 1 .. MaxNumber, Rollback(tip, lo) PROVE BaseInv'
  <2>1. line[tip] \in [0 .. number[tip] -> Block] /\ lo - 1 \in 0 .. number[tip]
    BY <1>6, LineIsLine, SMTT(20) DEF Rollback, GivesBack
  <2>2. currentHeader' \in Block
    BY <1>6, <2>1 DEF Rollback
  <2> QED BY <1>0, <1>6, <2>2 DEF Rollback, BaseInv, TypeOK
<1>7. ASSUME NEW tip \in Block, NEW lo \in 1 .. MaxNumber, RollbackLosesHead(tip, lo) PROVE BaseInv'
  <2>1. ~Sound
    BY <1>7, StepsStored DEF RollbackLosesHead
  <2>2. rewound
    BY <1>7, <2>1 DEF RollbackLosesHead, Sound
  <2> QED BY <1>0, <1>7, <2>2 DEF RollbackLosesHead, BaseInv, TypeOK
<1>9. ASSUME NEW h \in Block, InsertHeadless(h) PROVE BaseInv'
  BY <1>0, <1>9 DEF InsertHeadless, BaseInv, TypeOK, past
<1>8. ASSUME UNCHANGED vars PROVE BaseInv'
  BY <1>0, <1>8 DEF vars, BaseInv, TypeOK
<1> QED BY <1>2, <1>3, <1>4, <1>5, <1>6, <1>7, <1>8, <1>9 DEF Next

LEMMA InitChain == Init => ChainInv
<1> SUFFICES ASSUME Init PROVE ChainInv
  OBVIOUS
<1>1. /\ headers = {Genesis} /\ currentHeader = Genesis /\ number[Genesis] = 0
      /\ panicked = FALSE /\ rewound = FALSE /\ rolledBack = FALSE
      /\ canon \in [0 .. MaxNumber -> Block \cup {None}] /\ canon[0] = Genesis
      /\ \A n \in 1 .. MaxNumber : canon[n] = None
  BY DEF Init
<1>2. td \in [Block -> Nat \cup {-1}] /\ \A h \in Block : h = Genesis <=> td[h] # -1
  BY DEF Init
<1>3. TypeOK
  BY <1>1, <1>2 DEF TypeOK
<1>4. Known
  BY <1>1, <1>2 DEF Known
<1>5. Linked /\ HeadNumbered /\ NothingAbove
  BY <1>1 DEF Linked, HeadNumbered, NothingAbove
<1> QED BY <1>1, <1>3, <1>4, <1>5 DEF ChainInv, BaseInv

\* Above a free number the numbering is free.
LEMMA FreeAbove ==
  ASSUME ChainInv, Sound, NEW e \in 1 .. MaxNumber, canon[e] = None
  PROVE  \A n \in e .. MaxNumber : canon[n] = None
<1> DEFINE T == {n \in e .. MaxNumber : canon[n] # None}
<1>1. CASE T = {}
  BY <1>1
<1>2. CASE T # {}
  <2>1. T \subseteq Nat
    OBVIOUS
  <2> HIDE DEF T
  <2>2. PICK x \in T : \A y \in T : x <= y
    BY <1>2, <2>1, LeastElement
  <2>3. x \in e .. MaxNumber /\ canon[x] # None
    BY <2>2 DEF T
  <2>4. x # e
    BY <2>3
  <2>5. x - 1 \in e .. MaxNumber /\ x - 1 \notin T
    BY <2>2, <2>3, <2>4
  <2>6. canon[x - 1] = None
    BY <2>5 DEF T
  <2>7. x \in 1 .. MaxNumber /\ canon[x] \in Block /\ canon[x - 1] = parent[canon[x]]
    BY <2>3 DEF ChainInv, BaseInv, TypeOK, Linked
  <2> QED BY <2>6, <2>7
<1> QED BY <1>1, <1>2

\* Re-routing the numbering to h.
LEMMA RerouteKeeps ==
  ASSUME ChainInv, Sound, NEW h \in Block, InsertCanonical(h)
  PROVE  (Known /\ Linked /\ HeadNumbered /\ NothingAbove)'
<1>1. PICK j \in 0 .. MaxNumber, e \in 0 .. MaxNumber + 1 :
        /\ IsJoint(j, h) /\ IsEnd(e, h) /\ Missing(h, j) = {}
        /\ canon' = Rerouted(h, j, e)
  BY DEF InsertCanonical
<1>2. /\ rolledBack' = rolledBack /\ currentHeader' = h
      /\ h \notin headers /\ parent[h] \in headers
      /\ headers' = headers \cup {h}
      /\ td' = [td EXCEPT ![h] = td[parent[h]] + difficulty[h]]
      /\ td[parent[h]] # -1
  BY DEF InsertCanonical, Insertable, Store, externTd, past
<1>3. h # Genesis /\ number[h] \in 1 .. MaxNumber
  BY <1>2 DEF ChainInv, BaseInv
<1> DEFINE g == line[h]
           m == number[h]
<1>4. /\ g \in [0 .. m -> Block] /\ g[m] = h
      /\ \A n \in 1 .. m : g[n - 1] = parent[g[n]]
  BY LineIsLine
<1>5. /\ j \in 0 .. m - 1 /\ canon[j] = g[j]
      /\ \A n \in j + 1 .. m - 1 : g[n] \in headers
  BY <1>1, <1>3 DEF IsJoint, Missing
<1>6. /\ e \in m + 1 .. MaxNumber + 1 /\ (e <= MaxNumber => canon[e] = None)
  BY <1>1 DEF IsEnd
<1>7. canon' = [n \in 0 .. MaxNumber |-> IF n > m /\ n < e THEN None
                                         ELSE IF n > j /\ n <= m THEN g[n] ELSE canon[n]]
  BY <1>1 DEF Rerouted
<1> HIDE DEF g, m
<1>8. m \in 1 .. MaxNumber
  BY <1>3 DEF m
<1>10. Known'
  <2>1. td[parent[h]] + difficulty[h] # -1
    BY <1>2 DEF ChainInv, BaseInv, TypeOK
  <2> QED BY <1>2, <2>1, SMTT(20) DEF ChainInv, BaseInv, TypeOK, Known
<1>11. Linked'
  <2> SUFFICES ASSUME NEW n \in 1 .. MaxNumber, canon'[n] # None
               PROVE  canon'[n] \in headers' /\ canon'[n - 1] = parent[canon'[n]]
    BY DEF Linked
  <2>1. CASE n <= j
    <3>1. canon'[n] = canon[n] /\ canon'[n - 1] = canon[n - 1]
      BY <1>5, <1>7, <1>8, <2>1
    <3> QED BY <3>1, <1>2 DEF ChainInv, Linked
  <2>2. CASE n > j /\ n <= m
    <3>1. canon'[n] = g[n]
      BY <1>5, <1>7, <1>8, <2>2
    <3>2. canon'[n - 1] = g[n - 1]
      <4>1. n - 1 \in 0 .. MaxNumber /\ n - 1 >= j /\ n - 1 <= m
        BY <1>5, <1>8, <2>2
      <4>2. CASE n - 1 = j
        BY <4>1, <4>2, <1>5, <1>7, <1>8
      <4>3. CASE n - 1 > j
        BY <4>1, <4>3, <1>5, <1>7, <1>8
      <4> QED BY <4>1, <4>2, <4>3, <1>5
    <3>3. g[n] \in headers'
      BY <1>2, <1>4, <1>5, <1>8, <2>2
    <3> QED BY <3>1, <3>2, <3>3, <1>4, <1>8, <2>2
  <2>3. CASE n > m
    <3>1. n >= e /\ canon'[n] = canon[n]
      BY <1>5, <1>6, <1>7, <1>8, <2>3
    <3>2. n # e
      BY <1>6, <3>1
    <3>3. canon'[n - 1] = canon[n - 1]
      BY <1>5, <1>6, <1>7, <1>8, <2>3, <3>1, <3>2
    <3> QED BY <3>1, <3>3, <1>2 DEF ChainInv, Linked
  <2> QED BY <2>1, <2>2, <2>3, <1>5, <1>8
<1>12. HeadNumbered'
  <2>1. canon'[0] = canon[0]
    BY <1>5, <1>7, <1>8
  <2>2. canon'[m] = h
    BY <1>4, <1>5, <1>7, <1>8
  <2> QED BY <2>1, <2>2, <1>2 DEF ChainInv, HeadNumbered, m
<1>13. NothingAbove'
  <2> SUFFICES ASSUME ~rolledBack, NEW n \in m + 1 .. MaxNumber
               PROVE  canon'[n] = None
    BY <1>2 DEF NothingAbove, m
  <2>1. CASE n < e
    BY <1>7, <1>8, <2>1
  <2>2. CASE n >= e
    <3>1. e \in 1 .. MaxNumber /\ canon[e] = None /\ n \in e .. MaxNumber
      BY <1>6, <1>8, <2>2
    <3>2. canon[n] = None
      BY <3>1, <1>2, FreeAbove
    <3> QED BY <3>2, <1>5, <1>7, <1>8, <2>2
  <2> QED BY <2>1, <2>2, <1>6, <1>8
<1> QED BY <1>10, <1>11, <1>12, <1>13

LEMMA SideKeeps ==
  ASSUME ChainInv, Sound, NEW h \in Block, InsertSide(h)
  PROVE  (Known /\ Linked /\ HeadNumbered /\ NothingAbove)'
<1>1. /\ rolledBack' = rolledBack /\ currentHeader' = currentHeader /\ canon' = canon
      /\ headers' = headers \cup {h} /\ h \notin headers
      /\ td' = [td EXCEPT ![h] = td[parent[h]] + difficulty[h]]
      /\ td[parent[h]] # -1
  BY DEF InsertSide, Insertable, Store, externTd, past
<1>2. td[parent[h]] + difficulty[h] \in Nat /\ td[parent[h]] + difficulty[h] # -1
  BY <1>1 DEF ChainInv, BaseInv, TypeOK
<1>3. Known'
  BY <1>1, <1>2, SMTT(20) DEF ChainInv, BaseInv, TypeOK, Known
<1>4. Linked' /\ HeadNumbered' /\ NothingAbove'
  BY <1>1 DEF ChainInv, Linked, HeadNumbered, NothingAbove
<1> QED BY <1>3, <1>4

\* A rewind, given that nothing was ever rolled back.
LEMMA SetHeadKeeps ==
  ASSUME ChainInv, Sound, ~rolledBack, NEW n \in 0 .. MaxNumber, SetHead(n)
  PROVE  (Known /\ Linked /\ HeadNumbered /\ NothingAbove)'
<1> DEFINE m == number[currentHeader]
           g == line[currentHeader]
           cut == {k \in n + 1 .. m : g[k] \notin headers}
           low == {k \in n + 1 .. m : \A c \in cut : k > c}
           gone == {g[k] : k \in low}
<1>1. /\ headers' = headers \ gone
      /\ td' = [b \in Block |-> IF b \in gone THEN -1 ELSE td[b]]
      /\ canon' = [k \in 0 .. MaxNumber |-> IF k > n /\ k <= m THEN None ELSE canon[k]]
      /\ currentHeader' = IF m <= n THEN currentHeader
                          ELSE IF cut = {} /\ g[n] \in headers THEN g[n] ELSE Genesis
  <2>1. Height = m /\ currentHeader # None
    BY HeadIsBlock
  <2> QED BY <2>1 DEF SetHead, Cut, Gone, TdWithout, NumbersUpTo, HeadAt
<1>2. currentHeader \in Block /\ m \in 0 .. MaxNumber
  BY HeadIsBlock
<1>3. /\ g \in [0 .. m -> Block] /\ g[0] = Genesis
      /\ \A k \in 1 .. m : number[g[k]] = k
  <2>1. currentHeader \in Block
    BY <1>2
  <2> QED BY ONLY <2>1, LineIsLine
<1>4. \A k \in 0 .. m : canon[k] = g[k]
  BY <1>1, CanonIsLine
<1>5. \A k \in 0 .. m : g[k] \in headers
  <2> TAKE k \in 0 .. m
  <2>1. CASE k = 0
    BY <2>1, <1>3 DEF ChainInv, BaseInv
  <2>2. CASE k # 0
    <3>1. k \in 1 .. MaxNumber /\ canon[k] = g[k] /\ g[k] \in Block
      BY <2>2, <1>2, <1>3, <1>4
    <3> QED BY <3>1, <1>1 DEF ChainInv, Linked
  <2> QED BY <2>1, <2>2
<1>6. \A k \in 0 .. m : number[g[k]] = k
  BY <1>3
<1>7. \A k : k \in low <=> k \in n + 1 .. m
  BY <1>2, <1>5
<1>8. \A b \in gone : b \in Block /\ number[b] > n
  <2> TAKE b \in gone
  <2>1. PICK k \in low : b = g[k]
    OBVIOUS
  <2>2. k \in n + 1 .. m /\ k \in 0 .. m
    BY <2>1, <1>2, <1>7
  <2> HIDE DEF m, g, cut, low, gone
  <2>3. g[k] \in Block
    BY <2>2, <1>3
  <2>4. number[g[k]] = k /\ k > n
    BY <2>2, <1>2, <1>6 DEF m
  <2> QED BY <2>1, <2>3, <2>4
<1>9. currentHeader' = IF m <= n THEN currentHeader ELSE g[n]
  BY <1>1, <1>2, <1>5
<1>10. gone = {} \/ n < m
  BY <1>2, <1>7
<1>11. \A k \in n + 1 .. MaxNumber : canon'[k] = None
  BY <1>1, <1>2 DEF ChainInv, NothingAbove
<1>12. \A k \in 0 .. n : canon'[k] = canon[k]
  BY <1>1, <1>2
<1> HIDE DEF low, cut, gone, m, g
<1>14. currentHeader' \in Block
  BY <1>2, <1>3, <1>9
<1>15. number[currentHeader'] <= n /\ currentHeader' \in headers' /\ canon'[number[currentHeader']] = currentHeader'
  <2>1. CASE m <= n
    <3>1. currentHeader' = currentHeader /\ gone = {}
      BY <2>1, <1>2, <1>9, <1>10
    <3>2. currentHeader' \in headers'
      BY <3>1, <1>1 DEF ChainInv, Known
    <3>3. canon'[number[currentHeader]] = currentHeader
      BY <2>1, <1>1, <1>2, <1>12 DEF ChainInv, HeadNumbered, m
    <3> QED BY <3>1, <3>2, <3>3, <2>1 DEF m
  <2>2. CASE m > n
    <3>1. n \in 0 .. m /\ currentHeader' = g[n] /\ number[g[n]] = n
      BY <2>2, <1>2, <1>6, <1>9
    <3>2. g[n] \notin gone
      BY <3>1, <1>8
    <3>2a. g[n] \in headers'
      BY <3>1, <3>2, <1>1, <1>5
    <3>3. canon'[n] = g[n]
      BY <3>1, <1>4, <1>12
    <3> QED BY <3>1, <3>2a, <3>3
  <2> QED BY <2>1, <2>2, <1>2
<1>16. Known'
  <2>2. \A h \in Block : h \in headers' <=> td'[h] # -1
    BY <1>1 DEF ChainInv, Known
  <2> QED BY <1>15, <2>2 DEF Known
<1>17. Linked'
  <2> SUFFICES ASSUME NEW k \in 1 .. MaxNumber, canon'[k] # None
               PROVE  canon'[k] \in headers' /\ canon'[k - 1] = parent[canon'[k]]
    BY DEF Linked
  <2>1. k \in 1 .. n
    BY <1>11
  <2>2. canon'[k] = canon[k] /\ canon'[k - 1] = canon[k - 1]
    BY <2>1, <1>12
  <2>3. canon[k] \in headers /\ canon[k - 1] = parent[canon[k]]
    BY <2>2, <1>1 DEF ChainInv, Linked
  <2>4. k <= m
    BY <2>2, <1>1, <1>2 DEF ChainInv, NothingAbove, m
  <2>5. number[canon[k]] = k
    BY <2>1, <2>4, <1>2, <1>4, <1>6
  <2>6. canon[k] \in headers'
    BY <2>1, <2>3, <2>5, <1>1, <1>8
  <2> QED BY <2>2, <2>3, <2>6
<1>18. HeadNumbered'
  BY <1>1, <1>12, <1>15 DEF ChainInv, HeadNumbered
<1>19. NothingAbove'
  <2> SUFFICES ASSUME NEW k \in number[currentHeader'] + 1 .. MaxNumber
               PROVE  canon'[k] = None
    BY DEF NothingAbove
  <2>1. CASE k > n
    BY <2>1, <1>11, <1>14
  <2>2. CASE k <= n
    <3>1. currentHeader' = currentHeader /\ k > m
      <4>1. m <= n
        <5> SUFFICES ASSUME ~(m <= n) PROVE FALSE
          OBVIOUS
        <5>1. n \in 0 .. m /\ currentHeader' = g[n]
          BY <1>2, <1>9
        <5>2. number[currentHeader'] = n
          BY <5>1, <1>6
        <5> QED BY <5>2, <2>2
      <4> QED BY <4>1, <1>9, <1>14, <1>2 DEF m
    <3>2. k \in number[currentHeader] + 1 .. MaxNumber /\ k \in 0 .. n
      BY <3>1, <2>2, <1>2, <1>14 DEF m
    <3>3. canon[k] = None
      BY <3>2, <1>1 DEF ChainInv, NothingAbove
    <3> QED BY <3>2, <3>3, <1>12
  <2> QED BY <2>1, <2>2, <1>14
<1> QED BY <1>16, <1>17, <1>18, <1>19

\* A rollback follows tip's branch, which is the numbering below the head.
LEMMA RollbackKeeps ==
  ASSUME ChainInv, Sound, NEW tip \in Block, NEW lo \in 1 .. MaxNumber, Rollback(tip, lo)
  PROVE  (Known /\ Linked /\ HeadNumbered /\ NothingAbove)'
<1> DEFINE m == number[currentHeader]
           g == line[tip]
<1>1. /\ rolledBack' = TRUE
      /\ headers' = headers /\ td' = td /\ canon' = canon
      /\ m <= number[tip] /\ lo <= m /\ currentHeader = g[m]
      /\ currentHeader' = g[lo - 1]
  BY DEF Rollback, GivesBack
<1>2. currentHeader \in Block /\ m \in 0 .. MaxNumber
  BY HeadIsBlock
<1>3. /\ g \in [0 .. number[tip] -> Block] /\ g[0] = Genesis
      /\ \A k \in 1 .. number[tip] : g[k - 1] = parent[g[k]] /\ number[g[k]] = k
  BY LineIsLine
<1>4. canon[m] = g[m]
  BY <1>1 DEF ChainInv, HeadNumbered
<1>5. m \in 0 .. number[tip]
  BY <1>1, <1>2
<1>8. \A n \in 0 .. m : canon[n] = g[n]
  BY <1>1, <1>4, <1>5, CanonMeets
<1> HIDE DEF m, g
<1>6. \A n \in 0 .. m : g[n] \in Block
  BY <1>1, <1>2, <1>3
<1>9. lo - 1 \in 0 .. m
  BY <1>1, <1>2
<1>10. number[g[lo - 1]] = lo - 1
  <2>1. CASE lo = 1
    BY <2>1, <1>3
  <2>2. CASE lo # 1
    <3>1. lo - 1 \in 1 .. number[tip]
      BY <2>2, <1>1, <1>2
    <3> QED BY <3>1, <1>3
  <2> QED BY <2>1, <2>2
<1>11. g[lo - 1] \in headers
  <2>1. Steps(tip, lo) \subseteq headers /\ lo - 1 \in lo - 1 .. m - 1
    BY <1>1, <1>2 DEF Rollback
  <2> QED BY <2>1 DEF Steps, m, g
<1>12. HeadNumbered'
  BY <1>1, <1>8, <1>9, <1>10 DEF ChainInv, HeadNumbered
<1>13. Known' /\ Linked' /\ NothingAbove'
  BY <1>1, <1>11 DEF ChainInv, Known, Linked, NothingAbove
<1> QED BY <1>12, <1>13

\* ChainInv is preserved by every step.
LEMMA NextKeeps ==
  ASSUME ChainInv, [Next]_vars
  PROVE  ChainInv'
<1>1. BaseInv'
  BY BaseKeeps DEF ChainInv
<1> SUFFICES ASSUME Sound' PROVE (Known /\ Linked /\ HeadNumbered /\ NothingAbove)'
  BY <1>1, SMTT(20) DEF ChainInv
<1>2. Sound
  BY DEF Next, vars, past, InsertCanonical, InsertSide, InsertPanics, InsertHeadless, SetHead, Rollback,
         RollbackLosesHead, Sound, ChainInv, BaseInv, TypeOK
<1>3. ASSUME NEW h \in Block, InsertCanonical(h) PROVE (Known /\ Linked /\ HeadNumbered /\ NothingAbove)'
  BY <1>2, <1>3, RerouteKeeps
<1>4. ASSUME NEW h \in Block, InsertSide(h) PROVE (Known /\ Linked /\ HeadNumbered /\ NothingAbove)'
  BY <1>2, <1>4, SideKeeps
<1>5. ASSUME NEW h \in Block, InsertPanics(h) PROVE FALSE
  BY <1>5 DEF InsertPanics, Sound
<1>6. ASSUME NEW n \in 0 .. MaxNumber, SetHead(n) PROVE (Known /\ Linked /\ HeadNumbered /\ NothingAbove)'
  <2>1. ~rolledBack
    BY <1>6 DEF SetHead, Sound
  <2> QED BY <2>1, <1>2, <1>6, SetHeadKeeps
<1>7. ASSUME NEW tip \in Block, NEW lo \in 1 .. MaxNumber, Rollback(tip, lo)
      PROVE  (Known /\ Linked /\ HeadNumbered /\ NothingAbove)'
  BY <1>2, <1>7, RollbackKeeps
<1>8. ASSUME NEW tip \in Block, NEW lo \in 1 .. MaxNumber, RollbackLosesHead(tip, lo) PROVE FALSE
  BY <1>2, <1>8, StepsStored DEF RollbackLosesHead
<1>9. ASSUME UNCHANGED vars PROVE (Known /\ Linked /\ HeadNumbered /\ NothingAbove)'
  BY <1>2, <1>9 DEF vars, ChainInv, Known, Linked, HeadNumbered, NothingAbove
<1>10. ASSUME NEW h \in Block, InsertHeadless(h) PROVE FALSE
  BY <1>10 DEF InsertHeadless, Sound
<1> QED BY <1>3, <1>4, <1>5, <1>6, <1>7, <1>8, <1>9, <1>10 DEF Next

\* The invariant says that the numbering is the head's chain.
LEMMA ChainInvIsChain == ChainInv => CanonIsChain
<1> SUFFICES ASSUME ChainInv, Sound
             PROVE  /\ canon[0] = Genesis
                    /\ canon[number[currentHeader]] = currentHeader
                    /\ \A n \in 1 .. number[currentHeader] :
                         canon[n] \in headers /\ canon[n - 1] = parent[canon[n]]
  BY DEF CanonIsChain, Sound
<1>1. currentHeader \in Block /\ number[currentHeader] \in 0 .. MaxNumber
  BY HeadIsBlock
<1>2. line[currentHeader] \in [0 .. number[currentHeader] -> Block]
  BY <1>1, LineIsLine
<1>3. ASSUME NEW n \in 1 .. number[currentHeader]
      PROVE  canon[n] \in headers /\ canon[n - 1] = parent[canon[n]]
  <2>1. n \in 0 .. number[currentHeader] /\ n \in 1 .. MaxNumber
    BY <1>1
  <2>2. canon[n] \in Block
    BY <2>1, <1>2, CanonIsLine
  <2> QED BY <2>1, <2>2 DEF ChainInv, Linked
<1> QED BY <1>3 DEF ChainInv, HeadNumbered

\* As long as the chain was not both rewound and rolled back, the canonical numbering
\* below the head is the head's chain of stored headers (WriteHeader, SetHead, Rollback).
THEOREM CanonCorrect == Spec => []CanonIsChain
<1> QED BY InitChain, NextKeeps, ChainInvIsChain, PTL DEF Spec

\* Type correctness of the header chain, whatever its history.
THEOREM TypeCorrect == Spec => []TypeOK
<1>1. ChainInv => TypeOK
  BY DEF ChainInv, BaseInv
<1> QED BY <1>1, InitChain, NextKeeps, PTL DEF Spec

\* SetHead(n) leaves no number above n taken, in a chain that was never rolled back.
THEOREM SetHeadClearsCorrect == Spec => SetHeadClears
<1> DEFINE A == \A n \in 0 .. MaxNumber :
                    SetHead(n) => (rolledBack \/ \A k \in n + 1 .. MaxNumber : canon'[k] = None)
<1>1. ASSUME ~rolledBack, ChainInv, NEW n \in 0 .. MaxNumber, SetHead(n), NEW k \in n + 1 .. MaxNumber
      PROVE  canon'[k] = None
  <2>1. Sound /\ k \in 0 .. MaxNumber
    BY <1>1 DEF SetHead, Sound
  <2>2. canon'[k] = IF k > n /\ k <= number[currentHeader] THEN None ELSE canon[k]
    BY <1>1, <2>1, HeadIsBlock DEF SetHead, NumbersUpTo
  <2>3. number[currentHeader] \in 0 .. MaxNumber
    BY <1>1, <2>1, HeadIsBlock
  <2>4. CASE k <= number[currentHeader]
    BY <2>2, <2>4
  <2>5. CASE k > number[currentHeader]
    BY <1>1, <2>1, <2>2, <2>3, <2>5 DEF ChainInv, NothingAbove
  <2> QED BY <2>3, <2>4, <2>5
<1>2. ChainInv => A
  BY <1>1
<1>3. ChainInv => [A]_vars
  BY <1>2
<1> HIDE DEF A
<1>4. Spec => [][A]_vars
  BY <1>3, InitChain, NextKeeps, PTL DEF Spec
<1> QED BY <1>4 DEF A, SetHeadClears

-----------------------------------------------------------------------------
(* A chain that was never rewound keeps the parent of every header, so     *)
(* WriteHeader always finds what it dereferences.                          *)

ParentStored == \A h \in headers \ {Genesis} : parent[h] \in headers

Heaviest == \A h \in headers : td[h] <= td[currentHeader]

ImportInv == /\ ChainInv
             /\ ~rewound => ~panicked /\ ParentStored
             /\ ~rewound /\ ~rolledBack => Heaviest

\* Every ancestor of a header whose parent is stored is stored.
LEMMA AncestorsStored ==
  ASSUME ParentStored, NEW h \in Block, h # Genesis, parent[h] \in headers, headers \subseteq Block
  PROVE  \A n \in 0 .. number[h] - 1 : line[h][n] \in headers
<1> DEFINE g == line[h]
           m == number[h] - 1
           T == {k \in 0 .. m : g[m - k] \notin headers}
<1>1. m \in Nat /\ number[h] \in 1 .. number[h]
  OBVIOUS
<1>2. /\ g[number[h]] = h
      /\ \A n \in 1 .. number[h] : g[n] # Genesis /\ g[n - 1] = parent[g[n]]
  BY LineIsLine
<1>3. g[m] \in headers
  BY <1>1, <1>2
<1>4. \A n \in 1 .. m : g[n] # Genesis /\ g[n - 1] = parent[g[n]]
  BY <1>1, <1>2
<1> HIDE DEF g, m
<1>5. CASE T = {}
  <2> SUFFICES ASSUME NEW n \in 0 .. m PROVE g[n] \in headers
    BY DEF g, m
  <2>1. m - n \in 0 .. m /\ m - (m - n) = n
    BY <1>1
  <2>2. g[m - (m - n)] \in headers
    BY <1>5, <2>1
  <2> QED BY <2>1, <2>2
<1>6. CASE T # {}
  <2>1. T \subseteq Nat
    OBVIOUS
  <2> HIDE DEF T
  <2>2. PICK x \in T : \A y \in T : x <= y
    BY <1>6, <2>1, LeastElement
  <2>3. x \in 0 .. m /\ g[m - x] \notin headers
    BY <2>2 DEF T
  <2>4. x # 0
    BY <2>3, <1>1, <1>3
  <2>5. x - 1 \in 0 .. m /\ x - 1 \notin T
    BY <2>2, <2>3, <2>4, <1>1
  <2>6. g[m - (x - 1)] \in headers
    BY <2>5 DEF T
  <2>7. m - (x - 1) \in 1 .. m /\ (m - (x - 1)) - 1 = m - x
    BY <2>3, <2>4, <1>1
  <2>8. g[m - x] = parent[g[m - (x - 1)]] /\ g[m - (x - 1)] # Genesis
    BY <2>7, <1>4
  <2>9. g[m - x] \in headers
    BY <2>6, <2>8 DEF ParentStored
  <2> QED BY <2>3, <2>9
<1> QED BY <1>5, <1>6

\* A header that is stored on top of its parent keeps the parents stored.
LEMMA StoreKeepsParents ==
  ASSUME ParentStored, NEW h \in Block, Insertable(h), Store(h)
  PROVE  ParentStored'
BY DEF ParentStored, Insertable, Store

LEMMA ImportKeeps ==
  ASSUME ImportInv, [Next]_vars
  PROVE  ImportInv'
<1>1. ChainInv'
  BY NextKeeps DEF ImportInv
<1> SUFFICES ASSUME ~rewound' PROVE ImportInv'
  BY <1>1, SMTT(20) DEF ImportInv
<1>0. ~rewound
  BY DEF Next, vars, past, InsertCanonical, InsertSide, InsertPanics, InsertHeadless, SetHead, Rollback,
         RollbackLosesHead
<1>2. ChainInv /\ ~panicked /\ ParentStored /\ (~rolledBack => Heaviest)
  BY <1>0 DEF ImportInv
<1>3. BaseInv /\ TypeOK /\ Known /\ Sound /\ currentHeader \in Block /\ currentHeader # None
  BY <1>0, <1>2, HeadIsBlock DEF ChainInv, BaseInv, Sound
<1>4. ASSUME NEW h \in Block, InsertCanonical(h) PROVE ImportInv'
  <2>1. Insertable(h) /\ Store(h) /\ panicked' = panicked /\ rolledBack' = rolledBack /\ currentHeader' = h
        /\ externTd(h) >= td[currentHeader]
    BY <1>4 DEF InsertCanonical, past
  <2>2. ParentStored'
    BY <2>1, <1>2, StoreKeepsParents
  <2>3. ASSUME Heaviest PROVE Heaviest'
    <3> SUFFICES ASSUME NEW b \in headers' PROVE td'[b] <= td'[currentHeader']
      BY DEF Heaviest
    <3>1. td' = [td EXCEPT ![h] = externTd(h)] /\ externTd(h) \in Nat /\ td'[h] = externTd(h)
      BY <2>1, <1>3 DEF Store, TypeOK, externTd, Insertable
    <3>2. CASE b = h
      BY <3>1, <3>2, <2>1
    <3>3. CASE b # h
      <4>1. b \in headers /\ td'[b] = td[b] /\ td[b] <= td[currentHeader]
        BY <3>1, <3>3, <2>1, <2>3, <1>3 DEF Store, Heaviest, TypeOK
      <4>2. td[b] \in Int /\ td[currentHeader] \in Int
        BY <4>1, <1>3 DEF TypeOK
      <4> QED BY <4>1, <4>2, <3>1, <2>1
    <3> QED BY <3>2, <3>3
  <2> QED BY <2>1, <2>2, <2>3, <1>1, <1>2 DEF ImportInv
<1>5. ASSUME NEW h \in Block, InsertSide(h) PROVE ImportInv'
  <2>1. Insertable(h) /\ Store(h) /\ panicked' = panicked /\ rolledBack' = rolledBack /\ currentHeader' = currentHeader
        /\ externTd(h) <= td[currentHeader]
    BY <1>5 DEF InsertSide, past
  <2>2. ParentStored'
    BY <2>1, <1>2, StoreKeepsParents
  <2>3. ASSUME Heaviest PROVE Heaviest'
    <3>1. td' = [td EXCEPT ![h] = externTd(h)] /\ headers' = headers \cup {h} /\ h \notin headers
      BY <2>1 DEF Store, Insertable
    <3>2. currentHeader # h /\ td'[currentHeader] = td[currentHeader]
      BY <3>1, <1>3 DEF Known, TypeOK
    <3> QED BY <3>1, <3>2, <2>1, <2>3, <1>3 DEF Heaviest, TypeOK
  <2> QED BY <2>1, <2>2, <2>3, <1>1, <1>2 DEF ImportInv
<1>6. ASSUME NEW h \in Block, InsertPanics(h) PROVE FALSE
  <2>1. PICK j \in 0 .. MaxNumber, n \in 0 .. MaxNumber : n \in Missing(h, j)
    BY <1>6 DEF InsertPanics
  <2>2. h # Genesis /\ parent[h] \in headers /\ headers \subseteq Block
    BY <1>6, <1>3 DEF InsertPanics, Insertable, BaseInv, TypeOK
  <2>3. \A k \in 0 .. number[h] - 1 : line[h][k] \in headers
    BY <2>2, <1>2, AncestorsStored, SMTT(20)
  <2>4. n \in 0 .. number[h] - 1 /\ line[h][n] \notin headers
    BY <2>1 DEF Missing
  <2> QED BY <2>3, <2>4
<1>7. ASSUME NEW n \in 0 .. MaxNumber, SetHead(n) PROVE FALSE
  BY <1>7 DEF SetHead
<1>8. ASSUME NEW tip \in Block, NEW lo \in 1 .. MaxNumber, Rollback(tip, lo) PROVE ImportInv'
  BY <1>8, <1>1, <1>2 DEF Rollback, ImportInv, ParentStored
<1>10. ASSUME NEW tip \in Block, NEW lo \in 1 .. MaxNumber, RollbackLosesHead(tip, lo) PROVE FALSE
  BY <1>2, <1>3, <1>10, StepsStored DEF RollbackLosesHead
<1>11. ASSUME NEW h \in Block, InsertHeadless(h) PROVE FALSE
  BY <1>3, <1>11 DEF InsertHeadless
<1>9. ASSUME UNCHANGED vars PROVE ImportInv'
  BY <1>9, <1>1, <1>2 DEF vars, ImportInv, ParentStored, Heaviest
<1> QED BY <1>4, <1>5, <1>6, <1>7, <1>8, <1>9, <1>10, <1>11 DEF Next

LEMMA InitImport == Init => ImportInv
<1> SUFFICES ASSUME Init PROVE ImportInv
  OBVIOUS
<1>1. headers = {Genesis} /\ currentHeader = Genesis /\ panicked = FALSE /\ td \in [Block -> Int]
  BY DEF Init
<1>2. ParentStored /\ Heaviest
  BY <1>1 DEF ParentStored, Heaviest
<1> QED BY <1>1, <1>2, InitChain DEF ImportInv

\* A chain that was never rewound never dereferences a header it does not have, in the
\* walk of WriteHeader or for a head that Rollback lost.
THEOREM NeverPanicsCorrect == Spec => []NeverPanics
<1>1. ImportInv => NeverPanics
  BY DEF ImportInv, NeverPanics
<1> QED BY <1>1, InitImport, ImportKeeps, PTL DEF Spec

\* A chain that was only imported into has the heaviest header it knows as its head.
THEOREM HeaviestCorrect == Spec => []HeaviestHead
<1>1. ImportInv => HeaviestHead
  BY DEF ImportInv, HeaviestHead, Heaviest
<1> QED BY <1>1, InitImport, ImportKeeps, PTL DEF Spec

=============================================================================
