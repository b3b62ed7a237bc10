---------------------------- MODULE CliqueProofs ----------------------------
(***************************************************************************)
(* Proofs about clique voting, for every set of addresses, every genesis   *)
(* list and every epoch length.                                            *)
(*                                                                         *)
(* The argument follows the loop body of Snapshot.apply stage by stage.    *)
(* Sound(s) is what every stage keeps: the snapshot is well typed and      *)
(* finite, the tally counts the votes and no two votes share a block or a  *)
(* (signer, account) pair.  That votes make sense (VotesMakeSense) is      *)
(* broken for one account while Enact changes its side, and restored when  *)
(* Enact closes the ballot on it; it is therefore carried separately.      *)
(***************************************************************************)
EXTENDS CliqueSnapshot, FiniteSetTheorems, TLAPS

Sound(s) ==
    /\ s \in Snapshot
    /\ IsFiniteSet(s.signers)
    /\ IsFiniteSet(s.votes)
    /\ TallyMatches(s)
    /\ VotesUnique(s)

(* Block numbers of votes, and their signers.                              *)
VotedBy(s, n) == \A v \in s.votes : v.signer \in s.signers /\ v.block <= n

\* Counting the votes on an account is counting a finite set.
LEMMA VotesOnFinite ==
    ASSUME NEW s, IsFiniteSet(s.votes), NEW a
    PROVE  /\ IsFiniteSet(VotesOn(s, a))
           /\ Cardinality(VotesOn(s, a)) \in Nat
BY FS_Subset, FS_CardinalityType DEF VotesOn

\* Snapshot.uncast over a set of listed votes keeps the tally equal to the
\* votes that are left.
LEMMA UncastSound ==
    ASSUME NEW s, Sound(s), NEW D \in SUBSET s.votes
    PROVE  /\ Sound(uncast(s, D))
           /\ uncast(s, D).votes = s.votes \ D
           /\ uncast(s, D).signers = s.signers
           /\ uncast(s, D).recents = s.recents
           /\ uncast(s, D).number = s.number
<1> DEFINE t == uncast(s, D)
           Counted(a) == {v \in D : v.address = a /\ v.authorize = s.tally[a].authorize}
           Left(a) == s.tally[a].votes - Cardinality(Counted(a))
           tally == [a \in Address |-> IF Left(a) > 0
                                       THEN [s.tally[a] EXCEPT !.votes = Left(a)]
                                       ELSE NoTally]
<1>1. s \in Snapshot /\ IsFiniteSet(s.votes) /\ TallyMatches(s) /\ VotesUnique(s)
  BY DEF Sound
<1>2. /\ t = [s EXCEPT !.votes = @ \ D, !.tally = tally]
      /\ t.votes = s.votes \ D
      /\ t.tally = tally
      /\ t.signers = s.signers
      /\ t.recents = s.recents
      /\ t.number = s.number
  BY <1>1 DEF uncast, Snapshot
<1>3. ASSUME NEW a \in Address
      PROVE  /\ Left(a) \in Nat
             /\ Left(a) = Cardinality(VotesOn(t, a))
  <2>1. Counted(a) = VotesOn(s, a) \cap D
    BY <1>1 DEF TallyMatches, VotesOn
  <2>2. VotesOn(t, a) = VotesOn(s, a) \ D
    BY <1>2 DEF VotesOn
  <2>3. /\ IsFiniteSet(VotesOn(s, a))
        /\ IsFiniteSet(VotesOn(s, a) \ D)
        /\ Cardinality(VotesOn(s, a) \ D)
             = Cardinality(VotesOn(s, a)) - Cardinality(VotesOn(s, a) \cap D)
    BY <1>1, VotesOnFinite, FS_Difference
  <2>4. s.tally[a].votes = Cardinality(VotesOn(s, a))
    BY <1>1 DEF TallyMatches
  <2> QED
    BY <2>1, <2>2, <2>3, <2>4, FS_CardinalityType
<1>4. tally \in [Address -> Tally]
  BY <1>1, <1>3 DEF Snapshot, Tally, NoTally
<1>5. t \in Snapshot
  BY <1>1, <1>2, <1>4 DEF Snapshot
<1>6. IsFiniteSet(t.votes)
  BY <1>1, <1>2, FS_Difference
<1>7. TallyMatches(t)
  <2> SUFFICES ASSUME NEW a \in Address
               PROVE  /\ t.tally[a].votes = Cardinality(VotesOn(t, a))
                      /\ \A v \in VotesOn(t, a) : v.authorize = t.tally[a].authorize
    BY DEF TallyMatches
  <2>1. IsFiniteSet(VotesOn(t, a))
    BY <1>6, VotesOnFinite
  <2>2. CASE Left(a) > 0
    <3>1. t.tally[a] = [s.tally[a] EXCEPT !.votes = Left(a)]
      BY <1>2, <2>2
    <3>2. s.tally[a] \in Tally
      BY <1>1 DEF Snapshot
    <3>3. t.tally[a].votes = Left(a) /\ t.tally[a].authorize = s.tally[a].authorize
      BY <3>1, <3>2 DEF Tally
    <3>4. VotesOn(t, a) \subseteq VotesOn(s, a)
      BY <1>2 DEF VotesOn
    <3> QED
      BY <1>1, <1>3, <3>3, <3>4 DEF TallyMatches
  <2>3. CASE ~(Left(a) > 0)
    <3>1. t.tally[a] = NoTally
      BY <1>2, <2>3
    <3>2. Cardinality(VotesOn(t, a)) = 0
      BY <1>3, <2>3
    <3>3. VotesOn(t, a) = {}
      BY <2>1, <3>2, FS_EmptySet
    <3> QED
      BY <3>1, <3>2, <3>3 DEF NoTally
  <2> QED
    BY <2>2, <2>3
<1>8. VotesUnique(t)
  BY <1>1, <1>2 DEF VotesUnique
<1>9. IsFiniteSet(t.signers)
  BY <1>2 DEF Sound
<1> QED
  BY <1>2, <1>5, <1>6, <1>7, <1>8, <1>9 DEF Sound

\* The checkpoint reset and the pruning of the recent list keep the snapshot
\* sound; they change neither the signers nor the height.
LEMMA AdvanceSound ==
    ASSUME NEW s, Sound(s)
    PROVE  /\ Sound(Advance(s))
           /\ Advance(s).signers = s.signers
           /\ Advance(s).number = s.number
           /\ Advance(s).votes \subseteq s.votes
           /\ \A r : r \in Advance(s).recents <=>
                     r \in s.recents /\ (s.number + 1 >= Limit(s) =>
                                            r.number # (s.number + 1) - Limit(s))
           /\ IsCheckpoint(s.number + 1) => Advance(s).votes = {}
<1> DEFINE n == s.number + 1
           t == ResetOnCheckpoint(s, n)
           none == [a \in Address |-> NoTally]
<1>1. s \in Snapshot
  BY DEF Sound
<1>2. none \in [Address -> Tally]
  BY DEF Tally, NoTally
<1>3. /\ Sound(t)
      /\ t.signers = s.signers
      /\ t.number = s.number
      /\ t.recents = s.recents
      /\ t.votes \subseteq s.votes
      /\ IsCheckpoint(n) => t.votes = {}
  <2>1. CASE IsCheckpoint(n)
    <3>1. t = [s EXCEPT !.votes = {}, !.tally = none]
      BY <2>1 DEF ResetOnCheckpoint
    <3>2. /\ t.votes = {} /\ t.tally = none
          /\ t.signers = s.signers /\ t.number = s.number /\ t.recents = s.recents
      BY <1>1, <3>1 DEF Snapshot
    <3>3. t \in Snapshot
      BY <1>1, <1>2, <3>1 DEF Snapshot
    <3>4. \A a \in Address : VotesOn(t, a) = {}
      BY <3>2 DEF VotesOn
    <3>5. \A a \in Address : t.tally[a].votes = 0
      BY <3>2 DEF NoTally
    <3>6. Cardinality({}) = 0
      BY FS_EmptySet
    <3>7. TallyMatches(t)
      <4> HIDE DEF t
      <4> QED BY <3>4, <3>5, <3>6 DEF TallyMatches
    <3> QED
      BY <3>2, <3>3, <3>7, FS_EmptySet DEF Sound, VotesUnique
  <2>2. CASE ~IsCheckpoint(n)
    BY <2>2 DEF ResetOnCheckpoint
  <2> QED
    BY <2>1, <2>2
<1>4. Limit(t) = Limit(s)
  BY <1>3 DEF Limit
<1>5. CASE n >= Limit(t)
  <2> DEFINE u == Advance(s)
             left == {r \in t.recents : r.number # n - Limit(t)}
  <2>1. u = [t EXCEPT !.recents = left]
    BY <1>5 DEF Advance, DropOldRecent
  <2>2. t \in Snapshot
    BY <1>3 DEF Sound
  <2>3. /\ u.recents = left /\ u.votes = t.votes /\ u.tally = t.tally
        /\ u.signers = t.signers /\ u.number = t.number
    BY <2>1, <2>2 DEF Snapshot
  <2>4. u \in Snapshot
    BY <2>1, <2>2 DEF Snapshot
  <2>5. Sound(u)
    BY <1>3, <2>3, <2>4 DEF Sound, TallyMatches, VotesOn, VotesUnique
  <2>6. u.recents = {r \in s.recents : r.number # n - Limit(s)}
    BY <1>3, <1>4, <2>3
  <2>7. s.number + 1 >= Limit(s)
    BY <1>4, <1>5
  <2>8. /\ u.signers = s.signers
        /\ u.number = s.number
        /\ u.votes \subseteq s.votes
        /\ IsCheckpoint(n) => u.votes = {}
    BY <1>3, <2>3
  <2> HIDE DEF t, left
  <2> QED
    BY <2>5, <2>6, <2>7, <2>8
<1>6. CASE ~(n >= Limit(t))
  BY <1>3, <1>4, <1>6 DEF Advance, DropOldRecent
<1> QED
  BY <1>5, <1>6

\* Discarding "any previous votes from the signer" leaves no vote of the
\* signer on the account.
LEMMA DiscardSound ==
    ASSUME NEW s, Sound(s), NEW k, NEW a
    PROVE  LET t == DiscardPrevious(s, k, a) IN
           /\ Sound(t)
           /\ t.votes = {v \in s.votes : ~(v.signer = k /\ v.address = a)}
           /\ t.signers = s.signers
           /\ t.recents = s.recents
           /\ t.number = s.number
<1> DEFINE old == {v \in s.votes : v.signer = k /\ v.address = a}
           first == {v \in old : \A w \in old : v.block <= w.block}
<1>1. first = old
  <2>1. \A v, w \in old : v = w
    BY DEF Sound, VotesUnique
  <2>2. \A v \in old : v.block \in Nat
    BY DEF Sound, Snapshot, Vote
  <2> QED
    BY <2>1, <2>2
<1>2. first \in SUBSET s.votes
  OBVIOUS
<1>3. DiscardPrevious(s, k, a) = uncast(s, first)
  BY DEF DiscardPrevious
<1> HIDE DEF first
<1>4. s.votes \ old = {v \in s.votes : ~(v.signer = k /\ v.address = a)}
  OBVIOUS
<1> QED
  BY <1>1, <1>2, <1>3, <1>4, UncastSound

\* Snapshot.cast and the listing of the vote keep the tally equal to the list,
\* provided the signer's previous vote on the account is gone.
LEMMA CastSound ==
    ASSUME NEW s, Sound(s), VotesMakeSense(s), NEW n \in Nat,
           NEW h \in Header,
           \A v \in s.votes : /\ ~(v.signer = h.signer /\ v.address = h.coinbase)
                              /\ v.block < n
    PROVE  LET t == CastVote(s, h, n) IN
           /\ Sound(t)
           /\ VotesMakeSense(t)
           /\ t.votes = IF validVote(s, h.coinbase, h.nonce = "auth")
                        THEN s.votes \cup {[signer |-> h.signer, block |-> n,
                                 address |-> h.coinbase, authorize |-> h.nonce = "auth"]}
                        ELSE s.votes
           /\ t.signers = s.signers
           /\ t.recents = s.recents
           /\ t.number = s.number
<1> DEFINE t == CastVote(s, h, n)
           a == h.coinbase
           auth == h.nonce = "auth"
           vote == [signer |-> h.signer, block |-> n, address |-> a, authorize |-> auth]
           entry == IF s.tally[a].votes = 0 THEN [authorize |-> auth, votes |-> 1]
                    ELSE [s.tally[a] EXCEPT !.votes = @ + 1]
           tally == [s.tally EXCEPT ![a] = entry]
<1>1. s \in Snapshot /\ IsFiniteSet(s.votes) /\ TallyMatches(s) /\ VotesUnique(s)
  BY DEF Sound
<1>2. CASE ~validVote(s, a, auth)
  BY <1>2 DEF CastVote
<1>3. CASE validVote(s, a, auth)
  <2>1. vote \in Vote
    BY DEF Vote, Header
  <2>2. auth = (a \notin s.signers)
    BY <1>3 DEF validVote
  <2>3. a \in Address /\ s.tally[a] \in Tally
    BY <1>1 DEF Header, Snapshot
  <2>4. entry \in Tally /\ entry.votes = s.tally[a].votes + 1
    BY <2>3 DEF Tally
  <2>5. /\ t.votes = s.votes \cup {vote}
        /\ t.tally = tally
        /\ t.signers = s.signers
        /\ t.recents = s.recents
        /\ t.number = s.number
        /\ t \in Snapshot
    <3>1. t = [[s EXCEPT !.tally = tally] EXCEPT !.votes = s.votes \cup {vote}]
      <4>1. cast(s, a, auth) = [s EXCEPT !.tally = tally]
        BY DEF cast
      <4>2. [s EXCEPT !.tally = tally].votes = s.votes
        BY <1>1 DEF Snapshot
      <4> QED
        BY <1>3, <4>1, <4>2 DEF CastVote
    <3>2. tally \in [Address -> Tally]
      BY <1>1, <2>3, <2>4 DEF Snapshot
    <3> HIDE DEF t, tally, vote, entry
    <3> QED
      BY <1>1, <2>1, <3>1, <3>2 DEF Snapshot
  <2>6. vote \notin s.votes
    OBVIOUS
  <2> HIDE DEF t, entry
  <2>7. ASSUME NEW b \in Address
        PROVE  /\ t.tally[b].votes = Cardinality(VotesOn(t, b))
               /\ \A v \in VotesOn(t, b) : v.authorize = t.tally[b].authorize
    <3>1. IsFiniteSet(VotesOn(s, b)) /\ Cardinality(VotesOn(s, b)) \in Nat
      BY <1>1, VotesOnFinite
    <3>2. /\ s.tally[b].votes = Cardinality(VotesOn(s, b))
          /\ \A v \in VotesOn(s, b) : v.authorize = s.tally[b].authorize
      BY <1>1 DEF TallyMatches
    <3>3. CASE b # a
      <4>1. VotesOn(t, b) = VotesOn(s, b)
        BY <2>5, <3>3 DEF VotesOn
      <4>2. t.tally[b] = s.tally[b]
        BY <1>1, <2>5, <3>3 DEF Snapshot
      <4> QED
        BY <3>2, <4>1, <4>2
    <3>4. CASE b = a
      <4>1. VotesOn(t, b) = VotesOn(s, b) \cup {vote}
        BY <2>5, <3>4 DEF VotesOn
      <4>2. vote \notin VotesOn(s, b)
        BY <2>6 DEF VotesOn
      <4>3. Cardinality(VotesOn(t, b)) = Cardinality(VotesOn(s, b)) + 1
        <5> HIDE DEF vote
        <5> QED BY <3>1, <4>1, <4>2, FS_AddElement, SMTT(20)
      <4>4. t.tally[b] = entry
        BY <1>1, <2>3, <2>5, <3>4 DEF Snapshot
      <4>5. entry.authorize = auth
        <5>1. CASE s.tally[a].votes = 0
          BY <5>1 DEF entry
        <5>2. CASE s.tally[a].votes # 0
          <6>1. VotesOn(s, a) # {}
            BY <3>2, <3>4, <5>2, FS_EmptySet
          <6>2. PICK v \in VotesOn(s, a) : TRUE
            BY <6>1
          <6>3. v.authorize = s.tally[a].authorize /\ v.authorize = (a \notin s.signers)
            BY <3>2, <3>4, <6>2 DEF VotesOn, VotesMakeSense
          <6>4. entry.authorize = s.tally[a].authorize
            BY <2>3, <5>2 DEF entry, Tally
          <6> QED
            BY <2>2, <6>3, <6>4
        <5> QED
          BY <5>1, <5>2
      <4>6. \A v \in VotesOn(s, b) : v.authorize = auth
        BY <2>2, <3>4 DEF VotesOn, VotesMakeSense
      <4>7. \A v \in VotesOn(t, b) : v.authorize = auth
        BY <4>1, <4>6
      <4> QED
        BY <2>4, <3>2, <3>4, <4>3, <4>4, <4>5, <4>7
    <3> QED
      BY <3>3, <3>4
  <2>8. TallyMatches(t)
    BY <2>7 DEF TallyMatches
  <2>9. VotesUnique(t)
    BY <1>1, <2>5 DEF VotesUnique, Snapshot, Vote
  <2>10. VotesMakeSense(t)
    BY <2>2, <2>5 DEF VotesMakeSense
  <2>11. IsFiniteSet(t.votes) /\ IsFiniteSet(t.signers)
    <3> HIDE DEF vote
    <3> QED BY <1>1, <2>5, FS_AddElement, Zenon DEF Sound
  <2> QED
    BY <1>3, <2>5, <2>8, <2>9, <2>10, <2>11 DEF Sound, t
<1> QED
  BY <1>2, <1>3

\* Limit follows the number of signers, and moves by at most one when one
\* signer joins or leaves.
LEMMA LimitSteps ==
    ASSUME NEW S, IsFiniteSet(S), NEW a
    PROVE  /\ Cardinality(S) \div 2 + 1 \in Nat \ {0}
           /\ Cardinality(S \cup {a}) \div 2 + 1 \in Nat
           /\ Cardinality(S \ {a}) \div 2 + 1 \in Nat
           /\ Cardinality(S \cup {a}) \div 2 + 1 >= Cardinality(S) \div 2 + 1
           /\ (Cardinality(S \ {a}) \div 2 + 1) + 1 >= Cardinality(S) \div 2 + 1
<1>1. Cardinality(S) \in Nat
  BY FS_CardinalityType
<1>2. Cardinality(S \cup {a}) \in {Cardinality(S), Cardinality(S) + 1}
  BY FS_AddElement
<1>3. Cardinality(S \ {a}) \in {Cardinality(S), Cardinality(S) - 1} /\ Cardinality(S \ {a}) \in Nat
  BY FS_RemoveElement, FS_CardinalityType
<1> QED
  BY <1>1, <1>2, <1>3

\* What apply does when a vote passed: the side of the account is changed, its
\* ballot closed, and the votes of a leaving signer dropped; the recent list
\* still fits the window.
LEMMA EnactSound ==
    ASSUME NEW s, Sound(s), VotesMakeSense(s), NEW n \in Nat, VotedBy(s, n),
           RecentsIn(s, n), NEW a \in Address, s.tally[a].votes > 0
    PROVE  LET t == Enact(s, a, n) IN
           /\ Sound(t)
           /\ VotesMakeSense(t)
           /\ VotedBy(t, n)
           /\ RecentsIn(t, n)
           /\ a \in s.signers => /\ t.signers = s.signers \ {a}
                                 /\ t.votes = {v \in s.votes : v.address # a /\ v.signer # a}
           /\ a \notin s.signers => /\ t.signers = s.signers \cup {a}
                                    /\ t.votes = {v \in s.votes : v.address # a}
           /\ t.number = s.number
<1> DEFINE t == Enact(s, a, n)
           changed == IF s.tally[a].authorize THEN Authorize(s, a) ELSE Deauthorize(s, a, n)
<1>1. /\ s \in Snapshot /\ IsFiniteSet(s.votes) /\ IsFiniteSet(s.signers)
      /\ TallyMatches(s) /\ VotesUnique(s)
  BY DEF Sound
<1>2. s.tally[a].authorize = (a \notin s.signers)
  <2>1. IsFiniteSet(VotesOn(s, a)) /\ Cardinality(VotesOn(s, a)) > 0
    BY <1>1, VotesOnFinite DEF TallyMatches
  <2>2. PICK v \in VotesOn(s, a) : TRUE
    BY <2>1, FS_EmptySet
  <2>3. v \in s.votes /\ v.address = a
    BY <2>2 DEF VotesOn
  <2>4. v.authorize = s.tally[a].authorize
    BY <1>1, <2>2 DEF TallyMatches
  <2>5. v.authorize = (v.address \notin s.signers)
    BY <2>3 DEF VotesMakeSense
  <2> QED
    BY <2>3, <2>4, <2>5
<1>3. ASSUME NEW c, Sound(c), VotedBy(c, n), RecentsIn(c, n),
             \A v \in c.votes : v.address # a => v.authorize = (v.address \notin c.signers),
             changed = c
      PROVE  /\ Sound(t) /\ VotesMakeSense(t) /\ VotedBy(t, n) /\ RecentsIn(t, n)
             /\ t.signers = c.signers /\ t.number = c.number
             /\ t.votes = {v \in c.votes : v.address # a}
  <2> DEFINE left == {v \in c.votes : v.address # a}
             tally == [c.tally EXCEPT ![a] = NoTally]
  <2>1. c \in Snapshot /\ IsFiniteSet(c.votes) /\ IsFiniteSet(c.signers)
        /\ TallyMatches(c) /\ VotesUnique(c)
    BY <1>3 DEF Sound
  <2>2. t = [c EXCEPT !.votes = left, !.tally = tally]
    BY <1>3 DEF Enact
  <2>3. tally \in [Address -> Tally]
    BY <2>1 DEF Snapshot, Tally, NoTally
  <2>4. /\ t.votes = left /\ t.tally = tally /\ t.signers = c.signers
        /\ t.recents = c.recents /\ t.number = c.number /\ t \in Snapshot
    <3> HIDE DEF t, tally
    <3> QED BY <2>1, <2>2, <2>3 DEF Snapshot
  <2> HIDE DEF t
  <2>5. IsFiniteSet(t.votes)
    BY <2>1, <2>4, FS_Subset
  <2>6. ASSUME NEW b \in Address
        PROVE  /\ t.tally[b].votes = Cardinality(VotesOn(t, b))
               /\ \A v \in VotesOn(t, b) : v.authorize = t.tally[b].authorize
    <3>1. CASE b = a
      <4>1. VotesOn(t, b) = {}
        BY <2>4, <3>1 DEF VotesOn
      <4>2. t.tally[b].votes = 0
        BY <2>1, <2>4, <3>1 DEF Snapshot, NoTally
      <4> QED
        BY <4>1, <4>2, FS_EmptySet
    <3>2. CASE b # a
      <4>1. VotesOn(t, b) = VotesOn(c, b)
        BY <2>4, <3>2 DEF VotesOn
      <4>2. t.tally[b] = c.tally[b]
        BY <2>1, <2>4, <3>2 DEF Snapshot
      <4> QED
        BY <2>1, <4>1, <4>2 DEF TallyMatches
    <3> QED
      BY <3>1, <3>2
  <2>7. VotesUnique(t) /\ VotesMakeSense(t) /\ VotedBy(t, n)
    BY <1>3, <2>1, <2>4 DEF VotesUnique, VotesMakeSense, VotedBy
  <2>8. RecentsIn(t, n)
    BY <1>3, <2>4 DEF RecentsIn, Limit
  <2> QED
    BY <2>1, <2>4, <2>5, <2>6, <2>7, <2>8 DEF Sound, TallyMatches
<1>4. CASE a \notin s.signers
  <2> DEFINE c == Authorize(s, a)
  <2>1. changed = c
    BY <1>2, <1>4
  <2>2. /\ c.signers = s.signers \cup {a} /\ c.votes = s.votes /\ c.tally = s.tally
        /\ c.recents = s.recents /\ c.number = s.number /\ c \in Snapshot
    BY <1>1 DEF Authorize, Snapshot
  <2> HIDE DEF c
  <2>3. IsFiniteSet(c.signers)
    BY <1>1, <2>2, FS_AddElement
  <2>4. Sound(c)
    BY <1>1, <2>2, <2>3 DEF Sound, TallyMatches, VotesOn, VotesUnique
  <2>5. VotedBy(c, n)
    BY <2>2 DEF VotedBy
  <2>6. Limit(c) >= Limit(s) /\ Limit(c) \in Nat /\ Limit(s) \in Nat
    <3>1. Limit(c) = Cardinality(s.signers \cup {a}) \div 2 + 1
      BY <2>2 DEF Limit
    <3>2. Limit(s) = Cardinality(s.signers) \div 2 + 1
      BY DEF Limit
    <3> QED BY <1>1, <3>1, <3>2, LimitSteps
  <2>7. RecentsIn(c, n)
    BY <1>1, <2>2, <2>6 DEF RecentsIn, Snapshot, Recent
  <2>8. \A v \in c.votes : v.address # a => v.authorize = (v.address \notin c.signers)
    BY <2>2 DEF VotesMakeSense
  <2> QED
    BY <1>3, <1>4, <2>1, <2>2, <2>4, <2>5, <2>7, <2>8
<1>5. CASE a \in s.signers
  <2> DEFINE shrunk == [s EXCEPT !.signers = @ \ {a}]
             rested == DropOldRecent(shrunk, n)
             own == {v \in rested.votes : v.signer = a}
             c == Deauthorize(s, a, n)
  <2>1. changed = c /\ c = uncast(rested, own)
    BY <1>2, <1>5 DEF Deauthorize
  <2>2. /\ shrunk.signers = s.signers \ {a} /\ shrunk.votes = s.votes
        /\ shrunk.tally = s.tally /\ shrunk.recents = s.recents
        /\ shrunk.number = s.number /\ shrunk \in Snapshot
    BY <1>1 DEF Snapshot
  <2> HIDE DEF shrunk
  <2>3. /\ rested.signers = shrunk.signers /\ rested.votes = shrunk.votes
        /\ rested.tally = shrunk.tally /\ rested.number = shrunk.number
        /\ rested.recents \subseteq shrunk.recents /\ rested \in Snapshot
        /\ n >= Limit(shrunk) => \A r \in rested.recents : r.number # n - Limit(shrunk)
    BY <2>2 DEF DropOldRecent, Snapshot
  <2> HIDE DEF rested
  <2>4. Sound(rested)
    <3>1. IsFiniteSet(rested.signers)
      BY <1>1, <2>2, <2>3, FS_RemoveElement
    <3>2. rested.votes = s.votes /\ rested.tally = s.tally /\ rested \in Snapshot
      BY <2>2, <2>3
    <3>3. IsFiniteSet(rested.votes) /\ TallyMatches(s) /\ VotesUnique(s)
      BY <3>2 DEF Sound
    <3>4. TallyMatches(rested)
      BY ONLY <3>2, <3>3 DEF TallyMatches, VotesOn
    <3>5. VotesUnique(rested)
      BY ONLY <3>2, <3>3 DEF VotesUnique
    <3> QED BY <3>1, <3>2, <3>3, <3>4, <3>5 DEF Sound
  <2>5. /\ Sound(c) /\ c.votes = rested.votes \ own /\ c.signers = rested.signers
        /\ c.recents = rested.recents /\ c.number = rested.number
    <3>1. own \in SUBSET rested.votes
      OBVIOUS
    <3> HIDE DEF c, own
    <3> QED BY <2>1, <2>4, <3>1, UncastSound
  <2>6. c.votes = {v \in s.votes : v.signer # a}
    BY <2>2, <2>3, <2>5
  <2> HIDE DEF c
  <2>7. VotedBy(c, n)
    BY <2>2, <2>3, <2>5, <2>6 DEF VotedBy
  <2>8. /\ Limit(c) + 1 >= Limit(s) /\ Limit(c) \in Nat /\ Limit(s) \in Nat
        /\ Limit(c) = Limit(shrunk)
    <3>1. Limit(c) = Cardinality(s.signers \ {a}) \div 2 + 1
      BY <2>2, <2>3, <2>5 DEF Limit
    <3>2. Limit(s) = Cardinality(s.signers) \div 2 + 1
      BY DEF Limit
    <3>3. Limit(c) = Limit(shrunk)
      BY <2>3, <2>5 DEF Limit
    <3> QED BY <1>1, <3>1, <3>2, <3>3, LimitSteps
  <2>9. RecentsIn(c, n)
    BY <1>1, <2>2, <2>3, <2>5, <2>8 DEF RecentsIn, Snapshot, Recent
  <2>10. \A v \in c.votes : v.address # a => v.authorize = (v.address \notin c.signers)
    BY <2>2, <2>3, <2>5, <2>6 DEF VotesMakeSense
  <2>11. {v \in c.votes : v.address # a} = {v \in s.votes : v.address # a /\ v.signer # a}
    BY <2>6
  <2> HIDE DEF t
  <2>12. /\ Sound(t) /\ VotesMakeSense(t) /\ VotedBy(t, n) /\ RecentsIn(t, n)
         /\ t.signers = c.signers /\ t.number = c.number
         /\ t.votes = {v \in c.votes : v.address # a}
    BY <1>3, <2>1, <2>5, <2>7, <2>9, <2>10, SMTT(20)
  <2> QED
    BY <1>5, <2>2, <2>3, <2>5, <2>11, <2>12 DEF t
<1> QED
  BY <1>4, <1>5

(***************************************************************************)
(* The inductive invariant, and the intermediate snapshot of apply after   *)
(* the vote of the header was cast.                                        *)
(***************************************************************************)
Good(s) ==
    /\ Sound(s)
    /\ VotesMakeSense(s)
    /\ VotedBy(s, s.number)
    /\ RecentsIn(s, s.number)

Signed(s, h) ==
    [Advance(s) EXCEPT !.recents = @ \cup {[number |-> s.number + 1, signer |-> h.signer]}]

Voted(s, h) ==
    CastVote(DiscardPrevious(Signed(s, h), h.signer, h.coinbase), h, s.number + 1)

(* The votes listed before the header's own vote is added.                 *)
Kept(s, h) ==
    {v \in Advance(s).votes : ~(v.signer = h.signer /\ v.address = h.coinbase)}

\* The snapshot on which apply decides whether the vote passed is sound, and
\* lists the kept votes and, if it makes sense, the new one.
LEMMA VotedSound ==
    ASSUME NEW s, Good(s), NEW h \in Header, applicable(s, h)
    PROVE  LET t == Voted(s, h) IN
           /\ Sound(t)
           /\ VotesMakeSense(t)
           /\ VotedBy(t, s.number + 1)
           /\ RecentsIn(t, s.number + 1)
           /\ t.signers = s.signers
           /\ t.number = s.number
           /\ t.votes = IF validVote(s, h.coinbase, h.nonce = "auth")
                        THEN Kept(s, h) \cup
                               {[signer |-> h.signer, block |-> s.number + 1,
                                 address |-> h.coinbase, authorize |-> h.nonce = "auth"]}
                        ELSE Kept(s, h)
<1> DEFINE n == s.number + 1
           a == Advance(s)
           b == Signed(s, h)
           c == DiscardPrevious(b, h.signer, h.coinbase)
           t == Voted(s, h)
           new == [number |-> n, signer |-> h.signer]
<1>1. s \in Snapshot /\ s.number \in Nat /\ n \in Nat
  BY DEF Good, Sound, Snapshot
<1>2. /\ Sound(a) /\ a.signers = s.signers /\ a.number = s.number /\ a.votes \subseteq s.votes
      /\ \A r : r \in a.recents <=>
               r \in s.recents /\ (n >= Limit(s) => r.number # n - Limit(s))
  BY AdvanceSound DEF Good
<1>3. h.signer \in s.signers /\ \A r \in a.recents : r.signer # h.signer
  BY DEF applicable
<1>4. /\ b.votes = a.votes /\ b.tally = a.tally /\ b.signers = a.signers
      /\ b.number = a.number /\ b.recents = a.recents \cup {new} /\ b \in Snapshot
  <2>1. a \in Snapshot
    BY <1>2 DEF Sound
  <2>2. new \in Recent
    BY <1>1 DEF Recent, Header
  <2> HIDE DEF a, new
  <2>3. b = [a EXCEPT !.recents = a.recents \cup {new}]
    BY DEF Signed, a, new
  <2> HIDE DEF b
  <2> QED
    BY <2>1, <2>2, <2>3 DEF Snapshot
<1> HIDE DEF a, b
<1>5. Sound(b)
  BY <1>2, <1>4 DEF Sound, TallyMatches, VotesOn, VotesUnique
<1>6. /\ Sound(c) /\ c.votes = Kept(s, h) /\ c.signers = b.signers
      /\ c.recents = b.recents /\ c.number = b.number
  BY <1>4, <1>5, DiscardSound DEF Kept, a
<1> HIDE DEF c
<1>7. VotesMakeSense(c)
  BY <1>2, <1>4, <1>6 DEF Good, VotesMakeSense, Kept, a
<1>8. c.votes \subseteq s.votes
  BY <1>2, <1>6 DEF Kept, a
<1>9. \A v \in c.votes : /\ ~(v.signer = h.signer /\ v.address = h.coinbase)
                         /\ v.block < n
  <2>1. \A v \in c.votes : ~(v.signer = h.signer /\ v.address = h.coinbase)
    BY <1>6 DEF Kept
  <2>2. \A v \in c.votes : v.block <= s.number /\ v.block \in Nat
    BY <1>1, <1>8, SMTT(20) DEF Good, VotedBy, Snapshot, Vote
  <2> QED
    BY <1>1, <2>1, <2>2
<1>10. /\ Sound(t) /\ VotesMakeSense(t)
       /\ t.votes = IF validVote(c, h.coinbase, h.nonce = "auth")
                    THEN c.votes \cup {[signer |-> h.signer, block |-> n,
                             address |-> h.coinbase, authorize |-> h.nonce = "auth"]}
                    ELSE c.votes
       /\ t.signers = c.signers /\ t.recents = c.recents /\ t.number = c.number
  <2>1. t = CastVote(c, h, n)
    BY DEF Voted, c, b
  <2> HIDE DEF t
  <2> QED
    BY <1>1, <1>6, <1>7, <1>9, <2>1, CastSound, ZenonT(20)
<1> HIDE DEF t
<1>11. validVote(c, h.coinbase, h.nonce = "auth") = validVote(s, h.coinbase, h.nonce = "auth")
  BY <1>2, <1>4, <1>6, SMTT(20) DEF validVote
<1>12. VotedBy(t, n)
  <2>1. \A v \in c.votes : v.signer \in s.signers /\ v.block <= n
    BY <1>1, <1>8, SMTT(20) DEF Good, VotedBy, Snapshot, Vote
  <2>2. \A v \in t.votes : v \in c.votes \/ (v.signer = h.signer /\ v.block = n)
    BY <1>10
  <2> QED
    BY <1>1, <1>2, <1>3, <1>4, <1>6, <1>10, <2>1, <2>2 DEF VotedBy
<1>13. RecentsIn(t, n)
  <2>1. Limit(t) = Limit(s) /\ Limit(s) \in Nat \ {0}
    BY <1>2, <1>4, <1>6, <1>10, LimitSteps DEF Limit, Good, Sound
  <2>2. t.recents = a.recents \cup {new}
    BY <1>4, <1>6, <1>10
  <2>3. \A r \in s.recents : r.number \in Nat /\ r \in Recent
    BY <1>1 DEF Snapshot, Recent
  <2>4. \A r \in s.recents : /\ s.number < r.number + Limit(s)
                             /\ r.number <= s.number
                             /\ \A q \in s.recents :
                                   q.number = r.number \/ q.signer = r.signer => q = r
    BY DEF Good, RecentsIn
  <2>5. \A r \in a.recents : /\ r \in s.recents
                             /\ n < r.number + Limit(s)
                             /\ r.number < n
                             /\ r.signer # h.signer
    BY <1>1, <1>2, <1>3, <2>1, <2>3, <2>4
  <2>6. new.number = n /\ new.signer = h.signer /\ n < n + Limit(s)
    BY <1>1, <2>1
  <2> HIDE DEF new
  <2>7. ASSUME NEW r \in t.recents
        PROVE  /\ n < r.number + Limit(t)
               /\ r.number <= n
               /\ \A q \in t.recents : q.number = r.number \/ q.signer = r.signer => q = r
    <3>1. CASE r = new
      BY <1>1, <2>1, <2>2, <2>3, <2>5, <2>6, <3>1, SMTT(20)
    <3>2. CASE r \in a.recents
      BY <1>1, <2>1, <2>2, <2>3, <2>4, <2>5, <2>6, <3>2
    <3> QED
      BY <2>2, <3>1, <3>2
  <2> QED
    BY <2>7, SMTT(20) DEF RecentsIn
<1> QED
  BY <1>2, <1>4, <1>6, <1>10, <1>11, <1>12, <1>13 DEF t

\* The number of votes that pass is positive, so an account is only touched
\* by Enact when somebody voted on it.
LEMMA PassedPositive ==
    ASSUME NEW s, Sound(s), NEW a \in Address, passed(s, a)
    PROVE  s.tally[a].votes > 0
<1>1. Cardinality(s.signers) \in Nat
  BY FS_CardinalityType DEF Sound
<1>2. s.tally[a].votes \in Nat
  BY DEF Sound, Snapshot, Tally
<1> QED
  BY <1>1, <1>2 DEF passed

(* The decision of apply, before the height is advanced.                   *)
Decided(s, h) ==
    IF passed(Voted(s, h), h.coinbase)
    THEN Enact(Voted(s, h), h.coinbase, s.number + 1) ELSE Voted(s, h)

\* Snapshot.apply only advances the height after the decision.
LEMMA ApplyDecided ==
    ASSUME NEW s, NEW h \in Header, Sound(Decided(s, h)), s.number + 1 \in Nat
    PROVE  /\ apply(s, h).number = s.number + 1
           /\ apply(s, h).signers = Decided(s, h).signers
           /\ apply(s, h).votes = Decided(s, h).votes
           /\ apply(s, h).tally = Decided(s, h).tally
           /\ apply(s, h).recents = Decided(s, h).recents
           /\ apply(s, h) \in Snapshot
<1>1. apply(s, h) = [Decided(s, h) EXCEPT !.number = s.number + 1]
  BY DEF apply, Decided, Voted, Signed
<1>2. Decided(s, h) \in Snapshot
  BY DEF Sound
<1> QED
  BY <1>1, <1>2 DEF Snapshot

\* Every header that apply takes leads from a good snapshot to a good one.
LEMMA ApplyGood ==
    ASSUME NEW s, Good(s), NEW h \in Header, applicable(s, h)
    PROVE  /\ Good(apply(s, h))
           /\ Sound(Decided(s, h))
           /\ s.number + 1 \in Nat
<1> DEFINE n == s.number + 1
           t == Voted(s, h)
           d == Decided(s, h)
           u == apply(s, h)
<1>1. s.number \in Nat /\ n \in Nat
  BY DEF Good, Sound, Snapshot
<1>2. h.coinbase \in Address
  BY DEF Header
<1>3. Sound(t) /\ VotesMakeSense(t) /\ VotedBy(t, n) /\ RecentsIn(t, n)
  BY VotedSound
<1>4. Sound(d) /\ VotesMakeSense(d) /\ VotedBy(d, n) /\ RecentsIn(d, n)
  <2>1. CASE passed(t, h.coinbase)
    <3>1. t.tally[h.coinbase].votes > 0
      BY <1>2, <1>3, <2>1, PassedPositive
    <3>2. d = Enact(t, h.coinbase, n)
      BY <2>1 DEF Decided
    <3> HIDE DEF d, t, n
    <3> QED
      BY <1>1, <1>2, <1>3, <3>1, <3>2, EnactSound
  <2>2. CASE ~passed(t, h.coinbase)
    BY <1>3, <2>2 DEF Decided
  <2> QED
    BY <2>1, <2>2
<1>5. /\ u.number = n /\ u.signers = d.signers /\ u.votes = d.votes /\ u.tally = d.tally
      /\ u.recents = d.recents /\ u \in Snapshot
  BY <1>1, <1>4, ApplyDecided, SMTT(20)
<1> HIDE DEF u, d, n
<1>6. Sound(u)
  BY <1>4, <1>5 DEF Sound, TallyMatches, VotesOn, VotesUnique
<1>7. VotesMakeSense(u) /\ VotedBy(u, n)
  BY <1>4, <1>5 DEF VotesMakeSense, VotedBy
<1>8. RecentsIn(u, n)
  BY <1>4, <1>5 DEF RecentsIn, Limit
<1> QED
  BY <1>1, <1>4, <1>5, <1>6, <1>7, <1>8 DEF Good, u, d, n

(***************************************************************************)
(* Invariants of the chain                                                 *)
(***************************************************************************)
IInv == Good(snap) /\ stuck \in BOOLEAN /\ AcceptedApplies

\* The genesis snapshot is good.
LEMMA InitGood == Init => IInv
<1> SUFFICES ASSUME Init PROVE IInv
  OBVIOUS
<1>1. /\ snap.number = 0 /\ snap.signers = Genesis /\ snap.recents = {}
      /\ snap.votes = {} /\ snap.tally = [a \in Address |-> NoTally]
      /\ stuck = FALSE
  BY DEF Init, newSnapshot
<1>2. snap \in Snapshot
  BY GenesisAssumption DEF Init, newSnapshot, Snapshot, Tally, NoTally
<1>3. \A a \in Address : VotesOn(snap, a) = {} /\ snap.tally[a].votes = 0
  BY <1>1 DEF VotesOn, NoTally
<1>4. TallyMatches(snap)
  BY <1>3, FS_EmptySet DEF TallyMatches
<1>5. Sound(snap)
  BY <1>1, <1>2, <1>4, GenesisAssumption, FS_EmptySet DEF Sound, VotesUnique
<1> QED
  BY <1>1, <1>5 DEF IInv, Good, VotesMakeSense, VotedBy, RecentsIn, AcceptedApplies

\* verifySeal and apply disagree at most below height Limit: at or above it,
\* the only recent block verifySeal excuses is the one apply shifts out.
LEMMA VerifiedIsApplicable ==
    ASSUME NEW s, Good(s), NEW h \in Header, verifyHeader(s, h), verifySeal(s, h),
           s.number + 1 >= Limit(s)
    PROVE  applicable(s, h)
<1> DEFINE n == s.number + 1
<1>1. s.number \in Nat /\ \A r \in s.recents : r.number \in Nat
  BY DEF Good, Sound, Snapshot, Recent
<1>2. Limit(s) \in Nat
  BY LimitSteps DEF Limit, Good, Sound
<1>3. h.signer \in s.signers /\ h.nonce \in {"auth", "drop"}
  BY DEF verifySeal, verifyHeader
<1>4. ASSUME NEW r \in Advance(s).recents PROVE r.signer # h.signer
  <2>1. r \in s.recents /\ r.number # n - Limit(s)
    BY AdvanceSound DEF Good
  <2>2. s.number < r.number + Limit(s)
    BY <2>1 DEF Good, RecentsIn
  <2>3. r.signer = h.signer => r.number <= n - Limit(s)
    BY <2>1 DEF verifySeal, Minus
  <2> QED
    BY <1>1, <1>2, <2>1, <2>2, <2>3
<1> QED
  BY <1>3, <1>4 DEF applicable

\* Every step of the chain keeps the invariant.
LEMMA NextGood == IInv /\ [Next]_vars => IInv'
<1> SUFFICES ASSUME IInv, [Next]_vars PROVE IInv'
  OBVIOUS
<1>1. CASE UNCHANGED vars
  BY <1>1 DEF vars, IInv, Good, Sound, VotesMakeSense, VotedBy, RecentsIn,
              AcceptedApplies, TallyMatches, VotesOn, VotesUnique, Limit
<1>2. ASSUME NEW h \in Header, Extend(h) PROVE IInv'
  <2>1. CASE applicable(snap, h)
    <3>1. snap' = apply(snap, h) /\ stuck' = stuck /\ ~stuck
      BY <1>2, <2>1 DEF Extend
    <3>2. Good(apply(snap, h))
      BY <2>1, ApplyGood DEF IInv
    <3>3. Good(snap')
      BY <3>1, <3>2
    <3>4. Good(snap)'
      BY <3>3, SMTT(20) DEF Good, Sound, VotesMakeSense, VotedBy, RecentsIn, TallyMatches, VotesOn, VotesUnique, Limit
    <3> QED
      BY <3>1, <3>4 DEF IInv, AcceptedApplies
  <2>2. CASE ~applicable(snap, h)
    <3>1. snap' = snap /\ stuck' = TRUE /\ verifyHeader(snap, h) /\ verifySeal(snap, h)
      BY <1>2, <2>2 DEF Extend
    <3>2. ~(snap.number + 1 >= Limit(snap))
      BY <2>2, <3>1, VerifiedIsApplicable DEF IInv
    <3>3. snap.number \in Nat /\ Limit(snap) \in Nat
      BY LimitSteps DEF Limit, IInv, Good, Sound, Snapshot
    <3>4. snap.number + 1 < Limit(snap)
      BY <3>2, <3>3
    <3>5. Good(snap)'
      BY <3>1 DEF IInv, Good, Sound, VotesMakeSense, VotedBy, RecentsIn, TallyMatches, VotesOn, VotesUnique, Limit
    <3>6. Limit(snap)' = Limit(snap)
      BY <3>1 DEF Limit
    <3> QED
      BY <3>1, <3>4, <3>5, <3>6 DEF IInv, AcceptedApplies
  <2> QED
    BY <2>1, <2>2
<1> QED
  BY <1>1, <1>2 DEF Next

\* The inductive invariant holds in every reachable state.
THEOREM Invariance == Spec => []IInv
BY InitGood, NextGood, PTL DEF Spec

\* The snapshot always has its type.
THEOREM TypeCorrect == Spec => []TypeOK
<1>1. IInv => TypeOK
  BY DEF IInv, Good, Sound, TypeOK
<1> QED
  BY <1>1, Invariance, PTL

\* The cached tally is the count of the listed votes, and the listed votes
\* make sense, for every genesis, epoch and sequence of blocks.
THEOREM TallyCorrect == Spec => []TallyCountsVotes
<1>1. IInv => TallyCountsVotes
  BY DEF IInv, Good, Sound, TallyCountsVotes
<1> QED
  BY <1>1, Invariance, PTL

\* Only current signers have votes, at most one each per account.
THEOREM VotesCorrect == Spec => []OneVotePerSigner
<1>1. IInv => OneVotePerSigner
  BY DEF IInv, Good, Sound, OneVotePerSigner, VotedBy
<1> QED
  BY <1>1, Invariance, PTL

\* The recent list stays inside the window given by the number of signers.
THEOREM RecentsCorrect == Spec => []RecentsWindow
<1>1. IInv => RecentsWindow
  BY DEF IInv, Good, RecentsWindow
<1> QED
  BY <1>1, Invariance, PTL

\* A block accepted by verifySeal at or above height Limit has a snapshot.
THEOREM AcceptedCorrect == Spec => []AcceptedApplies
<1>1. IInv => AcceptedApplies
  BY DEF IInv
<1> QED
  BY <1>1, Invariance, PTL
=============================================================================
