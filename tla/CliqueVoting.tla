---------------------------- MODULE CliqueVoting ----------------------------
(***************************************************************************)
(* The proof-of-authority voting rules of consensus/clique: the snapshot   *)
(* record, the acceptance rules for a header on top of a snapshot          *)
(* (verifyHeader, verifySeal, Seal) and the effect of one header on a      *)
(* snapshot (the body of the loop of Snapshot.apply).  Pure operators, no  *)
(* state: CliqueSnapshot runs them along one chain.                        *)
(*                                                                         *)
(* Abstractions.  An address is a natural number, so that the byte order   *)
(* used by signers() is the order of numbers; the all-zero address is 0.   *)
(* A Go map from addresses to tallies is a total function, a missing key   *)
(* being the zero value NoTally that Go returns for it.  The chronological *)
(* list of votes is a set: a block casts at most one vote, so the field    *)
(* "block" orders and identifies the votes.                                *)
(***************************************************************************)
EXTENDS Integers, FiniteSets

CONSTANTS
    Address,    \* the accounts that can be voted on, or sign
    Genesis,    \* the signers listed in the genesis block
    Epoch,      \* config.Epoch: votes are reset on its multiples
    Word        \* the modulus of Go's uint64 arithmetic

ZeroAddress == 0

ASSUME AddressAssumption == Address \subseteq Nat /\ ZeroAddress \in Address

\* Nobody holds the key of the zero address, so it is never a genesis signer.
ASSUME GenesisAssumption ==
    Genesis \subseteq Address \ {ZeroAddress} /\ IsFiniteSet(Genesis)

ASSUME EpochAssumption == Epoch \in Nat \ {0}

ASSUME WordAssumption == Word \in Nat \ {0}

Keys == Address \ {ZeroAddress}

Nonces == {"auth", "drop", "other"}

(* What voting reads of a header: its signer, which ecrecover finds from   *)
(* the seal in the extra data, the account it votes on, the vote, and the  *)
(* difficulty.                                                             *)
Header == [signer : Keys, coinbase : Address, nonce : Nonces, difficulty : {1, 2}]

Vote == [signer : Keys, block : Nat, address : Address, authorize : BOOLEAN]

Tally == [authorize : BOOLEAN, votes : Nat]

Recent == [number : Nat, signer : Keys]

Snapshot == [number  : Nat,
             signers : SUBSET Address,
             recents : SUBSET Recent,
             votes   : SUBSET Vote,
             tally   : [Address -> Tally]]

NoTally == [authorize |-> FALSE, votes |-> 0]

newSnapshot == [number  |-> 0,
                signers |-> Genesis,
                recents |-> {},
                votes   |-> {},
                tally   |-> [a \in Address |-> NoTally]]

\* Mutant of Limit: every signer has to wait for all the others, and itself.
LimitAll(s) == Cardinality(s.signers) + 1

Limit(s) == Cardinality(s.signers) \div 2 + 1

IsCheckpoint(n) == n % Epoch = 0

(* Subtraction of uint64 values: it wraps around below zero.               *)
Minus(m, n) == IF m >= n THEN m - n ELSE m - n + Word

(***************************************************************************)
(* Acceptance of a header                                                  *)
(***************************************************************************)

(* The one signer whose rank in the sorted list is the height modulo its   *)
(* length.                                                                 *)
inturn(s, n, a) ==
    n % Cardinality(s.signers) = Cardinality({b \in s.signers : b < a})

(* The standalone checks: a checkpoint casts no vote.  The fields whose    *)
(* content the voting never reads (extra data, mix digest, uncles, time)   *)
(* are taken to be well formed.                                            *)
verifyHeader(s, h) ==
    /\ h.nonce \in {"auth", "drop"}
    /\ IsCheckpoint(s.number + 1) => h.coinbase = ZeroAddress /\ h.nonce = "drop"

\* Mutant of verifySeal: a recent signer counts as shifted out one block early.
verifySealEarly(s, h) ==
    LET n == s.number + 1 IN
    /\ h.signer \in s.signers
    /\ \A r \in s.recents : r.signer = h.signer => r.number <= Minus(n, Limit(s)) + 1
    /\ h.difficulty = IF inturn(s, n, h.signer) THEN 2 ELSE 1

verifySeal(s, h) ==
    LET n == s.number + 1 IN
    /\ h.signer \in s.signers
    /\ \A r \in s.recents : r.signer = h.signer => r.number <= Minus(n, Limit(s))
    /\ h.difficulty = IF inturn(s, n, h.signer) THEN 2 ELSE 1

(* When the local node may seal on top of s; otherwise it waits.           *)
Seal(s, a) ==
    LET n == s.number + 1 IN
    /\ a \in s.signers
    /\ \A r \in s.recents :
           r.signer = a => ~(n < Limit(s) \/ r.number > Minus(n, Limit(s)))

(***************************************************************************)
(* The effect of a header on a snapshot                                    *)
(***************************************************************************)

validVote(s, a, authorize) == (a \in s.signers) # authorize

cast(s, a, authorize) ==
    LET new == IF s.tally[a].votes = 0 THEN [authorize |-> authorize, votes |-> 1]
               ELSE [s.tally[a] EXCEPT !.votes = @ + 1]
    IN [s EXCEPT !.tally = [@ EXCEPT ![a] = new]]

(* uncast, run over all the votes of a set D: a vote that the tally did    *)
(* not count is skipped, and the entry is deleted with its last vote.      *)
uncast(s, D) ==
    LET Counted(a) == {v \in D : v.address = a /\ v.authorize = s.tally[a].authorize}
        Left(a) == s.tally[a].votes - Cardinality(Counted(a))
    IN [s EXCEPT !.votes = @ \ D,
                 !.tally = [a \in Address |->
                     IF Left(a) > 0 THEN [s.tally[a] EXCEPT !.votes = Left(a)]
                                    ELSE NoTally]]

\* Mutant of ResetOnCheckpoint: the votes survive the checkpoint.
NoReset(s, n) == s

ResetOnCheckpoint(s, n) ==
    IF IsCheckpoint(n)
    THEN [s EXCEPT !.votes = {}, !.tally = [a \in Address |-> NoTally]]
    ELSE s

\* Mutant of DropOldRecent: the entry one block further back is deleted.
DropOlderRecent(s, n) ==
    IF n > Limit(s)
    THEN [s EXCEPT !.recents = {r \in @ : r.number # n - Limit(s) - 1}]
    ELSE s

DropOldRecent(s, n) ==
    IF n >= Limit(s)
    THEN [s EXCEPT !.recents = {r \in @ : r.number # n - Limit(s)}]
    ELSE s

(* The snapshot on which the signer of block n is checked.                 *)
Advance(s) == DropOldRecent(ResetOnCheckpoint(s, s.number + 1), s.number + 1)

applicable(s, h) ==
    /\ h.signer \in s.signers
    /\ \A r \in Advance(s).recents : r.signer # h.signer
    /\ h.nonce \in {"auth", "drop"}

\* Mutant of DiscardPrevious: a signer may vote again and again.
KeepPrevious(s, signer, a) == s

(* Only the earliest vote of the signer on the account is discarded.       *)
DiscardPrevious(s, signer, a) ==
    LET old == {v \in s.votes : v.signer = signer /\ v.address = a}
    IN uncast(s, {v \in old : \A w \in old : v.block <= w.block})

CastVote(s, h, n) ==
    LET authorize == h.nonce = "auth"
    IN IF validVote(s, h.coinbase, authorize)
       THEN [cast(s, h.coinbase, authorize) EXCEPT
                !.votes = @ \cup {[signer |-> h.signer, block |-> n,
                                   address |-> h.coinbase, authorize |-> authorize]}]
       ELSE s

\* Mutant of passed: exactly half of the signers are enough.
HalfPassed(s, a) == 2 * s.tally[a].votes >= Cardinality(s.signers) /\ s.tally[a].votes > 0

passed(s, a) == s.tally[a].votes > Cardinality(s.signers) \div 2

\* Mutant of Deauthorize: the votes of the dropped signer are delisted, but
\* stay in the cached tally.
DeauthorizeKeepsTally(s, a, n) ==
    LET rested == DropOldRecent([s EXCEPT !.signers = @ \ {a}], n)
    IN [rested EXCEPT !.votes = {v \in @ : v.signer # a}]

\* Mutant of Deauthorize: the recent list is not cut when the list shrinks.
DeauthorizeKeepsRecents(s, a, n) ==
    LET shrunk == [s EXCEPT !.signers = @ \ {a}]
    IN uncast(shrunk, {v \in shrunk.votes : v.signer = a})

Deauthorize(s, a, n) ==
    LET shrunk == [s EXCEPT !.signers = @ \ {a}]
        rested == DropOldRecent(shrunk, n)
    IN uncast(rested, {v \in rested.votes : v.signer = a})

Authorize(s, a) == [s EXCEPT !.signers = @ \cup {a}]

(* A vote that passed changes the signers and closes the ballot on a.      *)
Enact(s, a, n) ==
    LET changed == IF s.tally[a].authorize THEN Authorize(s, a) ELSE Deauthorize(s, a, n)
    IN [changed EXCEPT !.votes = {v \in @ : v.address # a},
                       !.tally = [@ EXCEPT ![a] = NoTally]]

\* Mutant of apply: the account voted on is recorded as the recent signer.
applyRecordsCoinbase(s, h) ==
    LET n == s.number + 1
    IN [Advance(s) EXCEPT !.number = n,
            !.recents = @ \cup {[number |-> n, signer |-> h.coinbase]}]

apply(s, h) ==
    LET n      == s.number + 1
        signed == [Advance(s) EXCEPT !.recents = @ \cup {[number |-> n, signer |-> h.signer]}]
        voted  == CastVote(DiscardPrevious(signed, h.signer, h.coinbase), h, n)
        done   == IF passed(voted, h.coinbase) THEN Enact(voted, h.coinbase, n) ELSE voted
    IN [done EXCEPT !.number = n]
=============================================================================
