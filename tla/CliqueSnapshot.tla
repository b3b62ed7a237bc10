--------------------------- MODULE CliqueSnapshot ---------------------------
(***************************************************************************)
(* One chain of clique blocks.  Each accepted header is first verified on  *)
(* the snapshot of its parent (verifyHeader, verifySeal) and becomes the   *)
(* head; the snapshot of the new head is then computed by apply, as        *)
(* Clique.snapshot does for the next block.                                *)
(***************************************************************************)
EXTENDS CliqueVoting

CONSTANT MaxNumber      \* bound on the height of the chain

ASSUME MaxNumberAssumption == MaxNumber \in Nat

VARIABLES
    snap,       \* the snapshot of the head, or of its parent if stuck
    stuck       \* the head was accepted but apply rejects it

vars == <<snap, stuck>>

Init ==
    /\ snap = newSnapshot
    /\ stuck = FALSE

(* A header accepted by verifyHeader and verifySeal extends the chain.     *)
Extend(h) ==
    /\ ~stuck
    /\ snap.number < MaxNumber
    /\ verifyHeader(snap, h)
    /\ verifySeal(snap, h)
    /\ IF applicable(snap, h)
       THEN snap' = apply(snap, h) /\ UNCHANGED stuck
       ELSE stuck' = TRUE /\ UNCHANGED snap

Next == \E h \in Header : Extend(h)

Spec == Init /\ [][Next]_vars

(***************************************************************************)
(* Properties                                                              *)
(***************************************************************************)

\* The snapshot and the flag have their types.
TypeOK == snap \in Snapshot /\ stuck \in BOOLEAN

VotesOn(s, a) == {v \in s.votes : v.address = a}

TallyMatches(s) ==
    \A a \in Address :
        /\ s.tally[a].votes = Cardinality(VotesOn(s, a))
        /\ \A v \in VotesOn(s, a) : v.authorize = s.tally[a].authorize

VotesMakeSense(s) == \A v \in s.votes : v.authorize = (v.address \notin s.signers)

\* The cached tally (Snapshot.Tally, "to avoid recalculating") is exactly
\* what counting the list of votes gives, and every listed vote asks for a
\* change that still makes sense, whatever signers were added, dropped and
\* added again in between (cast and uncast keep the two in step).
TallyCountsVotes == TallyMatches(snap) /\ VotesMakeSense(snap)

VotesUnique(s) ==
    \A v, w \in s.votes :
        (v.signer = w.signer /\ v.address = w.address) \/ v.block = w.block => v = w

\* Only current signers have votes in the list, at most one per account
\* ("only one vote allowed"): the votes of a dropped signer are gone.
OneVotePerSigner ==
    /\ \A v \in snap.votes : v.signer \in snap.signers /\ v.block <= snap.number
    /\ VotesUnique(snap)

RecentsIn(s, n) ==
    \A r \in s.recents :
        /\ n < r.number + Limit(s)
        /\ r.number <= n
        /\ \A q \in s.recents : q.number = r.number \/ q.signer = r.signer => q = r

\* The recent list holds only blocks of the last Limit(snap) heights, one
\* signer each, even when the set of signers grows and shrinks: apply
\* deletes one entry per block, and one more when the list shrinks.
RecentsWindow == RecentsIn(snap, snap.number)

\* As long as more than half of the signers hold a key, one that does may seal
\* the next block: the recent list (Snapshot.apply, Clique.Seal) never blocks
\* them all, whatever signers were added and dropped.  Nobody holds the key of
\* the zero address, which votes can make a signer: of two signers, one of them
\* the zero address, the other has to wait for a block that never comes.
SignerAvailable ==
    2 * Cardinality(snap.signers \cap Keys) > Cardinality(snap.signers) =>
        \E a \in Keys : Seal(snap, a)

\* The local sealer's waiting rule (Seal) permits exactly the signers whose
\* block apply will take, so a node never seals a block that it cannot apply.
SealMatchesApply ==
    \A a \in Keys :
        Seal(snap, a) <=> /\ a \in snap.signers
                         /\ \A r \in Advance(snap).recents : r.signer # a

\* From height Limit on, a block that verifySeal lets into the chain is one
\* that apply takes: acceptance and snapshot agree except near genesis.
AcceptedApplies == stuck => snap.number + 1 < Limit(snap)

\* verifySeal "only fail[s] if the current block doesn't shift it out", so
\* every block it accepts has a snapshot, at every height.
VerifiedApplies == ~stuck

\* A checkpoint block never changes the signers, so the list that its extra
\* data must carry (the parent's) is also the list after it.
CheckpointKeepsSigners ==
    [][IsCheckpoint(snap'.number) => snap'.signers = snap.signers]_vars

Ballot == INSTANCE CliqueBallot WITH
    signers <- snap.signers,
    ballots <- {<<v.signer, v.address>> : v \in snap.votes}

\* The snapshots implement the ballot rules of CliqueBallot: an account
\* changes sides only by the open votes of more than half of the signers.
BallotRules == Ballot!Spec
=============================================================================
