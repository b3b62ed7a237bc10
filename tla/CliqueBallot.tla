----------------------------- MODULE CliqueBallot -----------------------------
(***************************************************************************)
(* What clique voting promises, without tallies, block numbers or caches.  *)
(* Each signer holds at most one open ballot per account, asking that the  *)
(* account change sides (join or leave).  A vote replaces the voter's      *)
(* ballot; the account voted on changes sides exactly when more than half  *)
(* of the signers then hold a ballot on it, and every ballot on it, and    *)
(* every ballot of a leaving signer, is closed.  A reset closes all.       *)
(***************************************************************************)
EXTENDS Integers, FiniteSets

CONSTANTS Address, Genesis

VARIABLES
    signers,    \* the authorized accounts
    ballots     \* the open ballots, as pairs <<voter, account>>

vars == <<signers, ballots>>

Init == signers = Genesis /\ ballots = {}

Voters(open, a) == {s \in signers : <<s, a>> \in open}

(* Signer s asks that a be (authorize) or not be a signer.  Asking for     *)
(* what is already the case only withdraws the ballot of s on a.           *)
Poll(open, s, a, authorize) ==
    LET asked == IF (a \in signers) # authorize
                 THEN open \cup {<<s, a>>} ELSE open \ {<<s, a>>}
        flips == Cardinality(Voters(asked, a)) > Cardinality(signers) \div 2
        leaves == flips /\ a \in signers
    IN /\ signers' = IF ~flips THEN signers
                     ELSE IF leaves THEN signers \ {a} ELSE signers \cup {a}
       /\ ballots' = {b \in asked : /\ flips => b[2] # a
                                    /\ leaves => b[1] # a}

Turn(s, a, authorize) == Poll(ballots, s, a, authorize)

ResetTurn(s, a, authorize) == Poll({}, s, a, authorize)

Next == \E s \in signers, a \in Address, authorize \in BOOLEAN :
            Turn(s, a, authorize) \/ ResetTurn(s, a, authorize)

Spec == Init /\ [][Next]_vars
=============================================================================
