-------------------------- MODULE MCCliqueSnapshot --------------------------
(* CliqueSnapshot with three, and with four, signers at genesis.           *)
EXTENDS CliqueSnapshot

Address3 == 0..3
Signers3 == 1..3

Address4 == 0..4
Signers4 == 1..4
=============================================================================
