SPECIFICATION Spec
CONSTANTS
    Address <- Address4
    Genesis <- Signers4
    Epoch = 5
    Word = 256
    MaxNumber = 6
INVARIANT VerifiedApplies
CHECK_DEADLOCK FALSE
