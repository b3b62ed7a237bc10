SPECIFICATION Spec
CONSTANTS
    Address <- Address3
    Genesis <- Signers3
    Epoch = 6
    Word = 256
    MaxNumber = 8
INVARIANTS TypeOK TallyCountsVotes OneVotePerSigner SignerAvailable RecentsWindow SealMatchesApply AcceptedApplies
PROPERTIES CheckpointKeepsSigners BallotRules
CHECK_DEADLOCK FALSE
