\* A full pool under arrivals and price changes, a full one and a roomy one under reorgs.
SPECIFICATION Spec
CONSTANTS
    A = A
    B = B
    C = C
    Account = {A, B, C}
    Config = {"still", "tight", "roomy"}
    Tx <- MCTx
    Batch <- MCBatch
    LocalAccount <- MCLocalAccount
    Mined <- MCMined
    MaxHeight <- MCMaxHeight
    Price <- MCPrice
    Balance <- MCBalance
    AccountSlots <- MCAccountSlots
    GlobalSlots <- MCGlobalSlots
    AccountQueue <- MCAccountQueue
    GlobalQueue <- MCGlobalQueue
    PriceLimit = 1
    PriceBump = 10
    ReorgDepth = 1
CHECK_DEADLOCK FALSE
INVARIANTS
    TypeOK
    OneTxPerNonce
    RemoteBound
    PendingExecutable
    PendingStarts
    
    QueueWaits
PROPERTIES
    LimitsEnforced
    SlotsGuaranteed
    LocalsKept
    LocalsSurviveRestart
    ReorgKeepsTxs
