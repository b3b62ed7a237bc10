\* What the comment on removeTx says, on the pool of five.
SPECIFICATION Spec
CONSTANTS
    A = A
    B = B
    C = C
    Account = {A, B, C}
    Config = {"still"}
    Tx <- MCTx
    Batch <- MCBatch
    LocalAccount <- MCLocalAccount
    Mined <- MCMined
    MaxHeight <- MCMaxHeight
    Price <- MCPrice
    Balance <- MCBalance
    AccountSlots <- MCAccountSlots
    GlobalSlots <- MCGlobalSlots
    AccountQueue <- MCAccountQueue
    GlobalQueue <- MCGlobalQueue
    PriceLimit = 1
    PriceBump = 10
    ReorgDepth = 1
CHECK_DEADLOCK FALSE
INVARIANTS
    KnownIsListed
