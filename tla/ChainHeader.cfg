SPECIFICATION ChainsSpec
CONSTANTS
    G = G
    a1 = a1
    a2 = a2
    a3 = a3
    a4 = a4
    b2 = b2
    b3 = b3
    c3 = c3
    d1 = d1
    d2 = d2
    txA = txA
    txB = txB
    Block <- ForkBlock
    Genesis = G
    parent <- ForkParent
    number <- ForkNumber
    difficulty <- ForkDifficulty
    MaxNumber = 4
    None = None
    Tx = {txA, txB}
    txs <- ForkTxs
    Late = {}
    maxFutureBlocks = 2
    Envs = {{}}
    Offered <- ForkOffered
INVARIANTS
    HeaderNotBehind
CHECK_DEADLOCK FALSE
