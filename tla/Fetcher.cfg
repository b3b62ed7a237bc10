\* Two peers, one of which announces, and two blocks that extend a side branch.
SPECIFICATION FairSpec
CONSTANTS
    G = G
    a1 = a1
    a2 = a2
    a3 = a3
    b1 = b1
    v = v
    w = w
    Block <- ForkBlock
    Genesis = G
    parent <- ForkParent
    number <- ForkNumber
    difficulty <- ForkDifficulty
    MaxNumber = 3
    None = None
    Peer = {v, w}
    Announcer = {v}
    Bodiless = {a3}
    maxUncleDist = 0
    maxQueueDist = 2
    hashLimit = 2
    blockLimit = 1
    Mantissa = 16777216
    Stored = {G, a1, b1}
    Offered = {a2, a3}
    MaxDrift = 2
CHECK_DEADLOCK FALSE
INVARIANTS
    QueueExact
    QueueCount
    TimersArmed
    OnePhase
    CountNeverLeaks
PROPERTIES
    ImportWakesQueue
