CONSTANTS
    Keys = {k1, k2}
    Nodes = {k1, k2}
    Ballots <- MCNoBallots
    k4 = k4
    f1 = f1
    k1 = k1
    k2 = k2
    k3 = k3
    g = g
    b3 = b3
    b4 = b4
    b5 = b5
    b6 = b6
    b7 = b7
    b8 = b8
    c3 = c3
    c4 = c4
    c5 = c5
    c6 = c6
    Blocks = {g, b3, b4, c3}
    Genesis = g
    NoBlock = NoBlock
    NoKey = NoKey
    ParentOf <- MCParentOf
    BlockNum <- MCBlockNum
    Creator <- MCCreator
    ActiveKeys <- MCActiveKeys
    MaxFinalityLag = 3
    SyncFlags = {TRUE, FALSE}
    Sessions <- MCSessions
    Peered = {}
    DeliverOnce = FALSE
    TimelyPrevotes = FALSE
SPECIFICATION Spec
INVARIANTS
    TypeOK
PROPERTY
    FinalitySpec
CHECK_DEADLOCK FALSE
