SPECIFICATION Spec
CONSTANTS
    p1 = p1
    p2 = p2
    a1 = a1
    a2 = a2
    b1 = b1
    b2 = b2
    k1 = k1
    k2 = k2
    k3 = k3
    k4 = k4
    d1 = d1
    d2 = d2
    None = None
    NoBlock = NoBlock
    Proc <- MCProc
    User <- MCUser
    Process <- MCProcess
    Rank <- MCRank
    BlockNo <- MCBlock
    Data <- MCData
    NBUF = 3
    MaxPins = 1
SYMMETRY Symmetry
INVARIANT OneBufferPerBlock RefcntExact PanicOnlyWhenFull NoCircularWait
PROPERTY CoherentBlocks
CHECK_DEADLOCK FALSE
