SPECIFICATION FairSpec
CONSTANTS
    p1 = p1
    p2 = p2
    p3 = p3
    b1 = b1
    b2 = b2
    d1 = d1
    d2 = d2
    Proc <- MCProc3
    Block <- MCBlock1
    Data <- MCData1
    NotCached = NotCached
    NoBlock = NoBlock
    LOGSIZE = 4
    NLOG = 5
    MAXOPBLOCKS = 2
    OpBlocks = 1
    MaxWrites = 1
    MaxCalls = 3
INVARIANT NoPanic
PROPERTY BeginOpReturns SyncReturns
