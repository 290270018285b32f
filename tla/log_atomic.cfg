SPECIFICATION Spec
CONSTANTS
    p1 = p1
    p2 = p2
    p3 = p3
    b1 = b1
    b2 = b2
    d1 = d1
    d2 = d2
    Proc <- MCProc2
    Block <- MCBlock2
    Data <- MCData2
    NotCached = NotCached
    NoBlock = NoBlock
    LOGSIZE = 4
    NLOG = 3
    MAXOPBLOCKS = 2
    OpBlocks = 2
    MaxWrites = 2
    MaxCalls = 3
SYMMETRY Symmetry
INVARIANT TypeOK LogReservation PinnedUntilInstalled
PROPERTY CrashAtomicity WriteAhead SyncDurable
