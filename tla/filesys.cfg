SPECIFICATION Spec
CONSTANTS
    p1 = p1
    p2 = p2
    Proc <- MCProc
    InitProc = p1
    NoProc = NoProc
    Name = {"a", "b"}
    NINODES = 3
    NINODE = 3
    NBLOCKS = 3
    DPB = 3
    NFILE = 2
    NOFILE = 2
    MAXFILE = 2
    NLINK_MAX = 2
    Calls <- MCCalls
    Image <- MCImage
    MaxCalls = 3
INVARIANT RefsExact OneSlotPerInode CopyIsCurrent NoPanic CrashConsistent NoLostInode NoLockCycle
