SPECIFICATION Spec
CONSTANTS
    p1 = p1
    p2 = p2
    p3 = p3
    v1 = v1
    v2 = v2
    None = None
    Eof = Eof
    Proc <- MCProc
    Readers <- P1
    Writers <- P23
    Killable <- P2
    Byte <- Bytes1
    PIPESIZE = 2
    CTRMOD = 4
    MaxN = 2
INVARIANT SleepersWaitForData
CHECK_DEADLOCK FALSE
