SPECIFICATION Spec
CONSTANTS
    p1 = p1
    p2 = p2
    None = None
    Proc <- MCProc
    Key <- MCKey
    INPUT_BUF_SIZE = 2
    CTRMOD = 4
    BATCH = 1
    TXFIFO = 2
    RXFIFO = 1
    Start = 3
    MaxN = 2
    MaxKeys = 3
    MaxCalls = 2
    MaxKills = 1
INVARIANT NoMissedLine NoLostTransmit NoOverrun
PROPERTY InputIsLines
SYMMETRY ProcSymmetry
CHECK_DEADLOCK FALSE
