SPECIFICATION Spec
CONSTANTS
    p1 = p1
    p2 = p2
    p3 = p3
    v1 = v1
    v2 = v2
    None = None
    Eof = Eof
    Proc <- MCProc
    Readers <- P12
    Writers <- P23
    Killable <- P12
    Byte <- Bytes2
    PIPESIZE = 2
    CTRMOD = 4
    MaxN = 2
SYMMETRY ByteSymmetry
INVARIANT FreedIsUnused NoLostData NoLostRoom
PROPERTY StreamIntact
CHECK_DEADLOCK FALSE
