SPECIFICATION Spec
CONSTANTS
    p1 = p1
    p2 = p2
    p3 = p3
    b1 = b1
    b2 = b2
    b3 = b3
    None = None
    Proc <- MCProc
    Buf <- MCBuf
    NUM = 8
    IDXMOD = 16
SYMMETRY Symmetry
INVARIANT NoPanic DescriptorsPartitioned SleepersAreShort CompletionsComing
PROPERTY TransfersOnce
