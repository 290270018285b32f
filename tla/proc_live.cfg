SPECIFICATION FairSpec
CONSTANTS
    NPROC = 3
    c1 = c1
    c2 = c2
    CPU <- OneHart
    None = None
    Targets = {}
    MaxCalls = 3
PROPERTY ExitIsReaped
CHECK_DEADLOCK FALSE
