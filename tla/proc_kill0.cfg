SPECIFICATION Spec
CONSTANTS
    NPROC = 3
    c1 = c1
    c2 = c2
    CPU <- OneHart
    None = None
    Targets = {0}
    MaxCalls = 2
INVARIANT KilledByPid
