SPECIFICATION Spec
CONSTANTS
    NPROC = 3
    c1 = c1
    c2 = c2
    CPU <- TwoHarts
    None = None
    Targets = {0, 2, 3}
    MaxCalls = 2
SYMMETRY HartSymmetry
INVARIANT OneHartPerStack StateIsAccurate FreedIsQuiet ParentsAlive
