SPECIFICATION Spec
CONSTANTS
    Prefixes = {p1, p2, p3}
    Paths <- MCPaths
    WinSize = 1
    BurstStart = 2
    BurstEnd = 1
    MinBurst = 2
    Cycle = 1
    PW = 1
    RW = 3
    Encoded <- MCEncoded
    MaxTime = 3
    MaxCounted = 3
SYMMETRY MCSymmetry
INVARIANTS WithdrawnAreCounted BurstIsBusy
PROPERTIES OneFailureIsFound
CHECK_DEADLOCK FALSE
