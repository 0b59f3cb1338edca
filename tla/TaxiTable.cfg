SPECIFICATION SafeSpec
CONSTANTS
    p1 = p1
    p2 = p2
    Pids = {p1, p2}
    NoPid = NoPid
    MaxDrivers = 2
    SockCap = 1
    MaxKills = 1
    PidReuse = TRUE
    Beyond <- AnyAlloc
CHECK_DEADLOCK FALSE
SYMMETRY Symmetry
INVARIANTS
    TypeOK
    TableMatchesKernel
PROPERTY MisdropNeedsStaleIndex
