SPECIFICATION Spec
CONSTANTS
    p1 = p1
    p2 = p2
    Pids = {p1, p2}
    NoPid = NoPid
    MaxDrivers = 2
    SockCap = 1
    MaxKills = 1
    PidReuse = FALSE
    Beyond <- Glibc
CHECK_DEADLOCK FALSE
INVARIANT NoLossWithoutDeath
PROPERTY AllDriversExit
