SPECIFICATION Spec
CONSTANTS
    p1 = p1
    Pids = {p1}
    NoPid = NoPid
    MaxDrivers = 1
    SockCap = 3
    MaxKills = 1
    PidReuse = TRUE
    Beyond <- AnyAlloc
CHECK_DEADLOCK FALSE
INVARIANT AvailableIsCurrent
PROPERTIES
    DeadDriverForgotten
    ImplementsFleet
