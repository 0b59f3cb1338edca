SPECIFICATION SafeSpec
CONSTANTS
    a = a
    b = b
    Clients = {a,b}
    MaxClients = 1
    MaxMessages = 2
    MaxLines = 1
    MaxSignals = 1
    MaxKills = 1
    MaxStarts = 2
CHECK_DEADLOCK FALSE
CONSTRAINT Explored
SYMMETRY Symmetry
INVARIANTS
    TypeOK
    OneInside
    PostedIsKept
    ScreenIsPrefix
PROPERTY AppendOnly
