SPECIFICATION SafeSpec
CONSTANTS
    a = a
    b = b
    d = d
    Clients = {a,b,d}
    MaxClients = 2
    MaxHistory = 3
    QueueCap = 1
    MaxLines = 1
    MaxStarts = 1
    Crashes = TRUE
CHECK_DEADLOCK FALSE
CONSTRAINT Explored
SYMMETRY Symmetry
INVARIANTS
    TypeOK
    StreamIsHistory
    ScreensAgree
