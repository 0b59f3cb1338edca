SPECIFICATION SafeSpec
CONSTANTS
    a = a
    b = b
    Clients = {a, b}
    MaxClients = 1
    MaxHistory = 9
    QueueCap = 1
    MaxLines = 1
    MaxStarts = 1
    Crashes = FALSE
CHECK_DEADLOCK FALSE
INVARIANT RejectionIsTrue
