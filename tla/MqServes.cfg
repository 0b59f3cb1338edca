SPECIFICATION Spec
CONSTANTS
    a = a
    b = b
    Clients = {a,b}
    MaxClients = 2
    MaxHistory = 3
    QueueCap = 1
    MaxLines = 2
    MaxStarts = 2
    Crashes = FALSE
CHECK_DEADLOCK FALSE
INVARIANT ScreensAgree
PROPERTY ServerServes
