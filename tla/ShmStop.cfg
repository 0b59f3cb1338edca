SPECIFICATION Spec
CONSTANTS
    a = a
    b = b
    Clients = {a,b}
    MaxClients = 1
    MaxMessages = 2
    MaxLines = 1
    MaxSignals = 0
    MaxKills = 1
    MaxStarts = 1
CHECK_DEADLOCK FALSE
PROPERTY StopReleasesAll
