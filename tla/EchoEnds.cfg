SPECIFICATION Spec
CONSTANTS
    a = a
    b = b
    here = here
    there = there
    Clients = {a,b}
    Addr <- OneIsServer
    Server <- ServerAddress
    Buckets <- OneBucket
    HashKey <- AllCollide
    CounterMod = 3
    MaxPayload = 8
    Sizes = {3, 6}
    MaxLines = 1
    MaxSessions = 1
    MaxLosses = 1
    MaxDups = 0
    MaxInterrupts = 0
    MaxCrashes = 1
CHECK_DEADLOCK FALSE
INVARIANT TypeOK
PROPERTIES
    Answered
    EchoesEnd
