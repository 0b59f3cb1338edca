SPECIFICATION SafeSpec
CONSTANTS
    a = a
    b = b
    here = here
    there = there
    Clients = {a,b}
    Addr <- TwoPorts
    Server <- ServerAddress
    Buckets <- OneBucket
    HashKey <- AllCollide
    CounterMod = 2
    MaxPayload = 12
    Sizes = {3}
    MaxLines = 2
    MaxSessions = 2
    MaxLosses = 0
    MaxDups = 1
    MaxInterrupts = 1
    MaxCrashes = 0
CHECK_DEADLOCK FALSE
CONSTRAINT OneFault
SYMMETRY Symmetry
INVARIANTS
    ConsecutiveNumbers
    NoCrossTalk
PROPERTY AnswersItsLine
