SPECIFICATION ProgramsSpec
CONSTANTS
    k1 = k1
    k2 = k2
    k3 = k3
    k4 = k4
    Keys <- FourKeys
    Buckets <- TwoBuckets
    HashKey <- Colliding
    CounterMod = 4
    Numbers <- MenuNumbers
    Words = {ann, bob}
    Blank = Blank
    Eof = Eof
    AllRead = AllRead
    NoNumber = NoNumber
    MaxAbonents = 3
    Cells = {cell1, cell2, cell3}
    Null = Null
    QServers = {qs1, qs2}
    QClients = {qc1, qc2}
    QCapacity = 2
    QMaxKills = 1
    SServers = {ss1, ss2}
    SClients = {sc1, sc2}
    SMaxRuns = 3
    SMaxKills = 1
    FServers = {fs1, fs2}
    FClients = {fc1, fc2}
    FMaxKills = 1
    MaxSends = 4
    Scripts <- SomeScripts
    MaxRan = 6
    KUsers = {user1, user2}
    KValues = {42}
    KCounts = {2}
    Dirs <- ThreeDirs
    Contents <- Tree
    NotADir <- File
    StartDir <- InA
    MaxFiles = 2
    InputLines = 4
    ByteBase = 3
    PseudoHeaders <- SomeTrits
    Datagrams <- FewTrits
    HeaderPackets <- SomeHeaders
    ByteBits = 2
    Sizes = {0, 1, 2, 3, 4, 5}
    Elements = {1, 2, 3}
INVARIANTS
    ProgramTypes
    OneNodePerKey
    TwoWayLinked
    HeardRight
    NothingLeft
    ShellInStep
    ModuleSound
    ToldIsSafe
    ComputedRight
PROPERTIES
    ImplementsTally
    ImplementsBook
    WordEmptiesBook
    ExchangesEnd
    ProgramsGoOn
    StaysInOrder
CHECK_DEADLOCK FALSE
