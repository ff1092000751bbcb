CONSTANTS
    Radix = 2
    Duration = {0, 1, 3}
    MaxDeadlines = 3
    MaxTime = 6
    MaxIndex = 3
    MaxCount = 2
    Spawn = "spawn"
    Event = {"a", "b"}
    MaxNodes = 6
    MaxDepth = 4
    ThreadId = {t1, t2, t3}
    RefObj <- Objects
    Ops <- MCOps
    Rets <- MCRets
    MaxCalls = 6
    MaxMisuse = 4
SYMMETRY Threads
SPECIFICATION DataSpec
INVARIANTS
    ClocksPassTheTests
    TestersPassTheTests
    TypeOK
    AnswersAreAnticipated
    ElapsedIsForever
    AnswersReachThePeer
    TransferKeepsWhatFits
    OrderIsPointwise
    EqOrdAndHashAgree
    LookupsFindTheHistories
    LinearizabilityIsDecided
    SequentialConsistencyIsDecided
PROPERTIES
    ImplementsHistories
CHECK_DEADLOCK FALSE
