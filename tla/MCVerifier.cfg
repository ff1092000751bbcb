CONSTANTS
    N = 4
    Message <- MCMessage
    Duration = {1, 2, 5, 15}
    Description <- MCDescription
    Program <- VerifiedProgram
    Behave <- MCBehave
    MaxTraceCount = 24
SPECIFICATION Spec
INVARIANTS
    TypeOK
    TreesHoldTheTrace
    AgreesWithTests
    NeverExploredTwice
    IncompleteAtTheLimit
    OnlyTheLastStepUnwinds
PROPERTIES
    EveryTraceIsASchedule
CHECK_DEADLOCK FALSE
