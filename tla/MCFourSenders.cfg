CONSTANTS
    N = 5
    Message <- MCMessage
    Duration = {1, 2, 5, 15}
    Description <- MCDescription
    Program <- FourSenders
    Behave <- MCBehave
    MaxTraceCount = 30
SPECIFICATION AuditSpec
INVARIANT
    CompleteCoversEverySchedule
CHECK_DEADLOCK FALSE
