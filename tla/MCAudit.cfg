CONSTANTS
    N = 4
    Message <- MCMessage
    Duration = {1, 2, 5, 15}
    Description <- MCDescription
    Program <- AuditedProgram
    Behave <- MCBehave
    MaxTraceCount = 30
SPECIFICATION AuditSpec
INVARIANTS
    CompleteCoversEverySchedule
    CompleteMeansVerified
    MinimalTraceReproduces
CHECK_DEADLOCK FALSE
