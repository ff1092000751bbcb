CONSTANTS
    N = 3
    Message <- MCMessage
    Duration = {1, 2, 5, 15}
    Description <- MCDescription
    Program <- PanicAtOnce
    Behave <- MCBehave
    MaxTraceCount = 30
SPECIFICATION Spec
INVARIANT
    PrefixDoesNotPanic
CHECK_DEADLOCK FALSE
