CONSTANTS
    ThreadId = {1, 2, 3}
    Configuration <- WriteTwice
SPECIFICATION Spec
INVARIANTS
    AnswersAreLinearizable
CHECK_DEADLOCK FALSE
