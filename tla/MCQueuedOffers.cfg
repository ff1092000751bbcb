CONSTANTS
    N = 2
    Message <- MCMessage
    Duration = {1, 2}
    Description <- MCDescription
    Program <- TwoQueued
    Behave <- MCBehave
SPECIFICATION Spec
INVARIANTS
    OfferedStepsAreEnabled
