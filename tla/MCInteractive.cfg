CONSTANTS
    N = 2
    Message <- MCMessage
    Duration = {1, 2}
    Description <- MCDescription
    Program <- OneAtATime
    Behave <- MCBehave
SPECIFICATION Spec
CHECK_DEADLOCK FALSE
PROPERTIES
    LocationLeadsBack
