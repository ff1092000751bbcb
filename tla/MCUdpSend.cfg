CONSTANTS
    N = 2
    Message <- MCMessage
    Duration = {1, 2}
    Description <- MCDescription
    Program <- WithoutRecv
    Behave <- MCBehave
    Capacity = 2
    Faults = {"send_to"}
    Copies = {1}
SPECIFICATION FairSpec
PROPERTIES
    SendReturns
CHECK_DEADLOCK FALSE
