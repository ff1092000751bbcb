CONSTANTS
    N = 2
    Message <- MCMessage
    Duration = {1, 2}
    Description <- MCDescription
    Program <- JoinPrograms
    Behave <- MCBehave
    Capacity = 2
    Faults = {"ser", "de", "send_to", "recv_from", "checked_add"}
    Copies = {0, 2}
SPECIFICATION FairSpec
INVARIANTS
    TypeOK
    TakeTurns
    PanicsArePropagated
PROPERTIES
    ImplementsRuntime
    JoinReturns
CHECK_DEADLOCK FALSE
