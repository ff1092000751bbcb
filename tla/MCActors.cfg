CONSTANTS
    N = 3
    Message <- MCMessage
    Duration = {1, 2}
    Description <- MCDescription
    Program <- MCProgram
    Behave <- MCBehave
SPECIFICATION ActorSpec
INVARIANTS
    ActorTypeOK
    CausalClocks
    ClockOrderIsHappensBefore
    MessagesAreConserved
PROPERTIES
    ImplementsRuntime
