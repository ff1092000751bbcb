CONSTANTS
    ThreadId = {1, 2, 3}
    Configuration <- LinearizableConfiguration
SPECIFICATION Spec
INVARIANTS
    TypeOK
    RequestsAreMatched
    AnswersAreLinearizable
    SequentialClientIsServed
    CollectorsDoNotBlock
    StaleReadIsDetected
CHECK_DEADLOCK FALSE
