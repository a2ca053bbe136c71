SPECIFICATION FairSpec
CONSTANTS
    Webhooks = {w1}
    MaxEvents = 3
    BatchLimit = 2
    MaxRetries = 3
    MaxFaults = 2
INVARIANTS
    DeliveredWasAccepted
    AttemptsAreBounded
    AtMostOneLateRequest
PROPERTIES
    SettledIsFinal
    QueueDrains
CHECK_DEADLOCK FALSE
