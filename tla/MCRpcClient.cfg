SPECIFICATION FairClientSpec
CONSTANTS
    Callers = {h, g}
    Background = {h}
    Handlers = {h, g}
    ListHandlers = {h}
    FailureThreshold = 2
    SuccessThreshold = 2
    Timeout = 1
    MaxAttempts = 2
    MaxStreak = 2
    OuterAttempts = 2
    MaxPages = 2
INVARIANT
    CountersAreEvidence
PROPERTIES
    SwitchesOnEvidence
    FailsFast
    RequestsReturn
    BothRecover
