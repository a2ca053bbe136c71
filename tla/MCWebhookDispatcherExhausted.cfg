SPECIFICATION Spec
CONSTANTS
    Webhooks = {w1, w2}
    MaxEvents = 3
    BatchLimit = 2
    MaxRetries = 3
    MaxFaults = 1
INVARIANT
    ExhaustedIsFailed
CHECK_DEADLOCK FALSE
