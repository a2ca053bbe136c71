SPECIFICATION Spec
CONSTANTS
    Sessions = {s1, s2}
    h1 = h1
    h2 = h2
    Log <- MCLog
    NoHash = NoHash
    NoSession = NoSession
    StartLedgers = {0}
    Modes <- MCModes
    EndLedger = 3
    BatchSize = 2
    CheckpointInterval = 2
    MaxRetries = 1
    MaxFaults = 2
INVARIANT
    ResumedStateIsWhole
CHECK_DEADLOCK FALSE
