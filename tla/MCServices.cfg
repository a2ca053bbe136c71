SPECIFICATION PartsSpec
CONSTANTS
    Requests = {u, v}
    MaxPerDay = 2
    Base = 2
    Bonus = 1
    Penalty = 0
    MaxRecorded = 6
    Readers = {r, s}
    Pages = {p}
    Jobs = {j, k, l}
    SyncJobs = {j, l}
    CorridorJobs = {l}
    NumAnchors = 3
    NoPage = NoPage
    MaxVersion = 2
    MaxNetwork = 1
    Callers = {a, b}
    QueueSize = 1
    Burst = 0
    Limits = {0, 2}
    MaxRetryAfter = 1
    MaxAttempts = 2
    FailureThreshold = 2
    SuccessThreshold = 2
    Timeout = 1
    None = None
    Clients = {c}
    RingSize = 2
    HttpRequests = {g, h}
    Whole = {w}
    Cut = {x}
    Napping = {n}
    Deaf = {d}
    MaxUpdates = 4
INVARIANTS
    OverrunIsBounded
    TotalIsRecorded
    InvalidatedIsGone
PROPERTIES
    EventuallyFresh
    SomebodyIsSent
    ShutdownEnds
    NobodyIsLeftBehind
CHECK_DEADLOCK FALSE
