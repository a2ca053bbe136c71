SPECIFICATION FairSpec
CONSTANTS
    Readers = {r}
    Pages = {p}
    Jobs = {j}
    SyncJobs = {j}
    CorridorJobs = {}
    NumAnchors = 3
    NoPage = NoPage
    MaxVersion = 1
    MaxNetwork = 1
PROPERTY
    SyncReachesDatabase
CHECK_DEADLOCK FALSE
