SPECIFICATION LedgerSpec
CONSTANTS
    Users = {u1, u2}
    Contracts = {gov}
    NoAddress = NoAddress
    Epochs = {0, 1, 2, 3}
    Hash = {h1, h2}
    NoSnapshot = NoSnapshot
    MaxTime = 2
SYMMETRY MCSymmetry
INVARIANTS
    LatestIsNewest
    RecordedInEpochOrder
    IndexersAgree
PROPERTY
    InsightsIsEpochLog
CHECK_DEADLOCK FALSE
