SPECIFICATION PubSpec
CONSTANTS
    Users = {u1}
    Contracts = {c1}
    NoAddress = NoAddress
    Epochs = {0, 1, 2}
    Bytes = {h1, h2, short}
    Hash = {h1, h2}
    NoSnapshot = NoSnapshot
    NoMetadata = NoMetadata
    MaxTime = 0
    MaxVersion = 2
    j1 = j1
    j2 = j2
    h1 = h1
    h2 = h2
    short = short
    Jobs = {j1, j2}
    HashOf <- MCHashOf
    MaxRetries = 2
    CanSign = TRUE
INVARIANTS
    VerificationsAgree
    PublishedHasRow
    ReportsAreTrue
PROPERTIES
    ImplementsEpochLog
SYMMETRY JobSymmetry
CHECK_DEADLOCK FALSE
