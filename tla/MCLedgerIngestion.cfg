SPECIFICATION FairSpec
CONSTANTS
    OldestLedger = 2
    MaxLedger = 4
    BatchSize = 2
    Payments = {p1}
    NoCursor = NoCursor
    MaxFaults = 1
INVARIANTS
    NoSilentGap
    ChildrenHaveParents
    ReplaysAreBounded
PROPERTIES
    CursorAdvances
    CatchesUp
