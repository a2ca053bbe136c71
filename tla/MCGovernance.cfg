SPECIFICATION Spec
CONSTANTS
    Users = {u1, u2, u3}
    Contracts = {gov, ana}
    NoAddress = NoAddress
    Epochs = {0, 1}
    Hash = {h1}
    NoSnapshot = NoSnapshot
    MaxTime = 2
    GovernanceAddress = gov
    AnalyticsAddress = ana
    Periods = {0, 1}
    Quorums = {2}
    MaxProposals = 1
    MaxU64 = 2
SYMMETRY MCSymmetry
INVARIANTS
    TallyCountsVotes
    OutcomeMatchesVotes
    DecidedAfterDeadline
PROPERTIES
    BallotsAreFinal
    ExecutionTakesEffect
    GovernedHistoryIsEpochLog
CHECK_DEADLOCK FALSE
