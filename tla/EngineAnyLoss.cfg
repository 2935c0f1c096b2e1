SPECIFICATION FairSpec
CONSTANTS
    Runs = {r1}
    Workers = {w1, w2}
    NumSteps = 1
    MaxAttempts <- TwoAttempts
    ClaimCount = 1
    Cancellable = {r1}
    LeaseOutlived = TRUE
    MaxTransient = 1
    MaxCrashes = 1
INVARIANTS
    TypeOK
    NoRunStranded
    TwoDrivesHaveACause
PROPERTIES
    EveryRunEnds
