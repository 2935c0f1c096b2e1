SPECIFICATION Spec
CONSTANTS
    Runs = {r1, r2}
    Workers = {w1, w2}
    NumSteps = 2
    MaxAttempts <- TwoAttempts
    ClaimCount = 1
    Cancellable = {}
    LeaseOutlived = FALSE
    MaxTransient = 0
    MaxCrashes = 1
SYMMETRY Symmetric
PROPERTIES
    KeepsPromise
