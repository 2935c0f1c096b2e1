SPECIFICATION Spec
CONSTANTS
    Runs = {r1, r2}
    Workers = {w1}
    NumSteps = 2
    MaxAttempts <- TwoAttempts
    ClaimCount = 20
    Cancellable = {}
    LeaseOutlived = FALSE
    MaxTransient = 2
    MaxCrashes = 2
INVARIANTS
    AttemptsBounded
    DeadLetteredOnce
PROPERTIES
    KeepsPromise
