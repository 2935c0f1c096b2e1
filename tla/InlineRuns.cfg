SPECIFICATION FairSpec
CONSTANTS
    Keys = {k1, k2, k3}
    Requests = {q1, q2}
    NumSteps = 2
    MaxAttempts <- TwoThenOne
    Stores <- BothStores
    Direct = {k3}
    Cancellable = {k2}
    MaxCrashes = 2
INVARIANTS
    OneDrive
    AttemptsBounded
PROPERTIES
    CheckpointIsFinal
    KeepsPromise
    EveryRunEnds
