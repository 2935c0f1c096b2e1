SPECIFICATION FairSpec
CONSTANTS
    Requests = {q1}
    Drivers = {d1}
    MaxTurns = 3
    IntakeAttempts = 2
    MaxCrashes = 2
    MaxErrors = 1
PROPERTIES
    FollowsLifecycle
    FinishCompletes
