SPECIFICATION Spec
CONSTANTS
    Requests = {q1}
    Drivers = {d1}
    MaxTurns = 1
    IntakeAttempts = 2
    MaxCrashes = 0
    MaxErrors = 1
INVARIANT
    FailedTurnCanBeRetried
