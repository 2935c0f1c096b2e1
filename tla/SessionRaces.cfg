SPECIFICATION Spec
CONSTANTS
    Requests = {q1, q2}
    Drivers = {d1}
    MaxTurns = 3
    IntakeAttempts = 2
    MaxCrashes = 1
    MaxErrors = 1
SYMMETRY Symmetric
INVARIANTS
    TypeOK
    RowsContiguous
    BytesBeforeRun
    SucceededRoundIsNoted
    ReportIsComplete
