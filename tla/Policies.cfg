SPECIFICATION EvaluationSpec
CONSTANTS
    NumQuestions = 3
    Full = 2
    Policies <- EveryPolicy
    Floors <- EveryFloor
    Budgets <- EveryBudget
    Depths = {0, 1}
    Replies <- EveryOverlap
    IntakeAttempts = 2
    MaxTurns = 8
    Weights <- SomeWeights
    Entries <- SomeEntries
    MostEntries = 3
    NotANumber <- NaN
CHECK_DEADLOCK FALSE
INVARIANTS
    CoverageMatchesHistory
    FollowUpsBounded
    GuidedInOrder
    BudgetRespected
    EvaluatesWhatWasCovered
    ReportIsSound
    CoveredIsScoredWhole
PROPERTIES
    AdaptiveCloses
