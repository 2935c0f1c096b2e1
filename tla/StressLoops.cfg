SPECIFICATION FairSpec
CONSTANTS
    NumQuestions = 2
    Full = 2
    Policies = {"stress"}
    Floors = {1}
    Budgets <- NoBudgetGiven
    Depths = {0}
    Replies = {2}
    IntakeAttempts = 2
    MaxTurns = 8
CHECK_DEADLOCK FALSE
PROPERTY
    InterviewCloses
