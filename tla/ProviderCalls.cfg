SPECIFICATION FairSpec
CONSTANTS
    talking = talking
    finished = finished
    Callers = {talking, finished}
    Rounds <- TwoAndNone
    Questions = {1}
    Authored <- AuthoredText
    Drafts <- OneOfEach
    Portuguese = FALSE
    Responses <- AnyResponse
    Stt = "stt_openai_compat"
    Voice = TRUE
    StepAttempts <- OneOrTwo
    RetryAttempts = 2
    Interval = 2
    Lag = 1
INVARIANTS
    CallsBounded
    NoQuestionTwice
PROPERTIES
    PacedApart
    EverySessionEnds
