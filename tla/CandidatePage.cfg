SPECIFICATION FairSpec
CONSTANTS
    MaxRounds = 3
    Seats = 2
    MaxFaults = 2
CHECK_DEADLOCK FALSE
INVARIANTS
    InStep
    ShownInOrder
    RepliesFitTheQuestion
PROPERTIES
    EveryInterviewEnds
