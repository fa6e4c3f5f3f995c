SPECIFICATION PageFairSpec
CONSTANTS
    MaxGeneration = 4
    MaxMoves = 2
    InOrder = TRUE
    Null = Null
    ScrambleTwists = 2
INVARIANTS
    PageTypeOK
    TurnsRecordedInOrder
    SolvedEndsWithSolvingTurn
    CalmSessionsReplay
PROPERTIES
    ScrambleUndisturbed
    InputComesBack
    StartComesBack
CHECK_DEADLOCK FALSE
