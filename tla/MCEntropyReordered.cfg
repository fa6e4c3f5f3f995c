SPECIFICATION SessionSpec
CONSTANTS
    MaxGeneration = 3
    MaxMoves = 2
    InOrder = FALSE
    Null = Null
INVARIANT RecordsEnterOwnDigest
CHECK_DEADLOCK FALSE
