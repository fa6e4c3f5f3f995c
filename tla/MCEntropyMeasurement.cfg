SPECIFICATION MeasurementFairSpec
CONSTANTS
    MaxGeneration = 3
    MaxMoves = 3
    InOrder = TRUE
    Null = Null
    MoveToken = {L1, R2}
    TimingBin = {0, 1}
    GestureToken = {g1}
    ESTIMATOR_CAP = 9
    Milestone = 4
    NoToken = NoToken
    Threshold = {2}
INVARIANTS
    SessionTypeOK
    RecordsEnterOwnDigest
    TranscriptLinked
    SolveLosesNothing
    EstimatorTypeOK
    EstimateOfTranscript
PROPERTIES
    ImplementsStudy
    MovesAreShown
CHECK_DEADLOCK FALSE
