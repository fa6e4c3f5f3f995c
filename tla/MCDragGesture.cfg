SPECIFICATION GestureSpec
CONSTANTS
    Amounts = {2, 5}
    MaxDrags = 1
    DragsAfter = 2
    MaxQuarterTurns = 5
    Base = 32
    Domain <- MCDomain
    Configuration <- MCConfiguration
    Tilt <- MCTilt
    Scale = 30
    Grabbed = {1, 23}
    Moves <- MCMoves
    Durations = {5, 400}
    Sequences = {1, 70000}
    PointerTypes = {"touch", ""}
    DRAG_THRESHOLD = 2
    PIXELS_PER_QUARTER_TURN = 30
    TOUCH_PIXELS_PER_QUARTER_TURN = 20
INVARIANTS
    GestureTypeOK
    ScrambleIsVisible
    SolvedIsSolved
    RecordReadsBack
PROPERTIES
    TurnsAsShown
    RecordReplays
CHECK_DEADLOCK FALSE
