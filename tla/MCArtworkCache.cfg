CONSTANTS
    Key = {k1}
    Run = {r1, r2}
    View = {v1, v2}
    Cleanup = {c1}
    Admin = {a1}
    Origin = {o1, o2}
    HOUR = 1
    MAX_AGE = 2
    MaxEntries = 1
    MaxTime = 3
    None = None
SPECIFICATION ArtSpec
SYMMETRY Symmetry
INVARIANTS
    ArtTypeOK
    ServedIsWhole
    OldArtFromLateRuns
    ReferencesKeepFresh
CHECK_DEADLOCK FALSE
