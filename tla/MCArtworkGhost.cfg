CONSTANTS
    Key = {k1}
    Run = {r1}
    View = {v1}
    Cleanup = {}
    Admin = {a1}
    Origin = {o1}
    HOUR = 1
    MAX_AGE = 3
    MaxEntries = 1
    MaxTime = 2
    None = None
SPECIFICATION ArtSpec
INVARIANT CachedIsArtwork
CHECK_DEADLOCK FALSE
