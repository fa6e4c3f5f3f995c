CONSTANTS
    Worker = {w1, w2}
    LOCK_TTL = 1
    MaxTime = 1
    NoLock = NoLock
    Visitor = {v1}
    Admin = {a1}
    Cron = {w1, v1}
    Request <- Process
    RequestOf <- ProcessOf
    CacheId <- OwnCacheId
    CacheOf <- OwnCache
    Origin = {o1, o2}
    Prompt = TRUE
    None = None
    NoRow = NoRow
    Unread = Unread
SPECIFICATION Spec
INVARIANTS
    SnapshotTypeOK
    StatusIsBacked
PROPERTIES
    CurrentRunPreserves
SYMMETRY Symmetry
CHECK_DEADLOCK FALSE
