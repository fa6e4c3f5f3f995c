CONSTANTS
    Worker = {w1, w2}
    LOCK_TTL = 1
    MaxTime = 2
    NoLock = NoLock
    Visitor = {}
    Admin = {a1}
    Cron = {}
    Request <- Process
    RequestOf <- ProcessOf
    CacheId <- OwnCacheId
    CacheOf <- OwnCache
    Origin = {o1, o2}
    Prompt = TRUE
    None = None
    NoRow = NoRow
    Unread = Unread
SPECIFICATION Spec
INVARIANTS
    SnapshotOfCurrentOrigin
SYMMETRY Symmetry
CHECK_DEADLOCK FALSE
