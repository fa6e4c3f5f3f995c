CONSTANTS
    Worker = {w1, w2}
    LOCK_TTL = 1
    MaxTime = 2
    NoLock = NoLock
    Visitor = {v1}
    Admin = {}
    Cron = {}
    Request <- Process
    RequestOf <- ProcessOf
    CacheId <- SharedCacheId
    CacheOf <- SharedCache
    Origin = {o1}
    Prompt = TRUE
    None = None
    NoRow = NoRow
    Unread = Unread
SPECIFICATION Spec
INVARIANTS
    CacheMatchesOption
SYMMETRY Symmetry
CHECK_DEADLOCK FALSE
