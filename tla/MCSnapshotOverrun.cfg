CONSTANTS
    Worker = {w1, w2}
    LOCK_TTL = 1
    MaxTime = 2
    NoLock = NoLock
    Visitor = {}
    Admin = {}
    Cron = {}
    Request <- Process
    RequestOf <- ProcessOf
    CacheId <- OwnCacheId
    CacheOf <- OwnCache
    Origin = {o1}
    Prompt = FALSE
    None = None
    NoRow = NoRow
    Unread = Unread
SPECIFICATION Spec
PROPERTIES
    SectionsPreserved
SYMMETRY Symmetry
CHECK_DEADLOCK FALSE
