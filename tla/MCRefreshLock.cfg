CONSTANTS
    Worker = {w1, w2, w3}
    LOCK_TTL = 2
    MaxTime = 3
    NoLock = NoLock
SPECIFICATION LockFairSpec
INVARIANTS
    LockTypeOK
    OneLiveOwner
PROPERTIES
    ImplementsLease
    AbandonedLeaseRecovered
CHECK_DEADLOCK FALSE
