\* Three callers and three tenants on a cache of two pools.
CONSTANTS
    Callers = {p1, p2, p3}
    Tenants = {t1, t2, t3}
    MaxCachedPools = 2
    Entries = {e1, e2, e3}
    NoEntry = NoEntry
\* After Close, and once the bounded entries are used up, nothing more happens.
CHECK_DEADLOCK FALSE
SPECIFICATION FairPoolSpec
INVARIANT PoolTypeOK
INVARIANT LeasesCountUsers
INVARIANT PoolIsClosedInTime
PROPERTY PoolProgress
