SPECIFICATION FairSpec
CONSTANTS
    k1 = k1
    k2 = k2
    c1 = c1
    c2 = c2
    c3 = c3
    t1 = t1
    t2 = t2
    NoXfer = NoXfer
    Keys = {k1, k2}
    Callers = {c1, c2, c3}
    Transfers = {t1, t2}
    Limits = {1, 2}
INVARIANTS
    SlotAccounting
    QueueIsServed
    SingleFlight
    WatchedNotCancelled
    ReleasedUnwatched
PROPERTIES
    StartsEventually
    AbandonedIsReleased
