SPECIFICATION FairSpec
CONSTANTS
    w1 = w1
    w2 = w2
    Watchers = {w1, w2}
    MaxProgress = 2
PROPERTIES IsProgressFeed ReleaseReturns WatchersEnd
CHECK_DEADLOCK FALSE
