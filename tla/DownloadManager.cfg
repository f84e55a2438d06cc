SPECIFICATION FairDownloadSpec
CONSTANTS
    p1 = p1
    p2 = p2
    t1 = t1
    t2 = t2
    NoXfer = NoXfer
    Pulls = {p1, p2}
    Depth = 2
    Keys <- Positions
    Callers <- PullPositions
    Transfers = {t1, t2}
    Limits = {1}
    MaxAttempts = 2
    Setups <- FaultSetups
INVARIANTS ResultExists
PROPERTIES LayersDropped DownloadsReturn
CHECK_DEADLOCK FALSE
