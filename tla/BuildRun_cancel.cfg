SPECIFICATION FairSpec
CONSTANTS
    ExitCodes <- BuildExitCodes
    MayCancel = TRUE
    MayFailStart = FALSE
    MayCloseOutput = FALSE
PROPERTIES CancelKills
CHECK_DEADLOCK FALSE
