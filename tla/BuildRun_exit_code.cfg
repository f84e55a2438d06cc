SPECIFICATION Spec
CONSTANTS
    ExitCodes <- BuildExitCodes
    MayCancel = FALSE
    MayFailStart = FALSE
    MayCloseOutput = FALSE
INVARIANTS FailedRunNotCommitted
CHECK_DEADLOCK FALSE
