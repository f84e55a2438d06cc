SPECIFICATION FairSpec
CONSTANTS
    ExitCodes <- BuildExitCodes
    MayCancel = TRUE
    MayFailStart = TRUE
    MayCloseOutput = TRUE
INVARIANTS KeptWhileBuilding StoppedBeforeCommit CommitAlone
PROPERTIES SyntheticExitApplies
CHECK_DEADLOCK FALSE
