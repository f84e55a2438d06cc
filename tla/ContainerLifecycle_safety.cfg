SPECIFICATION Spec
CONSTANTS
    c1 = c1
    c2 = c2
    c3 = c3
    Clients = {c1, c2, c3}
    Monitor = Monitor
    Restarter = Restarter
    Nobody = Nobody
    Setups <- SafetySetups
    MaxRetry = 1
    MaxStarts = 2
    MaxCalls = 1
SYMMETRY ClientSymmetry
INVARIANTS Agreement MountsBalanced RemovedStaysDown StopStops NoLostWakeup
CHECK_DEADLOCK FALSE
