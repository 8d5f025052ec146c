SPECIFICATION Spec
CONSTANTS
    INT_MAX = 31
    Threads = {w1, w2}
    Scenarios <- ReuseScenarios
INVARIANT ReservedIsKept
CHECK_DEADLOCK FALSE
