SPECIFICATION Spec
CONSTANTS
    INT_MAX = 31
    Threads = {w1, w2}
    Scenarios <- MCScenarios
SYMMETRY Alike
INVARIANTS RefsCovered CompletionsOwned HandlersSound AcceptedAtRest
PROPERTIES FreedAfterClose
CHECK_DEADLOCK FALSE
