CONSTANTS
    t1 = t1
    t2 = t2
    t3 = t3
    l1 = l1
    l2 = l2
    l3 = l3
    Threads <- TwoThreads
    Logics <- OneLogic
    NULL = NULL
    DEFAULT_SLOT_SIZE = 1
    MaxPosts = 2
SPECIFICATION Spec
SYMMETRY Symmetry
INVARIANTS ReleasedIsRegistered
CHECK_DEADLOCK FALSE
