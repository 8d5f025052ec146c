CONSTANTS
    t1 = t1
    t2 = t2
    t3 = t3
    l1 = l1
    l2 = l2
    l3 = l3
    Threads <- ThreeThreads
    Logics <- ThreeLogics
    NULL = NULL
    DEFAULT_SLOT_SIZE = 1
    MaxPosts = 3
SPECIFICATION TSpec
SYMMETRY Symmetry
INVARIANTS
    LiveIsFound RefsCounted
    CsvRoundTrip IniAnswersFromFile ArrayFoundIsInserted ErrOneTextPerError RingBytesInOrder
    ListIsQueue LogicsAreFound
PROPERTIES IdsNeverReused
CHECK_DEADLOCK FALSE
