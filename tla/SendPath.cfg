CONSTANTS
    t1 = t1
    t2 = t2
    t3 = t3
    Threads <- ThreeThreads
    Sizes = {0, 1, 2}
    MaxSends = 2
SPECIFICATION FairSpec
INVARIANTS OneOwner NoLostWakeup StreamInOrder NeverClosedBySending
PROPERTIES EveryByteSent
CHECK_DEADLOCK FALSE
