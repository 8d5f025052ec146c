CONSTANTS
    w1 = w1
    w2 = w2
    w3 = w3
    m1 = m1
    Workers <- ThreeWorkers
    Msgs <- OneMsg
    MaxCalls = 5
SPECIFICATION FairSpec
INVARIANTS OneInTimer QuitsMatchWorkers StoppedIsQuiet
PROPERTIES StopReturns QueuedIsHandled TimersServed
CHECK_DEADLOCK FALSE
