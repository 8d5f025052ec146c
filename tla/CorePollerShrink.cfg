CONSTANTS
    w1 = w1
    w2 = w2
    w3 = w3
    m1 = m1
    Workers <- TwoWorkers
    Msgs <- NoMsgs
    MaxCalls = 4
SPECIFICATION Spec
INVARIANTS NeverWithoutPacket
CHECK_DEADLOCK FALSE
