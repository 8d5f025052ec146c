CONSTANTS
    c1 = c1
    c2 = c2
    x1 = x1
    x2 = x2
    x3 = x3
    Clients <- OneClient
    Updater = Updater
    Nodes <- ThreeNodes
    NULL = NULL
    Waits = {2}
    MaxAdds = 3
    MaxTime = 2
SPECIFICATION Spec
SYMMETRY Symmetry
INVARIANTS ExecutedIsHashed
CHECK_DEADLOCK FALSE
