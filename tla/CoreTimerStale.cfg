CONSTANTS
    c1 = c1
    c2 = c2
    x1 = x1
    x2 = x2
    x3 = x3
    Clients <- OneClient
    Updater = Updater
    Nodes <- ThreeNodes
    NULL = NULL
    Waits = {1}
    MaxAdds = 1
    MaxTime = 3
SPECIFICATION Spec
SYMMETRY Symmetry
INVARIANTS NeverLinkedLate
CHECK_DEADLOCK FALSE
