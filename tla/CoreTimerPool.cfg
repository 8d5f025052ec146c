CONSTANTS
    c1 = c1
    c2 = c2
    x1 = x1
    x2 = x2
    x3 = x3
    Clients <- TwoClients
    Updater = Updater
    Nodes <- ThreeNodes
    NULL = NULL
    Waits = {1,2}
    MaxAdds = 3
    MaxTime = 2
SPECIFICATION Spec
SYMMETRY Symmetry
INVARIANTS OneUsePerNode PoolCounted ArmedIsLinked
PROPERTIES FateIsFinal
CHECK_DEADLOCK FALSE
