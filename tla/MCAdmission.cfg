CONSTANTS
    i1 = i1
    i2 = i2
    r1 = r1
    c1 = c1
    c2 = c2
    NoTask = NoTask
    Tasks = {i1, i2, r1}
    ImplTasks = {i1, i2}
    Calls = {c1, c2}
    MaxConcurrentTasks = 2
    MaxConcurrentImplTasks = 1
    QueueMaxDepth = 2
    MaxBoots = 1
    MaxFaults = 1
SPECIFICATION Spec
SYMMETRY Symmetry
INVARIANTS TypeOK SlotCap QueueExact SlotAccounting 
    StartedOnce FifoService WorkConserving
CHECK_DEADLOCK FALSE
