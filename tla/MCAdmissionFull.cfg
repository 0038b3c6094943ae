CONSTANTS
    i1 = i1
    i2 = i2
    i3 = i3
    i4 = i4
    c1 = c1
    c2 = c2
    NoTask = NoTask
    Tasks = {i1, i2, i3, i4}
    ImplTasks = {i1, i2, i3, i4}
    Calls = {c1, c2}
    MaxConcurrentTasks = 2
    MaxConcurrentImplTasks = 2
    QueueMaxDepth = 1
    MaxBoots = 0
    MaxFaults = 0
SPECIFICATION Spec
SYMMETRY Symmetry
INVARIANTS DepthBound
CHECK_DEADLOCK FALSE
