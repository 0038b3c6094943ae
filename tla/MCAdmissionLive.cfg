CONSTANTS
    i1 = i1
    i2 = i2
    r1 = r1
    c1 = c1
    NoTask = NoTask
    Tasks = {i1, i2, r1}
    ImplTasks = {i1, i2}
    Calls = {c1}
    MaxConcurrentTasks = 1
    MaxConcurrentImplTasks = 1
    QueueMaxDepth = 2
    MaxBoots = 0
    MaxFaults = 0
SPECIFICATION FairSpec
PROPERTY Served
CHECK_DEADLOCK FALSE
