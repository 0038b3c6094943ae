SPECIFICATION Spec
CONSTANTS
    t1 = t1
    t2 = t2
    p1 = p1
    NoTask = NoTask
    Tasks = {t1, t2}
    Paths = {p1}
    MaxBoots = 0
INVARIANT AwaitingKeepsLock
CHECK_DEADLOCK FALSE
