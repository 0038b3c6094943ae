SPECIFICATION Spec
CONSTANTS
    t1 = t1
    t2 = t2
    t3 = t3
    p1 = p1
    p2 = p2
    NoTask = NoTask
    Tasks = {t1, t2, t3}
    Paths = {p1, p2}
    MaxBoots = 1
SYMMETRY Symmetry
INVARIANTS
    TypeOK
    LocksDisjoint
    HeldLockSurvives
    StaleNeverBlocks
    Exclusion
CHECK_DEADLOCK FALSE
