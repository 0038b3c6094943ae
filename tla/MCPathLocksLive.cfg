SPECIFICATION FairSpec
CONSTANTS
    t1 = t1
    t2 = t2
    t3 = t3
    p1 = p1
    NoTask = NoTask
    Tasks = {t1, t2, t3}
    Paths = {p1}
    MaxBoots = 0
PROPERTY AcquisitionEnds
CHECK_DEADLOCK FALSE
