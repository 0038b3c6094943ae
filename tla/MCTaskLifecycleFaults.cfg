SPECIFICATION Spec
CONSTANTS
  Cancellers = {"c1"}
  Resumers = {"r1"}
  MaxBoots = 1
  MaxFaults = 2
  MaxTries = 1
INVARIANTS ProcessAccounted ExitAgrees
 
CHECK_DEADLOCK FALSE
