SPECIFICATION Spec
CONSTANTS
  Cancellers = {"c1"}
  Resumers = {"r1"}
  MaxBoots = 0
  MaxFaults = 0
  MaxTries = 1
INVARIANTS FailureReported
CHECK_DEADLOCK FALSE
