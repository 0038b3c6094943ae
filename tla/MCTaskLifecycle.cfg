SPECIFICATION Spec
CONSTANTS
  Cancellers = {"c1"}
  Resumers = {"r1", "r2"}
  MaxBoots = 1
  MaxFaults = 1
  MaxTries = 1
INVARIANTS TypeOK ResumeAlone ClaimSound
CHECK_DEADLOCK FALSE
