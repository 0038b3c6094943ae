SPECIFICATION ObedientSpec
CONSTANTS
  Cancellers = {"c1"}
  Resumers = {"r1"}
  MaxBoots = 1
  MaxFaults = 0
  MaxTries = 1
INVARIANTS ResumeAccounted
PROPERTIES Ends
CHECK_DEADLOCK FALSE
