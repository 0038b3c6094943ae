SPECIFICATION ObedientSpec
CONSTANTS
  Cancellers = {"c1"}
  Resumers = {"r1"}
  MaxBoots = 0
  MaxFaults = 1
  MaxTries = 1
PROPERTIES ExitCodeWritten
CHECK_DEADLOCK FALSE
