CONSTANTS
  StartTemp = 2
  Steps = {4}
  MaxWalk = 12
  MaxRequests = 3
SPECIFICATION BorderSpec
INVARIANTS
  ReadsOwnWrites
  TemperatureReadsBack
PROPERTIES
  Announces
CHECK_DEADLOCK FALSE
