CONSTANTS
  MaxSessions = 2
  MaxChunks = 3
  MaxData = 1
SPECIFICATION Spec
INVARIANTS
  EndsForAReason
CHECK_DEADLOCK FALSE
