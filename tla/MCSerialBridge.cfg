CONSTANTS
  MaxSessions = 2
  MaxChunks = 3
  MaxData = 1
SPECIFICATION FairSpec
INVARIANTS
  BytesInOrder
  NoneTwice
  EndsForAReasonAlone
PROPERTIES
  LeavingIsNoticed
CHECK_DEADLOCK FALSE
