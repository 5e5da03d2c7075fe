CONSTANTS
  Senders = {2, 3, 4}
  Steady = {2, 4}
  MAX_NODES = 4
  SeqMod = 4
  MaxSends = 5
  MaxReboots = 1
SPECIFICATION Spec
INVARIANTS
  TypeOK
  PdrAtMost100
  SinkAgreesWithScript
PROPERTIES
  StreamSpec
CHECK_DEADLOCK FALSE
