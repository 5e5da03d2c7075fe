CONSTANTS
  Nodes = {n1, n2}
  Foreign = foreign
  None = none
  MaxFrames = 3
  MaxFaults = 2
SPECIFICATION Spec
INVARIANTS
  NoFrameForgotten
PROPERTIES
  StreamSpec
CHECK_DEADLOCK FALSE
