CONSTANTS
  Clients = {2, 3}
  Reporters = {2}
  Parents = {1}
  ReportEvery = 3
  SeqMod = 4
  MaxSends = 3
  MAX_NODES = 4
  Multihop = {2, 3}
SPECIFICATION Spec
INVARIANTS
  PdrAtMost100
CHECK_DEADLOCK FALSE
