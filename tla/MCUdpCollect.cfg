CONSTANTS
  Clients = {2, 3, 4}
  Reporters = {2, 4}
  Parents = {1, 5}
  ReportEvery = 2
  SeqMod = 5
  MaxSends = 4
  MAX_NODES = 4
  Multihop = {3}
SPECIFICATION Spec
INVARIANTS
  OneEdgeAtMost
  ScriptAgrees
  SummaryIsARatio
PROPERTIES
  StreamSpec
CHECK_DEADLOCK FALSE
