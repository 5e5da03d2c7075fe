CONSTANTS
  NodeIds = {1, 2}
  ROOT_ID = 1
  EnergySeqMod = 2
  MaxTime = 3
  MaxEvents = 3
SPECIFICATION EnergyFairSpec
INVARIANTS
  NoExpiryUnattended
PROPERTIES
  ReportsTheTime
  SamplesGoOn
