CONSTANTS
  Submodules = 2
  MaxKills = 1
  Sizes = {10, 20}
  Seeds = {1, 2}
  Asks <- MCAsks
  Settings = {area150, area200}
  NoFile = NoFile
  MaxSweeps = 2
SPECIFICATION FairSweepSpec
INVARIANTS
  DoneMeansReady
  SimulatesOnReady
  ListoMeansComplete
PROPERTIES
  RetryRecovers
  SweepEnds
