CONSTANTS
  ClockMod = 9
  PUB_INTERVAL_MS = 3
  SeqMod = 2
  StepTicks = 1
  MaxFaults = 2
SPECIFICATION WifiFairSpec
INVARIANTS
  ServedMeansSubscribed
PROPERTIES
  PublicationsPaced
  SamplesArrive
