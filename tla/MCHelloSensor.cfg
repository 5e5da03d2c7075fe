CONSTANTS
  SAMPLE_INTERVAL = 6
  LED_PULSE = 2
  Late = 1
  Lowest = 0
  Highest = 3
  Step = 2
  ALARM_THRESHOLD = 1
SPECIFICATION FairSpec
INVARIANTS
  OneColour
  OnSchedule
PROPERTIES
  NoLedStays
