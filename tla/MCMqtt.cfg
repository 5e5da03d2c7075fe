CONSTANTS
  None = None
  Subscribe = Subscribe
  MaxSeq = 3
  MaxTimerEvents = 2
  MaxCredit = 3
SPECIFICATION HistoryFairSpec
INVARIANTS
  WakeupPending
  ConnectedMeansUp
  BufferIntact
  AttemptsArePaced
  EachNumberOnce
PROPERTIES
  StreamSpec
  NodeRecovers
  Resubscribes
  PublishesAll
