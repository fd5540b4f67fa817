SPECIFICATION FairSpec
CONSTANTS
  None = None
  w1 = w1
  w2 = w2
  Workers = {w1, w2}
  Elements <- OneRunElements
  Process <- OneRun
  Start = "start"
  Cap = 12
  MaxLoops = 2
  MaxFaults = 1
  Timeouts = TRUE
  MaxRuns = 1
INVARIANTS
  TypeOK
  PendingAccount
  JoinFires
  ErrorChannelHasRoom
  LoopsBounded
PROPERTIES
  PoolStopsWithLoop
  RunReturns
