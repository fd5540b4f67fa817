SPECIFICATION Spec
CONSTANTS
  None = None
  w1 = w1
  w2 = w2
  Workers = {w1, w2}
  Elements <- QueueingElements
  Process <- Queueing
  Start = "start"
  Cap = 4
  MaxLoops = 3
  MaxFaults = 1
  Timeouts = TRUE
  MaxRuns = 2
INVARIANTS
  NoWorkLost
