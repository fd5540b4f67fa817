SPECIFICATION Spec
CONSTANTS
  None = None
  w1 = w1
  w2 = w2
  Workers = {w1, w2}
  Elements <- TasksElements
  Process <- Tasks
  Start = "start"
  Cap = 4
  MaxLoops = 3
  MaxFaults = 0
  Timeouts = FALSE
  MaxRuns = 4
INVARIANTS
  TasksCompleteCase
  InterruptedIsClosed
PROPERTIES
  CompletedIsFinal
