SPECIFICATION FairSpec
CONSTANTS
  NoJob = NoJob
  w1 = w1
  w2 = w2
  c1 = c1
  f1 = f1
  f2 = f2
  Cases = {c1}
  Flows = {f1}
  CaseOf <- OneJob
  Workers = {w1, w2}
  MaxRetries = 1
  MaxFaults = 0
  MaxRestarts = 0
PROPERTIES
  JobStates
CHECK_DEADLOCK FALSE
