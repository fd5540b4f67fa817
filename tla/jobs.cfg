SPECIFICATION FairSpec
CONSTANTS
  NoJob = NoJob
  w1 = w1
  w2 = w2
  c1 = c1
  f1 = f1
  f2 = f2
  Cases = {c1}
  Flows = {f1, f2}
  CaseOf <- OneCase
  Workers = {w1, w2}
  MaxRetries = 1
  MaxFaults = 1
  MaxRestarts = 1
INVARIANTS
  TypeOK
  DeadHasLetter
  RunningIsHeld
  AttemptsBounded
PROPERTIES
  CallsAllowed
  JobsSettle
CHECK_DEADLOCK FALSE
