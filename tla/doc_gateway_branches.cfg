SPECIFICATION Spec
CONSTANTS
  None = None
  c1 = c1
  c2 = c2
  Callers = {c1, c2}
  Elements <- CasesElements
  Process <- Cases
  Start = "a"
  Openings <- CasesOpenings
  Refused = {}
  MaxSize = 4
  MaxCalls = 4
  MaxFaults = 0
  MaxCrashes = 0
INVARIANTS
  BranchesAwaited
