SPECIFICATION Spec
CONSTANTS
  None = None
  c1 = c1
  c2 = c2
  Callers = {c1, c2}
  Elements <- CasesElements
  Process <- Cases
  Start = "a"
  Openings <- CasesOpenings
  Refused = {"b", "r"}
  MaxSize = 2
  MaxCalls = 3
  MaxFaults = 1
  MaxCrashes = 1
SYMMETRY Symmetry
INVARIANTS
  TypeOK
  ContinuedOnce
  NothingOverwritten
  JoinGoesOn
PROPERTIES
  ClosedStaysClosed
  CompletedStays
