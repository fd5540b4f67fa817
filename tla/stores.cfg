SPECIFICATION Spec
CONSTANTS
  None = None
  i1 = i1
  i2 = i2
  f1 = f1
  f2 = f2
  c1 = c1
  c2 = c2
  Processes = {"p"}
  Versions = {"v1", "v2"}
  Instances = {i1, i2}
  Variables = {"x", "y"}
  Flows = {f1, f2}
  Threads = {1, 2}
  Letters = {d1, d2}
  Entries = {"e"}
  Callers = {c1, c2}
  Openings <- SmallOpenings
  Mixes <- SmallMixes
  Limit = 1
  MaxCalls = 5
  MaxLost = 1
SYMMETRY Symmetry
INVARIANTS
  RowsAgree
  AnswersAgree
CHECK_DEADLOCK FALSE
