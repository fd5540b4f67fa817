SPECIFICATION CallSpec
CONSTANTS
  None = None
  c1 = c1
  c2 = c2
  Cases = {c1, c2}
  Documents <- SmallDocuments
  Deployed <- CallDocuments
  CalledDocuments <- SmallCalled
SYMMETRY Symmetry
INVARIANTS
  RoutesAsDrawn
  JoinsCountDrawnFlows
  InnerStepsAsFlattened
  LeftThroughOneEnd
  CallsLeaveDrawnFlows
  CallsReturn
