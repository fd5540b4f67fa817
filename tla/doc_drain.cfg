SPECIFICATION Spec
CONSTANTS
  None = None
  a = a
  a1 = a1
  a2 = a2
  Runs = {a1, a2}
  Instances = {a}
  InstanceOf <- OneCase
  First = {a1}
  MaxEvents = 4
  MaxLost = 2
INVARIANT DrainOnlyWaits
CHECK_DEADLOCK FALSE
