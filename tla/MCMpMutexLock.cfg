CONSTANTS
  o1 = o1
  o2 = o2
  w1 = w1
  Obj = {o1, o2}
  Worker = {w1}
  Bound <- MCBound
  Tag = {3, 4}
  SemMax = 1
  Sup = Sup
  None = None
SPECIFICATION Spec
PROPERTIES
  LockReturns
