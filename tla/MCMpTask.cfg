CONSTANTS
  Task = {a, b}
  NCPU = 2
  NrOffs = 2
  Affinities = {{2}}
  Queued = {a}
  None = None
CHECK_DEADLOCK FALSE
SPECIFICATION Spec
INVARIANTS
  Inv
  StatusTrue
PROPERTIES
  BoundWaits
  CallsReturn
