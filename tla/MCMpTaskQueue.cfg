CONSTANTS
  Task = {a, b}
  NCPU = 2
  NrOffs = 2
  Affinities = {}
  Queued = {a}
  None = None
CHECK_DEADLOCK FALSE
SPECIFICATION Spec
PROPERTY JoinReturns
