CONSTANTS
  Thread = {t1}
  Proto = {MSG, SIG}
  Cpu = {c1}
  MSG = MSG
  SIG = SIG
  Data = {m1}
  NBUFFERS = 1
  Unused = Unused
  MaxExpiries = 1
CHECK_DEADLOCK FALSE
SPECIFICATION Spec
PROPERTY ForeverNeverTimesOut
