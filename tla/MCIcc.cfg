CONSTANTS
  Thread = {t1, t2}
  Proto = {MSG, SIG, gnss}
  Cpu = {c1}
  MSG = MSG
  SIG = SIG
  Data = {m1, m2}
  NBUFFERS = 2
  Unused = Unused
  MaxExpiries = 1
CHECK_DEADLOCK FALSE
SPECIFICATION Spec
INVARIANTS
  TypeOK
  PoolInv
  TokensPaid
  NoLostWakeup
  ReservedNeverQueue
PROPERTIES
  FifoPerDevice
  TimedReturns
