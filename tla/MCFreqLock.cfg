CONSTANTS
  Thread = {t1, t2}
  HvLock = {hv, both}
  LvLock = {lv, both}
  Other = Other
  Capacity = 1
  MaxBacklog = 1
  MaxCount = 2
  None = None
SPECIFICATION Spec
INVARIANTS
  Inv
  HeldGranted
  Settled
  AnswerInv
PROPERTY HolderReturns
