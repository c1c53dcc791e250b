CONSTANTS
  SysClient = {s1, s2}
  FarClient = {f1}
  Ack = Ack
  Other = Other
  ICC = ICC
  NR_PUSHBUFENTRIES = 1
  HwDepth = 2
  NoHandler = NoHandler
SPECIFICATION Spec
INVARIANTS
  Inv
  AnswerInv
  OwnAnswer
PROPERTIES
  HolderReturns
  BlockedServed
