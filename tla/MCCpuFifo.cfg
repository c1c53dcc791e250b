CONSTANTS
  Msg = {m1, m2}
  NR_PUSHBUFENTRIES = 3
  HwDepth = 2
  Handler = {icc}
  NoHandler = NoHandler
SPECIFICATION Spec
INVARIANTS
  TypeOK
  PoolInv
  IrqArmedInv
PROPERTIES
  ImplementsChannel
