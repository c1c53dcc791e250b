CONSTANTS
  Callback = {c1, c2, c3}
  Permanent = {c1}
  Refusable = {"CLK_CHG_START", "HOT_SLEEP", "HOT_BOOT"}
  WakeLock = {w}
  MaxWakeCount = 1
  MqMax = 3
  NoEntry = NoEntry
SPECIFICATION PmSpec
INVARIANTS
  PmInv
  Balanced
  ReplyTrue
PROPERTY TaskReturns
