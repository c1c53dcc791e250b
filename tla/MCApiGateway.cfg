CONSTANTS
  Sender = {s1, s2}
  Timed = {s1}
  Aborter = {a1}
  Fin = Fin
  MaxCalls = 2
  MaxBacklog = 1
  None = None
SPECIFICATION Spec
CHECK_DEADLOCK FALSE
INVARIANTS
  Inv
  OwnReply
  NoLostReply
PROPERTIES
  CallsReturn
