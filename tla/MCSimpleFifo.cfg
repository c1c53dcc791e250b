CONSTANTS
  Byte = {0, 1}
  Size = 4
  None = None
SPECIFICATION Spec
INVARIANTS
  Inv
  PeekRight
PROPERTIES
  ImplementsQueue
