SPECIFICATION Spec
CONSTANTS
  Idle = Idle
  W = 8
  Size = 4
  Byte = {0, 1}
  Junk = 0
  MaxLen = 3
INVARIANTS AtMostAsked

