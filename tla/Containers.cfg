SPECIFICATION CSpec
CONSTANTS
  Idle = Idle
  W = 8
  Size = 4
  Byte = {0, 1}
  Junk = 0
  MaxLen = 2
  Bits = 4
  AllocArgs <- SmallSizes
  RoundArgs <- SmallLongs
  MaxNodes = 4
  Value = {1, 2}
  Heads = {g, h}
  Entries = {e1, e2, e3}
  Nil = Nil
  Width = 3
  MaxElems = 4
  FirstSizes = {1, 3}
  ElemSize = 2
  Item = {1, 2}
INVARIANTS NoOverrun InRoom Linked GoesOverAll
PROPERTIES KeepsFifo KeepsContents
