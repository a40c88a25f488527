SPECIFICATION ESpec
CONSTANTS
  Asked = {0, 1, 5, 6}
  Lazy = 2
  BufSize = 2
  PathMax = 3
  MaxLinks = 4
  MaxFound = 5
  NamesAlloc = 3
  DentAlloc = 2
  Cutoff = 3
  Fast = 4
  Bits = 2
  Work = 3
  Batch = 2
  Limits = {0, 1, 2}
  MaxOwn = 2
  MaxSets = 2
  Word = 32
  Page = 4
INVARIANTS RealPath Listing FreedOnce WholePages CopiesInOrder
PROPERTIES GroupFed GroupEnds
CHECK_DEADLOCK FALSE
