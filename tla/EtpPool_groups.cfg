SPECIFICATION Spec
CONSTANTS
  Quit = Quit
  None = None
  PriMin <- MinusOne
  Plain = {r1}
  Groups = {g1, g2}
  Workers = {w1}
  PriMax = 1
  RawPri = {0}
  W = 16
  InitWanted = 1
  InitMaxIdle = 1
  PollTimed = TRUE
  MayFail = FALSE
  MayCancel = TRUE
  CbResults = {0, 1}
  ParallelTo = {}
  IdleTo = {}
  PollTo = {1}
  MaxTune = 1
SYMMETRY ThreadSymmetry
INVARIANTS LeavesNothing
PROPERTIES CancelReachesAll KeepsContract
CHECK_DEADLOCK FALSE
