SPECIFICATION Spec
CONSTANTS
  Quit = Quit
  None = None
  PriMin <- MinusOne
  Plain = {r1, r2, r3}
  Groups = {}
  Workers = {w1, w2, w3}
  PriMax = 1
  RawPri = {0, 1}
  W = 16
  InitWanted = 2
  InitMaxIdle = 1
  PollTimed = FALSE
  MayFail = TRUE
  MayCancel = FALSE
  CbResults = {0}
  ParallelTo = {1}
  IdleTo = {0}
  PollTo = {}
  MaxTune = 1
SYMMETRY ThreadSymmetry
INVARIANTS TypeOK PollToken CountsAgree OnePlace NoLostWakeup
PROPERTIES TakesHighest
CHECK_DEADLOCK FALSE
