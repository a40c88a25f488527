SPECIFICATION FairSpec
CONSTANTS
  Quit = Quit
  None = None
  PriMin <- MinusOne
  Plain = {r1, r2, r3}
  Groups = {}
  Workers = {w1, w2}
  PriMax = 1
  RawPri = {0}
  W = 16
  InitWanted = 2
  InitMaxIdle = 1
  PollTimed = FALSE
  MayFail = FALSE
  MayCancel = FALSE
  CbResults = {0}
  ParallelTo = {}
  IdleTo = {}
  PollTo = {}
  MaxTune = 0
PROPERTIES EveryRequestEnds
CHECK_DEADLOCK FALSE
