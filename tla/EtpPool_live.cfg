SPECIFICATION FairSpec
CONSTANTS
  Quit = Quit
  None = None
  PriMin <- MinusOne
  Plain = {r1, r2}
  Groups = {}
  Workers = {w1, w2, w3}
  PriMax = 1
  RawPri = {0}
  W = 16
  InitWanted = 1
  InitMaxIdle = 2
  PollTimed = FALSE
  MayFail = FALSE
  MayCancel = FALSE
  CbResults = {0}
  ParallelTo = {1, 2}
  IdleTo = {}
  PollTo = {}
  MaxTune = 2
PROPERTIES EveryRequestEnds
CHECK_DEADLOCK FALSE
