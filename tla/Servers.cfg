SPECIFICATION FairSpec
CONSTANTS
  SetSize = 3
  Fd = {0, 1, 2}
  Procs = {"accept", "read", "send"}
  NoProc = NoProc
  Clients = {c1, c2}
  None = None
  MaxMessages = 3
  Size = 2
INVARIANTS AnswersQueries HandledRight
PROPERTIES Answered Stops GoneIsClosed
CHECK_DEADLOCK FALSE
