SPECIFICATION PSpec
CONSTANTS
  K = 2
  MaxClock = 6
  HalfInt = 8
  MaxTimers = 2
  Durations = {0, 3, 9}
  SelfDelete = FALSE
  MaySetBack = TRUE
  Partitions = 2
  BatchSize = 2
  Threshold = 1
  MaxOffset = 3
  EmptyAt = {2}
  Timer = {1, 2}
  Repeats = {2}
  MaxSize = 2
  Backups = {0, 3}
  MaxWritten = 11
  MaxFailures = 2
  PerDay = 2
  MaxTime = 4
  KeptDays = {1, 4}
  Word = 8
  MaxRecords = 2
  MaxCrashes = 2
  MaxDeaths = 1
  Hosts = 3
  Client = {1, 2}
  NoFd = NoFd
  MaxSent = 2
  Callers = {1, 2, 3}
  MaxFds = 2
  Names = {"p", "o"}
  Items = {"n"}
  Values = {"v"}
  MaxLines = 4
INVARIANTS TimersSafe Conserved LocksOutlive LogsKept AsWritten
PROPERTIES OnTime Fires Drained Shutdown Served
CHECK_DEADLOCK FALSE
