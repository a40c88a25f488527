SPECIFICATION Spec
CONSTANTS
  K = 3
  MaxClock = 9
  HalfInt = 16
  MaxTimers = 1
  Durations = {2}
  SelfDelete = TRUE
  MaySetBack = FALSE
INVARIANTS NoUseAfterFree
CHECK_DEADLOCK FALSE
