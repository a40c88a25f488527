SPECIFICATION Spec
CONSTANTS
  SetSize = 2
  Fd = {0, 1}
  Procs = {p1, p2}
  NoProc = NoProc
INVARIANTS Agreement NoMissedEdge
CHECK_DEADLOCK FALSE
SYMMETRY ProcSymmetry
