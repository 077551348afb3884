CONSTANTS
  Starts = {a, b}
  Stops = {s}
  Workers = {w}
  MaxQueue = 1
  Pids = {p1, p2}
  NoPid = NoPid
  None = None
SPECIFICATION Spec
SYMMETRY Symmetry
INVARIANTS NoLimbo NothingLost
PROPERTIES StopLeavesNothing
CHECK_DEADLOCK FALSE
