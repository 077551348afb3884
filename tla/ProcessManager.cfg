CONSTANTS
  Ids = {a, b}
  Pids = {p1, p2, p3}
  NoPid = NoPid
  MaxProcesses = 2
  MaxRestarts = 1
  Dispositions = {TRUE, FALSE}
SPECIFICATION Spec
INVARIANTS NoOrphan OwnPids
SYMMETRY Symmetry
CHECK_DEADLOCK FALSE
