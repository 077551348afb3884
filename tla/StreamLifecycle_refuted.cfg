\* One statement at a time: TLC ends at the first it refutes.
CONSTANTS
  Starts = {a}
  Stops = {s}
  Workers = {w}
  MaxQueue = 1
  Pids = {p1}
  NoPid = NoPid
  None = None
SPECIFICATION Spec
SYMMETRY Symmetry
PROPERTIES StoppedIsStopped
\* PROPERTIES AlreadyStoppedIsStopped
CHECK_DEADLOCK FALSE
