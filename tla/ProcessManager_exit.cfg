CONSTANTS
  Ids = {a}
  Pids = {p1, p2}
  NoPid = NoPid
  MaxProcesses = 1
  MaxRestarts = 1
  Dispositions = {FALSE}
SPECIFICATION FairSpec
PROPERTIES ExitDetected
CHECK_DEADLOCK FALSE
