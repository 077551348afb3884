CONSTANTS
  Ids = {a}
  Pids = {p1, p2}
  NoPid = NoPid
  MaxProcesses = 1
  MaxRestarts = 1
  Dispositions = {TRUE}
SPECIFICATION FairSpec
PROPERTIES ErrorsRestarted
CHECK_DEADLOCK FALSE
