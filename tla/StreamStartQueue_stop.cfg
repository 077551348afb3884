CONSTANTS
  Workers = {w1, w2}
  Tasks = {t1}
  MaxQueue = 1
  None = None
SPECIFICATION FairSpec
PROPERTIES StopReturns
CHECK_DEADLOCK FALSE
