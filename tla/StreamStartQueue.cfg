CONSTANTS
  Workers = {w1, w2}
  Tasks = {t1, t2, t3}
  MaxQueue = 2
  None = None
SPECIFICATION FairSpec
INVARIANTS NoLostWakeup
PROPERTIES ImplementsPool EveryTaskAnswered
CHECK_DEADLOCK FALSE
