CONSTANTS
  Starts = {a, b}
  Stops = {s}
  Answers = {"ok", "refused"}
  None = None
SPECIFICATION FairSpec
INVARIANTS TypeOK ServersKnown StopIsFinal NoLimbo
PROPERTIES StartsSettle
CHECK_DEADLOCK FALSE
