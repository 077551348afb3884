CONSTANTS
  Events <- MCEvents
  MAX_RETRY_COUNT = 2
SPECIFICATION FairSpec
INVARIANTS TypeOK ChangedOnce NoneReaderBounded
PROPERTIES Drains StopEnds
CHECK_DEADLOCK FALSE
