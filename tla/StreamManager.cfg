CONSTANTS
  Streams = {"cam"}
  BaseName <- PlainNames
  HalfMinute = 2
  SyncInterval = 1
  MaxStall = 2
  Requests = 2
  MaxCalls = 3
SPECIFICATION FairSpec
INVARIANTS TypeOK NoResurrection FreshEntries
PROPERTIES SyncRemovesOnlyDead Converges
