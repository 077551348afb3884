CONSTANTS
  Streams = {"cam"}
  BaseName <- PlainNames
  HalfMinute = 3
  SyncInterval = 1
  MaxStall = 1
  Requests = 2
  MaxCalls = 2
SPECIFICATION FairSpec
PROPERTIES ErrorsAreCleaned
