\* One statement at a time: TLC ends at the first it refutes.
CONSTANTS
  Streams = {"cam", "cam_ts"}
  BaseName <- CameraNames
  HalfMinute = 3
  SyncInterval = 1
  MaxStall = 0
  Requests = 2
  MaxCalls = 3
SPECIFICATION Spec
PROPERTIES NoAliasResurrection
\* PROPERTIES SyncSparesTheLiving   (with HalfMinute = 2, MaxStall = 1)
\* INVARIANTS TimesOrdered
