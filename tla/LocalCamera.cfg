SPECIFICATION FairSpec
CONSTANTS
  Streams = {s1, s2}
  Cameras = {c1, c2}
  Pids = {p1, p2}
  NoPid = NoPid
  NoCamera = NoCamera
  MaxRecover = 1
  MaxRequests = 2
  MaxForked = 1
INVARIANTS TypeOK NoOrphan CameraExclusive NoLimbo
PROPERTIES CrashNoticed
CHECK_DEADLOCK FALSE
