SPECIFICATION Spec
CONSTANTS
  Devices = {d1}
  Channels = {c1, c2}
  Streams = {s1}
  Threads = {t1, t2}
  Creds = {k1}
  Anonymous = Anonymous
  Schemed = {d1}
  AnyChannel = AnyChannel
  None = None
  MaxRequests = 3
SYMMETRY Symmetry
INVARIANTS TypeOK NoOrphan PlaysWhatItSays CacheOfCredentials
PROPERTIES RunningKept
CHECK_DEADLOCK FALSE
