SPECIFICATION Spec
CONSTANTS
  Devices = {d1, d2}
  Indices = {0, 1}
  Threads = {t1, t2}
  None = None
  Ttl = 2
INVARIANT UnpluggedIsForgotten
