SPECIFICATION AllocSpec
CONSTANTS
  StreamKeys = {s1, s2}
  MinBitrate = 2000
  MaxBitrate = 12000
  DefaultBitrate = 3500
  Bandwidth = 15000
  Interval = 2
  Speeds = {0, 4000}
  MaxSchemas = 2
  Resolutions <- Pictures
  NoPicture = NoPicture
SYMMETRY Symmetry
INVARIANTS AllocTypeOK WithinBandwidth KnownIsRecent
