SPECIFICATION Spec
CONSTANTS
  w1 = w1
  w2 = w2
  w3 = w3
  w4 = w4
  w5 = w5
  Workers <- SharingWorkers
  Options <- SharingOptions
  Contents <- Encodings
  Inspected = 1
  Limit = 2
  Window = 0
  Granularity = 1
  MaxLag = 0
  Linked = TRUE
  MaxClock = 1
  MaxWrites = 0
  MaxRepeats = 0
  MaxFaults = 0
  Absent = Absent
  Directory = Directory
  NoEntry = NoEntry
  Damaged = Damaged
  Closed = Closed
  Attached = Attached
  Free = Free
  NoTokens = NoTokens
INVARIANTS CacheTransparent
