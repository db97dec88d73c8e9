SPECIFICATION FairSpec
CONSTANTS
  w1 = w1
  w2 = w2
  w3 = w3
  w4 = w4
  w5 = w5
  Workers <- MCWorkers
  Options <- AlikeOptions
  Contents <- Growing
  Inspected = 1
  Limit = 1
  Window = 2
  Granularity = 2
  MaxLag = 1
  Linked = FALSE
  MaxClock = 1
  MaxWrites = 1
  MaxRepeats = 1
  MaxFaults = 1
  Absent = Absent
  Directory = Directory
  NoEntry = NoEntry
  Damaged = Damaged
  Closed = Closed
  Attached = Attached
  Free = Free
  NoTokens = NoTokens
INVARIANTS WithinLimit
PROPERTIES CallsReturn
