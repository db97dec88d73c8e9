SPECIFICATION Spec
CONSTANTS
  w1 = w1
  w2 = w2
  w3 = w3
  w4 = w4
  w5 = w5
  Workers <- MCWorkers
  Options <- AlikeOptions
  Contents <- Torn
  Inspected = 1
  Limit = 2
  Window = 2
  Granularity = 2
  MaxLag = 4
  Linked = FALSE
  MaxClock = 4
  MaxWrites = 2
  MaxRepeats = 0
  MaxFaults = 0
  Absent = Absent
  Directory = Directory
  NoEntry = NoEntry
  Damaged = Damaged
  Closed = Closed
  Attached = Attached
  Free = Free
  NoTokens = NoTokens
INVARIANTS IndexFresh
