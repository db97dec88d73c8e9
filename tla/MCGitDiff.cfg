SPECIFICATION Spec
CONSTANTS
  Scenarios <- AllDiffs
  Edits <- MCEdits
  MaxEdits = 1
  Ignored <- SomeIgnored
  Snapshots <- MCSnapshots
  Cwd <- MCCwd
  GitName = 9
  FirstHidden = 8
  Tokens <- MCTokens
  Classify <- MCClassify
  MaxCount = 4
  Decimals = 6
  Divisor = 100000000
  MaxNumber = 1000
  Kilo = 1024
  Invalid = Invalid
  Unlimited = Unlimited
  NoTree = NoTree
INVARIANTS TypeOK AddsUp NeverWraps QuietWhenUnchanged NoMetadata  DiffReportComplete
