SPECIFICATION Spec
CONSTANTS
  Scenarios <- DiffsFromAbove
  Edits <- NoEdits
  MaxEdits = 0
  Ignored <- NothingIgnored
  Snapshots <- MCSnapshots
  Cwd <- MCCwd
  GitName = 9
  FirstHidden = 8
  Tokens <- MCTokens
  Classify <- MCClassify
  MaxCount = 4
  Decimals = 6
  Divisor = 100000000
  MaxNumber = 1000
  Kilo = 1024
  Invalid = Invalid
  Unlimited = Unlimited
  NoTree = NoTree
INVARIANT UnchangedIsSilent
