SPECIFICATION BindingsSpec
CONSTANTS
  w1 = w1
  w2 = w2
  Workers <- MCWorkers
  Nodes <- MCNodes
  Trees <- AllTrees
  Cwd <- MCCwd
  Ignored = {}
  Requests <- AllRequests
  Changes <- AllChanges
  MaxChanges = 1
  Tokens <- MCTokens
  Bytes <- MCBytes
  Classify <- MCClassify
  FirstHidden = 9
  MaxCount = 5
  Decimals = 6
  Divisor = 100000000
  MaxNumber = 1000
  Kilo = 1024
  Invalid = Invalid
  Unlimited = Unlimited
  Pending = Pending
  Idle = Idle
  Unknown = Unknown
  None = None
  CallsFor <- MCCallsFor
SYMMETRY Symmetry
INVARIANTS TypeOK Isolated Conserved FirstFailure RollUp TreeAddsUp ViewsAgree DensitiesNearest DefectsTyped AnswersAgree
 
