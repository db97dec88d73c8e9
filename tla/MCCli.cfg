SPECIFICATION Spec
CONSTANTS
  Commands <- AllCommands
  Decimals = 2
  Divisor = 20
  MaxNumber = 1000
  Invalid = Invalid
  Kilo = 9
  InspectedBytes = 2
  None = None
  Artifacts <- MCArtifacts
  Unlimited = Unlimited
  NoBudget = NoBudget
  Running = Running
  Nothing = Nothing
INVARIANTS TypeOK  StdinToTheByte  IdentityTellsTokens RangesUnambiguous SharesAddUp ContextAddsUp PricesExact
