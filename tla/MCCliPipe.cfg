SPECIFICATION Spec
CONSTANTS
  Commands <- SomeCommands
  Decimals = 2
  Divisor = 20
  MaxNumber = 1000
  Invalid = Invalid
  Kilo = 9
  InspectedBytes = 2
  None = None
  Artifacts <- MCArtifacts
  Unlimited = Unlimited
  NoBudget = NoBudget
  Running = Running
  Nothing = Nothing
INVARIANTS BudgetEnforced
