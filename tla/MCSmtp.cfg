SPECIFICATION Spec
CONSTANTS
  Conns = {1, 2}
  Accounts = {"A", "B"}
  Owner <- MCOwner
  Bounces = {"v"}
  Reports = {"p"}
  Elsewhere = {"x"}
  Null = "null"
  None = "none"
  Chunks = {"m"}
  TrustedHam = 3
  Scores = {100, 900, 960, 1000}
  Scenarios <- MCScenarios
  MaxEvents = 1
INVARIANTS
  
  AcceptedReachesAll
  SenderOwned
  RulesOnce
  ReputationSound
CHECK_DEADLOCK FALSE
