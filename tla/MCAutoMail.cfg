SPECIFICATION Spec
CONSTANTS
  boxA = boxA
  boxB = boxB
  Accounts = {boxA, boxB}
  Outside = outside
  NoSender = nosender
  Rules <- MCRules
  Owner <- MCOwner
  Targets <- MCTargets
  MatchFrom <- MCMatchFrom
  Vacation = {boxA}
  Agents = {boxA, boxB}
  MaxCount = 1
  MaxOriginals = 1
  MaxConns = 2
  Bounds <- MCBounds
INVARIANTS
  LoopsEnd  AutomaticOnce
CHECK_DEADLOCK FALSE
