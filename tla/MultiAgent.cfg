SPECIFICATION Spec
CONSTANTS
  N = 3
  MaxRounds = 4
  MaxSteps = 10
  MaxTools = 8
  MaxActs = 2
INVARIANTS TurnsAreFair RetiredForCause ReturnIsExplained
CHECK_DEADLOCK FALSE
