SPECIFICATION LiveSpec
CONSTANTS
  MaxSteps = 3
  MaxCost = 2
  MaxCalls = 2
  MaxLLM = 2
  MaxFaults = 1
INVARIANTS NoCallForgotten SpendingBounded QuietEvaluation TrainerToldOnce FinishedIsWhole
PROPERTIES Ends ImplementsTrajectory
CHECK_DEADLOCK FALSE
