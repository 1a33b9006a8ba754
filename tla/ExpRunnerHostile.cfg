CONSTANTS
  e1 = e1
  Episodes = {e1}
  NoEpisode = NoEpisode
  NCpus = 1
  MaxRetries = 1
  MaxRetryRounds = 3
  StepLimit = 0
  SetupLimit = 1
  OrphanLimit = 0
  MaxAge = 2
  TaskRetries = 1
  MaxLaunches = 3
  LaunchModes = {TRUE}
  FinalWriteSucceeds = FALSE
  AccurateTimeouts = FALSE
SPECIFICATION Spec
INVARIANTS TrajectoriesFinished ResultsDisjoint RetryBound
CHECK_DEADLOCK FALSE
