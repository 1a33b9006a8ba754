CONSTANTS
  e1 = e1
  Episodes = {e1}
  NoEpisode = NoEpisode
  NCpus = 1
  MaxRetries = 1
  MaxRetryRounds = 1
  StepLimit = 0
  SetupLimit = 1
  OrphanLimit = 0
  MaxAge = 2
  TaskRetries = 0
  MaxLaunches = 1
  LaunchModes = {TRUE}
  FinalWriteSucceeds = TRUE
  AccurateTimeouts = TRUE
SPECIFICATION Spec
PROPERTY EndSweepLeavesNoRunning
CHECK_DEADLOCK FALSE
