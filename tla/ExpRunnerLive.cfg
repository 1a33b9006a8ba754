CONSTANTS
  e1 = e1
  Episodes = {e1}
  NoEpisode = NoEpisode
  NCpus = 1
  MaxRetries = 1
  MaxRetryRounds = 2
  StepLimit = 0
  SetupLimit = 1
  OrphanLimit = 0
  MaxAge = 2
  TaskRetries = 1
  MaxLaunches = 2
  LaunchModes = {TRUE}
  FinalWriteSucceeds = FALSE
  AccurateTimeouts = TRUE
SPECIFICATION LiveSpec
INVARIANT NothingLost
PROPERTIES PollReturns LaunchEnds
CHECK_DEADLOCK FALSE
