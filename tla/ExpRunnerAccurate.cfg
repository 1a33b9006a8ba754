CONSTANTS
  e1 = e1
  e2 = e2
  Episodes = {e1, e2}
  NoEpisode = NoEpisode
  NCpus = 1
  MaxRetries = 1
  MaxRetryRounds = 0
  StepLimit = 0
  SetupLimit = 0
  OrphanLimit = 0
  MaxAge = 1
  TaskRetries = 1
  MaxLaunches = 2
  LaunchModes = {TRUE}
  FinalWriteSucceeds = TRUE
  AccurateTimeouts = TRUE
SPECIFICATION Spec
SYMMETRY Symmetry
INVARIANT WorkersVisible
PROPERTIES FinishedNeverRerun TerminalOnlyArchived ImplementsLifecycle
CHECK_DEADLOCK FALSE
