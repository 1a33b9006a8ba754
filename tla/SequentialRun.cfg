SPECIFICATION Spec
CONSTANTS
  Episodes = {e1, e2}
  NoEpisode = none
  MaxRetries = 1
  MaxRetryRounds = 1
  StepLimit = 0
  OrphanLimit = 0
  MaxAge = 1
  MaxLaunches = 2
  LaunchModes = {TRUE}
  Tools = {"viewer", "reset"}
  MaxPasses = 1
  MaxKills = 1
  MaxCutOffs = 1
INVARIANTS NoSelfArchive FinishedNeverRerun SummaryIsExact ConfigsSurvive
PROPERTIES NothingLost
SYMMETRY Symmetry
CHECK_DEADLOCK FALSE
