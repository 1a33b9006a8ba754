SPECIFICATION Spec
CONSTANTS
  Episodes = {e1, e2}
  NoEpisode = none
  MaxRetries = 1
  MaxRetryRounds = 1
  StepLimit = 0
  OrphanLimit = 0
  MaxAge = 1
  MaxLaunches = 2
  LaunchModes = {TRUE, FALSE}
  Tools = {"viewer"}
  MaxPasses = 1
  MaxKills = 0
  MaxCutOffs = 1
INVARIANT PromotionIsHarmless
CHECK_DEADLOCK FALSE
