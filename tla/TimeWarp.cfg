SPECIFICATION LiveSpec
CONSTANTS
  wiki = wiki
  p1 = p1
  p2 = p2
  Procs = {p1, p2}
  Nobody = nobody
  Pieces = {data, conda}
  Sites = {wiki}
  Ports = {1, 2, 3}
  NoPort = 0
  UserURLs <- MCUserURLs
  MaxCalls <- MCMaxCalls
  MaxBreaks = 1
  MaxKills = 1
  MaxCrashes = 1
INVARIANTS SetupExclusive ReadyIsWhole LabelIsTrue NoServerLeaks
PROPERTIES LaunchReturns
CHECK_DEADLOCK FALSE
