SPECIFICATION LiveSpec
CONSTANTS
  Requests = {r1}
  Cancellers = {k1, k2}
  Monitor = monitor
  NoRequest = none
  MaxSteps = 1
  MaxCancels = 2
  MaxFaults = 2
INVARIANTS AcceptedFirst NoStrayTask TerminalOnce CancelIsEffective
PROPERTIES Terminates BooksClose
CHECK_DEADLOCK FALSE
