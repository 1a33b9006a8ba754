SPECIFICATION LiveSpec
CONSTANTS
  Requests = {r1}
  Types <- MCTypes
  Callers = {c1, c2}
  Readers = {trainer, viewer}
  Trainer = trainer
  MaxHot = 1
  Persist = TRUE
  Proposals <- MCProposals
  MaxCalls = 3
  MaxFaults = 1
INVARIANTS SpillComplete GapsExplained
PROPERTIES Delivered ImplementsEventStream
CHECK_DEADLOCK FALSE
