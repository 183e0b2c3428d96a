SPECIFICATION FairSpec
CONSTANTS
  Callers = {g1, g2, g3}
  NoCaller = NoCaller
  QueueCap = 3
  MaxPolls = 2
  Panics = TRUE
INVARIANTS
  QueueHasRoom
PROPERTIES
  ImplementsCalls
  EveryCallReturns
CHECK_DEADLOCK FALSE
