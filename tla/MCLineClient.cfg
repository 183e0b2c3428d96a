SPECIFICATION FairSpec
CONSTANTS
  t1 = t1
  t2 = t2
  Threads <- MCThreads
  NoThread = NoThread
  Room = 4
  MaxCalls = 2
  MaxWaits = 2
  KindOf <- MCKindOf
INVARIANTS
  ExecutesWhatWasWritten
  OneCommandPerLine
  TimesOutByOwnDeadline
PROPERTIES
  NilIsExecuted
  CallsReturn
  FirstWaitReturns
