SPECIFICATION FairSpec
CONSTANTS
  Workers = {w1, w2, w3}
  Core0 = Core0
  Timer = Timer
  NoOne = NoOne
  MaxThreads = 4
  MaxCalls = 4
  MaxTicks = 2
INVARIANTS
  TableIsDense
  OneCorePerThread
  DispatchInSpawnOrder
  TimerCannotSelfDeadlock
  SpawnsAreKept
PROPERTY
  ReadyRuns
CHECK_DEADLOCK FALSE
