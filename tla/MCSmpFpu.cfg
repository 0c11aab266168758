SPECIFICATION Spec
CONSTANTS
  APs = {a1, a2}
  MaxWorker = 3
INVARIANT
  LazyFpuReachesHandler
CHECK_DEADLOCK FALSE
