SPECIFICATION UsersSpec
CONSTANTS
  Threads = {t1, t2, t3}
  Caller = t1
  InitialCounts = {0, 1, 2}
  Keys = {k1, k2}
  None = None
  HashPower = 1
  MaxHash = 2
  PoolThreads <- ThreeWorkers
  MaxWork = 4
  MaxRounds = 2
INVARIANTS KeysExclusive NoWaitCycle SafeToDestroy NobodyEarly WorkDoneOnce
PROPERTY WaitsReturn
CHECK_DEADLOCK FALSE
