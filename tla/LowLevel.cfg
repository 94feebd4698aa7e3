SPECIFICATION LowLevelSpec
CONSTANTS
  Threads = {t1, t2, t3}
  MaxWaitTime = 3
  Elapsed <- ClockSteps
  MaxCalls = 2
  MaxThrows = 1
  Posters = {p1, p2}
  MaxPosts = 4
  MaxWaits = 3
  MaxTicks = 3
  kIdlePeriods = 1
  SingletonKinds = {"Singleton", "LeakySingleton", "StaticMemory", "LazyInstance", "LeakyLazyInstance", "get_leaky_singleton"}
  WeakMayFail = TRUE
  MaxGets = 2
  MaxExits = 1
  None = None
INVARIANTS Exclusion NoLostWakeup OnceOnly NoPostLost
PROPERTY AllReturn
CHECK_DEADLOCK FALSE
