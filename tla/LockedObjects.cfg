SPECIFICATION ObjectsSpec
CONSTANTS
  Threads = {t1, t2, t3}
  None = None
  Events = {1, 2}
  Manual = {2}
  Timed = TRUE
  Many = TRUE
  MaxCalls = 4
  Reader = reader
  Samples = {a, b, c}
  MaxSamples = 1
  MaxRegisters = 2
  Infos = {i1, i2}
  Snapshots = {s1, s2}
  MaxTracked = 3
  MaxTaken = 3
  Lockers = {l1, l2}
  Mutexes = {m1, m2, m3}
  HeldSlots = 2
  MaxForgets = 2
  MaxVersion = 2
  MaxLocks = 4
  Sites = {v1, v2}
  Levels = {1}
  MaxUpdates = 2
SYMMETRY Symmetry
CHECK_DEADLOCK FALSE
INVARIANTS NoDanglingWaiter SignalsAccounted NoLockCycle SamplesAccounted SnapshotKeepsAlive DeadlockReported FreshUnlessCrowded
