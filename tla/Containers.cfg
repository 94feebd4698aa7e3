SPECIFICATION ContainersSpec
CONSTANTS
  Producers = {p1, p2}
  Nodes = {n1, n2, n3}
  MaxEnqueue = 2
  NULL = NULL
  UNCONNECTED = UNCONNECTED
  Readers = {r1, r2}
  Modifiers = {m1, m2}
  MaxReads = 2
  MaxModifies = 1
  HashedKeys <- MCHashedKeys
  kWidth = 4
  LoadUnit = 4
  Sizes = {0, 6}
  Salts = {0}
  MaxCapacity = 7
  kNodeSlots = 4
  MaxNodes = 40
  TreeKeys = {1, 2, 3, 9, 30, 49}
  Starts <- MCStarts
  Modes <- MCModes
  MapKeys = {0, 2, 8, 16}
  Hash <- MCHash
  Kinds <- MCKinds
  WordBits = 8
  LoadFactor = 30
  Requests = {0, 16}
  MaxBuckets = 16
  MaxSize = 4
  CacheKeys = {1, 2, 3, 4}
  Policies = {"NoCache", "FIFO", "LRU", "LFU"}
  CacheSizes = {1, 2, 3}
  MaxUses = 3
  Capacities = {0, 1, 3, 4}
  Width = 3
  MaxOverrun = 2
  Items = {1, 2}
INVARIANTS DequeuedInOrder MemorySafe EmptyAnswerJustified ReadsConverge WrappersAlive ActsAsItsContents
PROPERTY AllDelivered
CHECK_DEADLOCK FALSE
