SPECIFICATION DataSpec
CONSTANTS
  Threads = {t1, t2}
  Objects = {o1, o2}
  Ptrs = {p1, p2}
  MaxIds = 2
  SeqSpace = 6
  Deletes = {TRUE, FALSE}
  Buffers = {b1, b2, b3}
  Slots = {s1, s2}
  Keys = {k1, k2}
  OutOfIndexes = OutOfIndexes
  Size = 3
  WeakFails = FALSE
  Callers = {t1, t2}
  BLOCK_NITEM = 1
  RP_GROUP_NBLOCK = 2
  RP_MAX_BLOCK_NGROUP = 2
  FreeChunkNItem = 1
  MallocFails = TRUE
  NoBlock = NoBlock
  Null = Null
INVARIANTS NoForeignData GetAlive EachIdOnce ExactlyOnce
PROPERTY FailsOnlyWhenFull
SYMMETRY Symmetry
CHECK_DEADLOCK FALSE
