SPECIFICATION Spec
CONSTANTS
  Threads = {t1, t2}
  None = None
  Events = {1}
  Manual = {}
  Timed = TRUE
  Many = FALSE
  MaxCalls = 4
INVARIANT LockingOrder
CHECK_DEADLOCK FALSE
