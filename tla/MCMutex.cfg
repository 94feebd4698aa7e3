SPECIFICATION Spec
CONSTANTS
  t1 = t1
  t2 = t2
  t3 = t3
  Threads = {t1, t2, t3}
  c1 = c1
  Conds = {c1}
  None = None
  Prio <- Priorities
  Programs <- AllPrograms
INVARIANTS WordTruthful OneList NoLostWakeup
PROPERTIES ImplementsRegion AllReturn
CHECK_DEADLOCK FALSE
