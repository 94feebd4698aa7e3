SPECIFICATION Spec
CONSTANTS
  Loggers = {t1, t2}
  Sites = {v1, v2}
  Files = {"file"}
  FileOf <- OneFile
  Levels = {0, 1}
  None = None
  MaxUpdates = 2
INVARIANT InstalledOnce
CHECK_DEADLOCK FALSE
