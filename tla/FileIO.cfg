SPECIFICATION Spec
CONSTANTS
  Fds = {f1, f2}
  Bytes = {b1, b2}
  Missing = Missing
  None = None
  Partial = FALSE
  Limit = 2
  Given <- Contents
  MaxLen = 2
  MaxRun = 1
  MaxSteps = 2
  MaxOrphans = 1
SYMMETRY Interchangeable
INVARIANTS SpoolExact CacheRecent
PROPERTIES CloseStores
CHECK_DEADLOCK FALSE
