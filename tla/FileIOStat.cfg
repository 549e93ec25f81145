SPECIFICATION Spec
CONSTANTS
  Fds = {f1, f2}
  Bytes = {b1, b2}
  Missing = Missing
  None = None
  Partial = TRUE
  Limit = 2
  Given <- Contents
  MaxLen = 2
  MaxRun = 1
  MaxSteps = 2
  MaxOrphans = 1
SYMMETRY Interchangeable
INVARIANT StatSeesWriter
CHECK_DEADLOCK FALSE
