SPECIFICATION Spec
CONSTANTS
  Dirs = {d1, d2}
  Names = {n1, n2}
  None = None
  MAX_ATTEMPTS = 2
  MAX_STALE_RETRIES = 1
  Timeout = 4
  Renumbers = TRUE
  Refusals = FALSE
  Capacity = 3
  Initially = 2
  MaxTurns = 3
INVARIANT NoStaleListing
CHECK_DEADLOCK FALSE
SYMMETRY Interchangeable
