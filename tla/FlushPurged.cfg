SPECIFICATION Spec
CONSTANTS
  Fds = {f1}
  Data = {d1, d2}
  Original = Original
  Partial = Partial
  Bystander = Bystander
  Closed = Closed
  Clean = Clean
  None = None
  SupportsRename = TRUE
  MAX_ATTEMPTS = 2
  MAX_STALE_RETRIES = 1
  Refusals = TRUE
  Remounts = TRUE
  MaxLosses = 2
  MaxRekeys = 0
INVARIANT AckedIsStored
