SPECIFICATION Spec
CONSTANTS
  Fds = {f1}
  Data = {d1}
  Original = Original
  Partial = Partial
  Bystander = Bystander
  Closed = Closed
  Clean = Clean
  None = None
  SupportsRename = TRUE
  MAX_ATTEMPTS = 3
  MAX_STALE_RETRIES = 1
  Refusals = FALSE
  Remounts = FALSE
  MaxLosses = 0
  MaxRekeys = 1
PROPERTY StaleHandleRecovered
