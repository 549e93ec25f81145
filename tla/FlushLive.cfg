SPECIFICATION FairSpec
CONSTANTS
  Fds = {f1, f2}
  Data = {d1}
  Original = Original
  Partial = Partial
  Bystander = Bystander
  Closed = Closed
  Clean = Clean
  None = None
  SupportsRename = TRUE
  MAX_ATTEMPTS = 3
  MAX_STALE_RETRIES = 1
  Refusals = TRUE
  Remounts = FALSE
  MaxLosses = 2
  MaxRekeys = 1
PROPERTIES ImplementsAnsweredOverwrite
