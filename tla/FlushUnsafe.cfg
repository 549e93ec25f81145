SPECIFICATION FairSpec
CONSTANTS
  Fds = {f1}
  Data = {d1, d2}
  Original = Original
  Partial = Partial
  Bystander = Bystander
  Closed = Closed
  Clean = Clean
  None = None
  SupportsRename = FALSE
  MAX_ATTEMPTS = 2
  MAX_STALE_RETRIES = 1
  Refusals = TRUE
  Remounts = TRUE
  MaxLosses = 2
  MaxRekeys = 2
INVARIANT BystanderSurvives
PROPERTIES ImplementsAnsweredOverwrite
CHECK_DEADLOCK FALSE
