SPECIFICATION FairSpec
CONSTANTS
  Fds = {f1}
  Data = {d1}
  Original = Original
  Partial = Partial
  Bystander = Bystander
  Closed = Closed
  Clean = Clean
  None = None
  SupportsRename = FALSE
  MAX_ATTEMPTS = 3
  MAX_STALE_RETRIES = 1
  Refusals = FALSE
  Remounts = FALSE
  MaxLosses = 1
  MaxRekeys = 0
PROPERTY CutUploadIsRetried
CHECK_DEADLOCK FALSE
