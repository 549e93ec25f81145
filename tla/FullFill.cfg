SPECIFICATION Spec
CONSTANTS
  Size = 2
  Lengths = {1, 2, 3}
  Caches = {1, 2}
  Fillers = {1, 2, 3}
  None = None
  Workers = 4
  MaxOpen = 2
  MaxLinkLosses = 0
  Events = FALSE
INVARIANTS FillSlotOwned CompleteMeansAll NoTransferDropped
PROPERTIES CacheKeptWhileOpen
