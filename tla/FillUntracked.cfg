SPECIFICATION Spec
CONSTANTS
  Size = 1
  Lengths = {1}
  Caches = {1, 2}
  Fillers = {1, 2, 3}
  None = None
  Workers = 4
  MaxOpen = 1
  MaxLinkLosses = 1
  Events = FALSE
INVARIANT NoTransferDropped
