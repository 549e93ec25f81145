SPECIFICATION FairSpec
CONSTANTS
  Size = 1
  Lengths = {1}
  Caches = {1, 2, 3}
  Fillers = {1, 2}
  None = None
  Workers = 4
  MaxOpen = 1
  MaxLinkLosses = 1
  Events = TRUE
INVARIANT FillSlotOwned
PROPERTIES ReadAnswered StopEnds CacheReclaimed
