SPECIFICATION FairSpec
CONSTANTS
  U64Max = 8
  MaxSize = 4
  Chunk = 2
  Overshoot = 1
INVARIANTS CacheExact RangesExact
PROPERTIES ServedIsReal ReadEnds
