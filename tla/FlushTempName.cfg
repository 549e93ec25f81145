SPECIFICATION FlushSpec
CONSTANTS
  Names = {n1, n2}
  Handles = {h1}
  None = None
  MaxInode = 4
  MaxGeneration = 0
  MaxListing = 1
INVARIANT EveryEntryCanBeLookedUp
