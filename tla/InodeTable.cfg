SPECIFICATION Spec
CONSTANTS
  Names = {n1, n2}
  Handles = {h1, h2}
  None = None
  MaxInode = 5
  MaxGeneration = 1
  MaxListing = 2
SYMMETRY Interchangeable
INVARIANTS TypeOK NameIndexExact ChildrenExact ParentWalkTerminates
PROPERTIES NumbersAreForever ReportedKeepsNumber ListingApplied
