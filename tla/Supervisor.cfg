SPECIFICATION FairSpec
CONSTANTS
  Devices = {a, b}
  Key <- OwnKeys
  LeftAs <- AsArrived
  None = None
  Resets = TRUE
  Touched = TRUE
  Failures = TRUE
  MaxPlugs = 1
  MaxMounts = 6
  MaxCrashes = 1
  MaxStops = 1
INVARIANT MountRootExact
PROPERTIES LiveMountStays DeadMountGoes WatcherEnds
CHECK_DEADLOCK FALSE
