SPECIFICATION FairSpec
CONSTANTS
  Devices = {a}
  Key <- OwnKeys
  LeftAs <- AsArrived
  None = None
  Resets = FALSE
  Touched = TRUE
  Failures = FALSE
  MaxPlugs = 2
  MaxMounts = 3
  MaxCrashes = 0
  MaxStops = 0
PROPERTY PluggedIsMounted
CHECK_DEADLOCK FALSE
