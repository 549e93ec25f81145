SPECIFICATION Spec
CONSTANTS
  Devices = {a, b}
  Key <- SameKey
  LeftAs <- AsArrived
  None = None
  Resets = FALSE
  Touched = FALSE
  Failures = FALSE
  MaxPlugs = 1
  MaxMounts = 2
  MaxCrashes = 0
  MaxStops = 0
PROPERTY LiveMountStays
CHECK_DEADLOCK FALSE
