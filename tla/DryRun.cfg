SPECIFICATION DryFairSpec
CONSTANTS
  Devices = {a}
  Key <- OwnKeys
  LeftAs <- MaybeUsbForm
  None = None
  Resets = FALSE
  Touched = FALSE
  Failures = FALSE
  MaxPlugs = 3
  MaxMounts = 5
  MaxCrashes = 1
  MaxStops = 0
INVARIANTS Foretells LeakIsCalledOut
PROPERTIES GoodIsMounted
CHECK_DEADLOCK FALSE
