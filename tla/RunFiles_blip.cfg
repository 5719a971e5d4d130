SPECIFICATION Spec
CONSTANTS
  Uploads = 1
  Steps = 2
  Faults = {"blip"}
  MaxCrashes = 2
  Diverging = {2}
CHECK_DEADLOCK FALSE
INVARIANT ClaimedAdapterIsWhole
