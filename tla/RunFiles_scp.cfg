SPECIFICATION Spec
CONSTANTS
  Uploads = 1
  Steps = 2
  Faults = {"scp"}
  MaxCrashes = 2
  Diverging = {2}
CHECK_DEADLOCK FALSE
PROPERTY InputsAreWhole
