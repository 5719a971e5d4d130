SPECIFICATION Spec
CONSTANTS
  Uploads = 1
  Steps = 2
  Faults = {}
  MaxCrashes = 2
  Diverging = {2}
CHECK_DEADLOCK FALSE
INVARIANTS
  MirrorIsPrefix
  CurveIsOfLastLaunch
  ClaimedAdapterIsWhole
PROPERTY InputsAreWhole
