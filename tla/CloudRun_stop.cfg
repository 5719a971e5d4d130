SPECIFICATION FairSpec
CONSTANTS
  Sup = {p1}
  NoSup = NoSup
  Keep = FALSE
  Ops = {"stop"}
  Faults = {}
  MaxCrashes = 1
CHECK_DEADLOCK FALSE
PROPERTY StopEndsTheRun
