SPECIFICATION Spec
CONSTANTS
  Sup = {p1, p2}
  NoSup = NoSup
  Keep = FALSE
  Ops = {"reattach"}
  Faults = {"late_signal"}
  MaxCrashes = 1
CHECK_DEADLOCK FALSE
INVARIANT EndStopsBilling
