SPECIFICATION Spec
CONSTANTS
  Sup = {p1, p2, p3}
  NoSup = NoSup
  Keep = FALSE
  Ops = {"reattach", "again"}
  Faults = {}
  MaxCrashes = 1
CHECK_DEADLOCK FALSE
INVARIANT OneTrainer
