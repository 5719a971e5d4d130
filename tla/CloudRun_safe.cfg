SPECIFICATION Spec
CONSTANTS
  Sup = {p1, p2, p3}
  NoSup = NoSup
  Keep = FALSE
  Ops = {"stop", "reattach"}
  Faults = {}
  MaxCrashes = 3
CHECK_DEADLOCK FALSE
INVARIANTS
  DoneMeansExitZero
  OneSupervisor
  OneTrainer
  EndStopsBilling
  TrainFollowsRun
PROPERTY EndIsFinal
