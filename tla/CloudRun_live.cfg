SPECIFICATION FairSpec
CONSTANTS
  Sup = {p1, p2}
  NoSup = NoSup
  Keep = FALSE
  Ops = {"stop", "reattach", "again", "pull"}
  Faults = {"lost_call", "late_signal"}
  MaxCrashes = 1
CHECK_DEADLOCK FALSE
PROPERTIES
  SupervisorEnds
  EndReachesTrainRun
