SPECIFICATION Spec
CONSTANTS
  j1 = j1
  j2 = j2
  Job = {j1, j2}
  Kind <- MCTrainApi
  Thread = {t1, t2}
  NoJob = NoJob
  Cap = 1
  Others = {0}
  Stoppable = {}
  Purges = {}
  MaxCrashes = 0
CHECK_DEADLOCK TRUE
INVARIANT CapHolds
