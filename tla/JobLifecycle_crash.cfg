SPECIFICATION Spec
CONSTANTS
  j1 = j1
  j2 = j2
  Job = {j1, j2}
  Kind <- MCGenEval
  Thread = {t1, t2}
  NoJob = NoJob
  Cap = 3
  Others = {0}
  Stoppable = {}
  Purges = {}
  MaxCrashes = 1
CHECK_DEADLOCK TRUE
INVARIANT GpuExclusive
