SPECIFICATION FairSpec
CONSTANTS
  j1 = j1
  j2 = j2
  Job = {j1}
  Kind <- MCOneGen
  Thread = {t1, t2}
  NoJob = NoJob
  Cap = 3
  Others = {0, 3}
  Stoppable = {j1}
  Purges = {}
  MaxCrashes = 2
CHECK_DEADLOCK TRUE
PROPERTY NodeCatchesUp
