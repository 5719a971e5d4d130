SPECIFICATION Spec
CONSTANTS
  j1 = j1
  j2 = j2
  Job = {j1, j2}
  Kind <- MCTrainGen
  Thread = {t1, t2}
  NoJob = NoJob
  Cap = 3
  Others = {0, 3}
  Stoppable = {j1, j2}
  Purges = {TRUE, FALSE}
  MaxCrashes = 1
SYMMETRY Symmetry
CHECK_DEADLOCK TRUE
INVARIANTS
  TypeOK
  EndedMeansOver
  OutcomeIsTrue
  SharedOnlyWhenCutOff
PROPERTY KeepsToSlot
