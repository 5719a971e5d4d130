SPECIFICATION Spec
CONSTANTS
  Rows = {"r1", "r2"}
  Threads = {t1, t2}
  Splits = {{}, {"r1"}}
  Faults = {}
  MaxLines = 2
INVARIANTS
  NeverTruncated
  SplitIsTheLastBuilt
PROPERTY LastDecisionCounts
