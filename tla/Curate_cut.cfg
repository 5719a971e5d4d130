SPECIFICATION Spec
CONSTANTS
  Rows = {"r1", "r2"}
  Threads = {t1, t2}
  Splits = {{}, {"r1"}}
  Faults = {"cut"}
  MaxLines = 2
INVARIANT SplitIsTheLastBuilt
