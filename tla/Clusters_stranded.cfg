SPECIFICATION Spec
CONSTANTS
  Keys = {"k1", "k2"}
  Ids = {"c1", "c2"}
  Runs = {r1, r2}
  Threads = {t1, t2}
  Faults = {"overlap"}
INVARIANT NotStranded
