SPECIFICATION Spec
CONSTANTS
  s1 = s1
  s2 = s2
  t1 = t1
  t2 = t2
  t3 = t3
  Server = {s1, s2}
  Thread = {t1, t2, t3}
  Host <- MCHost
  Holder = {h1, h2}
  NoThread = NoThread
  NoHolder = NoHolder
  Faults <- MCCrash
  MaxCrashes = 1
CHECK_DEADLOCK TRUE
INVARIANT SectionExclusive
