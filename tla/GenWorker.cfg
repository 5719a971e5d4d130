SPECIFICATION FairSpec
CONSTANTS
  Types = {"a", "b"}
  Asked = {1, 3}
  Batch = 2
  Providers = {"claude", "mlx"}
  Faults = {}
INVARIANTS
  HardCap
  NeverOvercounts
  CompletedIsWhole
PROPERTIES
  StopEndsAppends
  Ends
