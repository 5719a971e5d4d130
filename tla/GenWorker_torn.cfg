SPECIFICATION Spec
CONSTANTS
  Types = {"a", "b"}
  Asked = {1, 3}
  Batch = 2
  Providers = {"claude", "mlx"}
  Faults = {"torn"}
INVARIANT NeverOvercounts
