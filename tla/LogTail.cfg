SPECIFICATION TailSpec
CONSTANTS
  Block = 2
  Lines = {0, 1, 2, 3}
  MaxBytes = 6
INVARIANT
  TailIsLastLines
