SPECIFICATION Spec
CONSTANTS
  Connection = {c1}
  MaxPipelined = 2
  MaxRuntimes = 2
  None = None
INVARIANTS ClosedMeansDisposed
