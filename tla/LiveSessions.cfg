SPECIFICATION Spec
CONSTANTS
  Connection = {c1, c2}
  MaxPipelined = 1
  MaxRuntimes = 2
  None = None
INVARIANTS ExclusiveRuntime OperationsKeepRuntime
PROPERTIES UnusedRuntimesGo RequestsAnswered
