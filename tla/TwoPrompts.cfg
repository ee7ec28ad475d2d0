CONSTANTS
  Caller = {c1, c2}
  MaxSent = 2
  MaxTroubles = 0
  MaxCompactions = 0
  MaxRetries = 1
  KeepRecent = 2
  MaxBeside = 0
SPECIFICATION Spec
CHECK_DEADLOCK FALSE
INVARIANT IdleIsAlwaysIdle
