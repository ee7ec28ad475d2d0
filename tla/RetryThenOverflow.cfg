CONSTANTS
  Caller = {c1, c2}
  MaxSent = 1
  MaxTroubles = 2
  MaxCompactions = 0
  MaxRetries = 1
  KeepRecent = 2
  MaxBeside = 0
SPECIFICATION Spec
CHECK_DEADLOCK FALSE
INVARIANT ContinueAccepted
