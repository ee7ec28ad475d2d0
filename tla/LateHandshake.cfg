CONSTANTS
  Connection = {c1, c2}
  MaxChanges = 1
  MaxFailures = 0
SPECIFICATION SnapshotsSpec
CHECK_DEADLOCK FALSE
INVARIANT AloneCaughtUp
