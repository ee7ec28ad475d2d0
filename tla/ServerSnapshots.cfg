CONSTANTS
  Connection = {c1, c2}
  MaxChanges = 2
  MaxFailures = 1
SPECIFICATION SnapshotsSpec
CHECK_DEADLOCK FALSE
INVARIANT CaughtUp
PROPERTIES NobodyStaysBehind
