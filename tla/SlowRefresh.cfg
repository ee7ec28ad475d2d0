SPECIFICATION Spec
CONSTANTS
  p1 = p1
  p2 = p2
  r1 = r1
  r2 = r2
  r3 = r3
  Process = {p1, p2}
  Request = {r1, r2, r3}
  Home <- MCHome
  Free = Free
  Dead = Dead
  MaxTokens = 2
  MaxChanges = 1
  MaxCrashes = 0
  SlowRefresh = TRUE
INVARIANT NothingIsLost
CHECK_DEADLOCK FALSE
