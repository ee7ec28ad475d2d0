SPECIFICATION Spec
CONSTANTS
  r1 = r1
  r2 = r2
  Repo = {r1, r2}
  Asked <- Shared
  Ttl = 2
  Heartbeat = 1
  MaxLeft = 2
  MaxClaims = 2
  MaxBirths = 2
  MaxQueued = 1
  None = None
INVARIANT TimelyWriterKeepsLease
PROPERTIES
  ImplementsFencedLog
  DeadClaimsExpire
  OperationsEnd
