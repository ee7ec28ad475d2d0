CONSTANTS
  Caller = {c1, c2}
  MaxSent = 2
  MaxTroubles = 2
  MaxCompactions = 1
  MaxRetries = 1
  KeepRecent = 2
  MaxBeside = 0
SPECIFICATION FairSpec
CHECK_DEADLOCK FALSE
INVARIANTS IdleIsIdle RecoversOnce MessagesAreKept ContextIsSession
PROPERTIES SettlesEmpty WaitersReturn
