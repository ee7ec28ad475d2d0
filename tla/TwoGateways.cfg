SPECIFICATION Spec
CONSTANTS
  Path = {"httpx", "command"}
  None = None
  Manual = {"command"}
  Bootstrap = {"httpx"}
  Capability <- Capabilities
  Derives <- Derivations
  Calls = {c1, c2}
  Gateway = {g1, g2}
  Keyed = {g1}
  Ops = {"plan", "execute"}
  MaxDecisions = 2
  MaxToolCalls = 2
  MaxBranches = 2
  Torn = FALSE
  MaxAsked = 2
  MaxCrashes = 0
  MaxCompletes = 0
  MaxActions = 2
INVARIANT ExecutedByOne
CHECK_DEADLOCK FALSE
