SPECIFICATION Spec
CONSTANTS
  Path = {"httpx", "command"}
  None = None
  Manual = {"command"}
  Bootstrap = {"httpx"}
  Capability <- Capabilities
  Derives <- Derivations
  Calls = {c1, c2}
  Gateway = {g1}
  Keyed = {g1}
  Ops = {"atomic"}
  MaxDecisions = 2
  MaxToolCalls = 1
  MaxBranches = 2
  Torn = FALSE
  MaxAsked = 2
  MaxCrashes = 0
  MaxCompletes = 0
  MaxActions = 0
INVARIANT BudgetKept
CHECK_DEADLOCK FALSE
