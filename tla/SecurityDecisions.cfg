SPECIFICATION Spec
CONSTANTS
  Path = {"nmap", "httpx", "command"}
  None = None
  Manual = {"command"}
  Bootstrap = {"nmap", "httpx"}
  Capability <- Capabilities
  Derives <- Derivations
  Calls = {c1, c2}
  Gateway = {g1, g2}
  Keyed = {g1}
  Ops = {"step", "atomic", "plan", "execute", "complete"}
  MaxDecisions = 3
  MaxToolCalls = 1
  MaxBranches = 2
  Torn = TRUE
  MaxAsked = 2
  MaxCrashes = 1
  MaxCompletes = 1
  MaxActions = 2
SYMMETRY Alike
INVARIANTS
  OneDecisionPerIntent
  PendingHasOwner
  ExecutedOnce
CHECK_DEADLOCK FALSE
