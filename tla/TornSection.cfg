SPECIFICATION Spec
CONSTANTS
  Path = {"nmap", "httpx", "ffuf", "curl"}
  None = None
  Manual = {}
  Bootstrap = {"nmap", "httpx", "ffuf", "curl"}
  Capability <- Capabilities
  Derives <- Derivations
  Calls = {c1}
  Gateway = {}
  Keyed = {}
  Ops = {"step"}
  MaxDecisions = 5
  MaxToolCalls = 4
  MaxBranches = 2
  Torn = TRUE
  MaxAsked = 0
  MaxCrashes = 1
  MaxCompletes = 0
  MaxActions = 0
INVARIANTS
  NoRepeatedSuccess
CHECK_DEADLOCK FALSE
