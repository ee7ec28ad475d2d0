SPECIFICATION QueueSpec
CONSTANTS
  Caller = {c1, c2}
  file = file
  link = link
  Path <- MCPath
  CanonicalPath <- MCCanonicalPath
  None = None
INVARIANTS
  SameFileExclusive
