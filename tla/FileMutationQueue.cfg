SPECIFICATION QueueSpec
CONSTANTS
  Caller = {c1, c2, c3}
  file = file
  link = link
  Path <- MCPath
  CanonicalPath <- MCCanonicalPath
  None = None
PROPERTIES
  CallsSettle
  ImplementsLock
