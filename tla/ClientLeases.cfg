CONSTANTS
  User = {u1, u2}
  None = None
  Faults = {"attach", "detach"}
  MaxRev = 1
  MaxDrops = 2
  MaxWire = 2
SPECIFICATION FairSpec
INVARIANTS BooksMatchOwners LeaseIsAttached NothingLeaks
PROPERTIES AcquisitionsEnd
\* A lease that strayed can be neither used nor released before the connection is lost again.
CHECK_DEADLOCK FALSE
