CONSTANTS
  User = {u1, u2}
  None = None
  Faults = {"detach"}
  MaxRev = 1
  MaxDrops = 0
  MaxWire = 2
SPECIFICATION Spec
INVARIANT LeaseIsServed
