SPECIFICATION SettingsSpec
CONSTANTS
  p = p
  q = q
  Process = {p, q}
  Path = {"theme", "images"}
  FieldOf <- MCFlat
  WholeFields = {}
  Scopes = {"global", "project"}
  Existing = {"global"}
  MaxEdits = 3
  MaxReloads = 1
  MaxCrashes = 1
  MaxTrust = 1
SYMMETRY Alike
INVARIANTS SavedOrReported
PROPERTIES EditsAreKept
CHECK_DEADLOCK FALSE
