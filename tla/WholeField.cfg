SPECIFICATION SettingsSpec
CONSTANTS
  p = p
  q = q
  Process = {p, q}
  Path = {"m1", "m2"}
  FieldOf <- MCModels
  WholeFields = {"models"}
  Scopes = {"global"}
  Existing = {"global"}
  MaxEdits = 3
  MaxReloads = 0
  MaxCrashes = 0
  MaxTrust = 0
PROPERTY KeysAreKept
CHECK_DEADLOCK FALSE
