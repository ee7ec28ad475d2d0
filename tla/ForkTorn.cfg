SPECIFICATION TreeSpec
CONSTANTS
  Lane = {main, side}
  main = main
  MaxEntries = 2
  MaxRebuilds = 1
INVARIANT ForksAreSnapshots
