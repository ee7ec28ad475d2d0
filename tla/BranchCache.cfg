SPECIFICATION TreeSpec
CONSTANTS
  Lane = {main, side}
  main = main
  MaxEntries = 4
  MaxRebuilds = 1
INVARIANTS ReadsAreRootPaths ForksAreWhole
