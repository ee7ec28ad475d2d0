SPECIFICATION Spec
CONSTANTS
  Main = Main
  Lane = {Main, Side}
  Id = {i1, i2, i3}
  Null = Null
  Text = {t1}
  Handle = {h1}
  Writer = {h1}
  PartialWrites = FALSE
  MaxMutations = 4
  NoFile = NoFile
SYMMETRY IdSymmetry
INVARIANTS AcknowledgedKept MemoryIsFile ForksAreFaithful
