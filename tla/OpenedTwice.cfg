SPECIFICATION Spec
CONSTANTS
  Main = Main
  Lane = {Main, Side}
  Id = {i1, i2}
  Null = Null
  Text = {t1}
  Handle = {h1, h2}
  Writer = {h1}
  PartialWrites = FALSE
  MaxMutations = 2
  NoFile = NoFile
INVARIANT AcknowledgedKept
