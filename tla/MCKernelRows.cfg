\* As MCKernel, with a row count past the width of the word it is handed on in.
SPECIFICATION Spec
CONSTANTS
  t = t
  u = u
  r1 = r1
  r2 = r2
  r3 = r3
  g1 = g1
  g2 = g2
  s = s
  Thread = {t, u}
  Device = {d0, d1}
  Ref = {r1, r2, r3}
  Region = {g1, g2}
  Stage = {s}
  Unspecified = Unspecified
  d0 = d0
  d1 = d1
  None = None
  NumPorts = 2
  RowCounts = {1, 25}
  Word = 8
  BlockSizes = {3}
  Recorded = {0}
  RepeatCounts = {5}
  EntryPointsExist = TRUE
SYMMETRY MCSymmetry
INVARIANTS
  LaunchCoversTheRows
