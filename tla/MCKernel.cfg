\* Two threads, two devices, three references and two address regions.
SPECIFICATION Spec
CONSTANTS
  t = t
  u = u
  r1 = r1
  r2 = r2
  r3 = r3
  g1 = g1
  g2 = g2
  s = s
  Thread = {t, u}
  Device = {d0, d1}
  Ref = {r1, r2, r3}
  Region = {g1, g2}
  Stage = {s}
  Unspecified = Unspecified
  d0 = d0
  d1 = d1
  None = None
  NumPorts = 2
  RowCounts = {1, 7}
  Word = 8
  BlockSizes = {3}
  Recorded = {0}
  RepeatCounts = {5}
  EntryPointsExist = TRUE
SYMMETRY MCSymmetry
INVARIANTS
  TypeOK
  LiveIsMapped
  NothingLeaks
  InItsContext
  ReadsTheBound
  LaunchCoversTheRows
  RepeatFillsTheBuffer
