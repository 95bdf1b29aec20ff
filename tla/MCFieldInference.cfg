\* Two objects over one session, two fields, one mirror.
SPECIFICATION Spec
CONSTANTS
  a = a
  b = b
  x = x
  y = y
  m = m
  Filler = {a, b}
  RadField = {x, y}
  Grids = {1, 2}
  Packages <- MCPackages
  Elements = 2
  Mirror = {m}
  NoMirror = "none"
  Mirrored = {"flux"}
  OwnWidths <- MCOwnWidths
  CallerBinds = {"direction"}
  LastMadeOnly = TRUE
  WithTrunk = TRUE
  BoundReturns = TRUE
INVARIANTS
  TypeOK
  RunFillsItsField
  RunReadsLiveMemory
  WritesFitTheLayers
  StoredIsMetric
SYMMETRY Symmetry
