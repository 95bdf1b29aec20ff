\* One object, run while the session's trunk is skipped.
SPECIFICATION Spec
CONSTANTS
  a = a
  b = b
  x = x
  y = y
  m = m
  Filler = {a}
  RadField = {x}
  Grids = {1}
  Packages <- MCVoxelwise
  Elements = 2
  Mirror = {m}
  NoMirror = "none"
  Mirrored = {}
  OwnWidths <- MCNoWidths
  CallerBinds = {"direction"}
  LastMadeOnly = TRUE
  WithTrunk = FALSE
  BoundReturns = TRUE
INVARIANT
  RunLeavesMetric
