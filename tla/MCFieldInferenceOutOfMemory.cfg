\* Two objects; the constructor of one finds no memory for its last list.
SPECIFICATION Spec
CONSTANTS
  a = a
  b = b
  x = x
  y = y
  m = m
  Filler = {a, b}
  RadField = {x}
  Grids = {1}
  Packages <- MCVoxelwise
  Elements = 2
  Mirror = {m}
  NoMirror = "none"
  Mirrored = {}
  OwnWidths <- MCNoWidths
  CallerBinds = {"direction"}
  LastMadeOnly = TRUE
  WithTrunk = TRUE
  BoundReturns = FALSE
INVARIANT
  RunReadsLiveMemory
