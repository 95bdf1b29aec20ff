\* One process, whose last flush may fail.
SPECIFICATION FileSpec
CONSTANTS
  p1 = p1
  p2 = p2
  Proc = {p1}
  Packages <- MCPackages
  Found <- MCFound
  Chunk = 16
  FlushFails = TRUE
PROPERTY
  IsAStore
