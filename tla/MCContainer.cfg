\* Two processes, chunks of 16 tokens: the plain package takes three of them.
SPECIFICATION FileSpec
CONSTANTS
  p1 = p1
  p2 = p2
  Proc = {p1, p2}
  Packages <- MCPackages
  Found <- MCFound
  Chunk = 16
  FlushFails = TRUE
INVARIANTS
  FileTypeOK
  ListingAgrees
PROPERTIES
  IsARegister
SYMMETRY Symmetry
