\* Seven builds, up to two cards, two references.
SPECIFICATION Spec
CONSTANTS
  any = any
  sm80 = sm80
  sm90 = sm90
  Builds <- MCBuilds
  MaxCards = 2
  CardArch <- MCCardArch
  Package <- MCPackage
  Ref = {r1, r2}
  AnyArch = any
  None = None
  Strays = FALSE
SYMMETRY MCSymmetry
INVARIANTS
  TypeOK
  BoundIsItsOwnMemory
  BoundWhereItRuns
  LoadsWhatTheCardRuns
