\* Memory of another device, or of the device the thread is on, is given to a session.
SPECIFICATION Spec
CONSTANTS
  any = any
  sm80 = sm80
  sm90 = sm90
  Builds <- MCBuilds
  MaxCards = 2
  CardArch <- MCCardArch
  Package <- MCPackage
  Ref = {r1, r2}
  AnyArch = any
  None = None
  Strays = TRUE
INVARIANT BoundWhereItRuns
