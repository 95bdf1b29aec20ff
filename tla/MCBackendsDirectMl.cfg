\* A D3D12 resource is bound to a DirectML session.
SPECIFICATION Spec
CONSTANTS
  any = any
  sm80 = sm80
  sm90 = sm90
  Builds <- MCBuilds
  MaxCards = 2
  CardArch <- MCCardArch
  Package <- MCPackage
  Ref = {r1, r2}
  AnyArch = any
  None = None
  Strays = FALSE
INVARIANT TensorsNameWhatTheyHold
