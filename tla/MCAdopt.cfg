\* Numbers are given out again once no import of them lives.
SPECIFICATION Spec
CONSTANTS
  a0 = a0
  a1 = a1
  session0 = session0
  session1 = session1
  caller = caller
  Alloc = {a0, a1}
  Home <- MCHome
  NumDevices = 2
  Handle = {7}
  Ref = {r1, r2, r3}
  Client = {session0, session1, caller}
  Asks <- MCAsks
  None = None
  Strays = FALSE
  Recycles = FALSE
INVARIANTS
  TypeOK
  ViewIsOfItsAllocation
  OneMapping
  RegistryFindsTheLiving
