\* Two threads, four wrappers and three addresses for their objects.
SPECIFICATION Spec
CONSTANTS
  s = s
  m = m
  n = n
  d = d
  t = t
  u = u
  h1 = h1
  h2 = h2
  h3 = h3
  vk = vk
  dx = dx
  in = in
  Thread = {t, u}
  Var = {s, m, n, d}
  ClassOf <- MCClassOf
  UserOf <- MCUserOf
  Handle = {h1, h2, h3}
  Alloc = {vk, dx}
  SharedBy <- MCSharedBy
  Name = {in}
  Raised = {"unsupported_interop", "io"}
  Nothing = Nothing
INVARIANTS
  TypeOK
  HandlesHaveOneOwner
  ImportsLiveWhileHeld
  MessageIsOfItsCall
SYMMETRY Symmetry
