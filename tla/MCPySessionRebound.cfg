\* One name, two threads, one of which rebinds while the other is inside infer().
SPECIFICATION Spec
CONSTANTS
  t = t
  u = u
  a = a
  b = b
  strided = strided
  m = m
  n = n
  flux = flux
  dose = dose
  tally = tally
  Thread = {t, u}
  Array = {a, b, strided}
  Interfaced = {strided}
  Tensors = {a, b}
  Dense = {a, b}
  Float32 = {a, b, strided}
  Memory = {m, n}
  Layer = {tally}
  Name = {flux}
  Nothing = Nothing
  KeepsLent = TRUE
INVARIANT
  CollectedNever
