\* A float32 array of NumPy's, a tensor of other numbers, and a strided buffer.
SPECIFICATION Spec
CONSTANTS
  t = t
  u = u
  a = a
  b = b
  strided = strided
  m = m
  n = n
  flux = flux
  dose = dose
  tally = tally
  Thread = {t}
  Array = {a, b, strided}
  Interfaced = {b}
  Tensors = {a}
  Dense = {a, b}
  Float32 = {b, strided}
  Memory = {m}
  Layer = {tally}
  Name = {flux}
  Nothing = Nothing
  KeepsLent = TRUE
INVARIANT
  WrapsDenseFloats
