SPECIFICATION Spec
CONSTANTS
  Address = {a, b, c}
  Handle = {h1, h2, h3, h4, h5}
  Nil = Nil
  AheadOfTimeCompile = TRUE
  MaxWasmerInstances = 4
SYMMETRY HandleSymmetry
INVARIANTS RequiredInstancesLive
