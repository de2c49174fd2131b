SPECIFICATION Spec
CONSTANTS
  m1 = m1
  m2 = m2
  c1 = c1
  c2 = c2
  c3 = c3
  Models = {m1, m2}
  Clients = {c1, c2, c3}
  ModelOf <- ModelOfClient
  MaxEvals = 2
  MaxArrivals = 1
  MaxRaw = 12
  Configurations <- FixedVariable
SYMMETRY ClientSymmetry
INVARIANTS
  OwnResponse
CHECK_DEADLOCK FALSE
