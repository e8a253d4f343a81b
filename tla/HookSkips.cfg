SPECIFICATION Spec
CONSTANTS
  Machines = {m1, m2}
  MaxSetbacks = 1
  Noticed = FALSE
  Unnoticed = TRUE
  None = None
SYMMETRY Symmetry
CHECK_DEADLOCK FALSE
INVARIANT
  CompleteMeansReady
