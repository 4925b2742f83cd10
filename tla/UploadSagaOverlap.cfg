CONSTANTS
  Requests = {r1, r2, r3}
  Reconcilers = {c1}
  Overlap = TRUE
  OrphanPuts = TRUE
SPECIFICATION Spec
CHECK_DEADLOCK FALSE
SYMMETRY Symmetry
INVARIANTS
  ChargedOnce
  SuccessIsFinal
