CONSTANTS
  Requests = {r1, r2, r3, r4}
  Reconcilers = {}
  Overlap = TRUE
  OrphanPuts = FALSE
SPECIFICATION Spec
CHECK_DEADLOCK FALSE
SYMMETRY Symmetry
INVARIANTS
  CompletedHasObject
