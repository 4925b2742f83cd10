CONSTANTS
  Requests = {r1, r2, r3}
  Reconcilers = {c1, c2}
  Overlap = FALSE
  OrphanPuts = FALSE
SPECIFICATION Spec
CHECK_DEADLOCK FALSE
SYMMETRY Symmetry
INVARIANTS
  CompletedHasObject
  RefundedLeavesNoObject
  RetryReservesAfresh
