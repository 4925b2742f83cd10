CONSTANTS
  Batches = {b1, b2}
  Writers = {w1, w2}
  Cleaners = {c1, c2}
  MaxAttempts = 2
  LateUpserts = 1
  Repairs = TRUE
  DrainFaults = FALSE
  NoOne = NoOne
SPECIFICATION Spec
CHECK_DEADLOCK FALSE
SYMMETRY Symmetry
INVARIANTS
  PurgedLeavesNoVector
  PointsAreCovered
  SucceededBatchHasPoints
  IndexedIsComplete
  OnlyDrainsStrand
