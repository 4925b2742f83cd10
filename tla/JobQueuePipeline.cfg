CONSTANTS
  w1 = w1
  w2 = w2
  d1 = d1
  Jobs <- MCPipeline
  Workers = {w1, w2}
  Docs = {d1}
  Tokens = {1, 2, 3, 4, 5, 6, 7, 8}
  Kind <- MCKind
  DocOf <- MCDocOf
  ParentOf <- MCParentOf
  MaxAttempts = 2
  SlotLimit = 2
  LeaseTTL = 1
  MaxDuration = 2
  ReclaimBackoff = 1
  LateHeartbeats = TRUE
  DryRunMode = FALSE
  NoJob = "none"
  NoToken = NoToken
  NoWorker = NoWorker
SPECIFICATION Spec
SYMMETRY Symmetry
INVARIANTS
  SlotsMatchLeases
  CancelledIndexHasNoLiveBatch
PROPERTIES
  HonoursContract
