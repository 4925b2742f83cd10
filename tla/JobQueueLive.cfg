CONSTANTS
  w1 = w1
  w2 = w2
  d1 = d1
  Jobs <- MCLive
  Workers = {w1, w2}
  Docs = {d1}
  Tokens = {1, 2, 3, 4, 5, 6, 7, 8}
  Kind <- MCKind
  DocOf <- MCDocOf
  ParentOf <- MCParentOf
  MaxAttempts = 2
  SlotLimit = 1
  LeaseTTL = 2
  MaxDuration = 3
  ReclaimBackoff = 1
  LateHeartbeats = FALSE
  DryRunMode = FALSE
  NoJob = "none"
  NoToken = NoToken
  NoWorker = NoWorker
SPECIFICATION FairSpec
INVARIANTS
  LiveLeaseHoldsSlot
PROPERTIES
  EveryJobEnds
  LeakedSlotsDrain
