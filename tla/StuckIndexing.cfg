CONSTANTS
    Docs = {d1}
    LastPlan = 1
SPECIFICATION Spec
INVARIANTS IndexingHasWork
CHECK_DEADLOCK FALSE
