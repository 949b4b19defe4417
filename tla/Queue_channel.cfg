SPECIFICATION FairSpec
CONSTANTS
  Proc = {p1, p2, p3, p4}
  Value = {v1, v2}
  MaxLen = 3
  MaxBatch = 2
INVARIANT WakeUpsSuffice
PROPERTIES ImplementsChannel ServesWaiters
CHECK_DEADLOCK FALSE
