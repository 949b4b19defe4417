SPECIFICATION FairSpec
CONSTANTS
  Conn = {k1, k2}
  NoConn = NoConn
  ClientPayload = {"Env"}
  MaxFaults = 2
  MaxSends = 1
  PromptCallbacks = TRUE

INVARIANTS NoOrphanConnection BindingWillBeCleared
PROPERTIES Reconnects FailsOnlyWhenOffline
CHECK_DEADLOCK FALSE
