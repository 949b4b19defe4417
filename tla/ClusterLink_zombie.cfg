SPECIFICATION Spec
CONSTANTS
  Conn = {k1, k2}
  NoConn = NoConn
  ClientPayload = {"Env", "Bad"}
  MaxFaults = 0
  MaxSends = 1
  PromptCallbacks = TRUE
SYMMETRY Symmetry
INVARIANT BindingWillBeCleared
CHECK_DEADLOCK FALSE
