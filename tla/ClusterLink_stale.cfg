SPECIFICATION Spec
CONSTANTS
  Conn = {k1, k2}
  NoConn = NoConn
  ClientPayload = {"Env"}
  MaxFaults = 1
  MaxSends = 0
  PromptCallbacks = TRUE
SYMMETRY Symmetry
INVARIANT ReadyMeansRegistered
CHECK_DEADLOCK FALSE
