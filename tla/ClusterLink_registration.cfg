SPECIFICATION Spec
CONSTANTS
  Conn = {k1, k2, k3}
  NoConn = NoConn
  ClientPayload = {"Env", "Bad"}
  MaxFaults = 1
  MaxSends = 1
  PromptCallbacks = FALSE
SYMMETRY Symmetry
INVARIANTS CountsMatch ResponseComesFirst
PROPERTY ImplementsRegistration
CHECK_DEADLOCK FALSE
