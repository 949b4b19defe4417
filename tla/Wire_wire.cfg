SPECIFICATION FairSpec
CONSTANTS
  t1 = t1
  t2 = t2
  Types = {t1, t2}
  Ids = {1, 2}
  Parses <- MCParses
  Broken = Broken
  None = None
  NoMessage = NoMessage
  NoRef = NoRef
  NoError = NoError
  LenBytes = 1
  Mod = 7
  MaxMsgId = 255
  MaxPayload = 2
  ReadBuf = 3
  Envelopes <- MCEnvelopes
  SizeOf <- MCSizeOf
  MaxRegs = 3
  MaxSends = 2
INVARIANTS TypeOK Faithful Addressed OnlyUnknownRejected RefusedForCause
PROPERTIES Arrives
CHECK_DEADLOCK FALSE
