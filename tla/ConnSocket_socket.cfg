SPECIFICATION FairSpec
CONSTANTS
  A = A
  B = B
  FrameLen = 2
  MaxFrames = 2
  MaxWire = 1
  Breaks = TRUE
  WriteErrors = TRUE
  Rejects = FALSE
INVARIANTS StreamIntact CloseDrains EndReported
PROPERTIES BothEndsReleased Delivers
CHECK_DEADLOCK FALSE
