SPECIFICATION FairSpec
CONSTANTS
  Worker = {w1}
  Spans = 2
  MaxFrames = 2
  FrameSize = 2
  Collision <- FewCollisions
  MayThrow = FALSE
  Pipelining = TRUE
PROPERTIES
  FrameCompletes
  StopReturns
CHECK_DEADLOCK FALSE
