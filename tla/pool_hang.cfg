SPECIFICATION FairSpec
CONSTANTS
  Worker = {w1, w2}
  Spans = 2
  MaxFrames = 1
  FrameSize = 1
  Collision <- NoCollision
  MayThrow = FALSE
  Pipelining = FALSE
PROPERTIES
  FrameCompletes
CHECK_DEADLOCK FALSE
