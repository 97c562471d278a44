SPECIFICATION Spec
CONSTANTS
  Worker = {w1}
  Spans = 1
  MaxFrames = 1
  FrameSize = 2
  Collision <- AnyCollision
  MayThrow = FALSE
  Pipelining = FALSE
INVARIANTS
  DispatchedOnce
CHECK_DEADLOCK FALSE
