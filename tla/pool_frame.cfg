SPECIFICATION Spec
CONSTANTS
  Worker = {w1, w2}
  Spans = 2
  MaxFrames = 1
  FrameSize = 3
  Collision <- AnyCollision
  MayThrow = TRUE
  Pipelining = FALSE
SYMMETRY Symmetry
INVARIANTS
  TypeOK
  SpanRunsOnce
  ExecutedMeansDone
  RunsAfterItsPredecessors
  PoisonStops
  SleepersHaveNothingToDo
  FlushedOnReturn
CHECK_DEADLOCK FALSE
