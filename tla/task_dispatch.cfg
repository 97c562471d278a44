SPECIFICATION FairSpec
CONSTANTS
  N = 3
  Worker = {w1, w2}
  MaxReEntries = 1
  Graphs <- AllForwardGraphs
INVARIANTS
  TypeOK
  DispatchedOnce
  NoLostWakeup
PROPERTIES
  FlagsStableWhileHeld
  FrameEnds
  DispatchRunsTheDag
