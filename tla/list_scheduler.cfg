SPECIFICATION Spec
CONSTANTS
  NumTasks = 7
  NumSubtasks = 2
  NumProc = 3
  ExecTime = 10
  Edges <- TestGraph
INVARIANTS
  TypeOK
  ScheduleFeasible
  EmptyMeansDone
  MakespanWithinWork
CHECK_DEADLOCK FALSE
