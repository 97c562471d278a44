SPECIFICATION Spec
CONSTANTS
  Component = {a}
  Partition = {0}
  PageSize = 2
  Changes = {a}
  SpawnMasks <- FullMask
  MaxLayers = 2
  MaxEntities = 3
  MaxQueued = 1
  LateMounts = FALSE
  Sparing = FALSE
INVARIANT RelationsUnbroken
CHECK_DEADLOCK FALSE
