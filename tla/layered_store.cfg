SPECIFICATION TestSpec
CONSTANTS
  a = a
  Component <- Declared
  Partition = {0, 128, 255}
  PageSize = 2
  Changes = {a}
  SpawnMasks <- FreeMask
  MaxLayers = 3
  MaxEntities = 4
  MaxQueued = 2
  LateMounts = FALSE
  Sparing = TRUE
INVARIANTS
  TypeOK
  PathsCompressed
  MetOnce
  BloomHidesNothing
  UntouchedEdgesFound
  ClosureEnds
  CascadeForeseen
  TestsPass
PROPERTIES
  FoundationImmutable
  RebuildKeepsTheRest
  LayersMakeAFlatStore
CHECK_DEADLOCK FALSE
