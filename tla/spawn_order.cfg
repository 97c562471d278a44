SPECIFICATION Spec
CONSTANTS
  A = A
  B = B
  T = T
  Component = {A, B, T}
  Catalog <- TwoSpawnersCatalog
  Mixes <- AnyMix
  MaxSystems = 2
  InitialMasks = {{A}}
  MaxHostEntities = 1
  MaxId = 4
  MaxPending = 3
  MaxReEntries = 1
INVARIANTS
  DeterministicStaging
