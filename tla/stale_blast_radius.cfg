SPECIFICATION Spec
CONSTANTS
  A = A
  B = B
  T = T
  Component = {A, B, T}
  Catalog <- StaleCatalog
  Mixes <- AnyMix
  MaxSystems = 3
  InitialMasks = {{A, T}}
  MaxHostEntities = 1
  MaxId = 1
  MaxPending = 3
  MaxReEntries = 1
INVARIANTS
  EscalationComplete
