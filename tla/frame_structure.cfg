SPECIFICATION Spec
CONSTANTS
  A = A
  B = B
  T = T
  Component = {A, B, T}
  Catalog <- StructuralCatalog
  Mixes <- StructuralMixes
  MaxSystems = 3
  InitialMasks = {{A, B}, {A, T}}
  MaxHostEntities = 2
  MaxId = 2
  MaxPending = 1
  MaxReEntries = 1
INVARIANTS
  SerialEquivalence
  CondemnedExclusive
  LicensedOverlap
PROPERTIES
  DeclaredChangesOnly
  PassRunsTheDag
