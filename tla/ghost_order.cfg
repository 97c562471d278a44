SPECIFICATION HarnessSpec
CONSTANTS
  A = "A"
  B = "B"
  T = "T"
  Component <- AllComponents
  Catalog <- Declared
  Mixes <- HostMixes
  MaxSystems = 6
  InitialMasks = {{"A"}}
  MaxHostEntities = 1
  MaxId = 3
  MaxPending = 3
  MaxReEntries = 1
  HostSystems = 0
  FuzzSystems = 0
  FuzzDatabases <- FewDatabases
INVARIANTS
  OrderAsWritten
