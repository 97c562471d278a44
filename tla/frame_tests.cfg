SPECIFICATION HarnessSpec
CONSTANTS
  A = "A"
  B = "B"
  T = "T"
  Component <- AllComponents
  Catalog <- Declared
  Mixes <- HostMixes
  MaxSystems = 6
  InitialMasks = {{"A"}}
  MaxHostEntities = 1
  MaxId = 3
  MaxPending = 3
  MaxReEntries = 1
  HostSystems = 2
  FuzzSystems = 4
  FuzzDatabases <- FewDatabases
INVARIANTS
  TypeOK
  DeterministicStaging
  QuietReturn
  SuitesPass
  NoDataRace
