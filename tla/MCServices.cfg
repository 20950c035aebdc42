SPECIFICATION ServicesSpec
CONSTANTS
  Durations <- MCDurations
  MaxBars = 6
  DefaultSpan = 8
  MaxSlots = 3
  Recalibrate = 2
  CheckEvery = 2
  Requests <- MCRequests
  Directories <- MCDirectories
  Explorations <- MCExplorations
  Now = 8
  Second = 2
  UsecFrom = 10
  RelativeMax = 3
  MissingAfter = 2
  DefaultWindow = 4
  Every = 1
  Buckets = 2
  DeltaDefault = 1
  DeltaMax = 2
  MaxPages = 4
  DetRandomize <- MCDetRandomize
  Bases <- MCBases
  Fields <- MCFields
  NameOf <- MCNameOf
  EntryFields <- MCEntryFields
  FileCodecs = {{"zstd"}}
  Interval = 2
  Starts = {1, 2, 5}
  Times = {3, 4, 8, 13}
  Boots = {1}
  ArrayCounts = {1}
  MaxAppends = 3
  MaxSeqGap = 0
  JournalPaths <- MCPaths
  MachineIds = {"m"}
  Namespaces <- MCNamespaces
  Extents <- MCExtents
  SecondUsec = 6
  RegistrySetups <- MCRegistrySetups
  TsZones <- MCZones
  TsValues <- MCValues
  TsNows = {8, 58}
  TsMinute = 3
  TsHour = 6
  TsDay = 12
  TsMonth = 3
  TsMaxTime = 72
  TsStep = 9
  TsReach = 40
  TsWidth = 256
  TsParses = 3
  ClTokens <- MCTokens
  ClLength = 4
  VacuumSetups <- MCVacuumSetups
  VacuumFaults = 1
  VacuumBirthFloor = 2
CHECK_DEADLOCK FALSE
INVARIANTS
  ExplorationExact AnswersComplete SealExact RegistryExact ArgumentsExact VacuumSound
