SPECIFICATION Spec
CONSTANTS
    Own = 1
    Machines = {1, 2}
    Configs <- MCConfigs
    Policies <- MCPolicies
    InitialDisks <- MCDisks
    RootGaps = {0}
    MaxEntries = 3
    MaxMade = 8
    MaxOpens = 2
    MaxTroubles = 1
    MaxNow = 6
    Jump = 4
CHECK_DEADLOCK FALSE
INVARIANTS
  AckedKept NumberingOrdered DirectoryKept
PROPERTIES
  MaintenanceExact
