SPECIFICATION AllSpec
CONSTANTS
  Database <- gKextDatabase
  Essentials <- gEssentialKexts
  SystemInfos <- MCSystemInfos
  MaxCount <- MCMaxCount
  KextCapacity = 7
  NULL = NULL
  Versions <- gMacOSVersions
  CPUs <- MCCPUs
  MaxUINTN = 2147483647
  Size <- SmallSizes
  ImageSize = 16
  Movable <- MCMovable
  MaxMounts = 2
  Selections <- MCSelections
  Databases <- MCDatabases
  Unreliable <- MCUnreliable
  MaxMishaps = 2
INVARIANTS
  TypesOK
  LaunchedOnMatchingEFI
  PartitionMatchesTree
  DoneMeansWhole
  SetupTellsTheTruth
  SelectedInRange
PROPERTIES
  RunEnds
  LeftoversBlockISO
  Recovers
  DownloadsEnd
  OnlyTheLastKeyActs
  EnterLeavesMenu
