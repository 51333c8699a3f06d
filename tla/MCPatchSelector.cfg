SPECIFICATION FairSpec
CONSTANTS
  Database <- gPatchDatabase
  LegacyCPUs <- gLegacyCPUs
  AMDs <- gAMDs
  CPUTypes <- MCCPUTypes
  TargetSlots = 8
  PatchCapacity = 32
INVARIANTS
  NoDuplicatePatches
  NoOverRead
PROPERTIES
  CallReturns
  ImplementsSelection
