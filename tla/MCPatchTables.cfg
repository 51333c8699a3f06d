SPECIFICATION Spec
CONSTANTS
  Database <- MCTable
  LegacyCPUs = {"Core2"}
  AMDs = {"AMD-Zen"}
  CPUTypes = {"Core2", "AMD-Zen", "Nehalem", "Skylake", "IceLake"}
  TargetSlots = 2
  PatchCapacity = 10
INVARIANTS
  TypeOK
  FitsInList
  MissingOnlyForQuota
PROPERTIES
  LegacyPassAddsNothing
CHECK_DEADLOCK FALSE
