SPECIFICATION MenuSpec
CONSTANTS
  Versions <- gMacOSVersions
  CPUs <- MCCPUs
  MaxUINTN = 2147483647
INVARIANTS
  AMDGetsItsSMBIOS
CHECK_DEADLOCK FALSE
