-------------------------- MODULE MCPatchSelector --------------------------
(***************************************************************************)
(* PatchSelector on the shipped table, for every processor name the code   *)
(* mentions and some it does not.                                          *)
(***************************************************************************)
EXTENDS PatchSelector, PatchDatabase

MCCPUTypes ==
  gLegacyCPUs \cup gAMDs
    \cup {"Nehalem", "Westmere", "SandyBridge", "IvyBridge", "Haswell",
          "Broadwell", "Skylake", "KabyLake", "CoffeeLake", "CometLake",
          "IceLake", "Unknown"}

(* The shipped table is as the proof of NoOverRead needs it.               *)
ASSUME ShippedTableAssumption == QuotaUsedAhead
=============================================================================
