--------------------------- MODULE PatchSelector ---------------------------
(***************************************************************************)
(* SelectPatches of bootloader/src/kext_selector.c: four passes over the   *)
(* patch table, which append the critical patches, then recommended,       *)
(* processor-specific and legacy patches while a quota that depends on the *)
(* processor is not used up.  A step of the model is one iteration of one  *)
(* of the loops.                                                           *)
(*                                                                         *)
(* PatchCount and PatchList->Count are set and incremented together, so    *)
(* both are Len(patches).  The macOS version is a parameter nothing reads. *)
(***************************************************************************)
EXTENDS Integers, Sequences, FiniteSets

CONSTANTS
  Database,       \* gPatchDatabase, without its end marker
  LegacyCPUs,     \* gLegacyCPUs
  AMDs,           \* gAMDs
  CPUTypes,       \* the processor names a caller may pass
  TargetSlots,    \* the array size of PATCH_ENTRY.TargetCPU
  PatchCapacity   \* the array size of PATCH_LIST

VARIABLES
  cpu,      \* the processor of the current call
  pass,     \* the pass SelectPatches is in
  i,        \* the rows that pass has looked at
  patches   \* PatchList->Patches[0 .. Count-1]

vars == <<cpu, pass, i, patches>>

Rows == DOMAIN Database
PatchNames == {Database[r].PatchName : r \in Rows}

ASSUME DatabaseAssumption ==
  Database \in Seq([PatchName : STRING, TargetCPU : Seq(STRING),
                    IsCritical : BOOLEAN, IsRecommended : BOOLEAN,
                    IsLegacyOnly : BOOLEAN, Priority : Nat])

ASSUME CPUAssumption ==
  CPUTypes \subseteq STRING /\ CPUTypes # {}

(* Every row fits, and so does the largest quota of CalculatePatchCount.   *)
ASSUME CapacityAssumption ==
  /\ PatchCapacity \in Nat
  /\ Len(Database) <= PatchCapacity
  /\ 10 <= PatchCapacity

ASSUME SlotsAssumption == TargetSlots \in Nat
(* The processors PATCH_ENTRY holds: initialisers that do not fit are lost.*)
StoredTargets(row) ==
  {row.TargetCPU[n] : n \in {m \in DOMAIN row.TargetCPU : m <= TargetSlots}}

(* Whether the array has room for the NULL that ends the scan of it.       *)
Terminated(row) == Len(row.TargetCPU) < TargetSlots

Named(row, c) == {"all", c} \cap StoredTargets(row) # {}

(* What the table has to be like: the arrays of the rows for critical and  *)
(* for old-processor patches are not full, and a critical patch has at     *)
(* most one row for a processor.                                           *)
ASSUME TerminatedAssumption ==
  \A r \in Rows :
    Database[r].IsCritical \/ Database[r].IsLegacyOnly => Terminated(Database[r])

ASSUME CriticalNamesAssumption ==
  \A c \in CPUTypes : \A q, r \in Rows :
    /\ Database[q].IsCritical /\ Named(Database[q], c)
    /\ Database[r].IsCritical /\ Named(Database[r], c)
    /\ Database[q].PatchName = Database[r].PatchName
    => q = r
-----------------------------------------------------------------------------
(* What PatchAppliesToCPU may do.  Where nothing matches and the array is  *)
(* full it runs into the bytes behind the array, taken for a pointer to a  *)
(* name: it faults, or whatever it finds there matches or does not.        *)
PatchAppliesToCPU(row, c) ==
  IF Named(row, c) THEN {"yes"}
  ELSE IF Terminated(row) THEN {"no"}
  ELSE {"yes", "no", "fault"}

(* The quota.                                                              *)
CalculatePatchCount(c) ==
  IF c \in LegacyCPUs THEN 10
  ELSE IF c \in AMDs THEN 6
  ELSE IF c \in {"Nehalem", "Westmere"} THEN 7
  ELSE IF c \in {"SandyBridge", "IvyBridge", "Haswell", "Broadwell",
                 "Skylake", "KabyLake"} THEN 5
  ELSE 4

MaxPatches == CalculatePatchCount(cpu)

(* Mutant: the search for an earlier entry finds nothing.                  *)
NeverAdded(row) == FALSE

AlreadyAdded(row) == \E n \in DOMAIN patches : patches[n].Name = row.PatchName

AddPatch(row) ==
  patches' = Append(patches, [Name |-> row.PatchName, Priority |-> row.Priority])

(* Mutant: rows for old processors are left to the fourth pass.            *)
SpecificNotLegacy(row) ==
  ~row.IsCritical /\ ~row.IsRecommended /\ ~row.IsLegacyOnly

IsSpecific(row) == ~row.IsCritical /\ ~row.IsRecommended
-----------------------------------------------------------------------------
Init ==
  /\ cpu \in CPUTypes
  /\ pass = "idle"
  /\ i = 0
  /\ patches = <<>>

(* Mutant: the result of an earlier call is kept.                          *)
CallKeepingList(c) ==
  /\ pass \in {"idle", "returned"}
  /\ cpu' = c
  /\ pass' = "critical"
  /\ i' = 0
  /\ UNCHANGED patches

Call(c) ==
  /\ pass \in {"idle", "returned"}
  /\ cpu' = c
  /\ pass' = "critical"
  /\ i' = 0
  /\ patches' = <<>>

(* A row the current pass is for: whether it applies decides.  The first   *)
(* pass does not look for an earlier entry of the same name.               *)
Consider(row) ==
  \/ /\ "yes" \in PatchAppliesToCPU(row, cpu)
     /\ IF pass # "critical" /\ AlreadyAdded(row)
        THEN UNCHANGED patches ELSE AddPatch(row)
     /\ i' = i + 1
     /\ UNCHANGED <<cpu, pass>>
  \/ /\ "no" \in PatchAppliesToCPU(row, cpu)
     /\ i' = i + 1
     /\ UNCHANGED <<cpu, pass, patches>>
  \/ /\ "fault" \in PatchAppliesToCPU(row, cpu)
     /\ pass' = "fault"
     /\ UNCHANGED <<cpu, i, patches>>

(* Mutants: a row that is skipped takes the next one with it, or is looked *)
(* at for ever.                                                            *)
SkipTwo ==
  /\ i' = i + 2
  /\ UNCHANGED <<cpu, pass, patches>>

SkipNone == UNCHANGED vars

Skip ==
  /\ i' = i + 1
  /\ UNCHANGED <<cpu, pass, patches>>

(* Mutant: the quota is checked after a patch is added.                    *)
OneTooMany == i < Len(Database) /\ Len(patches) <= MaxPatches

(* The condition of the loops of the passes after the first.               *)
QuotaLeft == i < Len(Database) /\ Len(patches) < MaxPatches

CriticalStep ==
  /\ pass = "critical"
  /\ i < Len(Database)
  /\ LET row == Database[i + 1]
     IN  IF row.IsCritical THEN Consider(row) ELSE Skip

RecommendedStep ==
  /\ pass = "recommended"
  /\ QuotaLeft
  /\ LET row == Database[i + 1]
     IN  IF row.IsRecommended THEN Consider(row) ELSE Skip

SpecificStep ==
  /\ pass = "specific"
  /\ QuotaLeft
  /\ LET row == Database[i + 1]
     IN  IF IsSpecific(row) THEN Consider(row) ELSE Skip

LegacyStep ==
  /\ pass = "legacy"
  /\ QuotaLeft
  /\ LET row == Database[i + 1]
     IN  IF row.IsLegacyOnly THEN Consider(row) ELSE Skip

(* Mutant: the next pass starts where the last one ended.                  *)
EndPassKeepingIndex ==
  /\ IF pass = "critical" THEN i = Len(Database) ELSE ~QuotaLeft
  /\ \/ pass = "critical" /\ pass' = "recommended"
     \/ pass = "recommended" /\ pass' = "specific"
     \/ pass = "specific" /\ pass' = IF cpu \in LegacyCPUs THEN "legacy" ELSE "returned"
     \/ pass = "legacy" /\ pass' = "returned"
  /\ UNCHANGED <<cpu, i, patches>>

(* Mutant: the recommended patches come after the others.                  *)
EndPassSpecificFirst ==
  /\ IF pass = "critical" THEN i = Len(Database) ELSE ~QuotaLeft
  /\ \/ pass = "critical" /\ pass' = "specific"
     \/ pass = "specific" /\ pass' = "recommended"
     \/ pass = "recommended" /\ pass' = IF cpu \in LegacyCPUs THEN "legacy" ELSE "returned"
     \/ pass = "legacy" /\ pass' = "returned"
  /\ i' = 0
  /\ UNCHANGED <<cpu, patches>>

(* A pass ends with the table or the quota, and the last one is entered    *)
(* only for an old processor.                                              *)
EndPass ==
  /\ IF pass = "critical" THEN i = Len(Database) ELSE ~QuotaLeft
  /\ \/ pass = "critical" /\ pass' = "recommended"
     \/ pass = "recommended" /\ pass' = "specific"
     \/ pass = "specific" /\ pass' = IF cpu \in LegacyCPUs THEN "legacy" ELSE "returned"
     \/ pass = "legacy" /\ pass' = "returned"
  /\ i' = 0
  /\ UNCHANGED <<cpu, patches>>

SelectPatches ==
  CriticalStep \/ RecommendedStep \/ SpecificStep \/ LegacyStep \/ EndPass

Next == (\E c \in CPUTypes : Call(c)) \/ SelectPatches

Spec == Init /\ [][Next]_vars

(* A call that has been entered keeps running.                             *)
FairSpec == Spec /\ WF_vars(SelectPatches)
-----------------------------------------------------------------------------
PatchesListed == {patches[n].Name : n \in DOMAIN patches}

(* The rows that apply to the processor for certain.                       *)
Applicable == {r \in Rows : Named(Database[r], cpu)}

(* Type invariant.                                                         *)
TypeOK ==
  /\ cpu \in CPUTypes
  /\ pass \in {"idle", "critical", "recommended", "specific", "legacy",
               "returned", "fault"}
  /\ i \in 0 .. Len(Database)
  /\ patches \in Seq([Name : PatchNames, Priority : Nat])

(* The array of PATCH_LIST is never written past its end, although the     *)
(* code never compares Count with its size.                                *)
FitsInList == Len(patches) <= PatchCapacity

(* No patch is listed twice, although the first pass does not look for an  *)
(* earlier entry and the table holds two rows of one name.                 *)
NoDuplicatePatches ==
  \A m, n \in DOMAIN patches : patches[m].Name = patches[n].Name => m = n

(* The quota is exceeded by critical patches or not at all.                *)
OnlyCriticalsExceedQuota ==
  Len(patches) > MaxPatches =>
    \A n \in DOMAIN patches :
      \E r \in Rows : /\ Database[r].IsCritical
                      /\ Database[r].PatchName = patches[n].Name

(* When SelectPatches returns, every critical patch for the processor is   *)
(* listed, and any other patch for it is missing only for want of quota.   *)
MissingOnlyForQuota ==
  pass = "returned" =>
    \A r \in Applicable :
      \/ Database[r].PatchName \in PatchesListed
      \/ ~Database[r].IsCritical /\ Len(patches) >= MaxPatches

(* The fourth pass, "Legacy patches for old hardware", adds no patch: what *)
(* it may add the third pass has added, or the quota is used up.           *)
LegacyPassAddsNothing == [][pass = "legacy" => UNCHANGED patches]_vars

(* No scan of a TargetCPU array leaves it: the rows without room for the   *)
(* terminator are looked at by passes that never start.                    *)
NoOverRead == pass # "fault"

(* What NoOverRead asks of the table.  The patches that are for a          *)
(* processor for certain and whose rows the passes reach before row r ...  *)
Ahead(c, r) ==
  {Database[q].PatchName : q \in
    {p \in Rows :
      /\ Named(Database[p], c)
      /\ \/ Database[p].IsCritical
         \/ Database[p].IsRecommended /\ (IsSpecific(Database[r]) \/ p < r)
         \/ IsSpecific(Database[p]) /\ IsSpecific(Database[r]) /\ p < r}}

(* ... use up its quota, if the scan of the array of that row would leave  *)
(* the array.                                                              *)
QuotaUsedAhead ==
  \A c \in CPUTypes, r \in Rows :
    Named(Database[r], c) \/ Terminated(Database[r])
      \/ Cardinality(Ahead(c, r)) >= CalculatePatchCount(c)

(* What the processor needs of each class of patches: the critical ones,   *)
(* the recommended ones, and the others that are for it.                   *)
InClass(k, row) ==
  \/ k = 1 /\ row.IsCritical
  \/ k = 2 /\ row.IsRecommended
  \/ k = 3 /\ IsSpecific(row)

Wanted ==
  [k \in 1 .. 3 |->
    {Database[r].PatchName : r \in {q \in Applicable : InClass(k, Database[q])}}]

Promise ==
  INSTANCE PatchSelection WITH
    Patches <- PatchNames,
    wanted <- Wanted,
    quota <- MaxPatches,
    chosen <- [n \in DOMAIN patches |-> patches[n].Name],
    running <- pass \notin {"idle", "returned"}

(* SelectPatches keeps the promise of PatchSelection: a patch of a class   *)
(* is never taken while one of a more important class is missing.          *)
ImplementsSelection == Promise!Spec

(* Every call returns.                                                     *)
CallReturns == pass = "critical" ~> pass = "returned"

(* "Legacy CPUs get more patches (LegacyCommpage, RTC, etc.)": an old      *)
(* processor gets the patches marked for old processors only.              *)
LegacyCPUsGetLegacyPatches ==
  pass = "returned" /\ cpu \in LegacyCPUs =>
    \A r \in Applicable :
      Database[r].IsLegacyOnly => Database[r].PatchName \in PatchesListed
=============================================================================
