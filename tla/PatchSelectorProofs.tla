-------------------------- MODULE PatchSelectorProofs --------------------------
(***************************************************************************)
(* Proofs about PatchSelector for every table, processor and array size    *)
(* that meets its assumptions.                                             *)
(***************************************************************************)
EXTENDS PatchSelector, FiniteSetTheorems, TLAPS

Entry == [Name : PatchNames, Priority : Nat]

(* Every patch listed by the first pass comes from a row it has looked at. *)
FromCriticalRows(bound) ==
  \A n \in DOMAIN patches :
    \E r \in Rows : /\ r <= bound
                    /\ Database[r].IsCritical
                    /\ Named(Database[r], cpu)
                    /\ Database[r].PatchName = patches[n].Name

ListIsCritical == pass = "critical" => FromCriticalRows(i)

(* The first pass adds at most one entry per row, and each later one stops *)
(* at the quota.                                                           *)
RoomLeft ==
  /\ pass = "critical" => Len(patches) <= i
  /\ pass = "idle" => patches = <<>>
  /\ Len(patches) <= PatchCapacity

Listed(r) == Database[r].PatchName \in PatchesListed

QuotaUsed == Len(patches) >= MaxPatches

(* The rows each pass has looked at are listed: the critical ones without  *)
(* condition, the others while the quota lasts.                            *)
CriticalDone ==
  \A r \in Applicable :
    /\ Database[r].IsCritical
    /\ pass # "idle"
    /\ pass = "critical" => r <= i
    => Listed(r)

RecommendedDone ==
  \A r \in Applicable :
    /\ Database[r].IsRecommended
    /\ \/ pass = "recommended" /\ r <= i
       \/ pass \in {"specific", "legacy", "returned"}
    => Listed(r) \/ QuotaUsed

SpecificDone ==
  \A r \in Applicable :
    /\ IsSpecific(Database[r])
    /\ \/ pass = "specific" /\ r <= i
       \/ pass \in {"legacy", "returned"}
    => Listed(r) \/ QuotaUsed

(* The inductive invariant.                                                *)
IInv ==
  /\ TypeOK
  /\ ListIsCritical
  /\ RoomLeft
  /\ NoDuplicatePatches
  /\ OnlyCriticalsExceedQuota
  /\ CriticalDone
  /\ RecommendedDone
  /\ SpecificDone
-----------------------------------------------------------------------------
(* The quota of every processor is a number PATCH_LIST has room for.       *)
LEMMA QuotaFits ==
  \A c : CalculatePatchCount(c) \in Nat /\ CalculatePatchCount(c) <= PatchCapacity
  BY CapacityAssumption DEF CalculatePatchCount

(* The rows of the table are numbered from one.                            *)
LEMMA TableLength == Len(Database) \in Nat /\ Rows = 1 .. Len(Database)
  BY DatabaseAssumption DEF Rows

(* A row of the table has the type DatabaseAssumption gives it.            *)
LEMMA RowType ==
  ASSUME NEW r \in Rows
  PROVE  /\ Database[r] \in [PatchName : STRING, TargetCPU : Seq(STRING),
                    IsCritical : BOOLEAN, IsRecommended : BOOLEAN,
                    IsLegacyOnly : BOOLEAN, Priority : Nat]
         /\ Database[r].PatchName \in PatchNames
         /\ Database[r].Priority \in Nat
  <1> DEFINE T == [PatchName : STRING, TargetCPU : Seq(STRING),
                   IsCritical : BOOLEAN, IsRecommended : BOOLEAN,
                   IsLegacyOnly : BOOLEAN, Priority : Nat]
  <1>1. Database \in Seq(T)
    BY DatabaseAssumption
  <1>2. Database[r] \in T
    <2> HIDE DEF T
    <2> QED BY <1>1, TableLength DEF Rows
  <1>3. Database[r].PatchName \in PatchNames
    BY DEF PatchNames
  <1> QED BY <1>2, <1>3

(* Adding an entry keeps the earlier ones.                                 *)
LEMMA Appended ==
  ASSUME patches \in Seq(Entry), NEW row,
         row.PatchName \in PatchNames, row.Priority \in Nat, AddPatch(row)
  PROVE  /\ patches' \in Seq(Entry)
         /\ Len(patches') = Len(patches) + 1
         /\ DOMAIN patches' = 1 .. Len(patches) + 1
         /\ DOMAIN patches = 1 .. Len(patches)
         /\ \A n \in DOMAIN patches : patches'[n] = patches[n]
         /\ patches'[Len(patches) + 1].Name = row.PatchName
         /\ PatchesListed' = PatchesListed \cup {row.PatchName}
  <1> DEFINE e == [Name |-> row.PatchName, Priority |-> row.Priority]
  <1>1. e \in Entry /\ e.Name = row.PatchName
    BY DEF Entry
  <1>2. patches' = Append(patches, e)
    BY DEF AddPatch
  <1> HIDE DEF e
  <1>3. /\ patches' \in Seq(Entry)
        /\ Len(patches') = Len(patches) + 1
        /\ DOMAIN patches' = 1 .. Len(patches) + 1
        /\ DOMAIN patches = 1 .. Len(patches)
        /\ Len(patches) \in Nat
        /\ \A n \in DOMAIN patches : patches'[n] = patches[n]
        /\ patches'[Len(patches) + 1] = e
    BY <1>1, <1>2
  <1>4. PatchesListed' = PatchesListed \cup {row.PatchName}
    BY <1>1, <1>3 DEF PatchesListed
  <1> QED BY <1>1, <1>3, <1>4

(* A step of Consider on a row whose scan ends inside the array either     *)
(* adds the patch, because the row applies, or changes nothing but the     *)
(* index.                                                                  *)
LEMMA InsideRow ==
  ASSUME NEW row, Named(row, cpu) \/ Terminated(row), Consider(row)
  PROVE  /\ UNCHANGED <<cpu, pass>>
         /\ i' = i + 1
         /\ \/ /\ Named(row, cpu)
               /\ \/ AddPatch(row) /\ (pass = "critical" \/ ~AlreadyAdded(row))
                  \/ UNCHANGED patches /\ pass # "critical" /\ AlreadyAdded(row)
            \/ ~Named(row, cpu) /\ UNCHANGED patches
  BY DEF Consider, PatchAppliesToCPU

(* A row whose name is found in the list has its patch listed.             *)
LEMMA AlreadyListed ==
  ASSUME NEW row
  PROVE  AlreadyAdded(row) <=> row.PatchName \in PatchesListed
  BY DEF AlreadyAdded, PatchesListed
-----------------------------------------------------------------------------
(* The inductive invariant holds initially.                                *)
LEMMA InitIInv == Init => IInv
  <1> SUFFICES ASSUME Init PROVE IInv
    OBVIOUS
  <1> USE DEF Init
  <1>1. TypeOK
    BY TableLength DEF TypeOK
  <1>2. ListIsCritical /\ NoDuplicatePatches
    BY DEF ListIsCritical, NoDuplicatePatches
  <1>3. RoomLeft
    BY CapacityAssumption DEF RoomLeft
  <1>4. OnlyCriticalsExceedQuota
    BY QuotaFits DEF OnlyCriticalsExceedQuota, MaxPatches
  <1>5. CriticalDone /\ RecommendedDone /\ SpecificDone
    BY DEF CriticalDone, RecommendedDone, SpecificDone
  <1> QED BY <1>1, <1>2, <1>3, <1>4, <1>5 DEF IInv

(* A call starts from an empty list.                                       *)
LEMMA CallIInv ==
  ASSUME IInv, NEW c \in CPUTypes, Call(c)
  PROVE  IInv'
  <1> USE DEF Call
  <1>1. TypeOK'
    BY TableLength DEF TypeOK
  <1>2. ListIsCritical' /\ NoDuplicatePatches'
    BY DEF ListIsCritical, NoDuplicatePatches, FromCriticalRows
  <1>3. RoomLeft'
    BY CapacityAssumption DEF RoomLeft
  <1>4. OnlyCriticalsExceedQuota'
    BY QuotaFits DEF OnlyCriticalsExceedQuota, MaxPatches
  <1>5. CriticalDone'
    BY TableLength DEF CriticalDone, Applicable
  <1>6. RecommendedDone' /\ SpecificDone'
    BY DEF RecommendedDone, SpecificDone
  <1> QED BY <1>1, <1>2, <1>3, <1>4, <1>5, <1>6 DEF IInv
-----------------------------------------------------------------------------
(* An iteration that adds the patch of the row it looks at.                *)
LEMMA AddIInv ==
  ASSUME IInv, i < Len(Database), i' = i + 1, UNCHANGED <<cpu, pass>>,
         pass \in {"critical", "recommended", "specific", "legacy"},
         AddPatch(Database[i + 1]),
         \/ /\ pass = "critical"
            /\ Database[i + 1].IsCritical
            /\ Named(Database[i + 1], cpu)
         \/ /\ pass # "critical"
            /\ ~AlreadyAdded(Database[i + 1])
            /\ Len(patches) < MaxPatches
  PROVE  IInv'
  <1> DEFINE row == Database[i + 1]
  <1>1. /\ i \in 0 .. Len(Database)
        /\ Len(Database) \in Nat
        /\ i + 1 \in Rows
        /\ patches \in Seq(Entry)
        /\ Len(patches) \in Nat
    BY TableLength DEF IInv, TypeOK, Entry
  <1>2. row.PatchName \in PatchNames /\ row.Priority \in Nat
    BY <1>1, RowType
  <1>3. /\ patches' \in Seq(Entry)
        /\ Len(patches') = Len(patches) + 1
        /\ DOMAIN patches' = 1 .. Len(patches) + 1
        /\ DOMAIN patches = 1 .. Len(patches)
        /\ \A n \in DOMAIN patches : patches'[n] = patches[n]
        /\ patches'[Len(patches) + 1].Name = row.PatchName
        /\ PatchesListed' = PatchesListed \cup {row.PatchName}
    BY <1>1, <1>2, Appended
  <1>4. MaxPatches' = MaxPatches /\ MaxPatches \in Nat /\ MaxPatches <= PatchCapacity
    BY QuotaFits DEF MaxPatches
  <1>5. Applicable' = Applicable
    BY DEF Applicable
  <1>6. TypeOK'
    BY <1>1, <1>3 DEF IInv, TypeOK, Entry
  <1>7. pass = "critical" => FromCriticalRows(i)'
    <2> SUFFICES ASSUME pass = "critical"
                 PROVE  \A n \in DOMAIN patches' :
                          \E r \in Rows : /\ r <= i + 1
                                          /\ Database[r].IsCritical
                                          /\ Named(Database[r], cpu)
                                          /\ Database[r].PatchName = patches'[n].Name
      BY DEF FromCriticalRows
    <2> TAKE n \in DOMAIN patches'
    <2>1. CASE n \in DOMAIN patches
      BY <2>1, <1>1, <1>3 DEF IInv, ListIsCritical, FromCriticalRows, Rows
    <2>2. CASE n = Len(patches) + 1
      BY <2>2, <1>1, <1>3
    <2> QED BY <2>1, <2>2, <1>1, <1>3
  <1>8. ListIsCritical'
    BY <1>7 DEF ListIsCritical, FromCriticalRows
  <1>9. RoomLeft'
    BY <1>1, <1>3, <1>4, CapacityAssumption DEF IInv, RoomLeft
  <1>10. row.PatchName \notin PatchesListed
    <2>1. CASE pass = "critical"
      <3> SUFFICES ASSUME NEW n \in DOMAIN patches,
                          row.PatchName = patches[n].Name
                   PROVE  FALSE
        BY DEF PatchesListed
      <3>1. PICK r \in Rows : /\ r <= i
                              /\ Database[r].IsCritical
                              /\ Named(Database[r], cpu)
                              /\ Database[r].PatchName = patches[n].Name
        BY <2>1 DEF IInv, ListIsCritical, FromCriticalRows
      <3>2. r = i + 1
        BY <3>1, <2>1, <1>1, CriticalNamesAssumption DEF IInv, TypeOK
      <3> QED BY <3>1, <3>2, <1>1, TableLength
    <2>2. CASE pass # "critical"
      BY <2>2, AlreadyListed
    <2> QED BY <2>1, <2>2
  <1>11. NoDuplicatePatches'
    <2> SUFFICES ASSUME NEW m \in DOMAIN patches', NEW n \in DOMAIN patches',
                        patches'[m].Name = patches'[n].Name
                 PROVE  m = n
      BY DEF NoDuplicatePatches
    <2>1. CASE m \in DOMAIN patches /\ n \in DOMAIN patches
      BY <2>1, <1>3 DEF IInv, NoDuplicatePatches
    <2>2. CASE m = Len(patches) + 1 \/ n = Len(patches) + 1
      BY <2>2, <1>1, <1>3, <1>10 DEF PatchesListed
    <2> QED BY <2>1, <2>2, <1>1, <1>3
  <1>12. OnlyCriticalsExceedQuota'
    <2>1. CASE pass = "critical"
      BY <2>1, <1>7 DEF OnlyCriticalsExceedQuota, FromCriticalRows
    <2>2. CASE pass # "critical"
      BY <2>2, <1>1, <1>3, <1>4 DEF OnlyCriticalsExceedQuota
    <2> QED BY <2>1, <2>2
  <1>13. \A r \in Rows : Listed(r) \/ r = i + 1 => Listed(r)'
    BY <1>3 DEF Listed
  <1>14. QuotaUsed => QuotaUsed'
    BY <1>1, <1>3, <1>4 DEF QuotaUsed
  <1>15. \A r \in Applicable : r \in Rows /\ (r <= i + 1 => r <= i \/ r = i + 1)
    BY <1>1, TableLength DEF Applicable
  <1>16. CriticalDone'
    BY <1>5, <1>13, <1>15 DEF IInv, CriticalDone
  <1>17. RecommendedDone'
    BY <1>5, <1>13, <1>14, <1>15 DEF IInv, RecommendedDone
  <1>18. SpecificDone'
    BY <1>5, <1>13, <1>14, <1>15 DEF IInv, SpecificDone
  <1> QED BY <1>6, <1>8, <1>9, <1>11, <1>12, <1>16, <1>17, <1>18 DEF IInv

(* An iteration that leaves the list alone: its row does not apply, is of  *)
(* no concern to the pass, or is listed already.                           *)
LEMMA PassOverIInv ==
  ASSUME IInv, i < Len(Database), i' = i + 1, UNCHANGED <<cpu, pass, patches>>,
         pass \in {"critical", "recommended", "specific", "legacy"},
         Named(Database[i + 1], cpu) =>
           /\ pass = "critical" => ~Database[i + 1].IsCritical
           /\ pass = "recommended" /\ Database[i + 1].IsRecommended => Listed(i + 1)
           /\ pass = "specific" /\ IsSpecific(Database[i + 1]) => Listed(i + 1)
  PROVE  IInv'
  <1>1. /\ i \in 0 .. Len(Database)
        /\ Len(Database) \in Nat
        /\ i + 1 \in Rows
        /\ Len(patches) \in Nat
    BY TableLength DEF IInv, TypeOK
  <1>2. TypeOK'
    BY <1>1 DEF IInv, TypeOK
  <1>3. ListIsCritical'
    <2> SUFFICES ASSUME pass = "critical", NEW n \in DOMAIN patches
                 PROVE  \E r \in Rows : /\ r <= i + 1
                                       /\ Database[r].IsCritical
                                       /\ Named(Database[r], cpu)
                                       /\ Database[r].PatchName = patches[n].Name
      BY DEF ListIsCritical, FromCriticalRows
    <2>1. PICK r \in Rows : /\ r <= i
                            /\ Database[r].IsCritical
                            /\ Named(Database[r], cpu)
                            /\ Database[r].PatchName = patches[n].Name
      BY DEF IInv, ListIsCritical, FromCriticalRows
    <2>2. r <= i + 1
      BY <2>1, <1>1, TableLength
    <2> QED BY <2>1, <2>2
  <1>4. RoomLeft'
    BY <1>1 DEF IInv, RoomLeft
  <1>5. NoDuplicatePatches' /\ OnlyCriticalsExceedQuota'
    BY DEF IInv, NoDuplicatePatches, OnlyCriticalsExceedQuota, MaxPatches
  <1>6. /\ Applicable' = Applicable
        /\ \A r : Listed(r)' = Listed(r)
        /\ QuotaUsed' = QuotaUsed
    BY DEF Applicable, Listed, PatchesListed, QuotaUsed, MaxPatches
  <1>7. \A r \in Applicable :
          Named(Database[r], cpu) /\ (r <= i + 1 => r <= i \/ r = i + 1)
    BY <1>1, TableLength DEF Applicable
  <1>8. CriticalDone'
    BY <1>6, <1>7 DEF IInv, CriticalDone
  <1>9. RecommendedDone'
    BY <1>6, <1>7 DEF IInv, RecommendedDone
  <1>10. SpecificDone'
    BY <1>6, <1>7 DEF IInv, SpecificDone
  <1> QED BY <1>2, <1>3, <1>4, <1>5, <1>8, <1>9, <1>10 DEF IInv

(* A fault stops a pass after the first.                                   *)
LEMMA FaultIInv ==
  ASSUME IInv, pass \notin {"critical", "idle"}, pass' = "fault",
         UNCHANGED <<cpu, i, patches>>
  PROVE  IInv'
  BY DEF IInv, TypeOK, ListIsCritical, RoomLeft, NoDuplicatePatches,
         OnlyCriticalsExceedQuota, MaxPatches, CriticalDone, RecommendedDone,
         SpecificDone, Applicable, Listed, PatchesListed

(* The next pass starts when a pass has seen every row or the quota is     *)
(* used up.                                                                *)
LEMMA EndPassIInv ==
  ASSUME IInv, EndPass
  PROVE  IInv'
  <1> USE DEF EndPass
  <1>1. /\ i \in 0 .. Len(Database)
        /\ Len(Database) \in Nat
        /\ Len(patches) \in Nat
    BY TableLength DEF IInv, TypeOK
  <1>2. MaxPatches \in Nat
    BY QuotaFits DEF MaxPatches
  <1>3. \/ pass = "critical" /\ i = Len(Database)
        \/ /\ pass \in {"recommended", "specific", "legacy"}
           /\ i = Len(Database) \/ QuotaUsed
    BY <1>1, <1>2 DEF QuotaLeft, QuotaUsed
  <1>4. TypeOK' /\ ListIsCritical' /\ RoomLeft' /\ NoDuplicatePatches'
          /\ OnlyCriticalsExceedQuota'
    BY <1>1 DEF IInv, TypeOK, ListIsCritical, RoomLeft, NoDuplicatePatches,
                OnlyCriticalsExceedQuota, MaxPatches
  <1>5. /\ Applicable' = Applicable
        /\ \A r : Listed(r)' = Listed(r)
        /\ QuotaUsed' = QuotaUsed
    BY DEF Applicable, Listed, PatchesListed, QuotaUsed, MaxPatches
  <1>6. \A r \in Applicable : r <= Len(Database) /\ ~(r <= 0)
    BY TableLength DEF Applicable
  <1>7. CriticalDone'
    BY <1>3, <1>5, <1>6 DEF IInv, CriticalDone
  <1>8. RecommendedDone'
    BY <1>3, <1>5, <1>6 DEF IInv, RecommendedDone
  <1>9. SpecificDone'
    BY <1>3, <1>5, <1>6 DEF IInv, SpecificDone
  <1> QED BY <1>4, <1>7, <1>8, <1>9 DEF IInv

(* What an iteration of a pass does with a row the pass is for: it adds    *)
(* the patch, passes over it, or faults.                                   *)
LEMMA ConsiderIInv ==
  ASSUME IInv, i < Len(Database), Consider(Database[i + 1]),
         pass \in {"critical", "recommended", "specific", "legacy"},
         pass = "critical" => Database[i + 1].IsCritical,
         pass # "critical" => Len(patches) < MaxPatches
  PROVE  IInv'
  <1> DEFINE row == Database[i + 1]
  <1>1. i + 1 \in Rows
    BY TableLength DEF IInv, TypeOK
  <1>2. pass = "critical" => Terminated(row)
    BY <1>1, TerminatedAssumption
  <1>3. CASE AddPatch(row) /\ i' = i + 1 /\ UNCHANGED <<cpu, pass>>
               /\ "yes" \in PatchAppliesToCPU(row, cpu)
               /\ (pass = "critical" \/ ~AlreadyAdded(row))
    <2>1. pass = "critical" => Named(row, cpu)
      BY <1>2, <1>3 DEF PatchAppliesToCPU
    <2> QED BY <2>1, <1>3, AddIInv
  <1>4. CASE UNCHANGED patches /\ i' = i + 1 /\ UNCHANGED <<cpu, pass>>
               /\ pass # "critical" /\ AlreadyAdded(row)
    <2>1. Listed(i + 1)
      BY <1>4, AlreadyListed DEF Listed
    <2> QED BY <2>1, <1>4, PassOverIInv
  <1>5. CASE UNCHANGED patches /\ i' = i + 1 /\ UNCHANGED <<cpu, pass>>
               /\ "no" \in PatchAppliesToCPU(row, cpu)
    <2>1. ~Named(row, cpu)
      BY <1>5 DEF PatchAppliesToCPU
    <2> QED BY <2>1, <1>5, PassOverIInv
  <1>6. CASE pass' = "fault" /\ UNCHANGED <<cpu, i, patches>>
               /\ "fault" \in PatchAppliesToCPU(row, cpu)
    <2>1. pass # "critical"
      BY <1>2, <1>6 DEF PatchAppliesToCPU
    <2> QED BY <2>1, <1>6, FaultIInv
  <1> QED BY <1>3, <1>4, <1>5, <1>6 DEF Consider

(* Every step preserves the inductive invariant.                           *)
LEMMA NextIInv ==
  ASSUME IInv, [Next]_vars
  PROVE  IInv'
  <1>1. ASSUME NEW c \in CPUTypes, Call(c) PROVE IInv'
    BY <1>1, CallIInv
  <1>2. CASE CriticalStep
    <2>1. CASE Database[i + 1].IsCritical
      BY <1>2, <2>1, ConsiderIInv DEF CriticalStep
    <2>2. CASE ~Database[i + 1].IsCritical
      BY <1>2, <2>2, PassOverIInv DEF CriticalStep, Skip
    <2> QED BY <2>1, <2>2
  <1>3. CASE RecommendedStep
    <2>1. CASE Database[i + 1].IsRecommended
      BY <1>3, <2>1, ConsiderIInv DEF RecommendedStep, QuotaLeft
    <2>2. CASE ~Database[i + 1].IsRecommended
      BY <1>3, <2>2, PassOverIInv DEF RecommendedStep, QuotaLeft, Skip
    <2> QED BY <2>1, <2>2
  <1>4. CASE SpecificStep
    <2>1. CASE IsSpecific(Database[i + 1])
      BY <1>4, <2>1, ConsiderIInv DEF SpecificStep, QuotaLeft
    <2>2. CASE ~IsSpecific(Database[i + 1])
      BY <1>4, <2>2, PassOverIInv DEF SpecificStep, QuotaLeft, Skip
    <2> QED BY <2>1, <2>2
  <1>5. CASE LegacyStep
    <2>1. CASE Database[i + 1].IsLegacyOnly
      BY <1>5, <2>1, ConsiderIInv DEF LegacyStep, QuotaLeft
    <2>2. CASE ~Database[i + 1].IsLegacyOnly
      BY <1>5, <2>2, PassOverIInv DEF LegacyStep, QuotaLeft, Skip
    <2> QED BY <2>1, <2>2
  <1>6. CASE EndPass
    BY <1>6, EndPassIInv
  <1>7. CASE UNCHANGED vars
    BY <1>7 DEF vars, IInv, TypeOK, ListIsCritical, FromCriticalRows, RoomLeft,
                NoDuplicatePatches, OnlyCriticalsExceedQuota, MaxPatches,
                CriticalDone, RecommendedDone, SpecificDone, Applicable,
                Listed, PatchesListed, QuotaUsed
  <1> QED BY <1>1, <1>2, <1>3, <1>4, <1>5, <1>6, <1>7 DEF Next, SelectPatches

(* The inductive invariant holds in every behaviour.                       *)
LEMMA Invariance == Spec => []IInv
  <1>1. Init => IInv
    BY InitIInv
  <1>2. IInv /\ [Next]_vars => IInv'
    BY NextIInv
  <1> QED BY <1>1, <1>2, PTL DEF Spec
-----------------------------------------------------------------------------
(* SelectPatches keeps every variable in its range.                        *)
THEOREM TypeCorrect == Spec => []TypeOK
  <1>1. IInv => TypeOK
    BY DEF IInv
  <1> QED BY <1>1, Invariance, PTL

(* No call writes past the end of PATCH_LIST if the array has room for the *)
(* table and for the largest quota.                                        *)
THEOREM PatchListFits == Spec => []FitsInList
  <1>1. IInv => FitsInList
    BY DEF IInv, RoomLeft, FitsInList
  <1> QED BY <1>1, Invariance, PTL

(* No patch is listed twice as long as a critical patch has one row per    *)
(* processor, which is what the unchecked first pass relies on.            *)
THEOREM PatchesDistinct == Spec => []NoDuplicatePatches
  <1>1. IInv => NoDuplicatePatches
    BY DEF IInv
  <1> QED BY <1>1, Invariance, PTL

(* Only critical patches take a list past its quota.                       *)
THEOREM QuotaKept == Spec => []OnlyCriticalsExceedQuota
  <1>1. IInv => OnlyCriticalsExceedQuota
    BY DEF IInv
  <1> QED BY <1>1, Invariance, PTL

(* A finished list lacks no critical patch, and lacks another patch for    *)
(* the processor only because the quota is used up.                        *)
THEOREM SelectionComplete == Spec => []MissingOnlyForQuota
  <1>1. IInv => MissingOnlyForQuota
    <2> SUFFICES ASSUME IInv, pass = "returned", NEW r \in Applicable
                 PROVE  Listed(r) \/ (~Database[r].IsCritical /\ QuotaUsed)
      BY DEF MissingOnlyForQuota, Listed, QuotaUsed
    <2>1. Database[r].IsCritical => Listed(r)
      BY DEF IInv, CriticalDone
    <2>2. Database[r].IsRecommended => Listed(r) \/ QuotaUsed
      BY DEF IInv, RecommendedDone
    <2>3. IsSpecific(Database[r]) => Listed(r) \/ QuotaUsed
      BY DEF IInv, SpecificDone
    <2> QED BY <2>1, <2>2, <2>3 DEF IsSpecific
  <1> QED BY <1>1, Invariance, PTL

(* A step of the fourth pass leaves the list alone: what it may add was a  *)
(* candidate of the passes before it.                                      *)
LEMMA LegacyUnchanged ==
  ASSUME IInv, Next, pass = "legacy"
  PROVE  UNCHANGED patches
  <1>1. CASE EndPass
    BY <1>1 DEF EndPass
  <1>2. CASE LegacyStep
    <2> DEFINE row == Database[i + 1]
    <2>1. i + 1 \in Rows
      BY <1>2, TableLength DEF LegacyStep, QuotaLeft, IInv, TypeOK
    <2>2. CASE row.IsLegacyOnly
      <3>1. Terminated(row) /\ Consider(row)
        BY <1>2, <2>1, <2>2, TerminatedAssumption DEF LegacyStep
      <3>2. Named(row, cpu) => AlreadyAdded(row)
        <4> SUFFICES ASSUME Named(row, cpu) PROVE Listed(i + 1)
          BY AlreadyListed DEF Listed
        <4>1. i + 1 \in Applicable
          BY <2>1 DEF Applicable
        <4>2. ~QuotaUsed
          <5>1. MaxPatches \in Nat /\ Len(patches) \in Nat
            BY QuotaFits DEF MaxPatches, IInv, TypeOK
          <5> QED BY <5>1, <1>2 DEF LegacyStep, QuotaLeft, QuotaUsed
        <4>3. CASE row.IsCritical
          BY <4>1, <4>3 DEF IInv, CriticalDone
        <4>4. CASE row.IsRecommended
          BY <4>1, <4>2, <4>4 DEF IInv, RecommendedDone
        <4>5. CASE IsSpecific(row)
          BY <4>1, <4>2, <4>5 DEF IInv, SpecificDone
        <4> QED BY <4>3, <4>4, <4>5 DEF IsSpecific
      <3> QED BY <3>1, <3>2, InsideRow
    <2>3. CASE ~row.IsLegacyOnly
      BY <1>2, <2>3 DEF LegacyStep, Skip
    <2> QED BY <2>2, <2>3
  <1> QED BY <1>1, <1>2 DEF Next, SelectPatches, Call, CriticalStep,
                            RecommendedStep, SpecificStep

(* The pass over the rows for old processors never adds a patch, whatever  *)
(* the table: the passes before it have added them or used the quota up.   *)
THEOREM LegacyPassIsDead == Spec => LegacyPassAddsNothing
  <1>1. IInv /\ [Next]_vars => (pass = "legacy" => UNCHANGED patches)
    BY LegacyUnchanged DEF vars
  <1> QED BY <1>1, Invariance, PTL DEF Spec, LegacyPassAddsNothing
-----------------------------------------------------------------------------
(* A list holds at most as many names as it has entries.                   *)
LEMMA NamesBounded ==
  ASSUME patches \in Seq(Entry)
  PROVE  IsFiniteSet(PatchesListed) /\ Cardinality(PatchesListed) <= Len(patches)
  <1> DEFINE D == 1 .. Len(patches)
             f == [n \in D |-> patches[n].Name]
  <1>1. Len(patches) \in Nat /\ DOMAIN patches = D
    OBVIOUS
  <1>2. IsFiniteSet(D) /\ Cardinality(D) = Len(patches)
    BY <1>1, FS_Interval
  <1>3. f \in Surjection(D, PatchesListed)
    BY <1>1 DEF Surjection, PatchesListed
  <1> HIDE DEF D, f
  <1> QED BY <1>2, <1>3, FS_Surjection

(* A pass after the first that reaches a row with quota left has listed    *)
(* every patch of the rows ahead of it.                                    *)
LEMMA AheadListed ==
  ASSUME IInv, i < Len(Database), ~QuotaUsed,
         \/ pass = "recommended" /\ ~IsSpecific(Database[i + 1])
         \/ pass = "specific"
  PROVE  Ahead(cpu, i + 1) \subseteq PatchesListed
  <1> SUFFICES ASSUME NEW p \in Rows, Named(Database[p], cpu),
                      \/ Database[p].IsCritical
                      \/ /\ Database[p].IsRecommended
                         /\ IsSpecific(Database[i + 1]) \/ p < i + 1
                      \/ /\ IsSpecific(Database[p])
                         /\ IsSpecific(Database[i + 1]) /\ p < i + 1
               PROVE  Listed(p)
    BY DEF Ahead, Listed
  <1>1. p \in Applicable
    BY DEF Applicable
  <1>2. p < i + 1 => p <= i
    BY TableLength DEF IInv, TypeOK
  <1>3. CASE Database[p].IsCritical
    BY <1>1, <1>3 DEF IInv, CriticalDone
  <1>4. CASE Database[p].IsRecommended /\ (IsSpecific(Database[i + 1]) \/ p < i + 1)
    BY <1>1, <1>2, <1>4 DEF IInv, RecommendedDone
  <1>5. CASE IsSpecific(Database[p]) /\ IsSpecific(Database[i + 1]) /\ p < i + 1
    BY <1>1, <1>2, <1>5 DEF IInv, SpecificDone
  <1> QED BY <1>3, <1>4, <1>5

(* The quota is used up ahead of every row whose array a scan would leave: *)
(* with quota left the rows ahead would all be listed, which is more names *)
(* than the list has entries.  So no row that is looked at is one of these.*)
LEMMA ScanEndsInside ==
  ASSUME QuotaUsedAhead, IInv, i < Len(Database),
         \/ pass = "critical" /\ Database[i + 1].IsCritical
         \/ /\ pass = "recommended" /\ Database[i + 1].IsRecommended
            /\ Len(patches) < MaxPatches
         \/ /\ pass = "specific" /\ IsSpecific(Database[i + 1])
            /\ Len(patches) < MaxPatches
         \/ pass = "legacy" /\ Database[i + 1].IsLegacyOnly
  PROVE  Named(Database[i + 1], cpu) \/ Terminated(Database[i + 1])
  <1> DEFINE row == Database[i + 1]
  <1>1. i + 1 \in Rows /\ cpu \in CPUTypes /\ patches \in Seq(Entry)
    BY TableLength DEF IInv, TypeOK, Entry
  <1> SUFFICES ASSUME ~Named(row, cpu), ~Terminated(row) PROVE FALSE
    OBVIOUS
  <1>2. ~row.IsCritical /\ ~row.IsLegacyOnly
    BY <1>1, TerminatedAssumption
  <1>3. \/ pass = "recommended" /\ row.IsRecommended
        \/ pass = "specific" /\ IsSpecific(row)
    BY <1>2
  <1>4. MaxPatches \in Nat /\ Len(patches) \in Nat /\ Len(patches) < MaxPatches
    BY <1>1, <1>2, QuotaFits DEF MaxPatches
  <1>5. Ahead(cpu, i + 1) \subseteq PatchesListed
    BY <1>3, <1>4, AheadListed DEF QuotaUsed, IsSpecific
  <1>6. IsFiniteSet(PatchesListed) /\ Cardinality(PatchesListed) <= Len(patches)
    BY <1>1, NamesBounded
  <1>7. /\ Cardinality(Ahead(cpu, i + 1)) <= Cardinality(PatchesListed)
        /\ Cardinality(Ahead(cpu, i + 1)) \in Nat
        /\ Cardinality(PatchesListed) \in Nat
    BY <1>5, <1>6, FS_Subset, FS_CardinalityType
  <1>8. Cardinality(Ahead(cpu, i + 1)) >= MaxPatches
    BY <1>1 DEF QuotaUsedAhead, MaxPatches
  <1> QED BY <1>4, <1>6, <1>7, <1>8

(* An iteration that looks at such a row does not fault.                   *)
LEMMA InsideSafe ==
  ASSUME NEW row, Named(row, cpu) \/ Terminated(row), Consider(row), NoOverRead
  PROVE  NoOverRead'
  BY InsideRow DEF NoOverRead

(* No scan of a TargetCPU array leaves the array, for every table in which *)
(* the patches ahead of an overfull row use up the quota.                  *)
THEOREM ScansStayInside == QuotaUsedAhead => (Spec => []NoOverRead)
  <1> SUFFICES ASSUME QuotaUsedAhead PROVE Spec => []NoOverRead
    OBVIOUS
  <1>1. Init => NoOverRead
    BY DEF Init, NoOverRead
  <1>2. IInv /\ NoOverRead /\ [Next]_vars => NoOverRead'
    <2> SUFFICES ASSUME IInv, NoOverRead, [Next]_vars PROVE NoOverRead'
      OBVIOUS
    <2>1. ASSUME NEW c \in CPUTypes, Call(c) PROVE NoOverRead'
      BY <2>1 DEF Call, NoOverRead
    <2>2. CASE CriticalStep
      BY <2>2, ScanEndsInside, InsideSafe DEF CriticalStep, Skip, NoOverRead
    <2>3. CASE RecommendedStep
      BY <2>3, ScanEndsInside, InsideSafe
         DEF RecommendedStep, QuotaLeft, Skip, NoOverRead
    <2>4. CASE SpecificStep
      BY <2>4, ScanEndsInside, InsideSafe
         DEF SpecificStep, QuotaLeft, Skip, NoOverRead
    <2>5. CASE LegacyStep
      BY <2>5, ScanEndsInside, InsideSafe
         DEF LegacyStep, QuotaLeft, Skip, NoOverRead
    <2>6. CASE EndPass
      BY <2>6 DEF EndPass, NoOverRead
    <2>7. CASE UNCHANGED vars
      BY <2>7 DEF vars, NoOverRead
    <2> QED BY <2>1, <2>2, <2>3, <2>4, <2>5, <2>6, <2>7 DEF Next, SelectPatches
  <1> QED BY <1>1, <1>2, Invariance, PTL DEF Spec
-----------------------------------------------------------------------------
(* The steps a call may still take.                                        *)
StepsLeft ==
  LET n == Len(Database) + 1
  IN  CASE pass = "critical" -> 4 * n - i
        [] pass = "recommended" -> 3 * n - i
        [] pass = "specific" -> 2 * n - i
        [] pass = "legacy" -> n - i
        [] OTHER -> 0

Shrinks ==
  /\ StepsLeft' < StepsLeft
  /\ StepsLeft' \in Nat
  /\ StepsLeft <= 4 * (Len(Database) + 1)

(* Every step of a call leaves fewer to come, and there are never more     *)
(* than four passes over the table have: no call runs for ever.            *)
CallsShrink == [][SelectPatches => Shrinks]_vars

(* An iteration moves on to the next row, or the scan faults.              *)
LEMMA IterationShrinks ==
  ASSUME IInv, i < Len(Database),
         pass \in {"critical", "recommended", "specific", "legacy"},
         \/ i' = i + 1 /\ pass' = pass
         \/ pass' = "fault"
  PROVE  Shrinks
  <1>1. Len(Database) \in Nat /\ i \in 0 .. Len(Database)
    BY TableLength DEF IInv, TypeOK
  <1>2. CASE i' = i + 1 /\ pass' = pass
    BY <1>1, <1>2 DEF Shrinks, StepsLeft
  <1>3. CASE pass' = "fault"
    BY <1>1, <1>3 DEF Shrinks, StepsLeft
  <1> QED BY <1>2, <1>3

(* No call of SelectPatches takes more steps than four passes over the     *)
(* table, however long it is.                                              *)
THEOREM CallsAreBounded == Spec => CallsShrink
  <1>1. ASSUME IInv, SelectPatches PROVE Shrinks
    <2>1. CASE CriticalStep
      BY <1>1, <2>1, IterationShrinks DEF CriticalStep, Consider, Skip
    <2>2. CASE RecommendedStep
      BY <1>1, <2>2, IterationShrinks DEF RecommendedStep, QuotaLeft, Consider, Skip
    <2>3. CASE SpecificStep
      BY <1>1, <2>3, IterationShrinks DEF SpecificStep, QuotaLeft, Consider, Skip
    <2>4. CASE LegacyStep
      BY <1>1, <2>4, IterationShrinks DEF LegacyStep, QuotaLeft, Consider, Skip
    <2>5. CASE EndPass
      <3>1. Len(Database) \in Nat /\ i \in 0 .. Len(Database)
        BY <1>1, TableLength DEF IInv, TypeOK
      <3>2. i' = 0 /\ \/ pass = "critical" /\ pass' = "recommended"
                      \/ pass = "recommended" /\ pass' = "specific"
                      \/ pass = "specific" /\ pass' \in {"legacy", "returned"}
                      \/ pass = "legacy" /\ pass' = "returned"
        BY <2>5 DEF EndPass
      <3> QED BY <3>1, <3>2 DEF Shrinks, StepsLeft
    <2> QED BY <1>1, <2>1, <2>2, <2>3, <2>4, <2>5 DEF SelectPatches
  <1>2. IInv /\ [Next]_vars => [SelectPatches => Shrinks]_vars
    BY <1>1
  <1> QED BY <1>2, Invariance, PTL DEF Spec, CallsShrink
-----------------------------------------------------------------------------
Chosen == [n \in DOMAIN patches |-> patches[n].Name]
Running == pass \notin {"idle", "returned"}

(* The names of the list, in the terms of the abstract selection.          *)
LEMMA ChosenListed ==
  ASSUME patches \in Seq(Entry)
  PROVE  /\ Chosen \in Seq(PatchNames)
         /\ Len(Chosen) = Len(patches)
         /\ {Chosen[n] : n \in DOMAIN Chosen} = PatchesListed
  <1>1. /\ Len(patches) \in Nat
        /\ DOMAIN patches = 1 .. Len(patches)
        /\ \A n \in 1 .. Len(patches) : patches[n] \in Entry
    OBVIOUS
  <1>2. Chosen \in [1 .. Len(patches) -> PatchNames]
    BY <1>1 DEF Chosen, Entry
  <1>3. {Chosen[n] : n \in DOMAIN Chosen} = PatchesListed
    BY <1>1 DEF Chosen, PatchesListed
  <1>4. Chosen \in Seq(PatchNames) /\ Len(Chosen) = Len(patches)
    BY <1>1, <1>2
  <1> QED BY <1>3, <1>4

(* Adding an entry adds its name.                                          *)
LEMMA ChosenAppended ==
  ASSUME patches \in Seq(Entry), NEW row,
         row.PatchName \in PatchNames, row.Priority \in Nat, AddPatch(row)
  PROVE  Chosen' = Append(Chosen, row.PatchName)
  <1>1. /\ patches' \in Seq(Entry)
        /\ DOMAIN patches' = 1 .. Len(patches) + 1
        /\ DOMAIN patches = 1 .. Len(patches)
        /\ \A n \in DOMAIN patches : patches'[n] = patches[n]
        /\ patches'[Len(patches) + 1].Name = row.PatchName
    BY Appended
  <1>2. Chosen \in Seq(PatchNames) /\ Len(Chosen) = Len(patches)
    BY ChosenListed
  <1>3. Len(patches) \in Nat
    OBVIOUS
  <1> DEFINE a == Append(Chosen, row.PatchName)
  <1>4. a = [n \in 1 .. Len(patches) + 1 |-> a[n]]
    <2>1. a \in Seq(PatchNames) /\ Len(a) = Len(patches) + 1
      BY <1>2
    <2> HIDE DEF a
    <2> QED BY <2>1
  <1>5. \A n \in 1 .. Len(patches) : a[n] = Chosen[n] /\ Chosen[n] = patches[n].Name
    BY <1>1, <1>2, <1>3 DEF Chosen
  <1>6. a[Len(patches) + 1] = row.PatchName
    BY <1>2, <1>3
  <1>7. \A n \in 1 .. Len(patches) + 1 : a[n] = patches'[n].Name
    <2> HIDE DEF a
    <2> QED BY <1>1, <1>3, <1>5, <1>6
  <1>8. [n \in 1 .. Len(patches) + 1 |-> a[n]]
          = [n \in 1 .. Len(patches) + 1 |-> patches'[n].Name]
    <2> HIDE DEF a
    <2> QED BY <1>7
  <1>9. Chosen' = [n \in 1 .. Len(patches) + 1 |-> patches'[n].Name]
    BY <1>1 DEF Chosen
  <1> HIDE DEF a
  <1> QED BY <1>4, <1>8, <1>9 DEF a

(* What a processor needs are patches of the table.                        *)
LEMMA WantedType == Wanted \in [1 .. 3 -> SUBSET PatchNames]
  BY DEF Wanted, Applicable, PatchNames

(* The patch of a row that is for the processor is needed.                 *)
LEMMA WantedRow ==
  ASSUME NEW k \in 1 .. 3, NEW r \in Applicable, InClass(k, Database[r])
  PROVE  Database[r].PatchName \in Wanted[k]
  BY DEF Wanted

(* The classes whose rows are all listed.                                  *)
LEMMA WantedListed ==
  ASSUME NEW k \in 1 .. 3,
         \A r \in Applicable : InClass(k, Database[r]) => Listed(r)
  PROVE  Wanted[k] \subseteq PatchesListed
  BY DEF Wanted, Listed

(* Once the first pass is over, nothing of the first class is missing; and *)
(* after the pass for a later class nothing of that, unless the quota is   *)
(* used up.                                                                *)
ClassesDone ==
  /\ pass \in {"recommended", "specific", "legacy", "returned"}
       => Wanted[1] \subseteq PatchesListed
  /\ pass \in {"specific", "legacy", "returned"}
       => Wanted[2] \subseteq PatchesListed \/ QuotaUsed
  /\ pass = "returned" => Wanted[3] \subseteq PatchesListed \/ QuotaUsed

(* It follows from what the invariant says of the rows of each pass.       *)
LEMMA EarlierClasses == IInv => ClassesDone
  <1> SUFFICES ASSUME IInv PROVE ClassesDone
    OBVIOUS
  <1>1. \A row : /\ InClass(1, row) <=> row.IsCritical
                 /\ InClass(2, row) <=> row.IsRecommended
                 /\ InClass(3, row) <=> IsSpecific(row)
    BY DEF InClass
  <1>2. ASSUME pass \in {"recommended", "specific", "legacy", "returned"}
        PROVE  Wanted[1] \subseteq PatchesListed
    BY <1>1, <1>2, WantedListed DEF IInv, CriticalDone
  <1>3. ASSUME pass \in {"specific", "legacy", "returned"}
        PROVE  Wanted[2] \subseteq PatchesListed \/ QuotaUsed
    BY <1>1, <1>3, WantedListed DEF IInv, RecommendedDone
  <1>4. ASSUME pass = "returned"
        PROVE  Wanted[3] \subseteq PatchesListed \/ QuotaUsed
    BY <1>1, <1>4, WantedListed DEF IInv, SpecificDone
  <1> QED BY <1>2, <1>3, <1>4 DEF ClassesDone

(* The initial state is one of the abstract selection.                     *)
LEMMA InitPromise == Init => Promise!Init
  <1> SUFFICES ASSUME Init PROVE Promise!Init
    OBVIOUS
  <1>1. Chosen = <<>> /\ ~Running
    BY DEF Init, Chosen, Running
  <1>2. MaxPatches \in Nat
    BY QuotaFits DEF MaxPatches
  <1> QED BY <1>1, <1>2, WantedType
          DEF Promise!Init, Promise!Classes, Chosen, Running

(* Adding the patch of a row is a Choose step.                             *)
LEMMA AddIsChoose ==
  ASSUME IInv, UNCHANGED <<cpu, pass>>, Running,
         NEW r \in Applicable, AddPatch(Database[r]), ~Listed(r),
         NEW k \in 1 .. 3, InClass(k, Database[r]),
         k # 1 => Len(patches) < MaxPatches,
         \A earlier \in 1 .. k - 1 : Wanted[earlier] \subseteq PatchesListed
  PROVE  \E p \in PatchNames : Promise!Choose(p)
  <1> DEFINE p == Database[r].PatchName
  <1>1. patches \in Seq(Entry)
    BY DEF IInv, TypeOK, Entry
  <1>2. p \in PatchNames /\ Database[r].Priority \in Nat
    BY RowType DEF Applicable
  <1>3. Chosen' = Append(Chosen, p)
    BY <1>1, <1>2, ChosenAppended
  <1>4. /\ Len(Chosen) = Len(patches)
        /\ {Chosen[n] : n \in DOMAIN Chosen} = PatchesListed
    BY <1>1, ChosenListed
  <1>5. Wanted' = Wanted /\ MaxPatches' = MaxPatches /\ Running'
    BY DEF Wanted, Applicable, MaxPatches, Running
  <1>6. p \in Wanted[k]
    BY WantedRow
  <1>7. p \notin PatchesListed
    BY DEF Listed
  <1>8. Promise!Choose(p)
    <2> HIDE DEF p
    <2> QED BY <1>3, <1>4, <1>5, <1>6, <1>7
            DEF Promise!Choose, Promise!Classes, Promise!NamesOf, Chosen, Running
  <1> QED BY <1>2, <1>8

(* Every step is a step of the abstract selection or leaves it alone.      *)
LEMMA NextPromise ==
  ASSUME QuotaUsedAhead, IInv, [Next]_vars
  PROVE  [Promise!Next]_(Promise!vars)
  <1>1. IInv'
    BY NextIInv
  <1>2. MaxPatches \in Nat /\ MaxPatches' \in Nat /\ Len(patches) \in Nat
    BY QuotaFits DEF MaxPatches, IInv, TypeOK
  <1>3. ASSUME UNCHANGED <<cpu, patches>>, Running' = Running
        PROVE  UNCHANGED Promise!vars
    BY <1>3 DEF Promise!vars, Wanted, Applicable, MaxPatches, Running
  <1>4. ASSUME NEW c \in CPUTypes, Call(c) PROVE Promise!Begin
    <2>1. ~Running /\ Running' /\ Chosen' = <<>>
      BY <1>4 DEF Call, Running, Chosen
    <2>2. Wanted' \in [1 .. 3 -> SUBSET PatchNames]
      BY DEF Wanted, Applicable, PatchNames
    <2> QED BY <1>2, <2>1, <2>2
            DEF Promise!Begin, Promise!Classes, Running, Chosen
  <1>5. ASSUME i < Len(Database), Running, Skip
        PROVE  [Promise!Next]_(Promise!vars)
    BY <1>3, <1>5 DEF Skip, Running
  <1>6. ASSUME NEW k \in 1 .. 3, i < Len(Database), Consider(Database[i + 1]),
               InClass(k, Database[i + 1]),
               \/ k = 1 /\ pass = "critical"
               \/ k = 2 /\ pass = "recommended" /\ Len(patches) < MaxPatches
               \/ k = 3 /\ pass = "specific" /\ Len(patches) < MaxPatches
        PROVE  [Promise!Next]_(Promise!vars)
    <2> DEFINE row == Database[i + 1]
    <2>1. Named(row, cpu) \/ Terminated(row)
      BY <1>6, ScanEndsInside DEF InClass
    <2>2. /\ UNCHANGED <<cpu, pass>>
          /\ \/ Named(row, cpu) /\ AddPatch(row)
                /\ (pass = "critical" \/ ~AlreadyAdded(row))
             \/ UNCHANGED patches
      BY <1>6, <2>1, InsideRow
    <2>3. CASE UNCHANGED patches
      BY <1>3, <2>2, <2>3 DEF Running
    <2>4. CASE Named(row, cpu) /\ AddPatch(row)
               /\ (pass = "critical" \/ ~AlreadyAdded(row))
      <3>1. i + 1 \in Applicable
        BY <1>6, <2>4, TableLength DEF Applicable, IInv, TypeOK
      <3>2. ~Listed(i + 1)
        <4>1. patches \in Seq(Entry)
          BY DEF IInv, TypeOK, Entry
        <4>2. row.PatchName \in PatchNames /\ row.Priority \in Nat
          BY <3>1, RowType DEF Applicable
        <4>3. /\ DOMAIN patches' = 1 .. Len(patches) + 1
              /\ DOMAIN patches = 1 .. Len(patches)
              /\ \A n \in DOMAIN patches : patches'[n] = patches[n]
              /\ patches'[Len(patches) + 1].Name = row.PatchName
          BY <2>4, <4>1, <4>2, Appended
        <4>4. \A n \in DOMAIN patches : patches[n].Name # row.PatchName
          BY <1>1, <1>2, <4>3 DEF IInv, NoDuplicatePatches
        <4> QED BY <4>4 DEF Listed, PatchesListed
      <3>3. Running
        BY <1>6 DEF Running
      <3>4. \A earlier \in 1 .. k - 1 : Wanted[earlier] \subseteq PatchesListed
        BY <1>2, <1>6, EarlierClasses DEF ClassesDone, QuotaUsed
      <3>5. k # 1 => Len(patches) < MaxPatches
        BY <1>6
      <3>6. \E p \in PatchNames : Promise!Choose(p)
        BY <1>6, <2>2, <2>4, <3>1, <3>2, <3>3, <3>4, <3>5, AddIsChoose
      <3> QED BY <3>6 DEF Promise!Next
    <2> QED BY <2>2, <2>3, <2>4
  <1>7. CASE CriticalStep
    BY <1>5, <1>6, <1>7 DEF CriticalStep, InClass, Running
  <1>8. CASE RecommendedStep
    BY <1>5, <1>6, <1>8 DEF RecommendedStep, QuotaLeft, InClass, Running
  <1>9. CASE SpecificStep
    BY <1>5, <1>6, <1>9 DEF SpecificStep, QuotaLeft, InClass, Running
  <1>10. CASE LegacyStep
    <2>1. UNCHANGED <<cpu, patches>>
      BY <1>10, LegacyUnchanged
         DEF LegacyStep, Consider, Skip, Next, SelectPatches
    <2>2. pass' \in {"legacy", "fault"} /\ pass = "legacy"
      BY <1>10 DEF LegacyStep, Consider, Skip
    <2> QED BY <1>3, <2>1, <2>2 DEF Running
  <1>11. CASE EndPass
    <2>1. UNCHANGED <<cpu, patches>> /\ Running
      BY <1>11 DEF EndPass, Running
    <2>2. CASE pass' # "returned"
      <3>1. Running'
        BY <1>11, <2>2 DEF EndPass, Running
      <3> QED BY <1>3, <2>1, <3>1 DEF Running
    <2>3. CASE pass' = "returned"
      <3>1. /\ Wanted' = Wanted /\ PatchesListed' = PatchesListed
            /\ QuotaUsed' = QuotaUsed /\ MaxPatches' = MaxPatches
            /\ Chosen' = Chosen
        BY <2>1 DEF Wanted, Applicable, PatchesListed, QuotaUsed, MaxPatches, Chosen
      <3>2. /\ Wanted'[1] \subseteq PatchesListed'
            /\ Wanted'[2] \subseteq PatchesListed' \/ QuotaUsed'
            /\ Wanted'[3] \subseteq PatchesListed' \/ QuotaUsed'
        <4>1. ClassesDone'
          BY <1>1, EarlierClasses, PTL
        <4> QED BY <2>3, <4>1 DEF ClassesDone
      <3>3. /\ Len(Chosen) = Len(patches)
            /\ {Chosen[n] : n \in DOMAIN Chosen} = PatchesListed
        BY ChosenListed DEF IInv, TypeOK, Entry
      <3>4. ~Running'
        BY <2>3 DEF Running
      <3>5. Promise!Finish
        BY <2>1, <3>1, <3>2, <3>3, <3>4
           DEF Promise!Finish, Promise!Classes, Promise!NamesOf, Chosen,
               Running, QuotaUsed
      <3> QED BY <3>5 DEF Promise!Next
    <2> QED BY <2>2, <2>3
  <1>12. CASE UNCHANGED vars
    BY <1>3, <1>12 DEF vars, Running
  <1> QED BY <1>4, <1>7, <1>8, <1>9, <1>10, <1>11, <1>12
          DEF Next, SelectPatches, Promise!Next

(* SelectPatches implements PatchSelection, for every table in which no    *)
(* scan leaves its array: the patches of each class are taken once, while  *)
(* there is quota and nothing of the classes before is missing.            *)
THEOREM Refinement == QuotaUsedAhead => (Spec => ImplementsSelection)
  <1> SUFFICES ASSUME QuotaUsedAhead PROVE Spec => ImplementsSelection
    OBVIOUS
  <1>1. IInv /\ [Next]_vars => [Promise!Next]_(Promise!vars)
    BY NextPromise
  <1> QED BY <1>1, InitPromise, Invariance, PTL
          DEF Spec, ImplementsSelection, Promise!Spec
=============================================================================
