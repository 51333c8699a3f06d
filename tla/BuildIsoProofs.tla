---------------------------- MODULE BuildIsoProofs ----------------------------
(***************************************************************************)
(* Proofs about BuildIso, for parts and images of every size and any       *)
(* number of images left mounted.                                          *)
(***************************************************************************)
EXTENDS BuildIso, FiniteSetTheorems, TLAPS

(* What the script has established at its last commands.                   *)
Established ==
  /\ pc \in {"umount", "rmdir", "create_iso"} =>
       img = Image(isoTree) /\ Fits(isoTree)
  /\ pc = "create_iso" => mounts = 0 /\ mountPoint = "missing"

(* What a run that succeeds puts on the ISO fits the image.                *)
FinishedFits == pc = "done" => Fits(iso.tree)

(* Each part of it does.                                                   *)
FinishedPartsFit ==
  pc = "done" => \A part \in iso.tree : Size[part] <= ImageSize

(* The inductive invariant.                                                *)
IInv == IsoTypeOK /\ PartitionMatchesTree /\ Established /\ FinishedFits
-----------------------------------------------------------------------------
(* What Fits adds up.  The sum over a set is a recursive function on its   *)
(* subsets; that there is one, and what it is at least, is shown for       *)
(* subsets of one more part at a time, up to the four there are.           *)

Chosen(s) == CHOOSE x \in s : TRUE

Sum(f, s) == IF s = {} THEN 0 ELSE Size[Chosen(s)] + f[s \ {Chosen(s)}]

Summed(tree, f) == f = [s \in SUBSET tree |-> Sum(f, s)]

SummedTo(tree, f, n) ==
  /\ f = [s \in SUBSET tree |-> f[s]]
  /\ \A s \in SUBSET tree : Cardinality(s) <= n => f[s] = Sum(f, s)

(* There are four parts.                                                   *)
LEMMA FourParts ==
  ASSUME NEW s \in SUBSET Parts
  PROVE  IsFiniteSet(s) /\ Cardinality(s) \in Nat /\ Cardinality(s) <= 4
  <1>1. IsFiniteSet({}) /\ Cardinality({}) = 0
    BY FS_EmptySet
  <1>2. IsFiniteSet({"bootloader"}) /\ Cardinality({"bootloader"}) = 1
    BY FS_Singleton
  <1>3. /\ IsFiniteSet({"bootloader"} \cup {"OpenCore"})
        /\ Cardinality({"bootloader"} \cup {"OpenCore"}) = 2
    BY <1>2, FS_AddElement
  <1>4. /\ IsFiniteSet({"bootloader"} \cup {"OpenCore"} \cup {"kexts"})
        /\ Cardinality({"bootloader"} \cup {"OpenCore"} \cup {"kexts"}) = 3
    BY <1>3, FS_AddElement
  <1>5. /\ IsFiniteSet({"bootloader"} \cup {"OpenCore"} \cup {"kexts"} \cup {"database"})
        /\ Cardinality({"bootloader"} \cup {"OpenCore"} \cup {"kexts"} \cup {"database"}) = 4
    <2> DEFINE three == {"bootloader"} \cup {"OpenCore"} \cup {"kexts"}
    <2>1. "database" \notin three
      OBVIOUS
    <2> HIDE DEF three
    <2>2. /\ IsFiniteSet(three \cup {"database"})
          /\ Cardinality(three \cup {"database"}) = 3 + 1
      BY <1>4, <2>1, FS_AddElement DEF three
    <2> QED BY <2>2 DEF three
  <1>6. Parts = {"bootloader"} \cup {"OpenCore"} \cup {"kexts"} \cup {"database"}
    BY DEF Parts
  <1> QED BY <1>5, <1>6, FS_Subset, FS_CardinalityType

(* A set without the part chosen from it is smaller by one.                *)
LEMMA ChosenLeaves ==
  ASSUME NEW s \in SUBSET Parts, s # {}
  PROVE  /\ Chosen(s) \in s
         /\ s \ {Chosen(s)} \in SUBSET s
         /\ Cardinality(s \ {Chosen(s)}) = Cardinality(s) - 1
         /\ Cardinality(s) \in Nat
  <1>1. Chosen(s) \in s
    BY DEF Chosen
  <1> QED BY <1>1, FourParts, FS_RemoveElement

(* A function that is the sum on small sets can be made one on larger ones.*)
LEMMA OneMorePart ==
  ASSUME NEW tree \in SUBSET Parts, NEW n \in Nat, NEW f, SummedTo(tree, f, n)
  PROVE  \E g : SummedTo(tree, g, n + 1)
  <1> DEFINE g == [s \in SUBSET tree |-> IF Cardinality(s) <= n THEN f[s] ELSE Sum(f, s)]
  <1>1. ASSUME NEW s \in SUBSET tree, Cardinality(s) <= n + 1
        PROVE  g[s] = Sum(g, s)
    <2>1. g[s] = Sum(f, s)
      BY DEF SummedTo
    <2>2. CASE s = {}
      BY <2>1, <2>2 DEF Sum
    <2>3. CASE s # {}
      <3>1. /\ s \ {Chosen(s)} \in SUBSET tree
            /\ Cardinality(s \ {Chosen(s)}) <= n
        BY <1>1, <2>3, ChosenLeaves
      <3>2. g[s \ {Chosen(s)}] = f[s \ {Chosen(s)}]
        BY <3>1
      <3> QED BY <2>1, <3>2 DEF Sum
    <2> QED BY <2>2, <2>3
  <1>2. g = [s \in SUBSET tree |-> g[s]]
    OBVIOUS
  <1> HIDE DEF g
  <1>3. SummedTo(tree, g, n + 1)
    BY <1>1, <1>2 DEF SummedTo
  <1> QED BY <1>3

(* There is a sum over every set of parts.                                 *)
LEMMA SumExists ==
  ASSUME NEW tree \in SUBSET Parts
  PROVE  \E f : Summed(tree, f)
  <1> DEFINE zero == [s \in SUBSET tree |-> 0]
  <1>1. ASSUME NEW s \in SUBSET tree, Cardinality(s) <= 0
        PROVE  zero[s] = Sum(zero, s)
    <2>1. s = {}
      BY <1>1, FourParts, FS_EmptySet
    <2> QED BY <2>1 DEF Sum
  <1>2. zero = [s \in SUBSET tree |-> zero[s]]
    OBVIOUS
  <1>3. SummedTo(tree, zero, 0)
    <2> HIDE DEF zero
    <2> QED BY <1>1, <1>2 DEF SummedTo
  <1>4. \E f : SummedTo(tree, f, 1)
    BY <1>3, OneMorePart, 0 + 1 = 1
  <1>5. \E f : SummedTo(tree, f, 2)
    BY <1>4, OneMorePart, 1 + 1 = 2
  <1>6. \E f : SummedTo(tree, f, 3)
    BY <1>5, OneMorePart, 2 + 1 = 3
  <1>7. PICK f : SummedTo(tree, f, 4)
    BY <1>6, OneMorePart, 3 + 1 = 4
  <1>8. \A s \in SUBSET tree : f[s] = Sum(f, s)
    BY <1>7, FourParts DEF SummedTo
  <1>9. f = [s \in SUBSET tree |-> f[s]]
    BY <1>7 DEF SummedTo
  <1>10. Summed(tree, f)
    BY <1>8, <1>9 DEF Summed
  <1> QED BY <1>10

(* A sum is at least each of its terms.                                    *)
LEMMA SumBounds ==
  ASSUME NEW tree \in SUBSET Parts, NEW f, Summed(tree, f)
  PROVE  f[tree] \in Nat /\ \A part \in tree : Size[part] <= f[tree]
  <1> DEFINE Bounded(n) == \A s \in SUBSET tree : Cardinality(s) <= n =>
                             f[s] \in Nat /\ \A part \in s : Size[part] <= f[s]
  <1>1. \A s \in SUBSET tree : f[s] = Sum(f, s)
    BY DEF Summed
  <1>2. \A part \in Parts : Size[part] \in Nat
    BY ConstantsAssumption
  <1>3. Bounded(0)
    <2> SUFFICES ASSUME NEW s \in SUBSET tree, Cardinality(s) <= 0
                 PROVE  f[s] \in Nat /\ \A part \in s : Size[part] <= f[s]
      OBVIOUS
    <2>1. s = {}
      BY FourParts, FS_EmptySet
    <2>2. f[s] = 0
      BY <2>1, <1>1 DEF Sum
    <2> QED BY <2>1, <2>2
  <1>4. ASSUME NEW n \in Nat, Bounded(n) PROVE Bounded(n + 1)
    <2> SUFFICES ASSUME NEW s \in SUBSET tree, Cardinality(s) <= n + 1
                 PROVE  f[s] \in Nat /\ \A part \in s : Size[part] <= f[s]
      OBVIOUS
    <2>1. CASE s = {}
      <3>1. f[s] = 0
        BY <2>1, <1>1 DEF Sum
      <3> QED BY <2>1, <3>1
    <2>2. CASE s # {}
      <3> DEFINE rest == s \ {Chosen(s)}
      <3>1. /\ Chosen(s) \in s
            /\ rest \in SUBSET tree
            /\ Cardinality(rest) <= n
        BY <2>2, ChosenLeaves
      <3>2. f[rest] \in Nat /\ \A part \in rest : Size[part] <= f[rest]
        BY <1>4, <3>1
      <3>3. f[s] = Size[Chosen(s)] + f[rest]
        BY <2>2, <1>1 DEF Sum
      <3>4. \A part \in s : part = Chosen(s) \/ part \in rest
      OBVIOUS
      <3>5. \A part \in s : Size[part] \in Nat
        BY <1>2
      <3> HIDE DEF rest
      <3> QED BY <3>1, <3>2, <3>3, <3>4, <3>5
    <2> QED BY <2>1, <2>2
  <1>5. Bounded(4)
    <2> HIDE DEF Bounded
    <2>1. Bounded(1)
      BY <1>3, <1>4, 0 + 1 = 1
    <2>2. Bounded(2)
      BY <2>1, <1>4, 1 + 1 = 2
    <2>3. Bounded(3)
      BY <2>2, <1>4, 2 + 1 = 3
    <2> QED BY <2>3, <1>4, 3 + 1 = 4
  <1> QED BY <1>5, FourParts

(* What fits the image has no part that does not.                          *)
LEMMA PartsFit ==
  ASSUME NEW tree \in SUBSET Parts, Fits(tree)
  PROVE  \A part \in tree : Size[part] <= ImageSize
  <1> DEFINE F == CHOOSE f : Summed(tree, f)
  <1>1. F[tree] <= ImageSize
    BY DEF Fits, MapThenSumSet, MapThenFoldSet, Summed, Sum, Chosen
  <1>2. Summed(tree, F)
    BY SumExists
  <1> HIDE DEF F
  <1>3. F[tree] \in Nat /\ \A part \in tree : Size[part] <= F[tree]
    BY <1>2, SumBounds
  <1>4. \A part \in tree : Size[part] \in Nat
    BY ConstantsAssumption
  <1> QED BY <1>1, <1>3, <1>4, ConstantsAssumption
-----------------------------------------------------------------------------
(* The inductive invariant holds initially.                                *)
LEMMA InitIInv == IsoInit => IInv
  BY ConstantsAssumption DEF IsoInit, IInv, IsoTypeOK, PartitionMatchesTree,
     Established, FinishedFits, IsoSteps, Files, Parts, Absent, TornFile, Image

(* The steps that change neither the ISO, the image nor what is mounted.   *)
LEMMA CopyIInv ==
  ASSUME IInv, NEW file, NEW part \in Parts, NEW next \in IsoSteps,
         NEW onError \in IsoSteps \cup {"failed"},
         next \notin {"copy_image", "umount", "rmdir", "create_iso"},
         onError \notin {"copy_image", "umount", "rmdir", "create_iso"},
         Copy(file, part, next, onError)
  PROVE  IInv'
  <1>1. pc' \in {next, onError} /\ UNCHANGED <<sources, img, mountPoint, mounts, iso>>
    BY DEF Copy
  <1>2. isoTree' \subseteq Parts
    BY DEF Copy, IInv, IsoTypeOK
  <1>3. IsoTypeOK'
    BY <1>1, <1>2 DEF IInv, IsoTypeOK, IsoSteps
  <1>4. PartitionMatchesTree' /\ Established' /\ FinishedFits'
    BY <1>1 DEF PartitionMatchesTree, Established, FinishedFits, IsoSteps
  <1> QED BY <1>3, <1>4 DEF IInv

(* Every step preserves the inductive invariant.                           *)
LEMMA NextIInv ==
  ASSUME IInv, [IsoNext]_isoVars
  PROVE  IInv'
  <1> USE ConstantsAssumption
  <1>1. CASE StartIso
    BY <1>1 DEF StartIso, IInv, IsoTypeOK, PartitionMatchesTree, Established,
        FinishedFits, IsoSteps, built
  <1>2. CASE Prepare
    BY <1>2 DEF Prepare, IInv, IsoTypeOK, PartitionMatchesTree, Established,
        FinishedFits, IsoSteps, built
  <1>3. CASE copy_bootloader \/ copy_opencore \/ copy_kexts \/ copy_database
    BY <1>3, CopyIInv DEF copy_bootloader, copy_opencore, copy_kexts,
                          copy_database, Parts, IsoSteps
  <1>4. CASE Format
    <2>1. img' \in {Image({}), TornFile} /\ pc' \in {"mount", "failed"}
          /\ UNCHANGED <<sources, isoTree, mountPoint, mounts, iso>>
      BY <1>4 DEF Format
    <2>2. IsoTypeOK'
      BY <2>1 DEF IInv, IsoTypeOK, IsoSteps
    <2> QED BY <2>1, <2>2 DEF IInv, PartitionMatchesTree, Established,
                                   FinishedFits
  <1>5. CASE Mount
    BY <1>5 DEF Mount, IInv, IsoTypeOK, PartitionMatchesTree, Established,
        FinishedFits, IsoSteps
  <1>6. CASE CopyImage
    <2>1. \/ Fits(isoTree) /\ img' = Image(isoTree) /\ pc' = "umount"
          \/ img' = TornFile /\ pc' = "failed"
      BY <1>6 DEF CopyImage
    <2>2. pc = "copy_image" /\ UNCHANGED <<sources, isoTree, mountPoint, mounts, iso>>
      BY <1>6 DEF CopyImage
    <2>3. IsoTypeOK'
      BY <2>1, <2>2 DEF IInv, IsoTypeOK, IsoSteps
    <2> QED BY <2>1, <2>2, <2>3 DEF IInv, PartitionMatchesTree, Established,
                                        FinishedFits
  <1>7. CASE Umount
    BY <1>7 DEF Umount, IInv, IsoTypeOK, PartitionMatchesTree, Established,
        FinishedFits, IsoSteps
  <1>8. CASE Rmdir
    BY <1>8 DEF Rmdir, IInv, IsoTypeOK, PartitionMatchesTree, Established,
        FinishedFits, IsoSteps
  <1>9. CASE create_iso
    <2>1. \/ iso' = [tree |-> isoTree, image |-> img] /\ pc' = "done"
          \/ iso' = [tree |-> {}, image |-> TornFile] /\ pc' = "failed"
      BY <1>9 DEF create_iso
    <2>2. pc = "create_iso" /\ pc' \in {"done", "failed"}
          /\ UNCHANGED <<sources, isoTree, img, mountPoint, mounts>>
      BY <1>9 DEF create_iso
    <2>3. IsoTypeOK'
      BY <2>1, <2>2 DEF IInv, IsoTypeOK, IsoSteps
    <2>4. PartitionMatchesTree'
      BY <2>1, <2>2 DEF IInv, PartitionMatchesTree, Established, FinishedFits
    <2>5. FinishedFits'
      BY <2>1, <2>2 DEF IInv, Established, FinishedFits
    <2> QED BY <2>2, <2>3, <2>4, <2>5 DEF IInv, Established
  <1>10. CASE MakeClean
    <2>1. pc \notin IsoSteps /\ pc' = pc /\ isoTree' = {} /\ img' = Absent
          /\ sources' \subseteq sources /\ mountPoint' \in {mountPoint, "missing"}
          /\ UNCHANGED <<mounts, iso>>
      BY <1>10 DEF MakeClean, Idle, IsoSteps
    <2>2. IsoTypeOK'
      BY <2>1 DEF IInv, IsoTypeOK
    <2> QED BY <2>1, <2>2 DEF IInv, PartitionMatchesTree, Established,
                                   FinishedFits, IsoSteps
  <1>11. CASE UnmountByHand
    BY <1>11 DEF UnmountByHand, Idle, IInv, IsoTypeOK, PartitionMatchesTree,
                 Established, FinishedFits, IsoSteps
  <1>12. ASSUME NEW file \in Movable, ChangeSources(file) PROVE IInv'
    BY <1>12 DEF ChangeSources, Idle, IInv, IsoTypeOK, PartitionMatchesTree,
                 Established, FinishedFits, IsoSteps, built
  <1>13. CASE UNCHANGED isoVars
    BY <1>13 DEF isoVars, built, IInv, IsoTypeOK, PartitionMatchesTree, Established,
                 FinishedFits
  <1> QED BY <1>1, <1>2, <1>3, <1>4, <1>5, <1>6, <1>7, <1>8, <1>9, <1>10,
             <1>11, <1>12, <1>13 DEF IsoNext, main

(* The inductive invariant holds in every behaviour.                       *)
LEMMA Invariance == IsoSpec => []IInv
  <1>1. IInv /\ [IsoNext]_isoVars => IInv'
    BY NextIInv
  <1> QED BY <1>1, InitIInv, PTL DEF IsoSpec
-----------------------------------------------------------------------------
(* The script stays within its types.                                      *)
THEOREM TypeCorrect == IsoSpec => []IsoTypeOK
  <1>1. IInv => IsoTypeOK
    BY DEF IInv
  <1> QED BY <1>1, Invariance, PTL

(* After a run that succeeds the EFI partition of the ISO holds what its   *)
(* file system holds.                                                      *)
THEOREM PartitionCorrect == IsoSpec => []PartitionMatchesTree
  <1>1. IInv => PartitionMatchesTree
    BY DEF IInv
  <1> QED BY <1>1, Invariance, PTL

(* The ISO is written only by a run that left nothing in build/efi_mount   *)
(* and found nothing there.                                                *)
THEOREM LeftoversBlock == IsoSpec => LeftoversBlockISO
  <1>1. IInv /\ [IsoNext]_isoVars =>
          (iso' # iso => mounts = 0 /\ mountPoint = "missing")
    <2> SUFFICES ASSUME IInv, [IsoNext]_isoVars, iso' # iso
                 PROVE  mounts = 0 /\ mountPoint = "missing"
      OBVIOUS
    <2>1. pc = "create_iso"
      BY DEF IsoNext, main, isoVars, built, StartIso, Prepare, Copy, copy_bootloader,
             copy_opencore, copy_kexts, copy_database, Format, Mount, CopyImage,
             Umount, Rmdir, create_iso, MakeClean, UnmountByHand, ChangeSources
    <2> QED BY <2>1 DEF IInv, Established
  <1> QED BY <1>1, Invariance, PTL DEF IsoSpec, LeftoversBlockISO

(* No run gets a part that is larger than the image onto a finished ISO:   *)
(* whatever fails, and although two of the copies may fail unnoticed, a    *)
(* run with such a part in the tree ends at the copy into the image.  The  *)
(* repository's OpenCore directory is larger than efi.img.                 *)
THEOREM OversizedPartsAreLost == IsoSpec => []FinishedPartsFit
  <1>1. IInv => FinishedPartsFit
    BY PartsFit DEF IInv, IsoTypeOK, FinishedFits, FinishedPartsFit
  <1> QED BY <1>1, Invariance, PTL
=============================================================================
