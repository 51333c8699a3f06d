--------------------------- MODULE BootloaderProofs ---------------------------
(***************************************************************************)
(* Proofs about Bootloader, on top of those about KextSelector, for every  *)
(* table and every set of machines.                                        *)
(***************************************************************************)
EXTENDS Bootloader, KextSelectorProofs

(* What is known of memory and of the partition in each phase.             *)
Fresh == loop = "idle" /\ i = 0 /\ kexts = <<>>

MemoryKnown ==
  /\ phase = "off" => Init
  /\ phase \in {"InitializeConfig", "DetectHardware"} => Fresh
  /\ phase \in {"SelectKexts", "GenerateConfig", "BuildEFI", "VerifyEFI",
                "LaunchOpenCore", "complete"} => sysInfo = hardware
  /\ phase \in {"GenerateConfig", "BuildEFI", "VerifyEFI", "LaunchOpenCore",
                "complete"} => loop = "returned"

PartitionKnown ==
  /\ phase \in {"BuildEFI", "VerifyEFI", "LaunchOpenCore", "complete"} =>
       config = LoadOrder
  /\ phase \in {"VerifyEFI", "LaunchOpenCore", "complete"} => tree = LoadOrder

(* The inductive invariant.                                                *)
BootIInv ==
  /\ BootTypeOK
  /\ IInv
  /\ MemoryKnown
  /\ PartitionKnown
-----------------------------------------------------------------------------
(* The names of a kext list are a list of kext names.                      *)
LEMMA LoadOrderType ==
  ASSUME TypeOK
  PROVE  LoadOrder \in Seq(KextNames) /\ NamesIn(LoadOrder) = Names
  <1>1. kexts \in Seq(Kext)
    BY DEF TypeOK, Kext
  <1>2. /\ Len(kexts) \in Nat
        /\ DOMAIN kexts = 1 .. Len(kexts)
        /\ \A n \in DOMAIN kexts : kexts[n] \in Kext
    BY <1>1
  <1>3. LoadOrder \in [1 .. Len(kexts) -> KextNames]
    BY <1>2 DEF LoadOrder, Kext
  <1>4. LoadOrder \in Seq(KextNames)
    BY <1>2, <1>3
  <1>5. NamesIn(LoadOrder) = Names
    BY DEF NamesIn, LoadOrder, Names
  <1> QED BY <1>4, <1>5

(* The inductive invariant holds initially.                                *)
LEMMA BootInitIInv == BootInit => BootIInv
  <1> SUFFICES ASSUME BootInit PROVE BootIInv
    OBVIOUS
  <1>1. IInv
    BY InitIInv DEF BootInit
  <1>2. BootTypeOK
    BY <1>1 DEF BootInit, BootTypeOK, IInv
  <1>3. MemoryKnown /\ PartitionKnown
    BY DEF BootInit, MemoryKnown, PartitionKnown
  <1> QED BY <1>1, <1>2, <1>3 DEF BootIInv

(* Memory that keeps its contents keeps the selector's invariant.          *)
LEMMA SameMemory ==
  ASSUME IInv, UNCHANGED ram
  PROVE  IInv' /\ LoadOrder' = LoadOrder /\ TypeOK'
  <1>1. IInv'
    BY StutterIInv DEF ram, vars
  <1> QED BY <1>1 DEF ram, LoadOrder, IInv

(* Every step that only changes the phase.                                 *)
LEMMA MoveIInv ==
  ASSUME BootIInv, NEW next, MoveTo(next),
         \/ phase = "off" /\ next = "InitializeConfig"
         \/ phase = "InitializeConfig" /\ next = "DetectHardware"
         \/ phase = "VerifyEFI" /\ next = "LaunchOpenCore"
         \/ phase = "LaunchOpenCore" /\ next = "complete"
         \/ next = "failed"
  PROVE  BootIInv'
  <1>1. IInv' /\ LoadOrder' = LoadOrder /\ TypeOK'
    BY SameMemory DEF BootIInv, MoveTo
  <1>2. BootTypeOK'
    BY <1>1 DEF BootIInv, BootTypeOK, MoveTo, disk, Phases
  <1>3. MemoryKnown'
    BY DEF BootIInv, MemoryKnown, MoveTo, ram, Fresh, Init
  <1>4. PartitionKnown'
    BY <1>1 DEF BootIInv, PartitionKnown, MoveTo, disk
  <1> QED BY <1>1, <1>2, <1>3, <1>4 DEF BootIInv

(* Storing the detected hardware preserves the invariant of the boot       *)
(* loader.                                                                 *)
LEMMA DetectIInv ==
  ASSUME BootIInv, DetectHardware
  PROVE  BootIInv'
  <1>1. CASE MoveTo("failed")
    BY <1>1, MoveIInv
  <1>2. CASE /\ sysInfo' = hardware
             /\ phase' = "SelectKexts"
             /\ UNCHANGED <<hardware, loop, i, kexts, disk>>
    <2>1. phase = "DetectHardware" /\ Fresh
      BY DEF DetectHardware, BootIInv, MemoryKnown
    <2>2. TypeOK'
      BY <1>2, <2>1 DEF BootIInv, BootTypeOK, TypeOK, Fresh, LoopAfter, LoopLength
    <2>3. IInv'
      <3>1. HandledHaveKext'
        BY <1>2, <2>1 DEF HandledHaveKext, Handled, Fresh, PassedLists, DeviceLists
      <3>2. EssentialsLead'
        BY <1>2, <2>1 DEF EssentialsLead, BootIInv, IInv, Fresh
      <3>3. RoomLeft'
        BY <1>2, <2>1 DEF RoomLeft, BootIInv, IInv, Fresh, Slots, PassedLists
      <3>4. NoDuplicates' /\ SelectionExact'
        BY <1>2, <2>1 DEF NoDuplicates, SelectionExact, Fresh
      <3> QED BY <2>2, <3>1, <3>2, <3>3, <3>4 DEF IInv
    <2>4. BootTypeOK'
      BY <1>2, <2>2 DEF BootIInv, BootTypeOK, disk, Phases
    <2>5. MemoryKnown' /\ PartitionKnown'
      BY <1>2 DEF MemoryKnown, PartitionKnown
    <2> QED BY <2>3, <2>4, <2>5 DEF BootIInv
  <1> QED BY <1>1, <1>2 DEF DetectHardware

(* A step of the phase that runs SelectKexts preserves it.                 *)
LEMMA RunSelectKextsIInv ==
  ASSUME BootIInv, RunSelectKexts
  PROVE  BootIInv'
  <1>1. /\ phase = "SelectKexts" /\ UNCHANGED <<hardware, config, tree>>
        /\ sysInfo = hardware /\ hardware \in SystemInfos
        /\ IInv
    BY DEF RunSelectKexts, BootIInv, MemoryKnown, BootTypeOK, disk
  <1>2. CASE loop = "idle" /\ Enter(sysInfo) /\ UNCHANGED phase
    <2>1. IInv'
      BY <1>1, <1>2, EnterIInv
    <2>2. sysInfo' = sysInfo
      BY <1>2 DEF Enter
    <2> QED BY <1>1, <1>2, <2>1, <2>2 DEF BootIInv, BootTypeOK, MemoryKnown,
                                          PartitionKnown, IInv
  <1>3. CASE SelectKexts /\ UNCHANGED phase
    <2>1. IInv'
      BY <1>1, <1>3, NextIInv DEF Next
    <2>2. sysInfo' = sysInfo
      BY <1>3 DEF SelectKexts, EssentialStep, GPUStep, NetworkStep, AudioStep,
                  StorageStep, DeviceStep, EndLoop
    <2> QED BY <1>1, <1>3, <2>1, <2>2 DEF BootIInv, BootTypeOK, MemoryKnown,
                                          PartitionKnown, IInv
  <1>4. CASE loop = "returned" /\ phase' = "GenerateConfig" /\ UNCHANGED ram
    <2>1. IInv'
      BY <1>1, <1>4, SameMemory
    <2> QED BY <1>1, <1>4, <2>1 DEF BootIInv, BootTypeOK, MemoryKnown, Phases,
                                    PartitionKnown, IInv, ram
  <1> QED BY <1>2, <1>3, <1>4 DEF RunSelectKexts

(* Writing the config, whole or in part, preserves it.                     *)
LEMMA GenerateConfigIInv ==
  ASSUME BootIInv, GenerateConfig
  PROVE  BootIInv'
  <1>1. CASE MoveTo("failed")
    BY <1>1, MoveIInv
  <1>2. CASE /\ UNCHANGED <<hardware, ram, tree>>
             /\ \/ config' = LoadOrder /\ phase' = "BuildEFI"
                \/ config' = Torn /\ UNCHANGED phase
    <2>1. IInv' /\ LoadOrder' = LoadOrder /\ TypeOK'
      BY <1>2, SameMemory DEF BootIInv
    <2>2. LoadOrder \in Seq(KextNames)
      BY LoadOrderType DEF BootIInv, IInv
    <2>3. phase = "GenerateConfig"
      BY DEF GenerateConfig
    <2>4. BootTypeOK'
      BY <1>2, <2>1, <2>2, <2>3 DEF BootIInv, BootTypeOK, Phases
    <2>5. MemoryKnown' /\ PartitionKnown'
      BY <1>2, <2>1, <2>3 DEF BootIInv, MemoryKnown, PartitionKnown, ram
    <2> QED BY <2>1, <2>4, <2>5 DEF BootIInv
  <1> QED BY <1>1, <1>2 DEF GenerateConfig

(* Copying the kexts, all or some, preserves it.                           *)
LEMMA BuildEFIIInv ==
  ASSUME BootIInv, BuildEFI
  PROVE  BootIInv'
  <1>1. CASE MoveTo("failed")
    BY <1>1, MoveIInv
  <1>2. CASE /\ UNCHANGED <<hardware, ram, config>>
             /\ \/ tree' = LoadOrder /\ phase' = "VerifyEFI"
                \/ tree' = Torn /\ UNCHANGED phase
    <2>1. IInv' /\ LoadOrder' = LoadOrder /\ TypeOK'
      BY <1>2, SameMemory DEF BootIInv
    <2>2. LoadOrder \in Seq(KextNames)
      BY LoadOrderType DEF BootIInv, IInv
    <2>3. phase = "BuildEFI"
      BY DEF BuildEFI
    <2>4. BootTypeOK'
      BY <1>2, <2>1, <2>2, <2>3 DEF BootIInv, BootTypeOK, Phases
    <2>5. MemoryKnown' /\ PartitionKnown'
      BY <1>2, <2>1, <2>3 DEF BootIInv, MemoryKnown, PartitionKnown, ram
    <2> QED BY <2>1, <2>4, <2>5 DEF BootIInv
  <1> QED BY <1>1, <1>2 DEF BuildEFI

(* Losing the memory preserves it.                                         *)
LEMMA PowerOffIInv ==
  ASSUME BootIInv, PowerOff
  PROVE  BootIInv'
  <1>1. Init'
    BY DEF PowerOff, Init
  <1>2. IInv'
    BY <1>1, InitIInv, PTL
  <1>3. BootTypeOK'
    BY <1>1, <1>2 DEF PowerOff, BootIInv, BootTypeOK, IInv, disk
  <1>4. MemoryKnown' /\ PartitionKnown'
    BY <1>1 DEF PowerOff, MemoryKnown, PartitionKnown
  <1> QED BY <1>2, <1>3, <1>4 DEF BootIInv

(* The hardware changes, or nothing does.                                  *)
LEMMA EnvironmentIInv ==
  ASSUME BootIInv, ChangeHardware \/ UNCHANGED bootVars
  PROVE  BootIInv'
  <1>1. UNCHANGED <<phase, ram, disk>>
    BY DEF ChangeHardware, bootVars
  <1>2. IInv' /\ LoadOrder' = LoadOrder /\ TypeOK'
    BY <1>1, SameMemory DEF BootIInv
  <1>3. Init => Init'
    BY <1>1 DEF Init, ram
  <1>4. hardware' \in SystemInfos /\ (phase # "off" => hardware' = hardware)
    BY DEF ChangeHardware, bootVars, BootIInv, BootTypeOK
  <1>5. BootTypeOK'
    BY <1>1, <1>2, <1>3, <1>4 DEF BootIInv, BootTypeOK, disk
  <1>6. MemoryKnown' /\ PartitionKnown'
    BY <1>1, <1>2, <1>3, <1>4 DEF BootIInv, MemoryKnown, PartitionKnown, ram,
                                  disk, Fresh
  <1> QED BY <1>2, <1>5, <1>6 DEF BootIInv

(* Every step preserves the inductive invariant.                           *)
LEMMA BootNextIInv ==
  ASSUME BootIInv, [BootNext]_bootVars
  PROVE  BootIInv'
  <1>1. CASE UefiMain \/ InitializeConfig \/ VerifyEFI \/ LaunchOpenCore
    BY <1>1, MoveIInv DEF UefiMain, InitializeConfig, VerifyEFI, LaunchOpenCore
  <1>2. CASE DetectHardware
    BY <1>2, DetectIInv
  <1>3. CASE RunSelectKexts
    BY <1>3, RunSelectKextsIInv
  <1>4. CASE GenerateConfig
    BY <1>4, GenerateConfigIInv
  <1>5. CASE BuildEFI
    BY <1>5, BuildEFIIInv
  <1>6. CASE PowerOff
    BY <1>6, PowerOffIInv
  <1>7. CASE ChangeHardware \/ UNCHANGED bootVars
    BY <1>7, EnvironmentIInv
  <1> QED BY <1>1, <1>2, <1>3, <1>4, <1>5, <1>6, <1>7 DEF BootNext, TetratoshMain

(* The invariant of the boot loader holds in every behaviour.              *)
LEMMA BootInvariance == BootSpec => []BootIInv
  <1>1. BootIInv /\ [BootNext]_bootVars => BootIInv'
    BY BootNextIInv
  <1> QED BY <1>1, BootInitIInv, PTL DEF BootSpec
-----------------------------------------------------------------------------
(* Every variable stays in its range.                                      *)
THEOREM BootTypeCorrect == BootSpec => []BootTypeOK
  <1>1. BootIInv => BootTypeOK
    BY DEF BootIInv
  <1> QED BY <1>1, BootInvariance, PTL

(* OpenCore is launched only on a config and kexts that are whole, agree   *)
(* and match the machine, after any history of power failures, failed      *)
(* calls and changes of hardware.                                          *)
THEOREM LaunchSafe == BootSpec => []LaunchedOnMatchingEFI
  <1>1. BootIInv => LaunchedOnMatchingEFI
    <2> SUFFICES ASSUME BootIInv,
                        phase \in {"VerifyEFI", "LaunchOpenCore", "complete"}
                 PROVE  /\ config # Torn /\ tree = config
                        /\ sysInfo = hardware
                        /\ NamesIn(config) = Wanted
      BY DEF LaunchedOnMatchingEFI
    <2>1. config = LoadOrder /\ tree = LoadOrder
      BY DEF BootIInv, PartitionKnown
    <2>2. sysInfo = hardware /\ loop = "returned"
      BY DEF BootIInv, MemoryKnown
    <2>3. Names = Wanted
      BY <2>2 DEF BootIInv, IInv, SelectionExact
    <2>4. LoadOrder \in Seq(KextNames) /\ NamesIn(LoadOrder) = Names
      BY LoadOrderType DEF BootIInv, IInv
    <2> QED BY <2>1, <2>2, <2>3, <2>4, TornAssumption
  <1> QED BY <1>1, BootInvariance, PTL
=============================================================================
