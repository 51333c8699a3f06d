---------------------------- MODULE KextSelector ----------------------------
(***************************************************************************)
(* SelectKexts of bootloader/src/kext_selector.c: one pass over the        *)
(* essential kexts and one over each list of detected devices, each        *)
(* iteration looking a device up in the kext table and appending the kext  *)
(* to the caller's list unless it is already there.  A step of the model   *)
(* is one iteration of one of those loops.  The list is the caller's, so a *)
(* call may find the result of an earlier call in it.                      *)
(*                                                                         *)
(* A kext is its Name, IsEssential and Priority; Enabled is TRUE for every *)
(* entry and Path and BundleID are never assigned.  Entries from Count on  *)
(* are unreachable, so kexts is the sequence of the first Count entries.   *)
(***************************************************************************)
EXTENDS Integers, Sequences

CONSTANTS
  Database,      \* gKextDatabase, consecutive rows of one driver grouped
  Essentials,    \* gEssentialKexts
  SystemInfos,   \* the hardware a caller may describe
  MaxCount,      \* the array sizes of SYSTEM_INFO, per device list
  KextCapacity,  \* the array size of KEXT_LIST
  NULL           \* "no kext"

VARIABLES
  sysInfo,  \* the device lists of *SysInfo
  loop,     \* the loop SelectKexts is in, "idle" before and "returned" after
  i,        \* the iterations of that loop already done
  kexts     \* KextList->Kexts[0 .. Count-1]

vars == <<sysInfo, loop, i, kexts>>

EndOfTable == 65535

DeviceLists == {"GPUs", "Networks", "AudioCodecs", "Storage"}
Device == [VendorID : 0 .. 65535, DeviceID : 0 .. 65535, ClassCode : 0 .. 255]
NoHardware == [l \in DeviceLists |-> <<>>]

AudioKext == "AppleALC.kext"
KextNames ==
  {AudioKext} \cup {Essentials[n] : n \in DOMAIN Essentials}
    \cup {Database[r].KextName : r \in DOMAIN Database}

ASSUME DatabaseAssumption ==
  Database \in Seq([VendorID : Nat, DeviceIDs : SUBSET Nat, ClassCode : Nat,
                    KextName : STRING])

ASSUME EssentialsAssumption ==
  /\ Essentials \in Seq(STRING)
  /\ \A m, n \in DOMAIN Essentials : Essentials[m] = Essentials[n] => m = n

ASSUME SystemInfosAssumption ==
  /\ MaxCount \in [DeviceLists -> Nat]
  /\ \A info \in SystemInfos :
       /\ info \in [DeviceLists -> Seq(Device)]
       /\ \A l \in DeviceLists : Len(info[l]) <= MaxCount[l]

ASSUME CapacityAssumption ==
  /\ KextCapacity \in Nat
  /\ Len(Essentials) + MaxCount["GPUs"] + MaxCount["Networks"] + 1
       + MaxCount["Storage"] <= KextCapacity

(* The last name is a string too, but no prover knows that.                *)
ASSUME NullAssumption == NULL \notin STRING \cup {AudioKext}

-----------------------------------------------------------------------------
(* The rows FindKextForDevice reads: those before the first end marker.    *)
ScannedRows ==
  {r \in DOMAIN Database : \A q \in 1 .. r : Database[q].VendorID # EndOfTable}

FirstOf(rows) == CHOOSE r \in rows : \A q \in rows : r <= q

ExactMatches(d) ==
  {r \in ScannedRows : /\ Database[r].VendorID = d.VendorID
                       /\ d.DeviceID \in Database[r].DeviceIDs}

ClassMatches(d) ==
  {r \in ScannedRows : /\ Database[r].ClassCode = d.ClassCode
                       /\ Database[r].VendorID = EndOfTable}

FindKextForDevice(d) ==
  LET exact == ExactMatches(d)
      class == ClassMatches(d)
  IN  IF exact # {} THEN Database[FirstOf(exact)].KextName
      ELSE IF class # {} THEN Database[FirstOf(class)].KextName
      ELSE NULL

(* The kext the loop over list l wants for device d: audio needs no lookup.*)
KextFor(l, d) == IF l = "AudioCodecs" THEN AudioKext ELSE FindKextForDevice(d)

(* Mutants: the search for an earlier entry finds nothing, or only looks   *)
(* at the last entry.                                                      *)
NothingFound == {}
LastName == IF kexts = <<>> THEN {} ELSE {kexts[Len(kexts)].Name}

(* What the search for an earlier entry of the same name finds.            *)
Names == {kexts[n].Name : n \in DOMAIN kexts}

AddKext(name, essential, priority) ==
  kexts' = Append(kexts, [Name |-> name, IsEssential |-> essential,
                          Priority |-> priority])
-----------------------------------------------------------------------------
Init ==
  /\ sysInfo = NoHardware
  /\ loop = "idle"
  /\ i = 0
  /\ kexts = <<>>

(* Mutant: the result of an earlier call is kept.                          *)
EnterKeepingList(info) ==
  /\ loop \in {"idle", "returned"}
  /\ sysInfo' = info
  /\ loop' = "essentials"
  /\ i' = 0
  /\ UNCHANGED kexts

(* Entering SelectKexts with hardware info empties the list.               *)
Enter(info) ==
  /\ loop \in {"idle", "returned"}
  /\ sysInfo' = info
  /\ kexts' = <<>>
  /\ loop' = "essentials"
  /\ i' = 0

(* Mutants: the last device of a list is skipped; the audio loop is lost;  *)
(* the loop index is not reset.                                            *)
SkipLastDevice(l) ==
  IF l = "essentials" THEN Len(Essentials)
  ELSE IF sysInfo[l] = <<>> THEN 0 ELSE Len(sysInfo[l]) - 1

LoopLength(l) ==
  IF l = "essentials" THEN Len(Essentials) ELSE Len(sysInfo[l])

NoAudioLoop ==
  [essentials |-> "GPUs", GPUs |-> "Networks", Networks |-> "Storage",
   AudioCodecs |-> "Storage", Storage |-> "returned"]

(* After the storage loop only the empty loop over USB controllers is left.*)
LoopAfter ==
  [essentials |-> "GPUs", GPUs |-> "Networks", Networks |-> "AudioCodecs",
   AudioCodecs |-> "Storage", Storage |-> "returned"]

EssentialStep ==
  /\ loop = "essentials"
  /\ i < LoopLength(loop)
  /\ AddKext(Essentials[i + 1], TRUE, i)
  /\ i' = i + 1
  /\ UNCHANGED <<sysInfo, loop>>

(* One iteration of the loop over device list l.                           *)
DeviceStep(l, priority) ==
  /\ loop = l
  /\ i < LoopLength(l)
  /\ LET kext == KextFor(l, sysInfo[l][i + 1])
     IN  IF kext \in Names \cup {NULL} THEN UNCHANGED kexts
         ELSE AddKext(kext, FALSE, priority)
  /\ i' = i + 1
  /\ UNCHANGED <<sysInfo, loop>>

GPUStep     == DeviceStep("GPUs", 100)
NetworkStep == DeviceStep("Networks", 200)
AudioStep   == DeviceStep("AudioCodecs", 150)
StorageStep == DeviceStep("Storage", 300)

EndLoopKeepingIndex ==
  /\ loop \in DOMAIN LoopAfter
  /\ i = LoopLength(loop)
  /\ loop' = LoopAfter[loop]
  /\ UNCHANGED <<sysInfo, i, kexts>>

(* A loop's condition fails and the next loop starts.                      *)
EndLoop ==
  /\ loop \in DOMAIN LoopAfter
  /\ i = LoopLength(loop)
  /\ loop' = LoopAfter[loop]
  /\ i' = 0
  /\ UNCHANGED <<sysInfo, kexts>>

SelectKexts ==
  EssentialStep \/ GPUStep \/ NetworkStep \/ AudioStep \/ StorageStep \/ EndLoop

Next == (\E info \in SystemInfos : Enter(info)) \/ SelectKexts

Spec == Init /\ [][Next]_vars
-----------------------------------------------------------------------------
(* Every kext the loops ask for, of the hardware in sysInfo.               *)
KextsFor(l) == {KextFor(l, sysInfo[l][n]) : n \in DOMAIN sysInfo[l]}

Requested == (UNION {KextsFor(l) : l \in DeviceLists}) \ {NULL}

Wanted == {Essentials[n] : n \in DOMAIN Essentials} \cup Requested

(* Type invariant; the loop index never runs past the loop it counts.      *)
TypeOK ==
  /\ sysInfo \in SystemInfos \cup {NoHardware}
  /\ loop \in {"idle", "returned"} \cup DOMAIN LoopAfter
  /\ i \in Nat
  /\ loop \in DOMAIN LoopAfter => i <= LoopLength(loop)
  /\ kexts \in Seq([Name : KextNames, IsEssential : BOOLEAN, Priority : Nat])

(* No write to KextList->Kexts[Count] leaves the array, although the code  *)
(* never compares Count with the array's size.                             *)
FitsInList == Len(kexts) <= KextCapacity

(* No kext is listed twice, whichever loops asked for it, however often.   *)
NoDuplicates ==
  \A m, n \in DOMAIN kexts : kexts[m].Name = kexts[n].Name => m = n

(* Row r of the table is for device d: by both identifiers, or, for rows of*)
(* no vendor, by the class.                                                *)
RowIsFor(r, d) ==
  \/ Database[r].VendorID = d.VendorID /\ d.DeviceID \in Database[r].DeviceIDs
  \/ Database[r].VendorID = EndOfTable /\ Database[r].ClassCode = d.ClassCode

LookedUp == {"GPUs", "Networks", "Storage"}

(* No kext in the list is foreign to the machine described last: it is     *)
(* essential, or the audio kext of a machine with a codec, or a row of the *)
(* table gives it to one of the machine's devices.                         *)
NothingForeign ==
  \A n \in DOMAIN kexts :
    \/ \E e \in DOMAIN Essentials : kexts[n].Name = Essentials[e]
    \/ kexts[n].Name = AudioKext /\ sysInfo["AudioCodecs"] # <<>>
    \/ \E l \in LookedUp : \E k \in DOMAIN sysInfo[l] : \E r \in DOMAIN Database :
         RowIsFor(r, sysInfo[l][k]) /\ kexts[n].Name = Database[r].KextName

(* A device that the table, before its end marker, has rows for is given   *)
(* the kext of one of them by the time SelectKexts returns; the essential  *)
(* kexts, and the audio kext for any codec, are there too.                 *)
EveryDeviceServed ==
  loop = "returned" =>
    /\ \A e \in DOMAIN Essentials : Essentials[e] \in Names
    /\ sysInfo["AudioCodecs"] # <<>> => AudioKext \in Names
    /\ \A l \in LookedUp : \A k \in DOMAIN sysInfo[l] :
         LET d == sysInfo[l][k]
         IN  ExactMatches(d) # {} => \E r \in ExactMatches(d) : Database[r].KextName \in Names

(* The list is for the hardware of this call, whatever an earlier call for *)
(* other hardware has left in it, and complete as far as the table goes:   *)
(* of a device without a row nothing is said.                              *)
ListServesMachine == NothingForeign /\ EveryDeviceServed

(* Whatever FindKextForDevice returns for the devices, the loops list all  *)
(* of it and nothing else.                                                 *)
SelectionExact ==
  /\ loop # "idle" => Names \subseteq Wanted
  /\ loop = "returned" => Wanted \subseteq Names

(* SelectKexts does what KextSelection promises: the essential kexts first *)
(* and in order, then each wanted kext once, and nothing missing at return.*)
Promise ==
  INSTANCE KextSelection WITH
    Kexts   <- KextNames,
    wanted  <- Wanted,
    chosen  <- [n \in DOMAIN kexts |-> kexts[n].Name],
    running <- loop \in DOMAIN LoopAfter

ImplementsPromise == Promise!Spec

(* docs/KEXT_SELECTION.md section 7 and docs/ARCHITECTURE.md say that the  *)
(* finished list is sorted by priority.                                    *)
SortedByPriority ==
  loop = "returned" =>
    \A m, n \in DOMAIN kexts : m < n => kexts[m].Priority <= kexts[n].Priority
=============================================================================
