------------------------- MODULE KextSelectorProofs -------------------------
(***************************************************************************)
(* Proofs about KextSelector, for every kext table, every list of distinct *)
(* essential kexts and every machine within the arrays of SYSTEM_INFO.     *)
(***************************************************************************)
EXTENDS KextSelector, SequenceTheorems, FiniteSetTheorems, TLAPS

Kext == [Name : KextNames, IsEssential : BOOLEAN, Priority : Nat]

(* The device lists whose loop is over.                                    *)
PassedLists ==
  [idle |-> {}, essentials |-> {}, GPUs |-> {}, Networks |-> {"GPUs"},
   AudioCodecs |-> {"GPUs", "Networks"},
   Storage |-> {"GPUs", "Networks", "AudioCodecs"}, returned |-> DeviceLists]

Handled(l, n) == l \in PassedLists[loop] \/ (loop = l /\ n <= i)

(* Every device a loop has dealt with has its kext in the list.            *)
HandledHaveKext ==
  \A l \in DeviceLists : \A n \in 1 .. Len(sysInfo[l]) :
    Handled(l, n) => KextFor(l, sysInfo[l][n]) \in Names \cup {NULL}

(* The list starts with the essential kexts, in their order.               *)
EssentialsLead ==
  /\ loop = "idle" => kexts = <<>>
  /\ loop = "essentials" => Len(kexts) = i
  /\ loop \notin {"idle", "essentials"} => Len(Essentials) <= Len(kexts)
  /\ \A n \in 1 .. Len(kexts) :
       n <= Len(Essentials) => kexts[n].Name = Essentials[n]

(* The entries list l can have added so far: the audio loop adds one kext. *)
Slots(l) ==
  IF l = "AudioCodecs"
  THEN IF l \in PassedLists[loop] \/ (loop = l /\ i > 0) THEN 1 ELSE 0
  ELSE IF l \in PassedLists[loop] THEN MaxCount[l]
  ELSE IF loop = l THEN i ELSE 0

RoomLeft ==
  Len(kexts) <= Len(Essentials) + Slots("GPUs") + Slots("Networks")
                  + Slots("AudioCodecs") + Slots("Storage")

(* The inductive invariant.                                                *)
IInv ==
  /\ TypeOK
  /\ HandledHaveKext
  /\ EssentialsLead
  /\ RoomLeft
  /\ NoDuplicates
  /\ SelectionExact
-----------------------------------------------------------------------------
(* Lemmas on the table lookup.                                             *)

(* A nonempty set of row numbers has a first one.                          *)
LEMMA FirstRow ==
  ASSUME NEW rows \in SUBSET Nat, rows # {}
  PROVE  FirstOf(rows) \in rows /\ \A q \in rows : FirstOf(rows) <= q
<1> DEFINE UpTo == {0 .. r : r \in rows}
           Below == StrictSubsetOrdering(Nat)
<1>1. UpTo \subseteq FiniteSubsetsOf(Nat) /\ UpTo # {}
  <2>1. ASSUME NEW r \in rows
        PROVE  0 .. r \in SUBSET Nat /\ IsFiniteSet(0 .. r)
    <3>1. 0 \in Int /\ r \in Int
      OBVIOUS
    <3> QED BY <3>1, FS_Interval
  <2> QED BY <2>1 DEF FiniteSubsetsOf
<1>2. PICK z \in UpTo : \A w \in UpTo : ~ (<<w, z>> \in Below)
  <2>1. IsWellFoundedOn(Below, FiniteSubsetsOf(Nat))
    BY FS_StrictSubsetOrderingWellFounded
  <2> HIDE DEF UpTo, Below
  <2> QED BY <1>1, <2>1, WFMin
<1>3. PICK x \in rows : z = 0 .. x
  OBVIOUS
<1>4. ASSUME NEW y \in rows, y < x
      PROVE  <<0 .. y, 0 .. x>> \in Below
  <2>1. /\ 0 .. y \in SUBSET Nat
        /\ 0 .. x \in SUBSET Nat
        /\ 0 .. y \subseteq 0 .. x
        /\ 0 .. y # 0 .. x
    <3>1. x \in 0 .. x /\ x \notin 0 .. y
      BY <1>4
    <3> QED BY <3>1, <1>4
  <2> QED BY <2>1 DEF StrictSubsetOrdering
<1>5. \A y \in rows : ~ (y < x)
  BY <1>2, <1>3, <1>4
<1>6. \A y \in rows : x <= y
  BY <1>5
<1> QED
  BY <1>6 DEF FirstOf

(* The class pass of FindKextForDevice finds nothing in any table: it looks*)
(* for the end marker's vendor in front of the end marker.                 *)
LEMMA NoClassMatch == \A d : ClassMatches(d) = {}
<1> SUFFICES ASSUME NEW d, NEW r \in ScannedRows,
                    Database[r].VendorID = EndOfTable
             PROVE  FALSE
  BY DEF ClassMatches
<1>1. r \in 1 .. Len(Database)
  BY DatabaseAssumption, LenProperties DEF ScannedRows
<1> QED
  BY <1>1 DEF ScannedRows

(* A lookup returns the name of a known kext or NULL.                      *)
LEMMA FindKextType == \A d : FindKextForDevice(d) \in KextNames \cup {NULL}
<1> SUFFICES ASSUME NEW d
             PROVE  FindKextForDevice(d) \in KextNames \cup {NULL}
  OBVIOUS
<1>1. ScannedRows \subseteq DOMAIN Database
  BY DEF ScannedRows
<1>2. DOMAIN Database \subseteq Nat
  BY DatabaseAssumption, LenProperties
<1>3. ExactMatches(d) # {} => FirstOf(ExactMatches(d)) \in DOMAIN Database
  BY <1>1, <1>2, FirstRow DEF ExactMatches
<1> QED
  BY <1>3, NoClassMatch DEF FindKextForDevice, KextNames

(* What a loop wants for a device is the name of a known kext or NULL.     *)
LEMMA KextForType == \A l, d : KextFor(l, d) \in KextNames \cup {NULL}
BY FindKextType DEF KextFor, KextNames

(* FindKextForDevice ignores the class of the device: its "class-based     *)
(* matching" pass can never return a kext, for any table that can be       *)
(* written, because the pass ends at the vendor it searches for.           *)
THEOREM ClassNeverMatters ==
  \A c, d : /\ c.VendorID = d.VendorID
            /\ c.DeviceID = d.DeviceID
            => FindKextForDevice(c) = FindKextForDevice(d)
BY NoClassMatch DEF FindKextForDevice, ExactMatches

-----------------------------------------------------------------------------
(* Lemmas on the state.                                                    *)

(* Device lists are sequences no longer than the arrays they stand for.    *)
LEMMA InfoType ==
  ASSUME NEW info \in SystemInfos \cup {NoHardware}, NEW l \in DeviceLists
  PROVE  /\ info[l] \in Seq(Device)
         /\ DOMAIN info[l] = 1 .. Len(info[l])
         /\ Len(info[l]) \in Nat
         /\ MaxCount[l] \in Nat
         /\ Len(info[l]) <= MaxCount[l]
<1>1. info[l] \in Seq(Device) /\ Len(info[l]) <= MaxCount[l] /\ MaxCount[l] \in Nat
  <2>1. CASE info \in SystemInfos
    BY <2>1, SystemInfosAssumption
  <2>2. CASE info = NoHardware
    BY <2>2, SystemInfosAssumption, EmptySeq DEF NoHardware
  <2> QED BY <2>1, <2>2
<1> QED
  BY <1>1, LenProperties

(* Appending an entry to a list of kexts.                                  *)
LEMMA AppendKext ==
  ASSUME NEW s \in Seq(Kext), NEW e \in Kext
  PROVE  LET t == Append(s, e) IN
         /\ Len(s) \in Nat
         /\ DOMAIN s = 1 .. Len(s)
         /\ t \in Seq(Kext)
         /\ Len(t) = Len(s) + 1
         /\ DOMAIN t = 1 .. Len(s) + 1
         /\ \A n \in 1 .. Len(s) : t[n] = s[n]
         /\ t[Len(s) + 1] = e
         /\ {t[n].Name : n \in DOMAIN t}
              = {s[n].Name : n \in DOMAIN s} \cup {e.Name}
<1> DEFINE t == Append(s, e)
<1>1. Len(s) \in Nat /\ DOMAIN s = 1 .. Len(s)
  BY LenProperties
<1>2. /\ t \in Seq(Kext)
      /\ Len(t) = Len(s) + 1
      /\ \A n \in 1 .. Len(s) : t[n] = s[n]
      /\ t[Len(s) + 1] = e
  BY AppendProperties
<1>3. DOMAIN t = 1 .. Len(s) + 1
  BY <1>2, LenProperties
<1>4. {t[n].Name : n \in DOMAIN t} = {s[n].Name : n \in DOMAIN s} \cup {e.Name}
  <2> HIDE DEF t
  <2> QED BY <1>1, <1>2, <1>3
<1> QED
  BY <1>1, <1>2, <1>3, <1>4
-----------------------------------------------------------------------------
(* IInv is inductive: one lemma per action.                                *)

(* The inductive invariant holds initially.                                *)
LEMMA InitIInv == Init => IInv
<1> SUFFICES ASSUME Init PROVE IInv
  OBVIOUS
<1> USE DEF Init
<1>1. Names = {}
  BY DEF Names
<1>2. TypeOK
  BY EmptySeq DEF TypeOK, LoopAfter
<1>3. HandledHaveKext
  BY DEF HandledHaveKext, NoHardware
<1>4. EssentialsLead
  BY EmptySeq DEF EssentialsLead
<1>5. RoomLeft
  <2>1. Len(kexts) = 0 /\ Len(Essentials) \in Nat
    BY EmptySeq, LenProperties, EssentialsAssumption
  <2>2. \A l \in DeviceLists : Slots(l) = 0
    BY DEF Slots, PassedLists, DeviceLists
  <2> QED BY <2>1, <2>2 DEF RoomLeft, DeviceLists
<1>6. NoDuplicates /\ SelectionExact
  BY DEF NoDuplicates, SelectionExact
<1> QED
  BY <1>2, <1>3, <1>4, <1>5, <1>6 DEF IInv

(* Entering SelectKexts establishes it for the new hardware.               *)
LEMMA EnterIInv ==
  ASSUME NEW info \in SystemInfos, IInv, Enter(info)
  PROVE  IInv'
<1> USE DEF Enter
<1>1. Names' = {} /\ Len(kexts') = 0 /\ kexts' = <<>>
  BY EmptySeq DEF Names
<1>2. Len(Essentials) \in Nat
  BY LenProperties, EssentialsAssumption
<1>3. TypeOK'
  BY <1>2, EmptySeq DEF TypeOK, LoopAfter, LoopLength
<1>4. HandledHaveKext'
  BY DEF HandledHaveKext, Handled, PassedLists, DeviceLists
<1>5. EssentialsLead'
  BY <1>1 DEF EssentialsLead
<1>6. RoomLeft'
  <2>1. \A l \in DeviceLists : Slots(l)' = 0
    BY DEF Slots, PassedLists, DeviceLists
  <2> QED BY <1>1, <1>2, <2>1 DEF RoomLeft, DeviceLists
<1>7. NoDuplicates' /\ SelectionExact'
  BY <1>1 DEF NoDuplicates, SelectionExact
<1> QED
  BY <1>3, <1>4, <1>5, <1>6, <1>7 DEF IInv

(* Appending an essential kext preserves it.                               *)
LEMMA EssentialIInv ==
  ASSUME IInv, EssentialStep
  PROVE  IInv'
<1> DEFINE e == [Name |-> Essentials[i + 1], IsEssential |-> TRUE, Priority |-> i]
<1>1. /\ loop = "essentials" /\ loop' = loop /\ sysInfo' = sysInfo
      /\ i \in Nat /\ i < Len(Essentials) /\ i' = i + 1
      /\ Len(kexts) = i /\ kexts' = Append(kexts, e)
      /\ kexts \in Seq(Kext)
  BY DEF EssentialStep, IInv, TypeOK, EssentialsLead, LoopLength, AddKext, Kext
<1>2. /\ Len(Essentials) \in Nat
      /\ DOMAIN Essentials = 1 .. Len(Essentials)
  BY EssentialsAssumption, LenProperties
<1>3. e \in Kext
  BY <1>1, <1>2 DEF Kext, KextNames
<1>4. /\ DOMAIN kexts = 1 .. i
      /\ DOMAIN kexts' = 1 .. i + 1
      /\ kexts' \in Seq(Kext)
      /\ Len(kexts') = i + 1
      /\ \A n \in 1 .. i : kexts'[n] = kexts[n]
      /\ kexts'[i + 1] = e
      /\ Names' = Names \cup {Essentials[i + 1]}
  <2> HIDE DEF e
  <2>1. Names' = Names \cup {e.Name}
    BY <1>1, <1>3, AppendKext DEF Names
  <2>2. e.Name = Essentials[i + 1]
    BY DEF e
  <2> QED BY <1>1, <1>3, <2>1, <2>2, AppendKext
<1> HIDE DEF e
<1>5. TypeOK'
  BY <1>1, <1>2, <1>4 DEF IInv, TypeOK, LoopLength, Kext, LoopAfter
<1>6. HandledHaveKext'
  BY <1>1 DEF HandledHaveKext, Handled, PassedLists, DeviceLists
<1>7. \A n \in 1 .. i + 1 : kexts'[n].Name = Essentials[n]
  BY <1>1, <1>2, <1>4 DEF e, IInv, EssentialsLead
<1>8. EssentialsLead'
  BY <1>1, <1>4, <1>7 DEF EssentialsLead
<1>9. RoomLeft'
  <2>1. \A l \in DeviceLists : Slots(l)' = 0
    BY <1>1 DEF Slots, PassedLists, DeviceLists
  <2> QED BY <1>1, <1>2, <1>4, <2>1 DEF RoomLeft, DeviceLists
<1>10. NoDuplicates'
  BY <1>1, <1>2, <1>4, <1>7, EssentialsAssumption DEF NoDuplicates
<1>11. SelectionExact'
  <2>1. Wanted' = Wanted /\ Essentials[i + 1] \in Wanted
    BY <1>1, <1>2 DEF Wanted, Requested, KextsFor
  <2> QED BY <1>1, <1>4, <2>1 DEF IInv, SelectionExact
<1> QED
  BY <1>5, <1>6, <1>8, <1>9, <1>10, <1>11 DEF IInv

(* An iteration of the loop over any device list preserves it.             *)
LEMMA DeviceIInv ==
  ASSUME NEW l \in DeviceLists, NEW priority \in Nat,
         IInv, DeviceStep(l, priority)
  PROVE  IInv'
<1> DEFINE k == KextFor(l, sysInfo[l][i + 1])
           e == [Name |-> k, IsEssential |-> FALSE, Priority |-> priority]
           added == k \notin Names \cup {NULL}
<1>1. /\ loop = l /\ loop' = loop /\ sysInfo' = sysInfo
      /\ i \in Nat /\ i' = i + 1
      /\ kexts' = IF added THEN Append(kexts, e) ELSE kexts
      /\ kexts \in Seq(Kext)
      /\ sysInfo \in SystemInfos \cup {NoHardware}
      /\ i < LoopLength(l)
      /\ l # "essentials"
  BY DEF DeviceStep, IInv, TypeOK, AddKext, Kext, DeviceLists
<1>2. /\ i + 1 \in 1 .. Len(sysInfo[l])
      /\ Len(sysInfo[l]) \in Nat
      /\ MaxCount[l] \in Nat
      /\ Len(sysInfo[l]) <= MaxCount[l]
      /\ Len(Essentials) \in Nat
  <2>1. i < Len(sysInfo[l])
    BY <1>1 DEF LoopLength
  <2> QED BY <1>1, <2>1, InfoType, EssentialsAssumption, LenProperties
<1>3. added => e \in Kext
  BY KextForType DEF Kext
<1>4. /\ DOMAIN kexts = 1 .. Len(kexts)
      /\ Len(kexts) \in Nat
      /\ DOMAIN kexts' = 1 .. Len(kexts')
      /\ kexts' \in Seq(Kext)
      /\ Len(kexts') = IF added THEN Len(kexts) + 1 ELSE Len(kexts)
      /\ \A n \in 1 .. Len(kexts) : kexts'[n] = kexts[n]
      /\ added => kexts'[Len(kexts) + 1].Name = k
      /\ Names' = IF added THEN Names \cup {k} ELSE Names
  <2>1. e.Name = k
    OBVIOUS
  <2>2. CASE added
    <3> HIDE DEF e, k
    <3>1. kexts' = Append(kexts, e) /\ e \in Kext
      BY <1>1, <1>3, <2>2
    <3>2. Names' = Names \cup {e.Name}
      BY <1>1, <3>1, AppendKext DEF Names
    <3> QED BY <1>1, <2>1, <2>2, <3>1, <3>2, AppendKext
  <2>3. CASE ~added
    BY <1>1, <2>3, LenProperties DEF Names
  <2> QED BY <2>2, <2>3
<1>5. k \in Names' \cup {NULL} /\ Names \subseteq Names'
  BY <1>4
<1>6. k \in Requested \cup {NULL}
  <2>1. i + 1 \in DOMAIN sysInfo[l]
    BY <1>1, <1>2, InfoType
  <2>2. k \in KextsFor(l)
    BY <2>1 DEF KextsFor
  <2> HIDE DEF k
  <2> QED BY <2>2 DEF Requested
<1>7. l = "AudioCodecs" => k = AudioKext
  BY DEF KextFor
<1> HIDE DEF e, added, k
<1>8. TypeOK'
  <2>1. LoopLength(loop)' = Len(sysInfo[l]) /\ i' <= Len(sysInfo[l])
    BY <1>1, <1>2 DEF LoopLength
  <2>2. /\ sysInfo' \in SystemInfos \cup {NoHardware}
        /\ loop' \in {"idle", "returned"} \cup DOMAIN LoopAfter
        /\ i' \in Nat
    BY <1>1 DEF IInv, TypeOK
  <2> QED BY <1>4, <2>1, <2>2 DEF TypeOK, Kext
<1>9. HandledHaveKext'
  <2> SUFFICES ASSUME NEW m \in DeviceLists, NEW n \in 1 .. Len(sysInfo[m]),
                      Handled(m, n)'
               PROVE  KextFor(m, sysInfo[m][n]) \in Names' \cup {NULL}
    BY <1>1 DEF HandledHaveKext
  <2>1. CASE Handled(m, n)
    BY <1>5, <2>1 DEF IInv, HandledHaveKext
  <2>2. CASE ~Handled(m, n)
    <3>1. m = l /\ n = i + 1
      BY <1>1, <2>2 DEF Handled
    <3> QED BY <1>5, <3>1 DEF k
  <2> QED BY <2>1, <2>2
<1>10. EssentialsLead'
  <2>1. Len(Essentials) <= Len(kexts) /\ loop' \notin {"idle", "essentials"}
    BY <1>1 DEF IInv, EssentialsLead, DeviceLists
  <2>2. \A n \in 1 .. Len(kexts) :
          n <= Len(Essentials) => kexts[n].Name = Essentials[n]
    BY DEF IInv, EssentialsLead
  <2>3. \A n \in 1 .. Len(kexts') : n <= Len(Essentials) => n \in 1 .. Len(kexts)
    BY <1>2, <1>4, <2>1
  <2> QED BY <1>2, <1>4, <2>1, <2>2, <2>3 DEF EssentialsLead
<1>11. RoomLeft'
  <2>1. l \notin PassedLists[loop]
    BY <1>1 DEF PassedLists, DeviceLists
  <2>2. \A m \in DeviceLists : m # l => Slots(m)' = Slots(m)
    BY <1>1 DEF Slots
  <2>3. Slots(l)' = IF l = "AudioCodecs" /\ i > 0 THEN Slots(l) ELSE Slots(l) + 1
    BY <1>1, <2>1 DEF Slots
  <2>4. \A m \in DeviceLists : Slots(m) \in Nat
    BY <1>1, SystemInfosAssumption DEF Slots
  <2>5. l = "AudioCodecs" /\ i > 0 => ~added
    <3> SUFFICES ASSUME l = "AudioCodecs", i > 0 PROVE ~added
      OBVIOUS
    <3>1. Handled(l, 1) /\ 1 \in 1 .. Len(sysInfo[l])
      BY <1>1, <1>2 DEF Handled
    <3>2. KextFor(l, sysInfo[l][1]) = AudioKext
      BY DEF KextFor
    <3> QED BY <1>7, <3>1, <3>2 DEF IInv, HandledHaveKext, added
  <2>6. Len(kexts') - Len(kexts) <= Slots(l)' - Slots(l)
    BY <1>4, <2>3, <2>4, <2>5
  <2> DEFINE room  == Slots("GPUs") + Slots("Networks") + Slots("AudioCodecs")
                        + Slots("Storage")
  <2>7. room' = room + (Slots(l)' - Slots(l)) /\ room \in Nat
    BY <2>2, <2>3, <2>4 DEF DeviceLists
  <2>8. Len(kexts) <= Len(Essentials) + room
    BY <1>2, <2>4 DEF IInv, RoomLeft, DeviceLists
  <2>9. Len(kexts') <= Len(Essentials) + room'
    <3> HIDE DEF room
    <3> QED BY <1>2, <1>4, <2>3, <2>4, <2>6, <2>7, <2>8
  <2>10. Len(Essentials)' = Len(Essentials)
    OBVIOUS
  <2>11. \A m \in DeviceLists : Slots(m)' \in Nat
    BY <2>2, <2>3, <2>4
  <2> QED
    BY <1>2, <1>4, <2>9, <2>10, <2>11 DEF RoomLeft, DeviceLists
<1>12. NoDuplicates'
  <2>1. \A n \in 1 .. Len(kexts) : kexts[n].Name \in Names
    BY <1>4 DEF Names
  <2>2. \A m, n \in 1 .. Len(kexts) : kexts[m].Name = kexts[n].Name => m = n
    BY <1>4 DEF IInv, NoDuplicates
  <2>3. CASE added
    <3>1. \A n \in 1 .. Len(kexts) : kexts'[n].Name # k
      BY <1>4, <2>1, <2>3 DEF added
    <3>2. 1 .. Len(kexts') = 1 .. Len(kexts) \cup {Len(kexts) + 1}
      BY <1>4, <2>3
    <3> QED BY <1>4, <2>2, <2>3, <3>1, <3>2 DEF NoDuplicates
  <2>4. CASE ~added
    BY <1>4, <2>2, <2>4 DEF NoDuplicates
  <2> QED BY <2>3, <2>4
<1>13. SelectionExact'
  <2>1. Wanted' = Wanted
    BY <1>1 DEF Wanted, Requested, KextsFor
  <2>2. loop # "idle" /\ loop # "returned"
    BY <1>1 DEF DeviceLists
  <2>3. added => k \in Wanted
    BY <1>6 DEF Wanted, added
  <2> QED BY <1>1, <1>4, <2>1, <2>2, <2>3 DEF IInv, SelectionExact
<1> QED
  BY <1>8, <1>9, <1>10, <1>11, <1>12, <1>13 DEF IInv

(* Going on to the next loop preserves it.                                 *)
LEMMA EndLoopIInv ==
  ASSUME IInv, EndLoop
  PROVE  IInv'
<1>1. /\ loop \in DOMAIN LoopAfter /\ loop' = LoopAfter[loop]
      /\ i = LoopLength(loop) /\ i' = 0
      /\ sysInfo' = sysInfo /\ kexts' = kexts /\ Names' = Names
      /\ sysInfo \in SystemInfos \cup {NoHardware}
      /\ kexts \in Seq(Kext)
  BY DEF EndLoop, IInv, TypeOK, Names, Kext
<1>2. /\ \A l \in DeviceLists : Len(sysInfo[l]) \in Nat
      /\ \A l \in DeviceLists : Len(sysInfo[l]) <= MaxCount[l]
      /\ \A l \in DeviceLists : MaxCount[l] \in Nat
      /\ Len(Essentials) \in Nat
      /\ DOMAIN Essentials = 1 .. Len(Essentials)
      /\ Len(kexts) \in Nat
      /\ DOMAIN kexts = 1 .. Len(kexts)
  BY <1>1, InfoType, EssentialsAssumption, LenProperties
<1>0. \/ loop = "essentials" /\ loop' = "GPUs"
      \/ loop = "GPUs" /\ loop' = "Networks"
      \/ loop = "Networks" /\ loop' = "AudioCodecs"
      \/ loop = "AudioCodecs" /\ loop' = "Storage"
      \/ loop = "Storage" /\ loop' = "returned"
  BY <1>1 DEF LoopAfter
<1>3. \A l \in DeviceLists : l \in PassedLists[loop]' <=>
                              l \in PassedLists[loop] \/ l = loop
  BY <1>1 DEF LoopAfter, PassedLists, DeviceLists
<1>4. TypeOK'
  <2>1. loop' \in DeviceLists => LoopLength(loop)' = Len(sysInfo[loop'])
    BY <1>1 DEF LoopLength, DeviceLists
  <2>2. loop' \in DeviceLists \cup {"returned"}
    BY <1>0 DEF DeviceLists
  <2>3. loop' \in DOMAIN LoopAfter => i' <= LoopLength(loop)'
    BY <1>1, <1>2, <2>1, <2>2 DEF LoopAfter
  <2>4. loop' \in {"idle", "returned"} \cup DOMAIN LoopAfter
    BY <2>2 DEF DeviceLists, LoopAfter
  <2> QED BY <1>1, <2>3, <2>4 DEF TypeOK, Kext
<1>5. HandledHaveKext'
  <2> SUFFICES ASSUME NEW l \in DeviceLists, NEW n \in 1 .. Len(sysInfo[l]),
                      Handled(l, n)'
               PROVE  KextFor(l, sysInfo[l][n]) \in Names \cup {NULL}
    BY <1>1 DEF HandledHaveKext
  <2>1. ~ (n <= i')
    BY <1>1, <1>2
  <2>2. l \in PassedLists[loop] \/ l = loop
    BY <1>3, <2>1 DEF Handled
  <2>3. l = loop => n <= i
    BY <1>1, <1>2 DEF LoopLength, DeviceLists
  <2> QED BY <2>2, <2>3 DEF IInv, HandledHaveKext, Handled
<1>6. EssentialsLead'
  <2>1. Len(Essentials) <= Len(kexts)
    <3>1. loop = "essentials" => Len(kexts) = Len(Essentials)
      BY <1>1 DEF IInv, EssentialsLead, LoopLength
    <3>2. loop # "idle" /\ loop # "essentials" => Len(Essentials) <= Len(kexts)
      BY DEF IInv, EssentialsLead
    <3>3. loop # "idle"
      BY <1>0
    <3>4. Len(Essentials) \in Nat
      BY <1>2
    <3> QED BY <3>1, <3>2, <3>3, <3>4
  <2> QED BY <1>0, <1>1, <2>1 DEF IInv, EssentialsLead
<1>7. RoomLeft'
  <2>1. \A l \in DeviceLists : Slots(l) \in Nat /\ Slots(l)' \in Nat
    BY <1>1, <1>2 DEF Slots, IInv, TypeOK
  <2>2. \A l \in DeviceLists : Slots(l) <= Slots(l)'
    <3> SUFFICES ASSUME NEW l \in DeviceLists PROVE Slots(l) <= Slots(l)'
      OBVIOUS
    <3>1. CASE l = loop
      <4>1. l \in PassedLists[loop]' /\ i <= MaxCount[l]
        BY <1>1, <1>2, <1>3, <3>1 DEF LoopLength, DeviceLists
      <4>2. l \notin PassedLists[loop]
        BY <3>1 DEF PassedLists, DeviceLists
      <4> QED BY <1>2, <3>1, <4>1, <4>2 DEF Slots
    <3>2. CASE l # loop
      <4>1. l \in PassedLists[loop]' <=> l \in PassedLists[loop]
        BY <1>3, <3>2
      <4> QED BY <1>1, <1>2, <2>1, <3>2, <4>1 DEF Slots
    <3> QED BY <3>1, <3>2
  <2> QED BY <1>1, <1>2, <2>1, <2>2 DEF IInv, RoomLeft, DeviceLists
<1>8. NoDuplicates'
  BY <1>1 DEF IInv, NoDuplicates
<1>9. SelectionExact'
  <2>0. Wanted' = Wanted
    BY <1>1 DEF Wanted, Requested, KextsFor
  <2>1. Wanted' = Wanted /\ Names \subseteq Wanted
    BY <1>0, <2>0 DEF IInv, SelectionExact
  <2>2. ASSUME loop' = "returned" PROVE Wanted \subseteq Names
    <3>1. loop = "Storage"
      BY <1>0, <2>2
    <3>2. \A l \in DeviceLists : \A n \in 1 .. Len(sysInfo[l]) : Handled(l, n)
      BY <1>1, <1>2, <3>1 DEF Handled, PassedLists, LoopLength, DeviceLists
    <3>3. Requested \subseteq Names
      <4>1. \A l \in DeviceLists : \A n \in DOMAIN sysInfo[l] :
              KextFor(l, sysInfo[l][n]) \in Names \cup {NULL}
        BY <1>1, <3>2, InfoType DEF IInv, HandledHaveKext
      <4>2. \A l \in DeviceLists :
              KextsFor(l) \subseteq Names \cup {NULL}
        BY <4>1 DEF KextsFor
      <4> QED BY <4>2 DEF Requested
    <3>4. \A n \in DOMAIN Essentials : n \in DOMAIN kexts /\ kexts[n].Name = Essentials[n]
      BY <1>2, <3>1 DEF IInv, EssentialsLead
    <3> QED BY <3>3, <3>4 DEF Wanted, Names
  <2> QED BY <1>1, <2>1, <2>2 DEF SelectionExact
<1> QED
  BY <1>4, <1>5, <1>6, <1>7, <1>8, <1>9 DEF IInv

(* A stuttering step preserves it.                                         *)
LEMMA StutterIInv == IInv /\ UNCHANGED vars => IInv'
<1> SUFFICES ASSUME IInv, UNCHANGED vars PROVE IInv'
  OBVIOUS
<1> USE DEF vars, IInv
<1>1. TypeOK'
  BY DEF TypeOK, LoopLength
<1>2. HandledHaveKext'
  BY DEF HandledHaveKext, Handled, Names
<1>3. EssentialsLead'
  BY DEF EssentialsLead
<1>4. RoomLeft'
  BY DEF RoomLeft, Slots
<1>5. NoDuplicates'
  BY DEF NoDuplicates
<1>6. SelectionExact'
  <2>1. Wanted' = Wanted
    BY DEF Wanted, Requested, KextsFor
  <2>2. Names' = Names
    BY DEF Names
  <2> QED BY <2>1, <2>2 DEF SelectionExact
<1> QED
  BY <1>1, <1>2, <1>3, <1>4, <1>5, <1>6

(* Every step preserves it.                                                *)
LEMMA NextIInv == IInv /\ [Next]_vars => IInv'
<1> SUFFICES ASSUME IInv, [Next]_vars PROVE IInv'
  OBVIOUS
<1>1. ASSUME NEW info \in SystemInfos, Enter(info) PROVE IInv'
  BY <1>1, EnterIInv
<1>2. CASE EssentialStep
  BY <1>2, EssentialIInv
<1>3. CASE GPUStep
  BY <1>3, DeviceIInv DEF GPUStep, DeviceLists
<1>4. CASE NetworkStep
  BY <1>4, DeviceIInv DEF NetworkStep, DeviceLists
<1>5. CASE AudioStep
  BY <1>5, DeviceIInv DEF AudioStep, DeviceLists
<1>6. CASE StorageStep
  BY <1>6, DeviceIInv DEF StorageStep, DeviceLists
<1>7. CASE EndLoop
  BY <1>7, EndLoopIInv
<1>8. CASE UNCHANGED vars
  BY <1>8, StutterIInv
<1> QED
  BY <1>1, <1>2, <1>3, <1>4, <1>5, <1>6, <1>7, <1>8 DEF Next, SelectKexts

(* The inductive invariant holds in every behaviour.                       *)
LEMMA Invariance == Spec => []IInv
BY InitIInv, NextIInv, PTL DEF Spec

-----------------------------------------------------------------------------
(* Adding up bounds.                                                       *)
LEMMA SumsOrdered ==
  \A k, e, a, b, c, d, p, q, r, s \in Nat :
    /\ k <= e + a + b + c + d
    /\ a <= p /\ b <= q /\ c <= r /\ d <= s
    => k <= e + p + q + r + s
OBVIOUS

(* SelectKexts never leaves its types, and its loop index never runs past  *)
(* the list or array the loop walks.                                       *)
THEOREM TypeCorrect == Spec => []TypeOK
BY Invariance, PTL DEF IInv

(* The array of KEXT_LIST is never written past its end, although the code *)
(* has no check: it is large enough for one kext per device slot.          *)
THEOREM KextListFits == Spec => []FitsInList
<1>1. IInv => FitsInList
  <2> SUFFICES ASSUME IInv PROVE FitsInList
    OBVIOUS
  <2>1. /\ sysInfo \in SystemInfos \cup {NoHardware}
        /\ Len(kexts) \in Nat /\ Len(Essentials) \in Nat
        /\ i \in Nat
        /\ loop \in DeviceLists => i <= Len(sysInfo[loop])
    BY EssentialsAssumption, LenProperties
       DEF IInv, TypeOK, LoopAfter, LoopLength, DeviceLists
  <2>2. \A l \in DeviceLists :
          /\ MaxCount[l] \in Nat /\ Len(sysInfo[l]) \in Nat
          /\ Len(sysInfo[l]) <= MaxCount[l]
    BY <2>1, InfoType
  <2>3. \A l \in DeviceLists :
          /\ Slots(l) \in Nat
          /\ Slots(l) <= IF l = "AudioCodecs" THEN 1 ELSE MaxCount[l]
    BY <2>1, <2>2 DEF Slots
  <2>4. /\ Slots("GPUs") \in Nat /\ Slots("GPUs") <= MaxCount["GPUs"]
        /\ Slots("Networks") \in Nat /\ Slots("Networks") <= MaxCount["Networks"]
        /\ Slots("AudioCodecs") \in Nat /\ Slots("AudioCodecs") <= 1
        /\ Slots("Storage") \in Nat /\ Slots("Storage") <= MaxCount["Storage"]
    BY <2>3 DEF DeviceLists
  <2>5. /\ MaxCount["GPUs"] \in Nat /\ MaxCount["Networks"] \in Nat
        /\ MaxCount["Storage"] \in Nat
    BY <2>2 DEF DeviceLists
  <2>6. Len(kexts) <= Len(Essentials) + Slots("GPUs") + Slots("Networks")
                        + Slots("AudioCodecs") + Slots("Storage")
    BY DEF IInv, RoomLeft
  <2>7. /\ KextCapacity \in Nat
        /\ Len(Essentials) + MaxCount["GPUs"] + MaxCount["Networks"] + 1
             + MaxCount["Storage"] <= KextCapacity
    BY CapacityAssumption
  <2>8. Len(kexts) \in Nat /\ Len(Essentials) \in Nat
    BY <2>1
  <2>9. Len(kexts) <= Len(Essentials) + MaxCount["GPUs"] + MaxCount["Networks"]
                        + 1 + MaxCount["Storage"]
    BY <2>4, <2>5, <2>6, <2>8, SumsOrdered
  <2> QED
    BY <2>5, <2>7, <2>8, <2>9 DEF FitsInList
<1> QED
  BY <1>1, Invariance, PTL

(* No kext is listed twice.                                                *)
THEOREM KextsDistinct == Spec => []NoDuplicates
BY Invariance, PTL DEF IInv

(* The list holds only what the loops ask for, of the current hardware, and*)
(* all of it when SelectKexts returns, whatever earlier calls left in it.  *)
THEOREM SelectionCorrect == Spec => []SelectionExact
BY Invariance, PTL DEF IInv

(* What a loop asks for comes from a row for the device, or is the audio   *)
(* kext of a codec.                                                        *)
LEMMA RequestedIsFor ==
  ASSUME NEW l \in DeviceLists, NEW k \in DOMAIN sysInfo[l], NEW name,
         name = KextFor(l, sysInfo[l][k]), name # NULL
  PROVE  \/ name = AudioKext /\ sysInfo["AudioCodecs"] # <<>>
         \/ \E r \in DOMAIN Database :
              RowIsFor(r, sysInfo[l][k]) /\ name = Database[r].KextName
<1> DEFINE d == sysInfo[l][k]
<1>1. CASE l = "AudioCodecs"
  BY <1>1 DEF KextFor
<1>2. CASE l # "AudioCodecs"
  <2>1. ExactMatches(d) # {} /\ name = Database[FirstOf(ExactMatches(d))].KextName
    BY <1>2, NoClassMatch DEF KextFor, FindKextForDevice
  <2>2. FirstOf(ExactMatches(d)) \in ExactMatches(d)
    <3>1. ExactMatches(d) \in SUBSET Nat
      BY DatabaseAssumption, LenProperties DEF ExactMatches, ScannedRows
    <3> QED BY <2>1, <3>1, FirstRow
  <2> QED BY <2>1, <2>2 DEF ExactMatches, ScannedRows, RowIsFor
<1> QED BY <1>1, <1>2

(* The list is for the machine of this call, and every device with a row   *)
(* in the table has the kext of one of its rows at the end, for any table, *)
(* machine and sequence of calls.                                          *)
THEOREM MachineServed == Spec => []ListServesMachine
<1>1. IInv => NothingForeign
  <2> SUFFICES ASSUME IInv, NEW n \in DOMAIN kexts
               PROVE  \/ \E e \in DOMAIN Essentials : kexts[n].Name = Essentials[e]
                      \/ kexts[n].Name = AudioKext /\ sysInfo["AudioCodecs"] # <<>>
                      \/ \E l \in LookedUp : \E k \in DOMAIN sysInfo[l] :
                           \E r \in DOMAIN Database :
                             RowIsFor(r, sysInfo[l][k]) /\ kexts[n].Name = Database[r].KextName
    BY DEF NothingForeign
  <2>1. loop # "idle"
    BY DEF IInv, EssentialsLead
  <2>2. kexts[n].Name \in Wanted
    BY <2>1 DEF IInv, SelectionExact, Names
  <2>3. CASE kexts[n].Name \in Requested
    <3>0. PICK l \in DeviceLists : kexts[n].Name \in KextsFor(l) /\ kexts[n].Name # NULL
      BY <2>3 DEF Requested
    <3>1. PICK k \in DOMAIN sysInfo[l] :
            kexts[n].Name = KextFor(l, sysInfo[l][k]) /\ kexts[n].Name # NULL
      BY <3>0 DEF KextsFor
    <3>2. CASE l = "AudioCodecs"
      BY <3>1, <3>2 DEF KextFor
    <3>3. CASE l # "AudioCodecs"
      BY <3>1, <3>3, RequestedIsFor DEF LookedUp, DeviceLists
    <3> QED BY <3>2, <3>3
  <2> QED BY <2>2, <2>3 DEF Wanted
<1>2. IInv => EveryDeviceServed
  <2> SUFFICES ASSUME IInv, loop = "returned"
               PROVE  EveryDeviceServed
    BY DEF EveryDeviceServed
  <2>1. Wanted \subseteq Names
    BY DEF IInv, SelectionExact
  <2>2. sysInfo["AudioCodecs"] # <<>> => AudioKext \in Names
    <3> SUFFICES ASSUME sysInfo["AudioCodecs"] # <<>> PROVE AudioKext \in Names
      OBVIOUS
    <3>1. sysInfo["AudioCodecs"] \in Seq(Device)
      BY InfoType DEF IInv, TypeOK, DeviceLists
    <3>2. 1 \in DOMAIN sysInfo["AudioCodecs"]
      BY <3>1
    <3>3. AudioKext \in KextsFor("AudioCodecs")
      BY <3>2 DEF KextsFor, KextFor
    <3> QED BY <2>1, <3>3, NullAssumption DEF Wanted, Requested, DeviceLists
  <2>3. ASSUME NEW l \in LookedUp, NEW k \in DOMAIN sysInfo[l],
               ExactMatches(sysInfo[l][k]) # {}
        PROVE  \E r \in ExactMatches(sysInfo[l][k]) : Database[r].KextName \in Names
    <3> DEFINE d == sysInfo[l][k]
    <3>1. ExactMatches(d) \in SUBSET Nat
      BY DatabaseAssumption, LenProperties DEF ExactMatches, ScannedRows
    <3>2. FirstOf(ExactMatches(d)) \in ExactMatches(d)
      BY <2>3, <3>1, FirstRow
    <3>3. KextFor(l, d) = Database[FirstOf(ExactMatches(d))].KextName
      BY <2>3 DEF KextFor, FindKextForDevice, LookedUp
    <3>4. Database[FirstOf(ExactMatches(d))].KextName # NULL
      <4>1. ASSUME NEW r \in DOMAIN Database PROVE Database[r].KextName \in STRING
        <5> DEFINE Row == [VendorID : Nat, DeviceIDs : SUBSET Nat, ClassCode : Nat,
                           KextName : STRING]
        <5>1. Database \in Seq(Row)
          BY DatabaseAssumption
        <5>2. \A row \in Row : row.KextName \in STRING
          OBVIOUS
        <5>3. Database[r] \in Row
          <6> HIDE DEF Row
          <6> QED BY <5>1, LenProperties, ElementOfSeq
        <5> QED BY <5>2, <5>3
      <4> QED BY <3>2, <4>1, NullAssumption DEF ExactMatches, ScannedRows
    <3>5. KextFor(l, d) \in Requested
      BY <3>3, <3>4 DEF Requested, KextsFor, LookedUp, DeviceLists
    <3> QED BY <2>1, <3>2, <3>3, <3>5 DEF Wanted
  <2>4. \A e \in DOMAIN Essentials : Essentials[e] \in Names
    BY <2>1 DEF Wanted
  <2> QED BY <2>2, <2>3, <2>4 DEF EveryDeviceServed
<1> QED BY <1>1, <1>2, Invariance, PTL DEF ListServesMachine

-----------------------------------------------------------------------------
(* SelectKexts implements KextSelection.                                   *)

Chosen == [n \in DOMAIN kexts |-> kexts[n].Name]
Running == loop \in DOMAIN LoopAfter

(* The names of a list of kexts, and of the list with one more entry.      *)
LEMMA ChosenAppend ==
  ASSUME NEW s \in Seq(Kext), NEW e \in Kext
  PROVE  LET c == [n \in DOMAIN s |-> s[n].Name]
             t == Append(s, e)
         IN  /\ c \in Seq(KextNames)
             /\ Len(c) = Len(s)
             /\ {c[n] : n \in DOMAIN c} = {s[n].Name : n \in DOMAIN s}
             /\ [n \in DOMAIN t |-> t[n].Name] = Append(c, e.Name)
<1> DEFINE c == [n \in DOMAIN s |-> s[n].Name]
           t == Append(s, e)
           d == [n \in DOMAIN t |-> t[n].Name]
<1>1. Len(s) \in Nat /\ DOMAIN s = 1 .. Len(s) /\ \A n \in 1 .. Len(s) : s[n] \in Kext
  BY LenProperties, ElementOfSeq
<1>2. c \in [1 .. Len(s) -> KextNames]
  BY <1>1 DEF Kext
<1>3. c \in Seq(KextNames) /\ Len(c) = Len(s)
  BY <1>1, <1>2
<1>4. {c[n] : n \in DOMAIN c} = {s[n].Name : n \in DOMAIN s}
  BY <1>1
<1>5. d = Append(c, e.Name)
  <2>1. /\ DOMAIN t = 1 .. Len(s) + 1 /\ t[Len(s) + 1] = e
        /\ \A n \in 1 .. Len(s) : t[n] = s[n]
    BY AppendKext
  <2>2. e.Name \in KextNames
    BY DEF Kext
  <2> DEFINE a == Append(c, e.Name)
  <2>3. /\ a \in Seq(KextNames) /\ Len(a) = Len(s) + 1
        /\ \A n \in 1 .. Len(s) : a[n] = c[n]
        /\ a[Len(s) + 1] = e.Name
    <3> HIDE DEF c
    <3> QED BY <1>3, <2>2, AppendProperties
  <2>4. \A n \in 1 .. Len(s) : c[n] = s[n].Name
    BY <1>1
  <2>5. \A n \in 1 .. Len(s) + 1 : a[n] = t[n].Name
    <3> HIDE DEF c, t, a
    <3> QED BY <1>1, <2>1, <2>3, <2>4
  <2>6. a \in [1 .. Len(s) + 1 -> KextNames]
    <3> HIDE DEF a
    <3> QED BY <2>3, LenProperties
  <2>7. d = [n \in 1 .. Len(s) + 1 |-> t[n].Name]
    BY <2>1
  <2>8. a = [n \in 1 .. Len(s) + 1 |-> a[n]]
    <3> HIDE DEF a
    <3> QED BY <2>6
  <2>9. [n \in 1 .. Len(s) + 1 |-> t[n].Name] = [n \in 1 .. Len(s) + 1 |-> a[n]]
    <3> HIDE DEF a, t
    <3> QED BY <2>5
  <2> HIDE DEF a, d
  <2> QED BY <2>7, <2>8, <2>9 DEF a
<1> QED
  BY <1>3, <1>4, <1>5

(* Everything wanted is the name of a known kext.                          *)
LEMMA WantedType == Wanted \subseteq KextNames
<1>1. \A l \in DeviceLists : KextsFor(l) \subseteq KextNames \cup {NULL}
  BY KextForType DEF KextsFor
<1>2. Requested \subseteq KextNames
  BY <1>1 DEF Requested
<1> QED
  BY <1>2 DEF Wanted, KextNames

(* The initial state is one of the abstract selection.                     *)
LEMMA InitPromise == Init => Promise!Init
<1> SUFFICES ASSUME Init PROVE Promise!Init
  OBVIOUS
<1>1. \A l \in DeviceLists : KextsFor(l) = {}
  BY DEF Init, NoHardware, KextsFor
<1>2. Requested = {}
  BY <1>1 DEF Requested
<1>3. Chosen = <<>>
  BY DEF Init, Chosen
<1> QED
  BY <1>2, <1>3 DEF Init, Chosen, LoopAfter, Wanted, Promise!Init, Promise!NamesOf

(* Appending a wanted kext that is not listed yet is a Choose step, if an  *)
(* essential kext comes in its turn.                                       *)
LEMMA AppendIsChoose ==
  ASSUME NEW e \in Kext, kexts \in Seq(Kext), kexts' = Append(kexts, e),
         Running, Running', Wanted' = Wanted,
         e.Name \in Wanted \ Names,
         Len(kexts) < Len(Essentials) => e.Name = Essentials[Len(kexts) + 1]
  PROVE  Promise!Choose(e.Name)
<1>1. Chosen' = Append(Chosen, e.Name) /\ Len(Chosen) = Len(kexts)
  BY ChosenAppend DEF Chosen
<1>2. {Chosen[n] : n \in DOMAIN Chosen} = Names
  BY ChosenAppend DEF Chosen, Names
<1> QED
  BY <1>1, <1>2 DEF Promise!Choose, Promise!NamesOf, Chosen, Running

(* Every step is a step of the abstract selection or leaves it alone.      *)
LEMMA NextPromise == IInv /\ [Next]_vars => [Promise!Next]_(Promise!vars)
<1> SUFFICES ASSUME IInv, [Next]_vars
             PROVE  [Promise!Next]_(Promise!vars)
  OBVIOUS
<1>1. kexts \in Seq(Kext) /\ Len(Essentials) \in Nat
  BY EssentialsAssumption, LenProperties DEF IInv, TypeOK, Kext
<1>2. ASSUME NEW info \in SystemInfos, Enter(info)
      PROVE  Promise!Begin
  <2>1. ~Running /\ Running' /\ Chosen' = <<>>
    BY <1>2 DEF Enter, Running, LoopAfter, Chosen
  <2>2. Wanted' \in SUBSET KextNames
    <3>1. \A l \in DeviceLists : KextsFor(l)' \subseteq KextNames \cup {NULL}
      BY KextForType DEF KextsFor
    <3>2. Requested' \subseteq KextNames
      BY <3>1 DEF Requested
    <3> QED BY <3>2 DEF Wanted, KextNames
  <2>3. {Essentials[n] : n \in DOMAIN Essentials} \subseteq Wanted'
    BY DEF Wanted
  <2> QED
    BY <2>1, <2>2, <2>3 DEF Promise!Begin, Promise!NamesOf, Running, Chosen
<1>3. CASE EssentialStep
  <2> DEFINE e == [Name |-> Essentials[i + 1], IsEssential |-> TRUE,
                   Priority |-> i]
  <2>1. /\ kexts' = Append(kexts, e) /\ Len(kexts) = i /\ i \in Nat
        /\ loop = "essentials" /\ loop' = loop /\ sysInfo' = sysInfo
        /\ i + 1 \in DOMAIN Essentials /\ i < Len(Essentials)
    BY <1>1, <1>3, EssentialsAssumption, LenProperties
       DEF EssentialStep, AddKext, IInv, TypeOK, EssentialsLead, LoopLength
  <2>2. e \in Kext /\ e.Name = Essentials[i + 1]
    BY <2>1 DEF Kext, KextNames
  <2>3. Running /\ Running' /\ Wanted' = Wanted
    BY <2>1 DEF Running, LoopAfter, Wanted, Requested, KextsFor
  <2>4. Essentials[i + 1] \in Wanted \ Names
    <3>1. Essentials[i + 1] \in Wanted
      BY <2>1 DEF Wanted
    <3>2. DOMAIN kexts = 1 .. i
      BY <1>1, <2>1, LenProperties
    <3>3. DOMAIN Essentials = 1 .. Len(Essentials)
      BY EssentialsAssumption, LenProperties
    <3>4. \A n \in 1 .. i : kexts[n].Name = Essentials[n]
      BY <2>1, <1>1 DEF IInv, EssentialsLead
    <3> QED
      BY <2>1, <3>1, <3>2, <3>3, <3>4, EssentialsAssumption DEF Names
  <2>5. PICK c : c = e
    OBVIOUS
  <2> HIDE DEF e
  <2>6. Promise!Choose(c.Name)
    BY <1>1, <2>1, <2>2, <2>3, <2>4, <2>5, AppendIsChoose
  <2> QED BY <2>2, <2>5, <2>6 DEF Promise!Next, Kext
<1>4. ASSUME NEW l \in DeviceLists, NEW p \in Nat, DeviceStep(l, p)
      PROVE  [Promise!Next]_(Promise!vars)
  <2> DEFINE k == KextFor(l, sysInfo[l][i + 1])
             e == [Name |-> k, IsEssential |-> FALSE, Priority |-> p]
  <2>1. /\ loop = l /\ loop' = loop /\ sysInfo' = sysInfo
        /\ IF k \in Names \cup {NULL} THEN kexts' = kexts
           ELSE kexts' = Append(kexts, e)
    BY <1>4 DEF DeviceStep, AddKext
  <2>2. Running /\ Running' /\ Wanted' = Wanted
    BY <2>1 DEF Running, LoopAfter, DeviceLists, Wanted, Requested, KextsFor
  <2>3. k \in KextNames \cup {NULL}
    BY KextForType
  <2>4. CASE k \in Names \cup {NULL}
    <3>1. Chosen' = Chosen
      BY <2>1, <2>4 DEF Chosen
    <3> QED BY <2>2, <3>1 DEF Promise!vars, Running, Chosen
  <2>5. CASE k \notin Names \cup {NULL}
    <3>1. IInv'
      BY <1>4, DeviceIInv
    <3>2. k \in Names'
      <4>1. e \in Kext /\ e.Name = k
        BY <2>3, <2>5 DEF Kext
      <4> HIDE DEF e, k
      <4> QED BY <1>1, <2>1, <2>5, <4>1, AppendKext DEF Names
    <3>3. k \in Wanted
      BY <2>1, <2>2, <3>1, <3>2 DEF IInv, SelectionExact, DeviceLists
    <3>4. ~ (Len(kexts) < Len(Essentials))
      BY <1>1, <2>1, LenProperties DEF IInv, EssentialsLead, DeviceLists
    <3>5. e \in Kext /\ e.Name = k
      BY <2>3, <2>5 DEF Kext
    <3>6. PICK c : c = e
      OBVIOUS
    <3> HIDE DEF e, k
    <3>7. Promise!Choose(c.Name)
      BY <1>1, <2>1, <2>2, <2>5, <3>3, <3>4, <3>5, <3>6, AppendIsChoose
    <3> QED BY <3>5, <3>6, <3>7 DEF Promise!Next, Kext
  <2> QED BY <2>4, <2>5
<1>5. CASE EndLoop
  <2>1. loop \in DOMAIN LoopAfter /\ kexts' = kexts /\ sysInfo' = sysInfo
    BY <1>5 DEF EndLoop
  <2>2. Running /\ Chosen' = Chosen /\ Wanted' = Wanted /\ Names' = Names
    BY <2>1 DEF Running, Chosen, Wanted, Requested, KextsFor, Names
  <2>3. CASE loop' = "returned"
    <3>1. IInv'
      BY <1>5, EndLoopIInv
    <3>2. Names = Wanted
      BY <2>2, <2>3, <3>1 DEF IInv, SelectionExact
    <3>3. ~Running'
      BY <2>3 DEF Running, LoopAfter
    <3>4. {Chosen[n] : n \in DOMAIN Chosen} = Names
      BY DEF Chosen, Names
    <3>5. Promise!Finish
      BY <2>2, <3>2, <3>3, <3>4
         DEF Promise!Finish, Promise!NamesOf, Running, Chosen
    <3> QED BY <3>5 DEF Promise!Next
  <2>4. CASE loop' # "returned"
    <3>1. Running'
      BY <1>5, <2>4 DEF EndLoop, Running, LoopAfter
    <3> QED BY <2>2, <3>1 DEF Promise!vars, Running, Chosen
  <2> QED BY <2>3, <2>4
<1>6. CASE UNCHANGED vars
  BY <1>6 DEF vars, Promise!vars, Wanted, Requested, KextsFor
<1> QED
  BY <1>2, <1>3, <1>4, <1>5, <1>6
     DEF Next, SelectKexts, GPUStep, NetworkStep, AudioStep, StorageStep,
         DeviceLists, Promise!Next

(* SelectKexts implements KextSelection: from an empty list, the essential *)
(* kexts in order, then each other wanted kext once; at return nothing     *)
(* wanted is missing.                                                      *)
THEOREM Refinement == Spec => ImplementsPromise
BY InitPromise, NextPromise, Invariance, PTL DEF Spec, ImplementsPromise, Promise!Spec
-----------------------------------------------------------------------------
(* The steps a call still takes: one for every iteration and one for the   *)
(* end of every loop.                                                      *)
StepsIn(l, earlier) ==
  IF loop = l THEN LoopLength(l) + 1 - i
  ELSE IF loop \in earlier THEN LoopLength(l) + 1
  ELSE 0

StepsLeft ==
  StepsIn("essentials", {})
    + StepsIn("GPUs", {"essentials"})
    + StepsIn("Networks", {"essentials", "GPUs"})
    + StepsIn("AudioCodecs", {"essentials", "GPUs", "Networks"})
    + StepsIn("Storage", {"essentials", "GPUs", "Networks", "AudioCodecs"})

CountsDown == StepsLeft \in Nat /\ StepsLeft' = StepsLeft - 1

(* Every step of a call is one of those that were left: a call takes as    *)
(* many steps as the lists have entries and five more, on every machine.   *)
CallsCountDown == [][SelectKexts => CountsDown]_vars

(* No call of SelectKexts runs for ever: its steps are counted beforehand. *)
THEOREM CallsAreBounded == Spec => CallsCountDown
<1>1. ASSUME IInv, SelectKexts PROVE CountsDown
  <2> DEFINE Lengths == /\ LoopLength("essentials") \in Nat
                        /\ LoopLength("GPUs") \in Nat
                        /\ LoopLength("Networks") \in Nat
                        /\ LoopLength("AudioCodecs") \in Nat
                        /\ LoopLength("Storage") \in Nat
  <2>1. Lengths
    <3>1. sysInfo \in SystemInfos \cup {NoHardware}
      BY <1>1 DEF IInv, TypeOK
    <3> QED BY <3>1, InfoType, EssentialsAssumption DEF LoopLength, DeviceLists
  <2>2. \A l : UNCHANGED sysInfo => LoopLength(l)' = LoopLength(l)
    BY DEF LoopLength
  <2>3. i \in Nat /\ (loop \in DOMAIN LoopAfter => i <= LoopLength(loop))
    BY <1>1 DEF IInv, TypeOK
  <2>4. ASSUME loop \in DOMAIN LoopAfter, i < LoopLength(loop),
               i' = i + 1, UNCHANGED <<sysInfo, loop>>
        PROVE  CountsDown
    <3>1. CASE loop = "essentials"
      BY <2>1, <2>2, <2>3, <2>4, <3>1 DEF CountsDown, StepsLeft, StepsIn
    <3>2. CASE loop = "GPUs"
      BY <2>1, <2>2, <2>3, <2>4, <3>2 DEF CountsDown, StepsLeft, StepsIn
    <3>3. CASE loop = "Networks"
      BY <2>1, <2>2, <2>3, <2>4, <3>3 DEF CountsDown, StepsLeft, StepsIn
    <3>4. CASE loop = "AudioCodecs"
      BY <2>1, <2>2, <2>3, <2>4, <3>4 DEF CountsDown, StepsLeft, StepsIn
    <3>5. CASE loop = "Storage"
      BY <2>1, <2>2, <2>3, <2>4, <3>5 DEF CountsDown, StepsLeft, StepsIn
    <3> QED BY <2>4, <3>1, <3>2, <3>3, <3>4, <3>5 DEF LoopAfter
  <2>5. CASE EssentialStep
    BY <2>4, <2>5 DEF EssentialStep, LoopAfter
  <2>6. CASE GPUStep \/ NetworkStep \/ AudioStep \/ StorageStep
    BY <2>4, <2>6 DEF GPUStep, NetworkStep, AudioStep, StorageStep, DeviceStep,
                      LoopAfter
  <2>7. CASE EndLoop
    <3>1. CASE loop = "essentials"
      <4>1. /\ i = LoopLength("essentials") /\ i' = 0
            /\ loop' = "GPUs" /\ sysInfo' = sysInfo
        BY <2>7, <3>1 DEF EndLoop, LoopAfter
      <4> QED BY <2>1, <2>2, <3>1, <4>1 DEF CountsDown, StepsLeft, StepsIn
    <3>2. CASE loop = "GPUs"
      <4>1. /\ i = LoopLength("GPUs") /\ i' = 0
            /\ loop' = "Networks" /\ sysInfo' = sysInfo
        BY <2>7, <3>2 DEF EndLoop, LoopAfter
      <4> QED BY <2>1, <2>2, <3>2, <4>1 DEF CountsDown, StepsLeft, StepsIn
    <3>3. CASE loop = "Networks"
      <4>1. /\ i = LoopLength("Networks") /\ i' = 0
            /\ loop' = "AudioCodecs" /\ sysInfo' = sysInfo
        BY <2>7, <3>3 DEF EndLoop, LoopAfter
      <4> QED BY <2>1, <2>2, <3>3, <4>1 DEF CountsDown, StepsLeft, StepsIn
    <3>4. CASE loop = "AudioCodecs"
      <4>1. /\ i = LoopLength("AudioCodecs") /\ i' = 0
            /\ loop' = "Storage" /\ sysInfo' = sysInfo
        BY <2>7, <3>4 DEF EndLoop, LoopAfter
      <4> QED BY <2>1, <2>2, <3>4, <4>1 DEF CountsDown, StepsLeft, StepsIn
    <3>5. CASE loop = "Storage"
      <4>1. /\ i = LoopLength("Storage") /\ i' = 0
            /\ loop' = "returned" /\ sysInfo' = sysInfo
        BY <2>7, <3>5 DEF EndLoop, LoopAfter
      <4> QED BY <2>1, <2>2, <3>5, <4>1 DEF CountsDown, StepsLeft, StepsIn
    <3> QED BY <2>7, <3>1, <3>2, <3>3, <3>4, <3>5 DEF EndLoop, LoopAfter
  <2> QED BY <1>1, <2>5, <2>6, <2>7 DEF SelectKexts
<1>2. IInv /\ [Next]_vars => [SelectKexts => CountsDown]_vars
  BY <1>1
<1> QED
  BY <1>2, Invariance, PTL DEF Spec, CallsCountDown
=============================================================================
