----------------------------- MODULE ScriptsProofs -----------------------------
(***************************************************************************)
(* Proofs about BuildAll, the downloaders with any -c options, any         *)
(* archives that fail and any number of mishaps, and about Edk2Setup.      *)
(***************************************************************************)
EXTENDS BuildAll, Edk2Setup, SequenceTheorems, NaturalsInduction, WellFoundedInduction, TLAPS

(* Facts on sequences.  What FlattenSeq computes is a fact on a recursive  *)
(* function, by induction: no number is the smallest counterexample.       *)

(* A set of numbers has a smallest element.                                *)
LEMMA Smallest ==
  ASSUME NEW T \in SUBSET Nat, T # {}
  PROVE  \E m \in T : \A k \in T : m <= k
<1> DEFINE R == {ss \in Nat \X Nat : ss[1] < ss[2]}
<1>1. IsWellFoundedOn(R, Nat)
  BY NatLessThanWellFounded DEF OpToRel
<1>2. PICK m \in T : \A k \in T : <<k, m>> \notin R
  <2> HIDE DEF R
  <2> QED
  BY <1>1, WFMin
<1>3. ASSUME NEW k \in T PROVE m <= k
  <2>1. k < m => <<k, m>> \in R
    OBVIOUS
  <2>2. ~(k < m)
    BY <1>2, <2>1
  <2> QED
    BY <2>2
<1> QED
  BY <1>3

(* f[n] is the concatenation of the first n sequences.                     *)
Joined(ss, f, n) == f = [i \in 1 .. n |-> IF i = 1 THEN ss[i] ELSE f[i - 1] \o ss[i]]

(* One more sequence joined to what has been joined so far.                *)
LEMMA JoinedOneMore ==
  ASSUME NEW ss, NEW m \in Nat \ {0}, NEW f, Joined(ss, f, m - 1)
  PROVE  \E g : Joined(ss, g, m)
<1> DEFINE g == [i \in 1 .. m |-> IF i < m THEN f[i]
                                 ELSE IF i = 1 THEN ss[i] ELSE f[i - 1] \o ss[i]]
           h == [i \in 1 .. m |-> IF i = 1 THEN ss[i] ELSE g[i - 1] \o ss[i]]
<1>1. ASSUME NEW i \in 1 .. m
      PROVE  g[i] = IF i = 1 THEN ss[i] ELSE g[i - 1] \o ss[i]
  <2>1. CASE i < m
    <3>1. i \in 1 .. m - 1 /\ (i # 1 => i - 1 \in 1 .. m /\ i - 1 < m)
      BY <2>1
    <3>2. g[i] = f[i] /\ (i # 1 => g[i - 1] = f[i - 1])
      BY <2>1, <3>1
    <3>3. f[i] = IF i = 1 THEN ss[i] ELSE f[i - 1] \o ss[i]
      BY <3>1 DEF Joined
    <3> QED
      BY <3>2, <3>3
  <2>2. CASE ~(i < m)
    <3>1. i # 1 => i - 1 \in 1 .. m /\ i - 1 < m
      BY <2>2
    <3>2. i # 1 => g[i - 1] = f[i - 1]
      BY <3>1
    <3> QED
      BY <2>2, <3>2
  <2> QED
    BY <2>1, <2>2
<1>2. g = [i \in 1 .. m |-> g[i]]
  OBVIOUS
<1>3. g = h
  <2> HIDE DEF g
  <2> QED
    BY <1>1, <1>2
<1>4. Joined(ss, g, m)
  <2> HIDE DEF g
  <2> QED
    BY <1>3 DEF Joined
<1> QED
  BY <1>4

(* The function FlattenSeq is defined by exists.                           *)
LEMMA JoinedExists ==
  ASSUME NEW ss, NEW n \in Nat
  PROVE  \E f : Joined(ss, f, n)
<1> DEFINE T == {k \in Nat : ~ \E f : Joined(ss, f, k)}
<1>1. SUFFICES ASSUME T # {} PROVE FALSE
  OBVIOUS
<1>2. T \in SUBSET Nat
  OBVIOUS
<1>3. PICK m \in T : \A k \in T : m <= k
  <2> HIDE DEF T
  <2> QED BY <1>1, <1>2, Smallest
<1>4. Joined(ss, <<>>, 0)
  BY DEF Joined
<1>5. m \in Nat \ {0}
  BY <1>4
<1>6. m - 1 \in Nat /\ m - 1 \notin T
  BY <1>3, <1>5
<1>7. \E f : Joined(ss, f, m - 1)
  BY <1>6
<1> QED
  BY <1>5, <1>7, JoinedOneMore

(* What is in a concatenation.                                             *)
LEMMA ConcatRange ==
  ASSUME NEW S, NEW s \in Seq(S), NEW t \in Seq(S)
  PROVE  s \o t \in Seq(S) /\ ToSet(s \o t) = ToSet(s) \cup ToSet(t)
<1>1. /\ s \o t \in Seq(S) /\ Len(s \o t) = Len(s) + Len(t)
      /\ \A i \in 1 .. Len(s) : (s \o t)[i] = s[i]
      /\ \A i \in 1 .. Len(t) : (s \o t)[Len(s) + i] = t[i]
      /\ DOMAIN s = 1 .. Len(s) /\ DOMAIN t = 1 .. Len(t)
      /\ DOMAIN (s \o t) = 1 .. Len(s \o t)
      /\ Len(s) \in Nat /\ Len(t) \in Nat
  OBVIOUS
<1> DEFINE u == s \o t
<1> HIDE DEF u
<1>2. ASSUME NEW x \in ToSet(u) PROVE x \in ToSet(s) \cup ToSet(t)
  <2>1. PICK i \in 1 .. Len(s) + Len(t) : x = u[i]
    BY <1>1, <1>2 DEF ToSet, u
  <2>2. CASE i <= Len(s)
    BY <2>1, <2>2, <1>1 DEF ToSet, u
  <2>3. CASE i > Len(s)
    <3>1. i - Len(s) \in 1 .. Len(t) /\ i = Len(s) + (i - Len(s))
      BY <2>3, <1>1
    <3>2. x = t[i - Len(s)]
      BY <3>1, <2>1, <1>1 DEF u
    <3> QED
      BY <3>1, <3>2, <1>1 DEF ToSet
  <2> QED
    BY <2>2, <2>3, <1>1
<1>3. ASSUME NEW x \in ToSet(s) PROVE x \in ToSet(u)
  <2>1. PICK i \in 1 .. Len(s) : x = s[i]
    BY <1>1, <1>3 DEF ToSet
  <2>2. i \in DOMAIN u /\ u[i] = x
    BY <2>1, <1>1 DEF u
  <2> QED
    BY <2>2 DEF ToSet
<1>4. ASSUME NEW x \in ToSet(t) PROVE x \in ToSet(u)
  <2>1. PICK i \in 1 .. Len(t) : x = t[i]
    BY <1>1, <1>4 DEF ToSet
  <2>2. Len(s) + i \in DOMAIN u /\ u[Len(s) + i] = x
    BY <2>1, <1>1 DEF u
  <2> QED
    BY <2>2 DEF ToSet
<1>5. ToSet(u) = ToSet(s) \cup ToSet(t)
  BY <1>2, <1>3, <1>4
<1> QED
  BY <1>1, <1>5 DEF u

(* The elements of the first n sequences.                                  *)
ElementsTo(ss, n) == UNION {ToSet(ss[k]) : k \in 1 .. n}

(* What has been joined when n sequences have.                             *)
LEMMA JoinedRange ==
  ASSUME NEW S, NEW ss \in Seq(Seq(S)), NEW f, Joined(ss, f, Len(ss)),
         NEW n \in 1 .. Len(ss)
  PROVE  /\ f[n] \in Seq(S)
         /\ ToSet(f[n]) = ElementsTo(ss, n)
<1> DEFINE U(k) == ElementsTo(ss, k)
           T == {k \in 1 .. Len(ss) : ~(f[k] \in Seq(S) /\ ToSet(f[k]) = U(k))}
<1> HIDE DEF U
<1>1. SUFFICES ASSUME T # {} PROVE FALSE
  BY DEF U
<1>2. T \in SUBSET Nat
  OBVIOUS
<1>3. PICK m \in T : \A k \in T : m <= k
  <2> HIDE DEF T
  <2> QED BY <1>1, <1>2, Smallest
<1>a. m \in 1 .. Len(ss)
  OBVIOUS
<1>4. ss[m] \in Seq(S) /\ f[m] = IF m = 1 THEN ss[m] ELSE f[m - 1] \o ss[m]
  <2> HIDE DEF T
  <2>1. ss[m] \in Seq(S)
    BY <1>a
  <2>2. f[m] = IF m = 1 THEN ss[m] ELSE f[m - 1] \o ss[m]
    BY <1>a DEF Joined
  <2> QED
    BY <2>1, <2>2
<1>5. CASE m = 1
  <2>1. U(1) = ToSet(ss[1])
    BY DEF U, ElementsTo
  <2> QED
    BY <2>1, <1>4, <1>5
<1>6. CASE m # 1
  <2>1. m - 1 \in 1 .. Len(ss) /\ m - 1 \notin T
    BY <1>3, <1>6
  <2>2. f[m - 1] \in Seq(S) /\ ToSet(f[m - 1]) = U(m - 1)
    BY <2>1
  <2>3. 1 .. m = (1 .. m - 1) \cup {m}
    BY <1>6
  <2>4. U(m) = U(m - 1) \cup ToSet(ss[m])
    BY <2>3 DEF U, ElementsTo
  <2>5. f[m] \in Seq(S) /\ ToSet(f[m]) = U(m)
    BY <2>2, <2>4, <1>4, <1>6, ConcatRange
  <2> QED
    BY <2>5
<1> QED
  BY <1>5, <1>6

(* FlattenSeq loses nothing and adds nothing.                              *)
LEMMA FlattenSeqRange ==
  ASSUME NEW S, NEW ss \in Seq(Seq(S))
  PROVE  /\ FlattenSeq(ss) \in Seq(S)
         /\ ToSet(FlattenSeq(ss)) = UNION {ToSet(ss[n]) : n \in DOMAIN ss}
<1>1. CASE Len(ss) = 0
  <2>1. ss = <<>> /\ DOMAIN ss = {}
    BY <1>1
  <2>2. FlattenSeq(ss) = <<>>
    BY <1>1, <2>1 DEF FlattenSeq
  <2>3. ToSet(FlattenSeq(ss)) = {} /\ FlattenSeq(ss) \in Seq(S)
    BY <2>2 DEF ToSet
  <2>4. UNION {ToSet(ss[n]) : n \in DOMAIN ss} = {}
    BY <2>1
  <2> QED
    BY <2>3, <2>4
<1>2. CASE Len(ss) # 0
  <2> DEFINE F == CHOOSE f : Joined(ss, f, Len(ss))
  <2>1. FlattenSeq(ss) = F[Len(ss)]
    BY <1>2 DEF FlattenSeq, Joined
  <2>a. \E f : Joined(ss, f, Len(ss))
    BY JoinedExists, LenProperties
  <2>2. Joined(ss, F, Len(ss))
    BY <2>a
  <2>3. DOMAIN ss = 1 .. Len(ss) /\ Len(ss) \in 1 .. Len(ss)
    BY <1>2
  <2> HIDE DEF F
  <2>b. ASSUME NEW n \in 1 .. Len(ss)
        PROVE  F[n] \in Seq(S) /\ ToSet(F[n]) = ElementsTo(ss, n)
    BY <2>2, JoinedRange
  <2>4. F[Len(ss)] \in Seq(S) /\ ToSet(F[Len(ss)]) = ElementsTo(ss, Len(ss))
    BY <2>b, <2>3
  <2> QED
    BY <2>1, <2>3, <2>4 DEF ElementsTo
<1> QED BY <1>1, <1>2

-----------------------------------------------------------------------------
(* The tables of kexts.                                                    *)

KextDirectories ==
  {"essential", "gpu", "audio", "network", "wireless", "bluetooth", "storage",
   "usb", "input", "utility"}

(* A sequence of archives of some directories.                             *)
ArchivesOf(directories, s) ==
  s \in Seq(ToSet(s)) /\ \A a \in ToSet(s) : a[1] \in directories

LEMMA KextsRange ==
  ASSUME NEW directories, NEW directory \in directories,
         NEW names, NEW k \in Nat, DOMAIN names = 1 .. k
  PROVE  /\ ArchivesOf(directories, Kexts(directory, names))
         /\ \A n \in 1 .. k : <<directory, names[n]>> \in ToSet(Kexts(directory, names))
<1> DEFINE s == Kexts(directory, names)
<1>1. s = [n \in 1 .. k |-> <<directory, names[n]>>]
  BY DEF Kexts
<1>2. ToSet(s) = {<<directory, names[n]>> : n \in 1 .. k}
  BY <1>1 DEF ToSet
<1>3. s \in Seq(ToSet(s))
  <2> HIDE DEF s
  <2> QED
    BY <1>1, <1>2
<1>4. \A a \in ToSet(s) : a[1] = directory
  <2> HIDE DEF s
  <2> QED
    BY <1>2
<1> QED
  BY <1>2, <1>3, <1>4 DEF ArchivesOf

LEMMA KextsOfOneOrTwo ==
  ASSUME NEW directories, NEW directory \in directories, NEW x, NEW y
  PROVE  /\ ArchivesOf(directories, Kexts(directory, <<x>>))
         /\ ArchivesOf(directories, Kexts(directory, <<x, y>>))
         /\ <<directory, x>> \in ToSet(Kexts(directory, <<x, y>>))
<1>1. ArchivesOf(directories, Kexts(directory, <<x>>))
  <2>1. DOMAIN <<x>> = 1 .. 1 /\ 1 \in Nat
    OBVIOUS
  <2> QED
    BY <2>1, KextsRange
<1>2. /\ ArchivesOf(directories, Kexts(directory, <<x, y>>))
      /\ <<directory, x>> \in ToSet(Kexts(directory, <<x, y>>))
  <2> DEFINE names == <<x, y>>
  <2>1. DOMAIN names = 1 .. 2 /\ 2 \in Nat /\ names[1] = x
    OBVIOUS
  <2> HIDE DEF names
  <2>2. /\ ArchivesOf(directories, Kexts(directory, names))
        /\ \A n \in 1 .. 2 : <<directory, names[n]>> \in ToSet(Kexts(directory, names))
    BY <2>1, KextsRange
  <2> QED
    BY <2>1, <2>2 DEF names
<1> QED
  BY <1>1, <1>2

LEMMA ArchivesOfBoth ==
  ASSUME NEW directories, NEW s, NEW t,
         ArchivesOf(directories, s), ArchivesOf(directories, t)
  PROVE  /\ ArchivesOf(directories, s \o t)
         /\ \A a : a \in ToSet(s) \/ a \in ToSet(t) => a \in ToSet(s \o t)
<1>1. s \in Seq(ToSet(s) \cup ToSet(t)) /\ t \in Seq(ToSet(s) \cup ToSet(t))
  BY SeqMonotonic DEF ArchivesOf
<1>2. /\ s \o t \in Seq(ToSet(s) \cup ToSet(t))
      /\ ToSet(s \o t) = ToSet(s) \cup ToSet(t)
  BY <1>1, ConcatRange
<1> QED
  BY <1>2 DEF ArchivesOf

LEMMA KEXTS_DBRange ==
  /\ ArchivesOf(KextDirectories, KEXTS_DB)
  /\ <<"network", "IntelMausi">> \in ToSet(KEXTS_DB)
<1> DEFINE K(s) == ArchivesOf(KextDirectories, s)
           a1 == Kexts("essential", <<"Lilu", "VirtualSMC">>)
           a2 == Kexts("gpu", <<"WhateverGreen">>)
           a3 == Kexts("audio", <<"AppleALC">>)
           network == Kexts("network", <<"IntelMausi", "RealtekRTL8111">>)
           a5 == Kexts("wireless", <<"AirportItlwm", "IntelBluetoothFirmware">>)
           a6 == Kexts("bluetooth", <<"BrcmPatchRAM">>)
           a7 == Kexts("storage", <<"NVMeFix">>)
           a8 == Kexts("usb", <<"USBInjectAll">>)
           a9 == Kexts("input", <<"VoodooPS2Controller", "VoodooI2C">>)
           a10 == Kexts("utility", <<"CPUFriend", "FeatureUnlock">>)
<1>1. /\ K(a1) /\ K(a2) /\ K(a3) /\ K(a5) /\ K(a6) /\ K(a7) /\ K(a8) /\ K(a9) /\ K(a10)
  BY KextsOfOneOrTwo DEF KextDirectories
<1>2. K(network) /\ <<"network", "IntelMausi">> \in ToSet(network)
  BY KextsOfOneOrTwo DEF KextDirectories
<1>3. KEXTS_DB = a1 \o a2 \o a3 \o network \o a5 \o a6 \o a7 \o a8 \o a9 \o a10
  BY DEF KEXTS_DB
<1> HIDE DEF a1, a2, a3, network, a5, a6, a7, a8, a9, a10
<1>4. K(a1 \o a2) /\ K(a1 \o a2 \o a3)
  BY <1>1, ArchivesOfBoth
<1>5. /\ K(a1 \o a2 \o a3 \o network)
      /\ <<"network", "IntelMausi">> \in ToSet(a1 \o a2 \o a3 \o network)
  BY <1>2, <1>4, ArchivesOfBoth
<1> DEFINE Good(s) == K(s) /\ <<"network", "IntelMausi">> \in ToSet(s)
<1>6. ASSUME NEW s, NEW t, Good(s), K(t) PROVE Good(s \o t)
  <2>1. ArchivesOf(KextDirectories, s) /\ ArchivesOf(KextDirectories, t)
    BY <1>6
  <2>2. K(s \o t)
    BY <2>1, ArchivesOfBoth
  <2>3. \A a \in ToSet(s) : a \in ToSet(s \o t)
    BY <2>1, ArchivesOfBoth
  <2> QED
    BY <1>6, <2>2, <2>3
<1>7. Good(a1 \o a2 \o a3 \o network)
  BY <1>5
<1> HIDE DEF Good, K
<1>8. Good(a1 \o a2 \o a3 \o network \o a5 \o a6 \o a7)
  BY <1>1, <1>6, <1>7
<1>9. Good(KEXTS_DB)
  BY <1>1, <1>3, <1>6, <1>8
<1> QED
  BY <1>9 DEF Good, K

LEMMA AcpiKextsRange ==
  /\ ArchivesOf({"precompiled"}, AcpiKexts)
  /\ <<"precompiled", "Lilu">> \in ToSet(AcpiKexts)
<1> DEFINE names == <<"Lilu", "WhateverGreen", "VirtualSMC", "AppleALC", "CPUFriend",
                      "NVMeFix", "RTCMemoryFixup", "HibernationFixup",
                      "FeatureUnlock", "AirportBrcmFixup">>
<1>1. AcpiKexts = Kexts("precompiled", names)
  BY DEF AcpiKexts
<1>2. DOMAIN names = 1 .. 10 /\ names[1] = "Lilu"
  OBVIOUS
<1> HIDE DEF names
<1>3. 10 \in Nat /\ 1 \in 1 .. 10 /\ "precompiled" \in {"precompiled"}
  OBVIOUS
<1>4. /\ ArchivesOf({"precompiled"}, Kexts("precompiled", names))
      /\ \A n \in 1 .. 10 :
           <<"precompiled", names[n]>> \in ToSet(Kexts("precompiled", names))
  BY <1>2, <1>3, KextsRange
<1> QED
  BY <1>1, <1>2, <1>3, <1>4

KextCategories == SlashCategories \cup PlainCategories

LEMMA CategoryNames ==
  /\ DOMAIN KEXTS_DATABASE = KextCategories
  /\ \A category \in KextCategories :
       \E k \in Nat : DOMAIN KEXTS_DATABASE[category] = 1 .. k
<1>1. DOMAIN KEXTS_DATABASE = KextCategories
  BY DEF KEXTS_DATABASE, KextCategories
<1>2. ASSUME NEW category \in SlashCategories
      PROVE  \E k \in {1, 2, 3, 7} : DOMAIN KEXTS_DATABASE[category] = 1 .. k
  BY DEF KEXTS_DATABASE, SlashCategories
<1>3. ASSUME NEW category \in PlainCategories
      PROVE  \E k \in {1, 2, 3, 7} : DOMAIN KEXTS_DATABASE[category] = 1 .. k
  BY DEF KEXTS_DATABASE, PlainCategories
<1> QED
  BY <1>1, <1>2, <1>3 DEF KextCategories

(* The archives of one category.                                           *)
CategoryArchives(category) == ToSet(Kexts(category, KEXTS_DATABASE[category]))

LEMMA CategoryKexts ==
  ASSUME NEW category \in KextCategories
  PROVE  ArchivesOf(KextCategories, Kexts(category, KEXTS_DATABASE[category]))
<1>1. PICK k \in Nat : DOMAIN KEXTS_DATABASE[category] = 1 .. k
  BY CategoryNames
<1> QED
  BY <1>1, KextsRange

(* download_all goes through the archives of the categories it is given,   *)
(* of those it knows.                                                      *)
LEMMA SelectedKextsRange ==
  ASSUME NEW categories, NEW k \in Nat, DOMAIN categories = 1 .. k
  PROVE  /\ ArchivesOf(KextCategories, SelectedKexts(categories))
         /\ ToSet(SelectedKexts(categories)) =
              UNION {CategoryArchives(c) : c \in ToSet(categories) \cap KextCategories}
<1> DEFINE S == UNION {CategoryArchives(c) : c \in KextCategories}
           ss == [n \in DOMAIN categories |->
                    IF categories[n] \in DOMAIN KEXTS_DATABASE
                    THEN Kexts(categories[n], KEXTS_DATABASE[categories[n]])
                    ELSE <<>>]
<1>1. DOMAIN ss = 1 .. k
  OBVIOUS
<1>2. ASSUME NEW c \in KextCategories
      PROVE  Kexts(c, KEXTS_DATABASE[c]) \in Seq(S)
  <2>1. CategoryArchives(c) \subseteq S
    OBVIOUS
  <2> QED
    BY <2>1, CategoryKexts, SeqMonotonic DEF ArchivesOf, CategoryArchives
<1>3. ASSUME NEW n \in 1 .. k
      PROVE  /\ ss[n] \in Seq(S)
             /\ ToSet(ss[n]) = IF categories[n] \in KextCategories
                               THEN CategoryArchives(categories[n]) ELSE {}
  <2>1. CASE categories[n] \in KextCategories
    <3>1. ss[n] = Kexts(categories[n], KEXTS_DATABASE[categories[n]])
      BY <2>1, CategoryNames
    <3> HIDE DEF S, ss
    <3> QED
      BY <2>1, <3>1, <1>2 DEF CategoryArchives
  <2>2. CASE categories[n] \notin KextCategories
    <3>1. ss[n] = <<>>
      BY <2>2, CategoryNames
    <3> HIDE DEF S, ss
    <3> QED
      BY <2>2, <3>1 DEF ToSet
  <2> QED
    BY <2>1, <2>2
<1>4. ss \in Seq(Seq(S))
  <2>1. ss = [n \in 1 .. k |-> ss[n]]
    OBVIOUS
  <2> HIDE DEF S, ss
  <2> QED
    BY <2>1, <1>1, <1>3
<1>5. /\ SelectedKexts(categories) \in Seq(S)
      /\ ToSet(SelectedKexts(categories)) = UNION {ToSet(ss[n]) : n \in DOMAIN ss}
  <2>1. SelectedKexts(categories) = FlattenSeq(ss)
    BY DEF SelectedKexts
  <2> HIDE DEF S, ss
  <2> QED
    BY <2>1, <1>4, FlattenSeqRange
<1> HIDE DEF ss
<1>6. UNION {ToSet(ss[n]) : n \in DOMAIN ss} =
        UNION {CategoryArchives(c) : c \in ToSet(categories) \cap KextCategories}
  <2>1. ASSUME NEW n \in DOMAIN ss, NEW a \in ToSet(ss[n])
        PROVE  \E c \in ToSet(categories) \cap KextCategories : a \in CategoryArchives(c)
    BY <2>1, <1>1, <1>3 DEF ToSet
  <2>2. ASSUME NEW c \in ToSet(categories) \cap KextCategories, NEW a \in CategoryArchives(c)
        PROVE  \E n \in DOMAIN ss : a \in ToSet(ss[n])
    <3>1. PICK n \in 1 .. k : c = categories[n]
      BY DEF ToSet
    <3> QED
      BY <3>1, <1>1, <1>3
  <2> QED
    BY <2>1, <2>2
<1>7. \A a \in ToSet(SelectedKexts(categories)) : a[1] \in KextCategories
  BY <1>5, <1>6, CategoryKexts DEF ArchivesOf, CategoryArchives
<1>8. SelectedKexts(categories) \in Seq(ToSet(SelectedKexts(categories)))
  <2> DEFINE s == SelectedKexts(categories)
  <2>1. s = [n \in 1 .. Len(s) |-> s[n]] /\ Len(s) \in Nat /\ DOMAIN s = 1 .. Len(s)
    BY <1>5
  <2> HIDE DEF s
  <2>2. \A n \in 1 .. Len(s) : s[n] \in ToSet(s)
    BY <2>1 DEF ToSet
  <2>3. s \in Seq(ToSet(s))
    BY <2>1, <2>2
  <2> QED
    BY <2>3 DEF s
<1> QED
  BY <1>5, <1>6, <1>7, <1>8 DEF ArchivesOf

(* The option -c all.                                                      *)
LEMMA AllCategories ==
  DOMAIN Categories = 1 .. 15 /\ ToSet(Categories) = KextCategories
<1>1. DOMAIN Categories = 1 .. 15
  BY DEF Categories
<1>2. \A n \in 1 .. 15 : Categories[n] \in KextCategories
  BY DEF Categories, KextCategories, SlashCategories, PlainCategories
<1>3. \A c \in KextCategories : \E n \in 1 .. 15 : c = Categories[n]
  BY DEF Categories, KextCategories, SlashCategories, PlainCategories
<1> QED
  BY <1>1, <1>2, <1>3 DEF ToSet

(* What -c may be.                                                         *)
Callers == Selections \cup {<<>>}

LEMMA CallersAreSequences ==
  ASSUME NEW categories \in Callers
  PROVE  \E k \in Nat : DOMAIN categories = 1 .. k
BY DownloadsAssumption DEF Callers

LEMMA PlanIsTyped ==
  ASSUME NEW tool \in Tools, NEW categories \in Callers
  PROVE  Plan(tool, categories) \in Seq(Archives)
<1>1. CASE tool = "download_all_kexts"
  <2>1. KEXTS_DB \in Seq(Archives)
    BY KEXTS_DBRange, SeqMonotonic DEF ArchivesOf, Archives
  <2> QED
    BY <1>1, <2>1 DEF Plan
<1>2. CASE tool = "download_kexts"
  <2>1. PICK k \in Nat : DOMAIN categories = 1 .. k
    BY CallersAreSequences
  <2>2. /\ ArchivesOf(KextCategories, SelectedKexts(categories))
        /\ ToSet(SelectedKexts(categories)) =
              UNION {CategoryArchives(c) : c \in ToSet(categories) \cap KextCategories}
    BY <2>1, SelectedKextsRange
  <2>3. ToSet(SelectedKexts(Categories)) = UNION {CategoryArchives(c) : c \in KextCategories}
    <3>1. 15 \in Nat /\ KextCategories \cap KextCategories = KextCategories
      OBVIOUS
    <3> QED
      BY <3>1, AllCategories, SelectedKextsRange
  <2>4. ToSet(SelectedKexts(categories)) \subseteq Archives
    BY <2>2, <2>3 DEF Archives
  <2>5. SelectedKexts(categories) \in Seq(Archives)
    BY <2>2, <2>4, SeqMonotonic DEF ArchivesOf
  <2> QED
    BY <1>2, <2>5 DEF Plan
<1>3. CASE tool = "download_acpi"
  <2>1. AcpiKexts \in Seq(Archives)
    BY AcpiKextsRange, SeqMonotonic DEF ArchivesOf, Archives
  <2> QED
    BY <1>3, <2>1 DEF Plan
<1> QED
  BY <1>1, <1>2, <1>3 DEF Tools

(* No script but download_kexts.py knows the categories with a slash.      *)
LEMMA SlashIsElsewhere ==
  /\ \A a \in ToSet(KEXTS_DB) : a[1] \notin SlashCategories
  /\ \A a \in ToSet(AcpiKexts) : a[1] \notin SlashCategories
  /\ SsdtConfig[1] \notin SlashCategories
  /\ \A tool \in Tools : Created(tool) \cap SlashCategories = {}
<1>1. \A a \in ToSet(KEXTS_DB) : a[1] \notin SlashCategories
  BY KEXTS_DBRange DEF ArchivesOf, KextDirectories, SlashCategories
<1>2. \A a \in ToSet(AcpiKexts) : a[1] \notin SlashCategories
  BY AcpiKextsRange DEF ArchivesOf, SlashCategories
<1>3. SsdtConfig[1] \notin SlashCategories
  BY DEF SsdtConfig, SlashCategories
<1>4. \A tool \in Tools : Created(tool) \cap SlashCategories = {}
  BY DEF Tools, Created, PlainCategories, SlashCategories
<1> QED
  BY <1>1, <1>2, <1>3, <1>4

(* No selection is the plan of another script.                             *)
LEMMA PlansDiffer ==
  ASSUME NEW categories \in Callers
  PROVE  SelectedKexts(categories) # KEXTS_DB /\ SelectedKexts(categories) # AcpiKexts
<1>1. \A a \in ToSet(SelectedKexts(categories)) : a[1] \in KextCategories
  BY CallersAreSequences, SelectedKextsRange DEF ArchivesOf
<1>2. "network" \notin KextCategories /\ "precompiled" \notin KextCategories
  BY DEF KextCategories, SlashCategories, PlainCategories
<1>3. CASE SelectedKexts(categories) = KEXTS_DB
  <2>1. <<"network", "IntelMausi">>[1] \in KextCategories
    BY <1>1, <1>3, KEXTS_DBRange
  <2> QED
    BY <2>1, <1>2
<1>4. CASE SelectedKexts(categories) = AcpiKexts
  <2>1. <<"precompiled", "Lilu">>[1] \in KextCategories
    BY <1>1, <1>4, AcpiKextsRange
  <2> QED
    BY <2>1, <1>2
<1> QED
  BY <1>3, <1>4
-----------------------------------------------------------------------------
(* The downloaders.                                                        *)

(* A script goes through its own plan.                                     *)
PlanOK ==
  dlTool # "none" => \E categories \in Callers : dlPlan = Plan(dlTool, categories)

(* download_kexts.py has an answer for every archive it is past.           *)
Tried == {dlPlan[k] : k \in 1 .. dlAt - 1}

ReportOK == dlTool = "download_kexts" => dlDone \cup dlFailed = Tried

(* None of the six directories that no script creates exists.              *)
DirsOK ==
  /\ dlDirs \cap SlashCategories = {}
  /\ dlFetching => Current[1] \in dlDirs

(* The inductive invariant of the downloaders.                             *)
DlInv ==
  DlTypeOK /\ PlanOK /\ ReportOK /\ DirsOK /\ DoneMeansWhole /\ SlashCategoriesNeverArrive

LEMMA InitDlInv ==
  ASSUME DlInit
  PROVE  DlInv
<1>1. DlTypeOK
  <2>1. dlPlan \in Seq(Archives) /\ dlAt \in 1 .. Len(dlPlan) + 1
    BY DEF DlInit
  <2>2. archives \in [Archives -> {"absent", "torn", "whole"}]
    BY DEF DlInit
  <2>3. mishaps \in 0 .. MaxMishaps
    BY DownloadsAssumption DEF DlInit
  <2> QED
    BY <2>1, <2>2, <2>3 DEF DlInit, DlTypeOK
<1>2. PlanOK /\ ReportOK
  BY DEF DlInit, PlanOK, ReportOK
<1>3. DirsOK
  BY DEF DlInit, DirsOK, SlashCategories
<1>4. DoneMeansWhole
  BY DEF DlInit, DoneMeansWhole, ToSet
<1>5. SlashCategoriesNeverArrive
  BY SlashIsElsewhere DEF DlInit, SlashCategoriesNeverArrive, ToSet
<1> QED
  BY <1>1, <1>2, <1>3, <1>4, <1>5 DEF DlInv

LEMMA InvokeDlInv ==
  ASSUME DlInv, NEW tool \in Tools, NEW dry \in BOOLEAN, NEW options,
         NEW categories \in Callers, Invoke(tool, dry, options, categories)
  PROVE  DlInv'
<1> USE DEF DlInv
<1>1. CASE options \subseteq Options(tool)
  <2>1. /\ dlTool' = tool /\ dlDry' = dry /\ dlPlan' = Plan(tool, categories)
        /\ dlAt' = 1 /\ dlDone' = {} /\ dlFailed' = {} /\ dlExit' = "running"
        /\ dlDirs' = dlDirs \cup Created(tool) /\ dlFetching' = FALSE
        /\ archives' = archives /\ mishaps' = mishaps
    BY <1>1 DEF Invoke, DlTypeOK
  <2>2. DlTypeOK'
    <3>1. dlPlan' \in Seq(Archives) /\ dlAt' \in 1 .. Len(dlPlan') + 1
      BY <2>1, PlanIsTyped
    <3>2. tool # "none"
      BY DEF Tools
    <3> QED
      BY <2>1, <3>1, <3>2 DEF DlTypeOK
  <2>3. PlanOK' /\ ReportOK'
    BY <2>1 DEF PlanOK, ReportOK, Tried
  <2>4. DirsOK'
    BY <2>1, SlashIsElsewhere DEF DirsOK
  <2>5. DoneMeansWhole'
    BY <2>1 DEF DoneMeansWhole
  <2>6. SlashCategoriesNeverArrive'
    BY <2>1 DEF SlashCategoriesNeverArrive
  <2> QED
    BY <2>2, <2>3, <2>4, <2>5, <2>6
<1>2. CASE ~(options \subseteq Options(tool))
  <2>1. /\ dlExit' = "usage" /\ dlTool = "none"
        /\ UNCHANGED <<dlRun, dlAt, dlFetching, dlReport, dlDirs, archives, mishaps>>
    BY <1>2 DEF Invoke
  <2>2. DlTypeOK'
    BY <2>1 DEF DlTypeOK, dlRun, dlReport
  <2>3. PlanOK' /\ ReportOK' /\ DirsOK'
    BY <2>1 DEF PlanOK, ReportOK, Tried, DirsOK, dlRun, dlReport, Tools, Current
  <2>4. DoneMeansWhole' /\ SlashCategoriesNeverArrive'
    BY <2>1 DEF DoneMeansWhole, SlashCategoriesNeverArrive, dlRun, dlReport, Current
  <2> QED
    BY <2>2, <2>3, <2>4
<1> QED
  BY <1>1, <1>2

(* What is reported on the archive a script is at.                         *)
LEMMA ReportKeeps ==
  ASSUME DlInv, dlTool # "none", dlAt <= Len(dlPlan), NEW success \in BOOLEAN,
         Report(success), UNCHANGED dlRun
  PROVE  /\ dlAt' \in 1 .. Len(dlPlan') + 1
         /\ dlDone' \subseteq Archives /\ dlFailed' \subseteq Archives
         /\ Current \in Archives /\ Current \in ToSet(dlPlan)
         /\ ReportOK'
<1> USE DEF DlInv
<1>1. dlAt \in 1 .. Len(dlPlan) /\ dlPlan \in Seq(Archives)
  BY DEF DlTypeOK
<1>2. Current \in Archives /\ Current \in ToSet(dlPlan)
  BY <1>1 DEF Current, ToSet
<1>3. dlAt' \in 1 .. Len(dlPlan') + 1
  BY <1>1 DEF Report, dlRun
<1>4. dlDone' \subseteq Archives /\ dlFailed' \subseteq Archives
  BY <1>2 DEF Report, DlTypeOK
<1>5. ASSUME dlTool = "download_kexts"
      PROVE  dlDone' \cup dlFailed' = Tried'
  <2>1. dlDone' \cup dlFailed' = Tried \cup {Current}
    <3>1. dlDone' \cup dlFailed' = dlDone \cup dlFailed \cup {Current}
      BY <1>5 DEF Report
    <3> QED
      BY <3>1, <1>5 DEF ReportOK
  <2>2. dlAt' = dlAt + 1 /\ dlPlan' = dlPlan
    BY DEF Report, dlRun
  <2>3. 1 .. dlAt = (1 .. dlAt - 1) \cup {dlAt}
    BY <1>1
  <2>4. Tried' = {dlPlan[k] : k \in 1 .. dlAt}
    BY <2>2, <1>1 DEF Tried
  <2>5. Tried' = Tried \cup {Current}
    BY <2>3, <2>4 DEF Tried, Current
  <2> QED
    BY <2>1, <2>5
<1>6. ReportOK'
  BY <1>5 DEF ReportOK, dlRun
<1> QED
  BY <1>2, <1>3, <1>4, <1>6

(* A call that fails, or one that succeeds in a dry run, opens nothing.    *)
LEMMA ReportDlInv ==
  ASSUME DlInv, dlTool # "none", dlAt <= Len(dlPlan), NEW success \in BOOLEAN,
         Report(success), UNCHANGED <<dlRun, dlExit, archives>>,
         dlDirs' \cap SlashCategories = {}, mishaps' \in 0 .. MaxMishaps,
         success => dlDry
  PROVE  DlInv'
<1> USE DEF DlInv
<1>1. /\ dlAt' \in 1 .. Len(dlPlan') + 1
      /\ dlDone' \subseteq Archives /\ dlFailed' \subseteq Archives
      /\ ReportOK'
  BY ReportKeeps
<1>2. dlFetching' = FALSE /\ dlExit = "running" /\ dlExit' = "running"
  BY DEF Report, DlTypeOK
<1>3. DlTypeOK'
  BY <1>1, <1>2 DEF DlTypeOK, dlRun
<1>4. PlanOK' /\ DirsOK'
  BY <1>2 DEF PlanOK, DirsOK, dlRun
<1>5. DoneMeansWhole'
  <2>1. ASSUME ~dlDry, NEW a \in dlDone'
        PROVE  archives[a] = "whole"
    BY <2>1 DEF Report, DoneMeansWhole
  <2> QED
    BY <1>2, <2>1 DEF DoneMeansWhole, dlRun
<1>6. SlashCategoriesNeverArrive'
  BY <1>2 DEF SlashCategoriesNeverArrive
<1> QED
  BY <1>1, <1>3, <1>4, <1>5, <1>6

LEMMA LookupDlInv ==
  ASSUME DlInv, Lookup
  PROVE  DlInv'
<1> USE DEF DlInv
<1>1. /\ dlTool # "none" /\ dlAt <= Len(dlPlan) /\ ~dlFetching
      /\ UNCHANGED <<dlRun, dlExit>>
  BY DEF Lookup
<1>2. CASE CallFails /\ Report(FALSE) /\ UNCHANGED <<dlDirs, archives>>
  <2>1. mishaps' \in 0 .. MaxMishaps
    BY <1>2, DownloadsAssumption DEF CallFails, Mishap, DlTypeOK
  <2>2. dlDirs' \cap SlashCategories = {}
    BY <1>2 DEF DirsOK
  <2> QED
    BY <1>1, <1>2, <2>1, <2>2, ReportDlInv
<1> DEFINE Found ==
      /\ dlDirs' = IF dlTool = "download_all_kexts" THEN dlDirs \cup {Current[1]} ELSE dlDirs
      /\ CASE dlDry -> Report(TRUE) /\ UNCHANGED archives
           [] ~dlDry /\ Current[1] \in dlDirs' ->
                /\ dlFetching' = TRUE
                /\ archives' = [archives EXCEPT ![Current] = "torn"]
                /\ UNCHANGED <<dlAt, dlReport>>
           [] OTHER -> Report(FALSE) /\ UNCHANGED archives
      /\ UNCHANGED mishaps
<1>3. CASE Found
  <2>1. Current \in Archives /\ Current \in ToSet(dlPlan)
    BY <1>1 DEF DlTypeOK, Current, ToSet
  <2>2. dlDirs' \cap SlashCategories = {}
    <3>1. CASE dlTool = "download_all_kexts"
      <4>1. dlPlan = KEXTS_DB
        BY <1>1, <3>1 DEF PlanOK, Plan
      <4> QED
        BY <1>3, <2>1, <3>1, <4>1, SlashIsElsewhere DEF DirsOK
    <3>2. CASE dlTool # "download_all_kexts"
      BY <1>3, <3>2 DEF DirsOK
    <3> QED
      BY <3>1, <3>2
  <2>3. mishaps' = mishaps /\ mishaps \in 0 .. MaxMishaps
    BY <1>3 DEF DlTypeOK
  <2>4. CASE dlDry
    BY <1>1, <1>3, <2>2, <2>3, <2>4, ReportDlInv
  <2>5. CASE ~dlDry /\ Current[1] \notin dlDirs'
    BY <1>1, <1>3, <2>2, <2>3, <2>5, ReportDlInv
  <2>6. CASE ~dlDry /\ Current[1] \in dlDirs'
    <3>1. /\ dlFetching' = TRUE
          /\ archives' = [archives EXCEPT ![Current] = "torn"]
          /\ UNCHANGED <<dlAt, dlReport>>
      BY <1>3, <2>6
    <3>2. dlExit = "running" /\ dlExit' = "running"
      BY <1>1 DEF DlTypeOK
    <3>3. DlTypeOK'
      BY <1>1, <2>1, <2>3, <2>6, <3>1, <3>2 DEF DlTypeOK, dlRun, dlReport
    <3>4. Current' = Current
      BY <1>1, <3>1 DEF Current, dlRun
    <3>5. PlanOK' /\ ReportOK' /\ DirsOK'
      BY <1>1, <2>2, <2>6, <3>1, <3>4 DEF PlanOK, ReportOK, Tried, DirsOK, dlRun, dlReport
    <3>6. DoneMeansWhole'
      <4>1. ASSUME NEW a \in dlDone', a # Current
            PROVE  archives'[a] = "whole"
        BY <1>1, <2>6, <3>1, <4>1 DEF DoneMeansWhole, DlTypeOK, dlReport
      <4> QED
        BY <3>1, <3>2, <3>4, <4>1 DEF DoneMeansWhole
    <3>7. SlashCategoriesNeverArrive'
      <4>1. Current[1] \notin SlashCategories
        BY <2>2, <2>6
      <4> QED
        BY <3>1, <3>2, <4>1 DEF SlashCategoriesNeverArrive, DlTypeOK
    <3> QED
      BY <3>3, <3>5, <3>6, <3>7
  <2> QED
    BY <2>4, <2>5, <2>6
<1> QED
  BY <1>2, <1>3 DEF Lookup

LEMMA FetchDlInv ==
  ASSUME DlInv, Fetch
  PROVE  DlInv'
<1> USE DEF DlInv
<1>1. /\ dlFetching /\ dlTool # "none" /\ dlAt <= Len(dlPlan) /\ ~dlDry
      /\ UNCHANGED <<dlRun, dlExit, dlDirs>>
  BY DEF Fetch, DlTypeOK
<1>2. CASE CallFails /\ Report(FALSE) /\ UNCHANGED archives
  <2>1. mishaps' \in 0 .. MaxMishaps
    BY <1>2, DownloadsAssumption DEF CallFails, Mishap, DlTypeOK
  <2>2. dlDirs' \cap SlashCategories = {}
    BY <1>1 DEF DirsOK
  <2> QED
    BY <1>1, <1>2, <2>1, <2>2, ReportDlInv
<1>3. CASE /\ archives' = [archives EXCEPT ![Current] = "whole"]
           /\ Report(TRUE)
           /\ UNCHANGED mishaps
  <2>1. /\ dlAt' \in 1 .. Len(dlPlan') + 1
        /\ dlDone' \subseteq Archives /\ dlFailed' \subseteq Archives
        /\ Current \in Archives /\ ReportOK'
    BY <1>1, <1>3, ReportKeeps
  <2>2. dlFetching' = FALSE /\ dlExit = "running" /\ dlExit' = "running"
    BY <1>1, <1>3 DEF Report, DlTypeOK
  <2>3. DlTypeOK'
    BY <1>1, <1>3, <2>1, <2>2 DEF DlTypeOK, dlRun
  <2>4. PlanOK' /\ DirsOK'
    BY <1>1, <2>2 DEF PlanOK, DirsOK, dlRun
  <2>5. DoneMeansWhole'
    <3>1. ASSUME NEW a \in dlDone'
          PROVE  archives'[a] = "whole"
      <4>1. CASE a = Current
        BY <1>3, <2>1, <4>1 DEF DlTypeOK
      <4>2. CASE a # Current
        BY <1>1, <1>3, <4>2 DEF Report, DoneMeansWhole, DlTypeOK
      <4> QED
        BY <4>1, <4>2
    <3> QED
      BY <2>2, <3>1 DEF DoneMeansWhole
  <2>6. SlashCategoriesNeverArrive'
    <3>1. Current[1] \notin SlashCategories
      BY <1>1 DEF DirsOK
    <3> QED
      BY <1>3, <2>2, <3>1 DEF SlashCategoriesNeverArrive, DlTypeOK
  <2> QED
    BY <2>1, <2>3, <2>4, <2>5, <2>6
<1> QED
  BY <1>2, <1>3 DEF Fetch

LEMMA FinishDlInv ==
  ASSUME DlInv, Finish
  PROVE  DlInv'
<1> USE DEF DlInv
<1>1. /\ dlTool # "none" /\ dlAt > Len(dlPlan) /\ dlTool' = "none"
      /\ dlExit' = IF dlTool = "download_kexts" /\ dlFailed # {} THEN "failures" ELSE "ok"
      /\ archives' = IF dlTool = "download_acpi"
                     THEN [archives EXCEPT ![SsdtConfig] = "whole"] ELSE archives
      /\ UNCHANGED <<dlDry, dlPlan, dlAt, dlFetching, dlReport, dlDirs, mishaps>>
  BY DEF Finish
<1>2. ~dlFetching /\ dlAt = Len(dlPlan) + 1 /\ dlPlan \in Seq(Archives)
  BY <1>1 DEF DlTypeOK
<1>3. PICK categories \in Callers : dlPlan = Plan(dlTool, categories)
  BY <1>1 DEF PlanOK
<1>4. CASE dlTool = "download_kexts"
  <2>1. dlPlan = SelectedKexts(categories)
    BY <1>3, <1>4 DEF Plan
  <2>2. Tried = ToSet(dlPlan)
    BY <1>2 DEF Tried, ToSet
  <2>3. dlExit' = "ok" => dlDone = ToSet(dlPlan)
    BY <1>1, <1>4, <2>2 DEF ReportOK
  <2>4. archives' = archives
    BY <1>1, <1>4
  <2>5. DlTypeOK' /\ PlanOK' /\ ReportOK' /\ DirsOK'
    BY <1>1, <1>2, <2>4 DEF DlTypeOK, PlanOK, ReportOK, DirsOK, dlReport
  <2>6. DoneMeansWhole'
    BY <1>1, <1>2, <2>3, <2>4 DEF DoneMeansWhole, dlReport
  <2>7. SlashCategoriesNeverArrive'
    <3>1. ASSUME dlExit' = "ok", ~dlDry, NEW a \in ToSet(dlPlan)
          PROVE  a[1] \notin SlashCategories
      <4>1. a \in Archives /\ archives[a] = "whole"
        BY <1>2, <2>3, <3>1 DEF DoneMeansWhole, DlTypeOK
      <4> QED
        BY <4>1 DEF SlashCategoriesNeverArrive
    <3> QED
      BY <1>1, <2>4, <3>1 DEF SlashCategoriesNeverArrive
  <2> QED
    BY <2>5, <2>6, <2>7
<1>5. CASE dlTool # "download_kexts"
  <2>1. dlPlan \in {KEXTS_DB, AcpiKexts}
    BY <1>1, <1>3, <1>5 DEF Plan, DlTypeOK, Tools
  <2>2. SsdtConfig \in Archives
    BY DEF Archives
  <2>3. DlTypeOK'
    BY <1>1, <1>2, <2>2 DEF DlTypeOK, dlReport
  <2>4. PlanOK' /\ ReportOK' /\ DirsOK'
    BY <1>1, <1>2 DEF PlanOK, ReportOK, DirsOK
  <2>5. DoneMeansWhole'
    <3>1. ASSUME ~dlDry, NEW a \in dlDone
          PROVE  archives'[a] = "whole"
      BY <1>1, <1>2, <2>2, <3>1 DEF DoneMeansWhole, DlTypeOK
    <3>2. dlPlan \notin {SelectedKexts(c) : c \in Selections}
      BY <2>1, PlansDiffer DEF Callers
    <3> QED
      BY <1>1, <3>1, <3>2 DEF DoneMeansWhole, dlReport
  <2>6. SlashCategoriesNeverArrive'
    BY <1>1, <2>1, <2>2, SlashIsElsewhere DEF SlashCategoriesNeverArrive, DlTypeOK
  <2> QED
    BY <2>3, <2>4, <2>5, <2>6
<1> QED
  BY <1>4, <1>5

LEMMA DieDlInv ==
  ASSUME DlInv, Die
  PROVE  DlInv'
<1> USE DEF DlInv
<1>1. /\ dlTool # "none" /\ dlTool' = "none" /\ dlFetching' = FALSE
      /\ dlDone' = {} /\ dlFailed' = {} /\ dlExit' = "died"
      /\ UNCHANGED <<dlDry, dlPlan, dlAt, dlDirs>>
      /\ archives' \in {archives, [archives EXCEPT ![SsdtConfig] = "torn"]}
  BY DEF Die
<1>2. mishaps' \in 0 .. MaxMishaps
  BY DownloadsAssumption DEF Die, Mishap, DlTypeOK
<1>3. SsdtConfig \in Archives
  BY DEF Archives
<1>4. DlTypeOK'
  BY <1>1, <1>2, <1>3 DEF DlTypeOK
<1>5. PlanOK' /\ ReportOK' /\ DirsOK'
  BY <1>1 DEF PlanOK, ReportOK, DirsOK
<1>6. DoneMeansWhole'
  BY <1>1 DEF DoneMeansWhole
<1>7. SlashCategoriesNeverArrive'
  BY <1>1, <1>3, SlashIsElsewhere DEF SlashCategoriesNeverArrive, DlTypeOK
<1> QED
  BY <1>4, <1>5, <1>6, <1>7

LEMMA UserDlInv ==
  ASSUME DlInv, User
  PROVE  DlInv'
<1>1. PICK dry \in BOOLEAN :
        \/ \E tool \in {"download_all_kexts", "download_acpi"} : Invoke(tool, dry, {}, <<>>)
        \/ \E categories \in Selections : Invoke("download_kexts", dry, {}, categories)
  BY DEF User
<1>2. ASSUME NEW tool \in {"download_all_kexts", "download_acpi"}, Invoke(tool, dry, {}, <<>>)
      PROVE  DlInv'
  <2>1. tool \in Tools /\ <<>> \in Callers
    BY DEF Tools, Callers
  <2> QED
    BY <1>2, <2>1, InvokeDlInv
<1>3. ASSUME NEW categories \in Selections, Invoke("download_kexts", dry, {}, categories)
      PROVE  DlInv'
  <2>1. "download_kexts" \in Tools /\ categories \in Callers
    BY DEF Tools, Callers
  <2> QED
    BY <1>3, <2>1, InvokeDlInv
<1> QED
  BY <1>1, <1>2, <1>3

(* Nothing the invariant reads has changed.                                *)
LEMMA StutterDlInv ==
  ASSUME DlInv, UNCHANGED <<dlRun, dlAt, dlFetching, dlReport, dlExit, dlDirs, archives>>,
         mishaps' \in 0 .. MaxMishaps
  PROVE  DlInv'
BY DEF DlInv, DlTypeOK, PlanOK, ReportOK, Tried, DirsOK, DoneMeansWhole,
       SlashCategoriesNeverArrive, Current, dlRun, dlReport
-----------------------------------------------------------------------------
(* build_all.sh and the downloaders it runs.                               *)

(* build_all.sh has no download_all_kexts.py running.                      *)
ToolOK == baStep \in Steps => dlTool \in {"none", "download_acpi"}

BaInv == DlInv /\ BaTypeOK /\ ToolOK

(* Neither calling a script nor its end runs another.                      *)
LEMMA ToolKept ==
  /\ Download => dlTool' \in {dlTool, "none"}
  /\ Die => dlTool' = "none"
BY DEF Download, Lookup, Fetch, Finish, Die, dlRun

LEMMA StartIsRefused ==
  ASSUME Start
  PROVE  dlTool' = "none" /\ baStep' = "kexts" /\ UNCHANGED archives
BY DEF Start, Invoke, Options, dlRun

LEMMA ScriptBaInv ==
  ASSUME BaInv, Start \/ Script
  PROVE  BaInv'
<1> USE DEF BaInv
<1>1. "download_all_kexts" \in Tools /\ "download_acpi" \in Tools /\ <<>> \in Callers
  BY DEF Tools, Callers
<1>2. ASSUME DlInv', baStep' \in Steps \cup {"failed"}, outputDB' = outputDB
      PROVE  BaTypeOK'
  BY <1>2 DEF BaTypeOK, DlInv, Steps
<1>3. CASE Start
  <2>1. DlInv'
    BY <1>1, <1>3, InvokeDlInv DEF Start
  <2>2. BaTypeOK'
    BY <1>2, <1>3, <2>1 DEF Start, Steps
  <2>3. ToolOK'
    BY <1>3, StartIsRefused DEF ToolOK
  <2> QED
    BY <2>1, <2>2, <2>3
<1>4. CASE Acpi
  <2>1. DlInv'
    BY <1>1, <1>4, InvokeDlInv DEF Acpi
  <2>2. BaTypeOK'
    BY <1>2, <1>4, <2>1 DEF Acpi, Steps
  <2>3. ToolOK'
    BY <1>4 DEF Acpi, Invoke, ToolOK, dlRun
  <2> QED
    BY <2>1, <2>2, <2>3
<1>5. CASE Warned
  <2>1. DlInv'
    BY <1>5, StutterDlInv DEF Warned, dlVars, DlInv, DlTypeOK
  <2>2. BaTypeOK'
    BY <1>2, <1>5, <2>1 DEF Warned, Steps
  <2>3. ToolOK'
    BY <1>5 DEF Warned, ToolOK, dlVars, dlRun
  <2> QED
    BY <2>1, <2>2, <2>3
<1>6. CASE Structure
  <2>1. DlInv'
    BY <1>6, StutterDlInv, DownloadsAssumption DEF Structure, Mishap, DlInv, DlTypeOK
  <2>2. BaTypeOK'
    BY <1>2, <1>6, <2>1 DEF Structure, Steps
  <2>3. ToolOK'
    BY <1>6 DEF Structure, ToolOK, dlRun, Steps
  <2> QED
    BY <2>1, <2>2, <2>3
<1>7. CASE CopyDatabases
  <2>1. DlInv'
    BY <1>7, StutterDlInv, DownloadsAssumption DEF CopyDatabases, Mishap, DlInv, DlTypeOK
  <2>2. outputDB' \subseteq Databases /\ baStep' \in {"complete", "failed"}
        /\ (baStep' = "complete" => outputDB' = Databases)
    BY <1>7 DEF CopyDatabases, BaTypeOK
  <2>3. BaTypeOK'
    BY <2>1, <2>2 DEF BaTypeOK, DlInv
  <2>4. ToolOK'
    BY <2>2 DEF ToolOK, Steps
  <2> QED
    BY <2>1, <2>3, <2>4
<1> QED
  BY <1>3, <1>4, <1>5, <1>6, <1>7 DEF Script

LEMMA NextBaInv ==
  ASSUME BaInv, [BaNext]_baVars
  PROVE  BaInv'
<1> USE DEF BaInv
<1>1. CASE Start \/ Script
  BY <1>1, ScriptBaInv
<1>2. CASE (Download \/ Die) /\ UNCHANGED <<baStep, outputDB>>
  <2>1. DlInv'
    BY <1>2, LookupDlInv, FetchDlInv, FinishDlInv, DieDlInv DEF Download
  <2>2. BaTypeOK'
    BY <1>2, <2>1 DEF BaTypeOK, DlInv
  <2>3. ToolOK'
    BY <1>2, ToolKept DEF ToolOK
  <2> QED
    BY <2>1, <2>2, <2>3
<1>3. CASE baStep \notin Steps /\ User /\ UNCHANGED <<baStep, outputDB>>
  <2>1. DlInv'
    BY <1>3, UserDlInv
  <2>2. BaTypeOK' /\ ToolOK'
    BY <1>3, <2>1 DEF BaTypeOK, DlInv, ToolOK
  <2> QED
    BY <2>1, <2>2
<1>4. CASE UNCHANGED baVars
  <2>1. DlInv'
    BY <1>4, StutterDlInv DEF baVars, dlVars, DlInv, DlTypeOK
  <2>2. BaTypeOK' /\ ToolOK'
    BY <1>4, <2>1 DEF BaTypeOK, DlInv, ToolOK, baVars, dlVars, dlRun
  <2> QED
    BY <2>1, <2>2
<1> QED
  BY <1>1, <1>2, <1>3, <1>4 DEF BaNext

(* From its start to its end build_all.sh opens nothing under kexts/.      *)
LEMMA NoKextsStep ==
  ASSUME BaInv, [BaNext]_baVars, NEW a \in ToSet(KEXTS_DB), archives'[a] # archives[a]
  PROVE  baStep \notin Steps
<1> USE DEF BaInv
<1>1. SUFFICES ASSUME baStep \in Steps PROVE FALSE
  OBVIOUS
<1>2. a[1] \in KextDirectories
  BY KEXTS_DBRange DEF ArchivesOf
<1>3. a # SsdtConfig /\ a \notin ToSet(AcpiKexts)
  BY <1>2, AcpiKextsRange DEF ArchivesOf, KextDirectories, SsdtConfig
<1>4. ~UNCHANGED archives
  OBVIOUS
<1>5. archives \in [Archives -> {"absent", "torn", "whole"}] /\ a \in Archives
  BY DEF DlInv, DlTypeOK, Archives
<1>6. CASE Lookup \/ Fetch
  <2>1. dlTool = "download_acpi" /\ dlAt <= Len(dlPlan)
    BY <1>1, <1>6 DEF Lookup, Fetch, ToolOK, DlInv, DlTypeOK
  <2>2. dlPlan = AcpiKexts
    BY <2>1 DEF DlInv, PlanOK, Plan
  <2>3. Current \in ToSet(AcpiKexts)
    BY <2>1, <2>2 DEF DlInv, DlTypeOK, Current, ToSet
  <2>4. \E now \in {"torn", "whole"} :
          archives' = [archives EXCEPT ![Current] = now]
    BY <1>4, <1>6 DEF Lookup, Fetch
  <2> QED
    BY <1>3, <1>5, <2>3, <2>4
<1>7. CASE Finish \/ Die
  <2>1. \E now \in {"torn", "whole"} :
          archives' = [archives EXCEPT ![SsdtConfig] = now]
    BY <1>4, <1>7 DEF Finish, Die
  <2> QED
    BY <1>3, <1>5, <2>1
<1>8. CASE Start \/ Script \/ UNCHANGED baVars
  BY <1>4, <1>8
     DEF Start, Script, Acpi, Warned, Structure, CopyDatabases, Invoke, baVars, dlVars
<1> QED
  BY <1>1, <1>6, <1>7, <1>8 DEF BaNext, Download
-----------------------------------------------------------------------------
(* The theorems about build_all.sh.                                        *)

LEMMA InitBaInv ==
  ASSUME BaInit
  PROVE  BaInv
<1>1. DlInv
  BY InitDlInv DEF BaInit
<1>2. BaTypeOK
  BY <1>1, DatabasesAssumption DEF BaInit, BaTypeOK, DlInv
<1>3. ToolOK
  BY DEF BaInit, ToolOK, Steps
<1> QED
  BY <1>1, <1>2, <1>3 DEF BaInv

(* The inductive invariant of the downloaders and of build_all.sh: a       *)
(* script goes through its own plan and has an answer for every archive it *)
(* is past, and what download_all_kexts.py opens it opens for its user     *)
(* only.                                                                   *)
THEOREM ScriptsInvariant == BaSpec => []BaInv
BY InitBaInv, NextBaInv, PTL DEF BaSpec

(* The state of the downloaders and of build_all.sh keeps its type;        *)
(* "Build Complete!" means that every database is copied.                  *)
THEOREM TypeCorrect == BaSpec => []BaTypeOK
<1>1. BaInv => BaTypeOK
  BY DEF BaInv
<1> QED
  BY <1>1, ScriptsInvariant, PTL

(* What a downloader reports as downloaded is whole on disk or being       *)
(* fetched again, and a run of download_kexts.py that exits with 0 has     *)
(* everything it was asked for, whatever fails.                            *)
THEOREM DownloadedIsWhole == BaSpec => []DoneMeansWhole
<1>1. BaInv => DoneMeansWhole
  BY DEF BaInv, DlInv
<1> QED
  BY <1>1, ScriptsInvariant, PTL

(* "Downloads all community kexts" is out of reach: whatever is asked for, *)
(* in whatever order, nothing arrives in the six directories that are      *)
(* never created, and no run that asks for something there succeeds.       *)
THEOREM SlashCategoriesStayEmpty == BaSpec => []SlashCategoriesNeverArrive
<1>1. BaInv => SlashCategoriesNeverArrive
  BY DEF BaInv, DlInv
<1> QED
  BY <1>1, ScriptsInvariant, PTL

(* Nor does build_all.sh download "ALL required files": it opens no        *)
(* archive under kexts/, whoever fills that directory between its runs.    *)
THEOREM BuildAllOpensNoKexts == BaSpec => BuildAllGetsNoKexts
<1>1. BaInv /\ [BaNext]_baVars =>
        [\A a \in ToSet(KEXTS_DB) : archives'[a] # archives[a] => baStep \notin Steps]_baVars
  BY NoKextsStep
<1> QED
  BY <1>1, ScriptsInvariant, PTL DEF BaSpec, BuildAllGetsNoKexts
-----------------------------------------------------------------------------
(* setup_edk2.sh and build_tetratosh.sh.                                   *)

(* On the way through pull or clone nobody has answered "n", and make is   *)
(* come to from there with every submodule updated.                        *)
EdPathOK ==
  /\ edStep \in {"pull", "clone", "submodules"} => reply # "n"
  /\ edStep = "make" /\ reply # "n" => edk2 = "whole"

EdInv == EdTypeOK /\ EdPathOK /\ SetupTellsTheTruth

LEMMA InitEdInv ==
  ASSUME EdInit
  PROVE  EdInv
BY DEF EdInit, EdInv, EdTypeOK, EdPathOK, EdStopped, SetupTellsTheTruth

LEMMA NextEdInv ==
  ASSUME EdInv, [EdNext]_edVars
  PROVE  EdInv'
<1> USE DEF EdInv, EdTypeOK, EdPathOK, SetupTellsTheTruth, EdStopped, EdGo
<1>1. CASE Setup
  BY <1>1 DEF Setup
<1>2. CASE Pull
  BY <1>2 DEF Pull
<1>3. CASE Clone
  BY <1>3 DEF Clone
<1>4. CASE Submodules
  BY <1>4 DEF Submodules
<1>5. CASE MakeBaseTools
  BY <1>5 DEF MakeBaseTools
<1>6. CASE BuildTetratosh
  BY <1>6 DEF BuildTetratosh
<1>7. CASE UNCHANGED edVars
  BY <1>7 DEF edVars
<1> QED
  BY <1>1, <1>2, <1>3, <1>4, <1>5, <1>6, <1>7 DEF EdNext, EdScript

(* Whatever commands fail in whatever sequence of runs, setup_edk2.sh      *)
(* comes to "Setup concluído!" with incomplete submodules only when        *)
(* somebody answered not to update them.                                   *)
THEOREM SetupIsTruthful == EdSpec => []SetupTellsTheTruth
<1>1. EdInv => SetupTellsTheTruth
  BY DEF EdInv
<1> QED
  BY <1>1, InitEdInv, NextEdInv, PTL DEF EdSpec
=============================================================================
