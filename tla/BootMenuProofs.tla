---------------------------- MODULE BootMenuProofs ----------------------------
(***************************************************************************)
(* Proofs about BootMenu, for every table of versions and every set of     *)
(* processors.                                                             *)
(***************************************************************************)
EXTENDS BootMenu, TLAPS

(* An unread key is a key, and after the first a failed read leaves the    *)
(* last one or none in Key.                                                *)
KeyOK ==
  /\ console # "zero" /\ lastRead # "zero"
  /\ lastRead # None => key \in {lastRead, "zero"}

(* The configuration is that of the choice and of this machine.            *)
OptionsOK ==
  options # {} => options = {Configuration(Versions[selected + 1], DetectCPU(cpuid))}

(* There is a configuration exactly when the menu has been left for it.    *)
ConfiguredOnce == menu = "done" <=> options # {}

(* The inductive invariant.                                                *)
IInv == MenuTypeOK /\ ConfiguredOnce /\ selected \in 0 .. Count - 1 /\ KeyOK /\ OptionsOK
-----------------------------------------------------------------------------
(* The menu has at least one entry, and every entry is supported.          *)
LEMMA Entries ==
  /\ Count \in Nat \ {0}
  /\ LastIndex = Count - 1
  /\ \A n \in 0 .. Count - 1 : Versions[n + 1].IsSupported
<1> DEFINE marker ==
      CHOOSE n \in DOMAIN Versions :
        /\ ~Versions[n].IsSupported
        /\ \A m \in 1 .. n - 1 : Versions[m].IsSupported
<1>1. PICK n \in DOMAIN Versions :
        /\ ~Versions[n].IsSupported
        /\ \A m \in 1 .. n - 1 : Versions[m].IsSupported
  BY VersionsAssumption
<1>2. /\ marker \in DOMAIN Versions /\ ~Versions[marker].IsSupported
      /\ \A m \in 1 .. marker - 1 : Versions[m].IsSupported
  BY <1>1
<1>3. Count = marker - 1
  BY DEF Count
<1> HIDE DEF marker
<1>4. marker \in Nat \ {0, 1}
  BY <1>2, VersionsAssumption
<1>5. \A k \in 0 .. Count - 1 : k + 1 \in 1 .. marker - 1
  BY <1>3, <1>4
<1> QED
  BY <1>2, <1>3, <1>4, <1>5 DEF LastIndex

(* No processor of a vendor CPUID names is known, so none makes a          *)
(* difference.                                                             *)
LEMMA NobodyIsKnown ==
  ASSUME NEW os, NEW cpu \in CPUs, NEW other \in CPUs
  PROVE  Configuration(os, DetectCPU(cpu)) = Configuration(os, DetectCPU(other))
<1>1. ASSUME NEW c \in CPUs
      PROVE  /\ DetectCPU(c).Vendor = "unknown"
             /\ DetectCPU(c).Flags \cap {"ALDER", "SANDY", "IVY"} = {}
  <2>1. Vendor(c) = "unknown"
    BY CPUsAssumption DEF Vendor, GetCPUVendor, GenuineIntel, AuthenticAMD
  <2>2. GetCPUGeneration(Family(c.Eax), Model(c.Eax), Vendor(c)) = "UNKNOWN"
    BY <2>1 DEF GetCPUGeneration
  <2> QED
    BY <2>1, <2>2, CPUsAssumption DEF DetectCPU
<1>2. GetSMBIOSForOS(os, DetectCPU(cpu)) = GetSMBIOSForOS(os, DetectCPU(other))
  <2>1. ASSUME NEW c \in CPUs
        PROVE  GetSMBIOSForOS(os, DetectCPU(c)) = IntelSMBIOS(os, FALSE)
    <3>1. ("ALDER" \in DetectCPU(c).Flags) = FALSE
      BY <1>1
    <3> QED
      BY <1>1, <3>1 DEF GetSMBIOSForOS
  <2> QED
    BY <2>1
<1>3. GetBootArgsForOS(os, DetectCPU(cpu)) = GetBootArgsForOS(os, DetectCPU(other))
  <2>1. (DetectCPU(cpu).Flags \cap {"SANDY", "IVY"} # {}) = FALSE
    BY <1>1
  <2>2. (DetectCPU(other).Flags \cap {"SANDY", "IVY"} # {}) = FALSE
    BY <1>1
  <2> QED
    BY <2>1, <2>2 DEF GetBootArgsForOS
<1> QED
  BY <1>2, <1>3 DEF Configuration
-----------------------------------------------------------------------------
LEMMA InitIInv ==
  ASSUME MenuInit
  PROVE  IInv
<1>1. MenuTypeOK /\ ConfiguredOnce /\ KeyOK /\ OptionsOK
  BY DEF MenuInit, MenuTypeOK, ConfiguredOnce, KeyOK, OptionsOK, Keys, None
<1>2. selected \in 0 .. Count - 1
  BY Entries DEF MenuInit
<1> QED
  BY <1>1, <1>2 DEF IInv

LEMMA ShowIInv ==
  ASSUME IInv, ShowBootMenu
  PROVE  IInv'
<1>1. selected' \in 0 .. Count - 1
  BY Entries DEF IInv, ShowBootMenu, Handle
<1>2. KeyOK' /\ key' \in Keys /\ console' \in Keys \cup {None} /\ lastRead' \in Keys \cup {None}
  BY DEF IInv, MenuTypeOK, KeyOK, ShowBootMenu, ReadKeyStroke, Keys, None
<1>3. /\ safeMode' \in BOOLEAN /\ verbose' \in BOOLEAN /\ menu' \in {"shown", "left"}
      /\ UNCHANGED <<cpuid, options>> /\ options = {}
  BY DEF IInv, MenuTypeOK, ConfiguredOnce, ShowBootMenu, Handle
<1> QED
  BY <1>1, <1>2, <1>3, Entries DEF IInv, MenuTypeOK, ConfiguredOnce, OptionsOK

LEMMA ConfigureIInv ==
  ASSUME IInv, Configure
  PROVE  IInv'
<1>1. OptionsOK'
  BY DEF Configure, OptionsOK, Configuration, GetBootArgsForOS
<1> QED
  BY <1>1 DEF Configure, IInv, MenuTypeOK, ConfiguredOnce, KeyOK

LEMMA PressIInv ==
  ASSUME IInv, Press
  PROVE  IInv'
<1>1. OptionsOK'
  BY DEF Press, IInv, OptionsOK, Configuration, GetBootArgsForOS
<1> QED
  BY <1>1 DEF Press, IInv, MenuTypeOK, ConfiguredOnce, KeyOK, Keys, None

LEMMA StutterIInv ==
  ASSUME IInv, UNCHANGED menuVars
  PROVE  IInv'
<1>1. OptionsOK'
  BY DEF menuVars, IInv, OptionsOK, Configuration, GetBootArgsForOS
<1> QED
  BY <1>1 DEF menuVars, IInv, MenuTypeOK, ConfiguredOnce, KeyOK

(* The selection stays in the table, Key holds the last key typed or none, *)
(* and the configuration is that of the choice.                            *)
THEOREM MenuInvariant == MenuSpec => []IInv
<1>1. IInv /\ [MenuNext]_menuVars => IInv'
  BY ShowIInv, ConfigureIInv, PressIInv, StutterIInv DEF MenuNext
<1> QED
  BY <1>1, InitIInv, PTL DEF MenuSpec

(* Type correctness of BootMenu.                                           *)
THEOREM MenuTypeCorrect == MenuSpec => []MenuTypeOK
<1>1. IInv => MenuTypeOK
  BY DEF IInv
<1> QED
  BY <1>1, MenuInvariant, PTL

(* The version chosen is always one of the table, never its end mark.      *)
THEOREM SelectionIsSupported == MenuSpec => []SelectedInRange
<1>1. IInv => SelectedInRange
  BY Entries DEF IInv, SelectedInRange
<1> QED
  BY <1>1, MenuInvariant, PTL

(* Nothing is done for a key that was not the last one typed.              *)
THEOREM LastKeyActs == MenuSpec => OnlyTheLastKeyActs
<1> DEFINE Acts ==
      /\ selected' < selected => lastRead' \in {"Up", None}
      /\ selected' > selected => lastRead' \in {"Down", None}
      /\ safeMode' # safeMode => lastRead' \in {"S", None}
      /\ verbose' # verbose   => lastRead' \in {"V", None}
      /\ menu = "shown" /\ menu' # menu => lastRead' \in {"Enter", None}
<1>1. ASSUME IInv, ShowBootMenu
      PROVE  Acts
  <2>1. lastRead' # None => key' \in {lastRead', "zero"}
    BY <1>1, ShowIInv DEF IInv, KeyOK
  <2>2. selected \in Nat
    BY <1>1 DEF IInv, MenuTypeOK
  <2> QED
    BY <1>1, <2>1, <2>2 DEF ShowBootMenu, Handle, None
<1>2. ASSUME IInv, Configure \/ Press \/ UNCHANGED menuVars
      PROVE  Acts
  BY <1>2 DEF Configure, Press, menuVars, IInv, MenuTypeOK
<1>3. IInv /\ [MenuNext]_menuVars => [Acts]_menuVars
  BY <1>1, <1>2 DEF MenuNext
<1> QED
  BY <1>3, MenuInvariant, PTL DEF MenuSpec, OnlyTheLastKeyActs

(* The same choice makes the same configuration on every machine.          *)
THEOREM CPUMakesNoDifference == MenuSpec => []ConfigurationIgnoresCPU
<1>1. IInv => ConfigurationIgnoresCPU
  BY NobodyIsKnown DEF IInv, MenuTypeOK, OptionsOK, ConfigurationIgnoresCPU
<1> QED
  BY <1>1, MenuInvariant, PTL

(* Whatever EAX holds, an AMD processor would be a K8 or unknown.          *)
THEOREM AMDIsK8 == MenuSpec => []AMDFamiliesAreK8
<1>1. IInv => AMDFamiliesAreK8
  <2> SUFFICES ASSUME IInv
               PROVE  AMDFamiliesAreK8
    OBVIOUS
  <2>1. cpuid.Eax \in Nat
    BY CPUsAssumption DEF IInv, MenuTypeOK
  <2>2. Family(cpuid.Eax) \in 0 .. 15
    BY <2>1 DEF Family
  <2>3. (Family(cpuid.Eax) \div 256) % 256 = 0
    BY <2>2
  <2> QED
    BY <2>2, <2>3 DEF AMDFamiliesAreK8, GetCPUGeneration, AMDGeneration
<1> QED
  BY <1>1, MenuInvariant, PTL
=============================================================================
