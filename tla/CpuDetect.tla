------------------------------- MODULE CpuDetect -------------------------------
(***************************************************************************)
(* bootloader/src/cpu_detect.c: from the CPUID registers to CPU_INFO.      *)
(* Four bytes of text are one string.  The flags are a set of names: the   *)
(* headers define neither CPU_FLAG_x nor CPU_GEN_x, and the two of one     *)
(* processor family are taken to be the same bit, as boot_menu.c assumes.  *)
(* GetCPUVendor declares Ebx, Ecx and Edx and reads Eb, Ec and Ed: they    *)
(* are taken to be the same.  Brand string and frequency, which nothing    *)
(* reads, are left out.                                                    *)
(***************************************************************************)
EXTENDS Naturals, Sequences

GenuineIntel == <<"Genu", "ineI", "ntel">>
AuthenticAMD == <<"Auth", "enti", "cAMD">>

GetCPUVendor(cpuid) == <<cpuid.Ebx, cpuid.Ecx, cpuid.Edx>>

Vendor(cpuid) ==
  CASE GetCPUVendor(cpuid) = GenuineIntel -> "Intel"
    [] GetCPUVendor(cpuid) = AuthenticAMD -> "AMD"
    [] OTHER -> "unknown"

Family(eax) == (eax \div 256) % 16

Model(eax) == ((eax \div 16) % 16) + 16 * ((eax \div 65536) % 16)

(* The cases of family 6.  Of two cases with one label the first counts.   *)
CoreGenerations ==
  <<[gen |-> "CONROE", models |-> {\h0E}], [gen |-> "MEROM", models |-> {\h0D}],
    [gen |-> "PENRYN", models |-> {\h17, \h1D}],
    [gen |-> "NEHALEM", models |-> {\h1E, \h1F}],
    [gen |-> "NEHALEM_EX", models |-> {\h2E}],
    [gen |-> "WESTMERE", models |-> {\h25, \h2C}],
    [gen |-> "WESTMERE_EX", models |-> {\h2D}],
    [gen |-> "SANDY", models |-> {\h2A, \h2D}], [gen |-> "IVY", models |-> {\h3A}],
    [gen |-> "HASWELL", models |-> {\h3C, \h3F}],
    [gen |-> "BROADWELL", models |-> {\h3D, \h4F}],
    [gen |-> "SKYLAKE", models |-> {\h4E, \h4D, \h5E}],
    [gen |-> "SKYLAKE_X", models |-> {\h55}],
    [gen |-> "KABY", models |-> {\h8E, \h8F}],
    [gen |-> "COFFEE", models |-> {\h9E, \h9F, \hA5, \hA6, \hA7}],
    [gen |-> "ICELAKE", models |-> {\h7E, \h8A, \h8D}],
    [gen |-> "TIGER", models |-> {\h9C}], [gen |-> "ROCKET", models |-> {\hA0, \hA7}],
    [gen |-> "ALDER", models |-> {\h8C, \h8D, \hA4, \hA6}],
    [gen |-> "RAPTOR", models |-> {\hB4, \hB5, \hB7}],
    [gen |-> "METEOR", models |-> {\hBF}]>>

IntelGeneration(family, model) ==
  LET rows == {n \in DOMAIN CoreGenerations : model \in CoreGenerations[n].models}
      first == CHOOSE n \in rows : \A other \in rows : n <= other
  IN  CASE family = \h0F -> "NETBURST"
        [] family = \h06 /\ rows # {} -> CoreGenerations[first].gen
        [] OTHER -> "UNKNOWN"

AMDGeneration(family, model) ==
  LET extFamily == (family \div 256) % 256
      extModel == (model \div 16) % 16
  IN  CASE family = \h0F -> "K8"
        [] family = \h10 -> "K10"
        [] family = \h11 -> "LLANO"
        [] family = \h12 -> "BULLDOZER"
        [] family = \h15 -> "PILEDRI"
        [] family = \h16 -> "EXCAVATOR"
        [] family = \h17 \/ extFamily >= \h17 ->
             IF extModel >= 8 THEN "ZENP" ELSE "ZEN"
        [] family = \h19 -> "ZEN3"
        [] OTHER -> "UNKNOWN"

GetCPUGeneration(family, model, vendor) ==
  CASE vendor = "Intel" -> IntelGeneration(family, model)
    [] vendor = "AMD"   -> AMDGeneration(family, model)
    [] OTHER            -> "UNKNOWN"

(* NumThreads is taken from EDX, which holds feature bits.                 *)
GetCPUCores(cpuid) ==
  [Cores |-> cpuid.CoreField + 1,
   Threads |-> IF cpuid.EdxByte2 > 1 THEN cpuid.EdxByte2 ELSE cpuid.CoreField + 1]

DetectCPU(cpuid) ==
  [Vendor |-> Vendor(cpuid),
   Family |-> Family(cpuid.Eax),
   Model  |-> Model(cpuid.Eax),
   Flags  |-> cpuid.Features \cup
              {GetCPUGeneration(Family(cpuid.Eax), Model(cpuid.Eax), Vendor(cpuid))},
   Count  |-> GetCPUCores(cpuid)]
=============================================================================
