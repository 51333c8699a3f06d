--------------------------- MODULE PatchDatabase ---------------------------
(***************************************************************************)
(* gPatchDatabase and the processor lists of                               *)
(* bootloader/src/kext_selector.c.  TargetCPU is the list of processors    *)
(* each row is written with, the NULL that ends it left out; how much of   *)
(* it the array of PATCH_ENTRY holds is PatchSelector's concern.           *)
(***************************************************************************)
EXTENDS Integers, Sequences

Patch(name, cpus, critical, recommended, legacyOnly, priority) ==
  <<[PatchName |-> name, TargetCPU |-> cpus, IsCritical |-> critical,
     IsRecommended |-> recommended, IsLegacyOnly |-> legacyOnly,
     Priority |-> priority]>>

All == <<"all">>
AMD == <<"AMD-K8", "AMD-K10", "AMD-Bulldozer", "AMD-Zen", "AMD-Zen2",
         "AMD-Zen3", "AMD-Zen4">>

CriticalRows ==
  Patch("CpuTscSync", <<"SandyBridge", "IvyBridge", "Haswell", "Broadwell",
        "Skylake", "KabyLake", "CoffeeLake">>, TRUE, FALSE, FALSE, 100)
    \o Patch("XhciPortLimit", All, TRUE, FALSE, FALSE, 100)
    \o Patch("PowerTimeoutKernelPanic", All, TRUE, FALSE, FALSE, 100)
    \o Patch("AvoidRuntimeDefrag", All, TRUE, TRUE, FALSE, 90)
    \o Patch("DevirtualiseMmio", All, TRUE, TRUE, FALSE, 90)
    \o Patch("DisableWatchDog", All, TRUE, TRUE, FALSE, 90)
    \o Patch("ProvideConsoleGop", All, TRUE, TRUE, FALSE, 90)
    \o Patch("RequestBootVarRouting", All, TRUE, TRUE, FALSE, 90)

CPUSpecificRows ==
  Patch("AppleCpuPmCfgLock", <<"SandyBridge", "IvyBridge", "Haswell",
        "Nehalem", "Westmere", "Penryn", "Core2", "Conroe", "Merom">>,
        FALSE, FALSE, FALSE, 50)
    \o Patch("AppleXcpmCfgLock", <<"SandyBridge", "IvyBridge", "Nehalem",
             "Westmere", "Penryn", "Core2", "Conroe", "Merom">>,
             FALSE, FALSE, FALSE, 50)
    \o Patch("AppleXcpmExtraMsrs", <<"Broadwell", "Skylake", "KabyLake">>,
             FALSE, FALSE, FALSE, 50)
    \o Patch("IgnoreInvalidFlexRatio", <<"Skylake", "KabyLake", "CoffeeLake",
             "CometLake">>, TRUE, FALSE, FALSE, 80)

LegacyRows ==
  Patch("LegacyCommpage", <<"Pentium4", "Core2", "Conroe", "Merom", "AMD-K8",
        "AMD-K10">>, FALSE, FALSE, TRUE, 30)
    \o Patch("ExternalDiskIcons", <<"SandyBridge", "IvyBridge", "AMD-K8",
             "AMD-K10", "AMD-Bulldozer", "Pentium4", "Core2">>,
             FALSE, FALSE, TRUE, 20)
    \o Patch("ThirdPartyDrives", All, FALSE, FALSE, TRUE, 20)
    \o Patch("DisableIOMapper", AMD, TRUE, FALSE, FALSE, 70)

OtherRows ==
  Patch("USBInjectAll", All, FALSE, FALSE, TRUE, 15)
    \o Patch("DisableRtcChecksum", All, FALSE, FALSE, FALSE, 10)
    \o Patch("LapicKernelPanic", <<"HP", "SandyBridge", "IvyBridge",
             "Pentium4", "Core2">>, FALSE, FALSE, FALSE, 25)
    \o Patch("NormalizeHeaders", All, FALSE, TRUE, FALSE, 40)
    \o Patch("PanicNoKextDump", All, FALSE, TRUE, FALSE, 40)
    \o Patch("ProcInfo", AMD, FALSE, FALSE, FALSE, 30)
    \o Patch("CpuTscSync", <<"Pentium4", "Core2", "Conroe", "Merom",
             "Penryn">>, TRUE, FALSE, TRUE, 80)

gPatchDatabase == CriticalRows \o CPUSpecificRows \o LegacyRows \o OtherRows

gLegacyCPUs == {"Pentium4", "Core2", "Conroe", "Merom", "Penryn", "AMD-K8",
                "AMD-K10"}

gAMDs == {AMD[n] : n \in DOMAIN AMD}
=============================================================================
