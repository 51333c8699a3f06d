------------------------------- MODULE BootMenu -------------------------------
(***************************************************************************)
(* bootloader/src/boot_menu.c: the menu of macOS versions and what the     *)
(* version chosen and the processor detected make of the configuration.    *)
(* Nothing in the repository calls these functions; the caller modelled    *)
(* here detects the processor, shows the menu and asks for the rest.       *)
(*                                                                         *)
(* The status of ReadKeyStroke is ignored.  A call that fails leaves Key   *)
(* as it was, which at first is uninitialised, or clears it.               *)
(***************************************************************************)
EXTENDS CpuDetect

CONSTANTS
  Versions,  \* gMacOSVersions
  CPUs,      \* the CPUID registers of the machines considered
  MaxUINTN   \* 2^64 - 1

VARIABLES
  cpuid,     \* the registers of this machine
  menu,      \* "shown", "left" or, when the configuration is made, "done"
  selected,  \* Selected
  safeMode,  \* gBootOptions.SafeMode
  verbose,   \* gBootOptions.Verbose
  key,       \* Key
  console,   \* the key somebody has pressed and nobody has read
  lastRead,  \* the last key ReadKeyStroke returned
  options    \* the configuration made

menuVars == <<cpuid, menu, selected, safeMode, verbose, key, console, lastRead, options>>

Keys == {"Up", "Down", "Escape", "V", "S", "Enter", "zero"}
None == "none"

Version(name, major, minor) ==
  [Name |-> name, Major |-> major, Minor |-> minor, IsSupported |-> TRUE]

gMacOSVersions ==
  <<Version("Sonoma", 14, 0), Version("Ventura", 13, 0), Version("Monterey", 12, 0),
    Version("Big Sur", 11, 0), Version("Catalina", 10, 15), Version("Mojave", 10, 14),
    Version("High Sierra", 10, 13),
    [Name |-> "", Major |-> 0, Minor |-> 0, IsSupported |-> FALSE]>>

(* There is a version before the first row that is none.                   *)
ASSUME VersionsAssumption ==
  /\ DOMAIN Versions \subseteq Nat \ {0}
  /\ 1 \in DOMAIN Versions /\ Versions[1].IsSupported
  /\ \E n \in DOMAIN Versions :
       /\ ~Versions[n].IsSupported
       /\ \A m \in 1 .. n - 1 : Versions[m].IsSupported

(* No vendor's name reads, with its last two parts swapped, as Intel's or  *)
(* AMD's, and a feature is no generation.                                  *)
ASSUME CPUsAssumption ==
  \A cpu \in CPUs :
    /\ <<cpu.Ebx, cpu.Ecx>> \notin {<<"Genu", "ineI">>, <<"Auth", "enti">>}
    /\ cpu.Features \cap {"ALDER", "SANDY", "IVY"} = {}
    /\ cpu.Eax \in Nat

(* Mutant: one too many.                                                   *)
CountWithMarker ==
  CHOOSE n \in DOMAIN Versions :
    /\ ~Versions[n].IsSupported
    /\ \A m \in 1 .. n - 1 : Versions[m].IsSupported

(* The versions before the first that is not supported.                    *)
Count ==
  (CHOOSE n \in DOMAIN Versions :
     /\ ~Versions[n].IsSupported
     /\ \A m \in 1 .. n - 1 : Versions[m].IsSupported) - 1

(* `Count - 1' on UINTN.                                                   *)
LastIndex == IF Count = 0 THEN MaxUINTN ELSE Count - 1

GetQuirksForVersion(os) ==
  CASE os.Major \in {12, 13, 14} -> {"CpuTscSync", "XhciPortLimit"}
    [] os.Major \in {10, 11} -> {"CpuTscSync", "XhciPortLimit", "ThirdPartyDrives"}
    [] OTHER -> {"XhciPortLimit"}

IntelSMBIOS(os, alder) ==
  CASE os.Major \in 12 .. 14 /\ alder -> "MacBookPro18,1"
    [] os.Major = 14 /\ ~alder -> "iMac22,1"
    [] os.Major = 13 /\ ~alder -> "iMac21,1"
    [] os.Major = 12 /\ ~alder -> "iMac20,1"
    [] os.Major = 11 -> "iMac20,1"
    [] os.Major = 10 /\ os.Minor = 15 -> "iMac19,1"
    [] os.Major = 10 /\ os.Minor = 14 -> "iMac18,3"
    [] OTHER -> "iMac18,1"

GetSMBIOSForOS(os, cpu) ==
  IF cpu.Vendor = "AMD" THEN "MacPro7,1" ELSE IntelSMBIOS(os, "ALDER" \in cpu.Flags)

(* "-v" is there whatever Verbose says.                                    *)
GetBootArgsForOS(os, cpu) ==
  LET when(condition, args) == IF condition THEN args ELSE {}
  IN  {"-v"}
      \cup when(safeMode, {"-x"})
      \cup when(os.Major \in 11 .. 14, {"liludetect=1"})
      \cup when(os.Major \in 12 .. 14, {"keepsyms=1"})
      \cup when(os.Major = 10 /\ os.Minor >= 14, {"-liludetect"})
      \cup when(cpu.Flags \cap {"SANDY", "IVY"} # {}, {"-tscsync"})

Configuration(os, cpu) ==
  [Quirks |-> GetQuirksForVersion(os), SMBIOS |-> GetSMBIOSForOS(os, cpu),
   Args |-> GetBootArgsForOS(os, cpu)]

-----------------------------------------------------------------------------
MenuInit ==
  /\ cpuid \in CPUs
  /\ menu = "shown" /\ selected = 0
  /\ safeMode = FALSE /\ verbose = FALSE
  /\ key \in Keys
  /\ console = None /\ lastRead = None
  /\ options = {}

(* Mutant: what is in Key after a call that failed is acted on, whatever   *)
(* it is.                                                                  *)
ReadKeyStrokeOrGarbage ==
  \/ /\ console # None
     /\ key' = console /\ lastRead' = console
     /\ console' = None
  \/ /\ key' \in Keys
     /\ UNCHANGED <<console, lastRead>>

(* WaitForEvent may return for an event that is no key.                    *)
ReadKeyStroke ==
  \/ /\ console # None
     /\ key' = console /\ lastRead' = console
     /\ console' = None
  \/ /\ key' \in {key, "zero"}
     /\ UNCHANGED <<console, lastRead>>

(* Mutant: Enter is not among the keys the menu knows.                     *)
HandleWithoutEnter ==
  /\ selected' = CASE key' = "Up" /\ selected > 0 -> selected - 1
                   [] key' = "Down" /\ selected < LastIndex -> selected + 1
                   [] OTHER -> selected
  /\ verbose' = IF key' = "V" THEN ~verbose ELSE verbose
  /\ safeMode' = IF key' = "S" THEN ~safeMode ELSE safeMode
  /\ UNCHANGED menu

Handle ==
  /\ selected' = CASE key' = "Up" /\ selected > 0 -> selected - 1
                   [] key' = "Down" /\ selected < LastIndex -> selected + 1
                   [] OTHER -> selected
  /\ verbose' = IF key' = "V" THEN ~verbose ELSE verbose
  /\ safeMode' = IF key' = "S" THEN ~safeMode ELSE safeMode
  /\ menu' = IF key' = "Enter" THEN "left" ELSE menu

(* One round of the loop of ShowBootMenu.                                  *)
ShowBootMenu ==
  /\ menu = "shown"
  /\ ReadKeyStroke
  /\ Handle
  /\ UNCHANGED <<cpuid, options>>

(* The caller turns what ShowBootMenu returned into a configuration.       *)
Configure ==
  /\ menu = "left"
  /\ menu' = "done"
  /\ options' = {Configuration(Versions[selected + 1], DetectCPU(cpuid))}
  /\ UNCHANGED <<cpuid, selected, safeMode, verbose, key, console, lastRead>>

Press ==
  /\ console = None
  /\ console' \in Keys \ {"zero"}
  /\ UNCHANGED <<cpuid, menu, selected, safeMode, verbose, key, lastRead, options>>

MenuNext == ShowBootMenu \/ Configure \/ Press

KeyRead == console # None /\ ShowBootMenu /\ console' = None

(* A key that stays unread is read in the end.                             *)
MenuSpec ==
  /\ MenuInit /\ [][MenuNext]_menuVars
  /\ WF_menuVars(KeyRead) /\ WF_menuVars(Configure)
-----------------------------------------------------------------------------
(* Type invariant.                                                         *)
MenuTypeOK ==
  /\ cpuid \in CPUs
  /\ menu \in {"shown", "left", "done"}
  /\ selected \in Nat
  /\ safeMode \in BOOLEAN /\ verbose \in BOOLEAN
  /\ key \in Keys /\ console \in Keys \cup {None} /\ lastRead \in Keys \cup {None}

(* However often keys are acted on again, the index the menu draws, and    *)
(* returns, is that of a supported version and never that of the end mark. *)
SelectedInRange == selected < Count /\ Versions[selected + 1].IsSupported

(* A failed ReadKeyStroke may repeat an action, but only that of the last  *)
(* key typed: the selection moves, an option changes, the menu is left on  *)
(* no other key, unless none has been read yet and the uninitialised Key   *)
(* acts.                                                                   *)
OnlyTheLastKeyActs ==
  [][/\ selected' < selected => lastRead' \in {"Up", None}
     /\ selected' > selected => lastRead' \in {"Down", None}
     /\ safeMode' # safeMode => lastRead' \in {"S", None}
     /\ verbose' # verbose   => lastRead' \in {"V", None}
     /\ menu = "shown" /\ menu' # menu => lastRead' \in {"Enter", None}]_menuVars

(* cpu_detect.c: "Supports: Intel (Pentium 4 to 14th Gen) and AMD (K10 to  *)
(* Zen 4)", and boot_menu.c has an SMBIOS for AMD: what is configured on a *)
(* machine whose CPUID spells AuthenticAMD (EBX, EDX, ECX) has it.         *)
AMDGetsItsSMBIOS ==
  \A option \in options :
    <<cpuid.Ebx, cpuid.Edx, cpuid.Ecx>> = AuthenticAMD => option.SMBIOS = "MacPro7,1"

(* Why not: DetectCPU puts the vendor's name together in another order and *)
(* so knows no Intel and no AMD processor.  What is made of a choice is    *)
(* the same on every machine.                                              *)
ConfigurationIgnoresCPU ==
  \A other \in CPUs, option \in options :
    option = Configuration(Versions[selected + 1], DetectCPU(other))

(* The extended family is dropped: were the vendor known, every AMD        *)
(* processor would still be a K8 or unknown.                               *)
AMDFamiliesAreK8 ==
  GetCPUGeneration(Family(cpuid.Eax), Model(cpuid.Eax), "AMD") \in {"K8", "UNKNOWN"}

(* Enter, once pressed, leaves the menu.                                   *)
EnterLeavesMenu == console = "Enter" ~> menu = "done"
=============================================================================
