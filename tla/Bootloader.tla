------------------------------ MODULE Bootloader ------------------------------
(***************************************************************************)
(* UefiMain and TetratoshMain of bootloader/src/main.c: six phases from    *)
(* detecting the hardware to launching OpenCore, the second of which runs  *)
(* KextSelector, on a machine whose power may fail at any moment and whose *)
(* hardware may be changed while it is off.  What is on the EFI partition  *)
(* survives; what is in memory does not.                                   *)
(*                                                                         *)
(* main.c calls DetectHardware, GenerateConfig, BuildEFI, VerifyEFI and    *)
(* LaunchOpenCore, which the repository does not contain.  Each returns    *)
(* success or failure; the two that write the partition may stop, or be    *)
(* stopped, with half of their file written.  gConfig is left out: nothing *)
(* reads it.                                                               *)
(***************************************************************************)
EXTENDS KextSelector

VARIABLES
  hardware,  \* the devices the machine has
  phase,     \* the function TetratoshMain is in, or how the last run ended
  config,    \* the load order in config.plist on the EFI partition
  tree       \* the kexts copied to the EFI partition, in order

(* In memory are gSystemInfo, gSelectedKexts and where SelectKexts is.     *)
ram  == <<sysInfo, loop, i, kexts>>
disk == <<config, tree>>
bootVars == <<hardware, phase, ram, disk>>

(* A file that is missing or half written.                                 *)
Torn == NULL

ASSUME TornAssumption == Torn \notin Seq(KextNames)

LoadOrder == [n \in DOMAIN kexts |-> kexts[n].Name]

Phases == {"InitializeConfig", "DetectHardware", "SelectKexts",
           "GenerateConfig", "BuildEFI", "VerifyEFI", "LaunchOpenCore"}

-----------------------------------------------------------------------------
BootInit ==
  /\ hardware \in SystemInfos
  /\ phase = "off"
  /\ Init
  /\ config = Torn
  /\ tree = Torn

(* Nothing but the phase changes: a call that returned nothing the loader  *)
(* keeps, or one that failed, whose status TetratoshMain returns at once   *)
(* and UefiMain shows and returns.                                         *)
MoveTo(next) ==
  /\ phase' = next
  /\ UNCHANGED <<hardware, ram, disk>>

(* The firmware loads the image, which clears its globals, and calls       *)
(* UefiMain.                                                               *)
UefiMain ==
  /\ phase = "off"
  /\ MoveTo("InitializeConfig")

InitializeConfig ==
  /\ phase = "InitializeConfig"
  /\ MoveTo("DetectHardware")

DetectHardware ==
  /\ phase = "DetectHardware"
  /\ \/ /\ sysInfo' = hardware
        /\ phase' = "SelectKexts"
        /\ UNCHANGED <<hardware, loop, i, kexts, disk>>
     \/ MoveTo("failed")

(* SelectKexts is entered, runs, and always returns EFI_SUCCESS.           *)
RunSelectKexts ==
  /\ phase = "SelectKexts"
  /\ \/ /\ loop = "idle"
        /\ Enter(sysInfo)
        /\ UNCHANGED phase
     \/ /\ SelectKexts
        /\ UNCHANGED phase
     \/ /\ loop = "returned"
        /\ phase' = "GenerateConfig"
        /\ UNCHANGED ram
  /\ UNCHANGED <<hardware, disk>>

(* Mutant: a config that could not be generated is only warned about.      *)
GenerateConfigOrWarn ==
  /\ phase = "GenerateConfig"
  /\ \/ /\ config' = LoadOrder
        /\ phase' = "BuildEFI"
        /\ UNCHANGED <<hardware, ram, tree>>
     \/ /\ config # Torn
        /\ config' = Torn
        /\ UNCHANGED <<hardware, phase, ram, tree>>
     \/ MoveTo("BuildEFI")

(* Mutant: a run whose config could not be generated starts over.          *)
GenerateConfigOrRestart ==
  /\ phase = "GenerateConfig"
  /\ \/ /\ config' = LoadOrder
        /\ phase' = "BuildEFI"
        /\ UNCHANGED <<hardware, ram, tree>>
     \/ MoveTo("DetectHardware")

(* GenerateConfig writes config.plist, starts writing it, or fails.        *)
GenerateConfig ==
  /\ phase = "GenerateConfig"
  /\ \/ /\ config' = LoadOrder
        /\ phase' = "BuildEFI"
        /\ UNCHANGED <<hardware, ram, tree>>
     \/ /\ config # Torn
        /\ config' = Torn
        /\ UNCHANGED <<hardware, phase, ram, tree>>
     \/ MoveTo("failed")

(* BuildEFI copies the kexts, starts copying them, or fails.               *)
BuildEFI ==
  /\ phase = "BuildEFI"
  /\ \/ /\ tree' = LoadOrder
        /\ phase' = "VerifyEFI"
        /\ UNCHANGED <<hardware, ram, config>>
     \/ /\ tree # Torn
        /\ tree' = Torn
        /\ UNCHANGED <<hardware, phase, ram, config>>
     \/ MoveTo("failed")

(* Whatever VerifyEFI returns, TetratoshMain goes on.                      *)
VerifyEFI ==
  /\ phase = "VerifyEFI"
  /\ MoveTo("LaunchOpenCore")

LaunchOpenCore ==
  /\ phase = "LaunchOpenCore"
  /\ \/ MoveTo("complete")
     \/ MoveTo("failed")

TetratoshMain ==
  \/ InitializeConfig \/ DetectHardware \/ RunSelectKexts \/ GenerateConfig
  \/ BuildEFI \/ VerifyEFI \/ LaunchOpenCore

(* The power fails, or the machine is switched off after a run: memory is  *)
(* lost.                                                                   *)
PowerOff ==
  /\ phase # "off"
  /\ phase' = "off"
  /\ sysInfo' = NoHardware
  /\ loop' = "idle"
  /\ i' = 0
  /\ kexts' = <<>>
  /\ UNCHANGED <<hardware, disk>>

ChangeHardware ==
  /\ phase = "off"
  /\ hardware' \in SystemInfos
  /\ UNCHANGED <<phase, ram, disk>>

BootNext == UefiMain \/ TetratoshMain \/ PowerOff \/ ChangeHardware

BootSpec == BootInit /\ [][BootNext]_bootVars

(* The boot loader keeps running and the functions it calls return.        *)
FairBootSpec == BootSpec /\ WF_bootVars(TetratoshMain)

-----------------------------------------------------------------------------
(* Type invariant.                                                         *)
BootTypeOK ==
  /\ hardware \in SystemInfos
  /\ phase \in {"off", "failed", "complete"} \cup Phases
  /\ TypeOK
  /\ config \in {Torn} \cup Seq(KextNames)
  /\ tree \in {Torn} \cup Seq(KextNames)

(* The load order and the kexts OpenCore starts with.                      *)
NamesIn(list) == {list[n] : n \in DOMAIN list}

(* OpenCore is launched only on a whole config and a whole set of kexts    *)
(* that agree and hold exactly what SelectKexts asks for this hardware,    *)
(* whatever earlier runs, on whatever hardware, left on the partition.     *)
LaunchedOnMatchingEFI ==
  phase \in {"VerifyEFI", "LaunchOpenCore", "complete"} =>
    /\ config # Torn /\ tree = config
    /\ sysInfo = hardware
    /\ NamesIn(config) = Wanted

(* A run ends: with OpenCore launched, with an error, or with the power.   *)
RunEnds == phase = "InitializeConfig" ~> phase \in {"off", "failed", "complete"}
=============================================================================
