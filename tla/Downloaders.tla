------------------------------ MODULE Downloaders ------------------------------
(***************************************************************************)
(* scripts/download_all_kexts.py, download_kexts.py and download_acpi.py:  *)
(* one release after the other is looked up and its archive fetched, over  *)
(* a network that may refuse, break off or go silent.  The archives stay   *)
(* on disk between runs; what a run reports does not.  One of the three    *)
(* runs at a time.  Regular expressions and repositories are left out:     *)
(* whether a release has a matching asset is the server's choice.          *)
(***************************************************************************)
EXTENDS Naturals, Sequences, SequencesExt

CONSTANTS
  Selections,  \* the -c options somebody gives to download_kexts.py
  Unreliable,  \* bound: the archives a lookup or a transfer may fail for
  MaxMishaps   \* bound: the calls that fail and the runs that are killed

ASSUME DownloadsAssumption ==
  MaxMishaps \in Nat /\ Selections \subseteq Seq(STRING)

VARIABLES
  dlTool,      \* the script that runs, or "none"
  dlDry,       \* its --dry-run option
  dlPlan,      \* the archives it is to fetch: directory and name
  dlAt,        \* the one it is at
  dlFetching,  \* it has that archive open for writing
  dlDone,      \* what it reports as downloaded
  dlFailed,    \* what it reports as failed
  dlExit,      \* how the last run ended
  dlDirs,      \* the directories that exist
  archives,    \* what is on disk: absent, torn or whole
  mishaps

dlRun == <<dlTool, dlDry, dlPlan>>
dlReport == <<dlDone, dlFailed>>
dlVars == <<dlRun, dlAt, dlFetching, dlReport, dlExit, dlDirs, archives, mishaps>>

Kexts(directory, names) == [n \in DOMAIN names |-> <<directory, names[n]>>]

KEXTS_DB ==
  Kexts("essential", <<"Lilu", "VirtualSMC">>)
  \o Kexts("gpu", <<"WhateverGreen">>) \o Kexts("audio", <<"AppleALC">>)
  \o Kexts("network", <<"IntelMausi", "RealtekRTL8111">>)
  \o Kexts("wireless", <<"AirportItlwm", "IntelBluetoothFirmware">>)
  \o Kexts("bluetooth", <<"BrcmPatchRAM">>) \o Kexts("storage", <<"NVMeFix">>)
  \o Kexts("usb", <<"USBInjectAll">>)
  \o Kexts("input", <<"VoodooPS2Controller", "VoodooI2C">>)
  \o Kexts("utility", <<"CPUFriend", "FeatureUnlock">>)

(* The categories of download_kexts.py, lowered.                           *)
SlashCategories ==
  {"network-intel", "network-realtek", "network-broadcom",
   "wireless-intel", "wireless-broadcom", "wireless-other"}

PlainCategories ==
  {"essential", "gpu", "audio", "bluetooth", "storage", "usb", "input", "smc", "other"}

KEXTS_DATABASE ==
  [category \in SlashCategories \cup PlainCategories |->
     CASE category = "essential" -> <<"Lilu", "VirtualSMC">>
       [] category = "gpu" -> <<"WhateverGreen">>
       [] category = "audio" -> <<"AppleALC">>
       [] category = "network-intel" -> <<"IntelMausi", "IntelGBMausi">>
       [] category = "network-realtek" ->
            <<"RealtekRTL8111", "RealtekRTL8125", "RealtekRTL8152">>
       [] category = "network-broadcom" ->
            <<"AppleBCM5701", "BrcmPatchRAM", "BrcmFirmwareData">>
       [] category = "wireless-intel" ->
            <<"AirportItlwm", "IntelBluetoothFirmware", "itlwm">>
       [] category = "wireless-broadcom" -> <<"AirportBrcmFixup">>
       [] category = "wireless-other" -> <<"IO80211Elan">>
       [] category = "bluetooth" -> <<"BlueToolFixup">>
       [] category = "storage" -> <<"NVMeFix", "AHCIPortInjector">>
       [] category = "usb" -> <<"USBInjectAll", "XHCI-unsupported">>
       [] category = "input" -> <<"VoodooPS2Controller", "VoodooI2C", "VoodooI2CHID">>
       [] category = "smc" -> <<"SMCProcessor", "SMCSuperIO">>
       [] category = "other" ->
            <<"HibernationFixup", "CPUFriend", "CPUFriendDataProvider", "FeatureUnlock",
              "RTCMemoryFixup", "SMCDellSensors", "NullCPUPowerManagement">>]

Categories ==
  <<"essential", "gpu", "audio", "network-intel", "network-realtek",
    "network-broadcom", "wireless-intel", "wireless-broadcom", "wireless-other",
    "bluetooth", "storage", "usb", "input", "smc", "other">>

AcpiKexts ==
  Kexts("precompiled",
        <<"Lilu", "WhateverGreen", "VirtualSMC", "AppleALC", "CPUFriend", "NVMeFix",
          "RTCMemoryFixup", "HibernationFixup", "FeatureUnlock", "AirportBrcmFixup">>)

SsdtConfig == <<"acpi", "ssdt_config">>

(* An unknown category is passed over.                                     *)
SelectedKexts(categories) ==
  FlattenSeq([n \in DOMAIN categories |->
                IF categories[n] \in DOMAIN KEXTS_DATABASE
                THEN Kexts(categories[n], KEXTS_DATABASE[categories[n]])
                ELSE <<>>])

Archives ==
  ToSet(KEXTS_DB) \cup ToSet(SelectedKexts(Categories)) \cup ToSet(AcpiKexts)
    \cup {SsdtConfig}

Tools == {"download_all_kexts", "download_kexts", "download_acpi"}

Plan(tool, categories) ==
  CASE tool = "download_all_kexts" -> KEXTS_DB
    [] tool = "download_kexts"     -> SelectedKexts(categories)
    [] tool = "download_acpi"      -> AcpiKexts

(* The options argparse knows, of those build_all.sh uses.                 *)
Options(tool) == IF tool = "download_all_kexts" THEN {} ELSE {"-v"}

(* The directories a script creates before it downloads anything.          *)
Created(tool) ==
  CASE tool = "download_all_kexts" -> {}
    [] tool = "download_kexts" ->
         PlainCategories \cup
         {"network/intel", "network/realtek", "network/broadcom", "wireless/intel",
          "wireless/broadcom", "wireless/other", "community"}
    [] tool = "download_acpi" ->
         {"intel/ssdt", "intel/patches", "amd/ssdt", "amd/patches", "templates",
          "precompiled"}

(* Mutant: no request of download_all_kexts.py has a timeout.              *)
NoTimeout(tool, call) == tool = "download_acpi" /\ call = "release"

(* The calls that do not wait for ever for a silent server.                *)
HasTimeout(tool, call) ==
  tool = "download_all_kexts" \/ (tool = "download_acpi" /\ call = "release")

-----------------------------------------------------------------------------
DlInit ==
  /\ dlTool = "none" /\ dlDry = FALSE /\ dlPlan = <<>> /\ dlAt = 1
  /\ dlFetching = FALSE
  /\ dlDone = {} /\ dlFailed = {} /\ dlExit = "ok"
  /\ dlDirs = {"audio", "bluetooth", "essential", "gpu", "input", "network",
               "storage", "usb", "utility", "wireless"}
  /\ archives = [a \in Archives |-> IF a = SsdtConfig THEN "whole" ELSE "absent"]
  /\ mishaps = 0

(* argparse, then the constructor and, for ACPI, create_directories.       *)
Invoke(tool, dry, options, categories) ==
  /\ dlTool = "none"
  /\ IF options \subseteq Options(tool)
     THEN /\ dlTool' = tool
          /\ dlDry' = dry
          /\ dlPlan' = Plan(tool, categories)
          /\ dlAt' = 1
          /\ dlDone' = {} /\ dlFailed' = {}
          /\ dlExit' = "running"
          /\ dlDirs' = dlDirs \cup Created(tool)
          /\ UNCHANGED <<dlFetching, archives, mishaps>>
     ELSE /\ dlExit' = "usage"
          /\ UNCHANGED <<dlRun, dlAt, dlFetching, dlReport, dlDirs, archives, mishaps>>

Current == dlPlan[dlAt]

(* The next archive, and whether this one was downloaded.  download_acpi   *)
(* keeps no list of failures.                                              *)
Report(success) ==
  /\ dlAt' = dlAt + 1
  /\ dlFetching' = FALSE
  /\ dlDone' = IF success THEN dlDone \cup {Current} ELSE dlDone \ {Current}
  /\ dlFailed' = IF success \/ dlTool = "download_acpi"
                 THEN dlFailed \ {Current} ELSE dlFailed \cup {Current}

Mishap ==
  /\ mishaps < MaxMishaps
  /\ mishaps' = mishaps + 1

CallFails == Current \in Unreliable /\ Mishap

(* The latest release is asked for and its assets searched; if there is a  *)
(* match, the archive is opened for writing, which truncates it.           *)
Lookup ==
  /\ dlTool # "none" /\ dlAt <= Len(dlPlan) /\ ~dlFetching
  /\ \/ /\ CallFails
        /\ Report(FALSE)
        /\ UNCHANGED <<dlDirs, archives>>
     \/ /\ dlDirs' = IF dlTool = "download_all_kexts" THEN dlDirs \cup {Current[1]} ELSE dlDirs
        /\ CASE dlDry -> Report(TRUE) /\ UNCHANGED archives
             [] ~dlDry /\ Current[1] \in dlDirs' ->
                  /\ dlFetching' = TRUE
                  /\ archives' = [archives EXCEPT ![Current] = "torn"]
                  /\ UNCHANGED <<dlAt, dlReport>>
             [] OTHER -> Report(FALSE) /\ UNCHANGED archives
        /\ UNCHANGED mishaps
  /\ UNCHANGED <<dlRun, dlExit>>

(* Mutant: a transfer that breaks off counts as a download.                *)
FetchOrTrue ==
  /\ dlFetching
  /\ \/ /\ archives' = [archives EXCEPT ![Current] = "whole"]
        /\ UNCHANGED mishaps
     \/ CallFails /\ UNCHANGED archives
  /\ Report(TRUE)
  /\ UNCHANGED <<dlRun, dlExit, dlDirs>>

(* The archive arrives, or the transfer breaks off and what is on disk is  *)
(* left as it is.                                                          *)
Fetch ==
  /\ dlFetching
  /\ \/ /\ archives' = [archives EXCEPT ![Current] = "whole"]
        /\ Report(TRUE)
        /\ UNCHANGED mishaps
     \/ /\ CallFails
        /\ Report(FALSE)
        /\ UNCHANGED archives
  /\ UNCHANGED <<dlRun, dlExit, dlDirs>>

(* The summary; download_acpi.py writes its configuration first, in a dry  *)
(* run too.  Only download_kexts.py tells of failures in its exit status.  *)
Finish ==
  /\ dlTool # "none" /\ dlAt > Len(dlPlan)
  /\ dlTool' = "none"
  /\ dlExit' = IF dlTool = "download_kexts" /\ dlFailed # {} THEN "failures" ELSE "ok"
  /\ archives' = IF dlTool = "download_acpi"
                 THEN [archives EXCEPT ![SsdtConfig] = "whole"] ELSE archives
  /\ UNCHANGED <<dlDry, dlPlan, dlAt, dlFetching, dlReport, dlDirs, mishaps>>

(* The script is killed, or dies of an exception it does not catch: in     *)
(* get_latest_release three classes of exceptions are caught and no other. *)
Die ==
  /\ dlTool # "none"
  /\ dlAt <= Len(dlPlan) => Current \in Unreliable
  /\ Mishap
  /\ dlTool' = "none"
  /\ dlFetching' = FALSE
  /\ dlDone' = {} /\ dlFailed' = {} /\ dlExit' = "died"
  /\ archives' \in
       IF dlTool = "download_acpi" /\ dlAt > Len(dlPlan)
       THEN {archives, [archives EXCEPT ![SsdtConfig] = "torn"]} ELSE {archives}
  /\ UNCHANGED <<dlDry, dlPlan, dlAt, dlDirs>>

Download == Lookup \/ Fetch \/ Finish

(* Somebody runs one of the scripts.                                       *)
User ==
  \E dry \in BOOLEAN :
    \/ \E tool \in {"download_all_kexts", "download_acpi"} : Invoke(tool, dry, {}, <<>>)
    \/ \E categories \in Selections : Invoke("download_kexts", dry, {}, categories)

DlNext == Download \/ Die \/ User

(* A call with a timeout comes to an end; one without may wait for ever.   *)
DlFairness ==
  /\ WF_dlVars(Finish)
  /\ WF_dlVars(Lookup /\ HasTimeout(dlTool, "release"))
  /\ WF_dlVars(Fetch /\ HasTimeout(dlTool, "file"))
-----------------------------------------------------------------------------
(* Type invariant.                                                         *)
DlTypeOK ==
  /\ dlTool \in Tools \cup {"none"} /\ dlDry \in BOOLEAN
  /\ dlPlan \in Seq(Archives) /\ dlAt \in 1 .. Len(dlPlan) + 1
  /\ dlFetching \in BOOLEAN
  /\ dlDone \subseteq Archives /\ dlFailed \subseteq Archives
  /\ dlExit \in {"running", "ok", "failures", "usage", "died"}
  /\ archives \in [Archives -> {"absent", "torn", "whole"}]
  /\ mishaps \in 0 .. MaxMishaps
  /\ dlFetching => dlTool # "none" /\ dlAt <= Len(dlPlan) /\ ~dlDry
  /\ dlExit = "running" <=> dlTool # "none"

(* What a script reports as downloaded is whole on disk, except while it   *)
(* is fetched once more.  download_kexts.py exits with 0 only if that is   *)
(* true of everything it was asked for.                                    *)
DoneMeansWhole ==
  /\ ~dlDry => \A a \in dlDone : archives[a] = "whole" \/ (dlFetching /\ a = Current)
  /\ dlExit = "ok" /\ dlPlan \in {SelectedKexts(c) : c \in Selections} => dlDone = ToSet(dlPlan)

(* download_kexts.py "Downloads all community kexts needed for Hackintosh  *)
(* builds": a run for all categories in which nothing fails of itself      *)
(* downloads every kext of the table.                                      *)
EveryCategoryArrives ==
  /\ dlTool = "none" /\ dlExit \in {"ok", "failures"} /\ ~dlDry
  /\ dlPlan = SelectedKexts(Categories) /\ mishaps = 0
  => dlDone = ToSet(dlPlan)

(* The directories of six categories have other names than the categories: *)
(* their kexts never arrive, and a run that includes one of them does not  *)
(* succeed unless it is a dry run.                                         *)
SlashCategoriesNeverArrive ==
  /\ \A a \in Archives : a[1] \in SlashCategories => archives[a] = "absent"
  /\ dlExit = "ok" /\ ~dlDry => \A a \in ToSet(dlPlan) : a[1] \notin SlashCategories

(* A run of download_all_kexts.py ends even if servers go silent, and so   *)
(* does a dry run of download_acpi.py; the others wait without a timeout.  *)
DownloadsEnd ==
  dlTool = "download_all_kexts" \/ (dlTool = "download_acpi" /\ dlDry)
    ~> dlTool = "none"
=============================================================================
