------------------------------- MODULE BuildAll -------------------------------
(***************************************************************************)
(* scripts/build_all.sh, which runs download_all_kexts.py and              *)
(* download_acpi.py and copies the databases, between runs of the scripts  *)
(* it calls by hand.  It runs under `set -e', but turns the failure of a   *)
(* downloader into a warning.                                              *)
(***************************************************************************)
EXTENDS Downloaders

CONSTANT Databases  \* the databases of the checkout

ASSUME DatabasesAssumption ==
  Databases \subseteq {"devices.json", "devices_v2.json", "acpi_patches.json"}

VARIABLES
  baStep,   \* the step build_all.sh is at, or how its last run ended
  outputDB  \* the databases copied whole to output/DATABASE

baVars == <<dlVars, baStep, outputDB>>

Steps == {"kexts", "acpi", "structure", "databases"}

BaInit == DlInit /\ baStep = "off" /\ outputDB = {}

(* Step 1.                                                                 *)
Start ==
  /\ baStep \notin Steps
  /\ Invoke("download_all_kexts", FALSE, {"-v"}, <<>>)
  /\ baStep' = "kexts"
  /\ UNCHANGED outputDB

(* Step 2, when step 1 has ended in whatever way.                          *)
Acpi ==
  /\ baStep = "kexts"
  /\ Invoke("download_acpi", FALSE, {"-v"}, <<>>)
  /\ baStep' = "acpi"
  /\ UNCHANGED outputDB

Warned ==
  /\ baStep = "acpi" /\ dlTool = "none"
  /\ baStep' = "structure"
  /\ UNCHANGED <<dlVars, outputDB>>

(* Step 3: mkdir -p, eight times.                                          *)
Structure ==
  /\ baStep = "structure"
  /\ \/ baStep' = "databases" /\ UNCHANGED mishaps
     \/ baStep' = "failed" /\ Mishap
  /\ UNCHANGED <<dlRun, dlAt, dlFetching, dlReport, dlExit, dlDirs, archives, outputDB>>

(* The databases that exist are copied one after the other.  A copy that   *)
(* fails leaves its file incomplete and ends the script.                   *)
CopyDatabases ==
  /\ baStep = "databases"
  /\ \/ outputDB' = Databases /\ baStep' = "complete" /\ UNCHANGED mishaps
     \/ /\ Mishap
        /\ \E file \in Databases, copied \in SUBSET Databases :
             /\ file \notin copied
             /\ outputDB' = (outputDB \cup copied) \ {file}
        /\ baStep' = "failed"
  /\ UNCHANGED <<dlRun, dlAt, dlFetching, dlReport, dlExit, dlDirs, archives>>

Script == Acpi \/ Warned \/ Structure \/ CopyDatabases

BaNext ==
  \/ Start \/ Script
  \/ (Download \/ Die) /\ UNCHANGED <<baStep, outputDB>>
  \/ baStep \notin Steps /\ User /\ UNCHANGED <<baStep, outputDB>>

BaFairness == DlFairness /\ WF_baVars(Script)

BaSpec == BaInit /\ [][BaNext]_baVars /\ BaFairness
-----------------------------------------------------------------------------
(* Type invariant; "Build Complete!" means that every database is copied.  *)
BaTypeOK ==
  /\ DlTypeOK
  /\ baStep \in Steps \cup {"off", "complete", "failed"}
  /\ outputDB \subseteq Databases
  /\ baStep = "complete" => outputDB = Databases

(* build_all.sh "Downloads ALL required files for offline boot": a run     *)
(* that comes to "Build Complete!" with no command failing of itself has   *)
(* every kext of download_all_kexts.py.                                    *)
BuildAllDownloadsKexts ==
  baStep = "complete" /\ mishaps = 0 => \A a \in ToSet(KEXTS_DB) : archives[a] = "whole"

(* It opens none of their archives from its start to "Build Complete!",    *)
(* since its step 1 ends with a usage error.                               *)
BuildAllGetsNoKexts ==
  [][\A a \in ToSet(KEXTS_DB) : archives'[a] # archives[a] => baStep \notin Steps]_baVars
=============================================================================
