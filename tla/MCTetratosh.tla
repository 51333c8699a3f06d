------------------------------ MODULE MCTetratosh ------------------------------
(***************************************************************************)
(* The programs of Tetratosh: the boot loader, its menu, the script that   *)
(* puts the loader on an ISO, and the scripts that prepare its build.      *)
(* They share no memory and none waits for another, so that what they do   *)
(* at once adds nothing; each run of the model is about one.               *)
(***************************************************************************)
EXTENDS MCBootloader, MCBootMenu, MCBuildIso, MCScripts, Edk2Setup

VARIABLE part  \* which of them is looked at

allVars == <<bootVars, menuVars, isoVars, baVars, edVars, part>>

AllInit ==
  /\ part \in {"boot", "menu", "build_iso", "build_all", "setup_edk2"}
  /\ BootInit /\ MenuInit /\ IsoInit /\ BaInit /\ EdInit
  /\ part # "boot" => hardware = Desktop
  /\ part # "menu" => cpuid = AlderLake /\ key = "zero"

AllNext ==
  /\ UNCHANGED part
  /\ \/ /\ part = "boot" /\ BootNext
        /\ UNCHANGED <<menuVars, isoVars, baVars, edVars>>
     \/ /\ part = "menu" /\ MenuNext
        /\ UNCHANGED <<bootVars, isoVars, baVars, edVars>>
     \/ /\ part = "build_iso" /\ IsoNext
        /\ UNCHANGED <<bootVars, menuVars, baVars, edVars>>
     \/ /\ part = "build_all" /\ BaNext
        /\ UNCHANGED <<bootVars, menuVars, isoVars, edVars>>
     \/ /\ part = "setup_edk2" /\ EdNext
        /\ UNCHANGED <<bootVars, menuVars, isoVars, baVars>>

MenuIsOver ==
  part = "menu" /\ menu = "done" /\ UNCHANGED allVars

AllSteps == AllNext \/ MenuIsOver

(* What each program is granted when it is looked at alone.                *)
AllSpec ==
  /\ AllInit /\ [][AllSteps]_allVars
  /\ WF_bootVars(TetratoshMain)
  /\ WF_menuVars(KeyRead) /\ WF_menuVars(Configure)
  /\ WF_isoVars(main)
  /\ BaFairness
-----------------------------------------------------------------------------
(* The types of the program looked at; nothing of the others changes.      *)
TypesOK ==
  /\ part = "boot" => BootTypeOK
  /\ part = "menu" => MenuTypeOK
  /\ part = "build_iso" => IsoTypeOK
  /\ part = "build_all" => BaTypeOK
  /\ part = "setup_edk2" => EdTypeOK
=============================================================================
