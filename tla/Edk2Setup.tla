------------------------------- MODULE Edk2Setup -------------------------------
(***************************************************************************)
(* scripts/setup_edk2.sh and build_tetratosh.sh.  Both run under `set -e'. *)
(* Any command may fail, a clone also by being killed half way.            *)
(***************************************************************************)
EXTENDS Naturals

VARIABLES
  edStep,     \* the command a script is at, or how the last run ended
  reply,      \* REPLY of the last setup: "s", "n", or "none" if it is not asked for
  edk2,       \* /tmp/edk2: "none", "partial" (submodules missing or old), "whole"
  baseTools,  \* BaseTools: "none", "stale" (of an earlier edk2) or "built"
  efi         \* Tetratosh.efi in build/bootloader: "none", "old" or "new"

edVars == <<edStep, reply, edk2, baseTools, efi>>

EdStopped == {"off", "failed", "setup concluded", "build concluded"}

EdInit ==
  /\ edStep = "off" /\ reply = "none"
  /\ edk2 = "none" /\ baseTools = "none" /\ efi = "none"

EdGo(from, to) == edStep = from /\ edStep' = to

(* Whether there is an edk2 already, and then whether to update it; `read' *)
(* fails when there is nobody to answer.                                   *)
Setup ==
  /\ edStep \in EdStopped
  /\ \/ edk2 = "none" /\ edStep' = "clone" /\ reply' = "none"
     \/ /\ edk2 # "none"
        /\ \/ edStep' = "pull" /\ reply' = "s"
           \/ edStep' = "make" /\ reply' = "n"
           \/ edStep' = "failed" /\ reply' = "none"
  /\ UNCHANGED <<edk2, baseTools, efi>>

(* A pull that is cut off may have changed some files.                     *)
Pull ==
  /\ \/ /\ EdGo("pull", "submodules") \/ EdGo("pull", "failed")
        /\ edk2' = "partial"
        /\ baseTools' = IF baseTools = "built" THEN "stale" ELSE baseTools
     \/ EdGo("pull", "failed") /\ UNCHANGED <<edk2, baseTools>>
  /\ UNCHANGED <<reply, efi>>

Clone ==
  /\ \/ EdGo("clone", "submodules") /\ edk2' = "partial"
     \/ EdGo("clone", "failed") /\ edk2' \in {"none", "partial"}
  /\ UNCHANGED <<reply, baseTools, efi>>

(* Mutant: `|| true', as behind pip3.                                      *)
SubmodulesOrTrue ==
  /\ EdGo("submodules", "make")
  /\ edk2' \in {"whole", edk2}
  /\ UNCHANGED <<reply, baseTools, efi>>

Submodules ==
  /\ \/ EdGo("submodules", "make") /\ edk2' = "whole"
     \/ EdGo("submodules", "failed") /\ UNCHANGED edk2
  /\ UNCHANGED <<reply, baseTools, efi>>

(* make takes the edk2 that is there, which after the answer "n" is what   *)
(* earlier runs have left.  pip3 may fail.                                 *)
MakeBaseTools ==
  /\ \/ EdGo("make", "setup concluded") /\ baseTools' = "built"
     \/ EdGo("make", "failed") /\ UNCHANGED baseTools
  /\ UNCHANGED <<reply, edk2, efi>>

(* `make clean' and `make' in bootloader/, then the copy.  With the        *)
(* conflict markers of the repository the first command fails; somebody    *)
(* may have removed them.                                                  *)
BuildTetratosh ==
  /\ edStep \in EdStopped
  /\ \/ edStep' = "build concluded" /\ efi' = "new"
     \/ edStep' = "failed" /\ efi' \in {efi, IF efi = "new" THEN "old" ELSE efi}
  /\ UNCHANGED <<reply, edk2, baseTools>>

EdScript == Pull \/ Clone \/ Submodules \/ MakeBaseTools

EdNext == Setup \/ EdScript \/ BuildTetratosh

EdSpec == EdInit /\ [][EdNext]_edVars
-----------------------------------------------------------------------------
(* Type invariant.                                                         *)
EdTypeOK ==
  /\ edStep \in EdStopped \cup {"pull", "clone", "submodules", "make"}
  /\ reply \in {"none", "s", "n"}
  /\ edk2 \in {"none", "partial", "whole"}
  /\ baseTools \in {"none", "stale", "built"} /\ efi \in {"none", "old", "new"}

(* When setup_edk2.sh shows "Setup concluído!" the tools are built from    *)
(* the edk2 that is there, and that edk2 is complete, whatever earlier     *)
(* runs that were cut off have left, unless somebody answered not to       *)
(* update it.                                                              *)
SetupTellsTheTruth ==
  edStep = "setup concluded" => baseTools = "built" /\ (reply # "n" => edk2 = "whole")
=============================================================================
