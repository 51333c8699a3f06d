------------------------------- MODULE MCScripts -------------------------------
(***************************************************************************)
(* Constants for BuildAll.  The tables of kexts are the shipped ones;      *)
(* there are three -c options (all categories; one category twice; an      *)
(* unknown one and one whose directory is missing) and at most two         *)
(* mishaps, which strike an archive two scripts write, one of them twice   *)
(* in a run, and an ACPI archive.                                          *)
(***************************************************************************)
EXTENDS BuildAll

MCSelections ==
  {Categories, <<"gpu", "bluetooth", "gpu">>, <<"graphics", "wireless-other">>}

MCUnreliable == {<<"gpu", "WhateverGreen">>, <<"precompiled", "NVMeFix">>}

MCDatabases == {"devices.json", "devices_v2.json"}
=============================================================================
