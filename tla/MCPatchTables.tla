--------------------------- MODULE MCPatchTables ---------------------------
(***************************************************************************)
(* PatchSelector on a table with few critical patches, so that the quota   *)
(* leaves room for every pass, and with a TargetCPU array of two entries,  *)
(* which one row overruns.                                                 *)
(***************************************************************************)
EXTENDS PatchSelector

Row(name, cpus, critical, recommended, legacyOnly) ==
  [PatchName |-> name, TargetCPU |-> cpus, IsCritical |-> critical,
   IsRecommended |-> recommended, IsLegacyOnly |-> legacyOnly, Priority |-> 1]

MCTable ==
  <<Row("s1", <<"all">>, FALSE, FALSE, FALSE),
    Row("c1", <<"all">>, TRUE, TRUE, FALSE),
    Row("r1", <<"all">>, FALSE, TRUE, FALSE),
    Row("c2", <<"Core2">>, TRUE, FALSE, TRUE),
    Row("s2", <<"Core2", "Skylake", "Nehalem">>, FALSE, FALSE, FALSE),
    Row("l1", <<"Core2">>, FALSE, FALSE, TRUE),
    Row("s3", <<"all">>, FALSE, FALSE, FALSE),
    Row("l2", <<"all">>, FALSE, FALSE, TRUE),
    Row("c2", <<"Skylake">>, TRUE, FALSE, FALSE),
    Row("r2", <<"AMD-Zen">>, FALSE, TRUE, TRUE)>>
=============================================================================
