------------------------------ MODULE MCBootMenu ------------------------------
(***************************************************************************)
(* BootMenu with the shipped versions on machines with an Alder Lake, a    *)
(* Sandy Bridge, a Pentium 4, a Ryzen, a K8, a VIA and an old AMD          *)
(* processor of family 5.                                                  *)
(***************************************************************************)
EXTENDS BootMenu

Registers(name, eax, edxByte2, coreField) ==
  [Ebx |-> name[1], Edx |-> name[2], Ecx |-> name[3], Eax |-> eax,
   Features |-> {"SSE2"}, EdxByte2 |-> edxByte2, CoreField |-> coreField]

AlderLake == Registers(GenuineIntel, \h000906A4, \hEB, 15)

MCCPUs ==
  {AlderLake, Registers(GenuineIntel, \h000206A7, \hEB, 7),
   Registers(GenuineIntel, \h00000F29, \hEB, 0), Registers(AuthenticAMD, \h00A20F12, \h8B, 0),
   Registers(AuthenticAMD, \h00000F4A, \h8B, 0), Registers(AuthenticAMD, \h0000058C, 0, 0),
   Registers(<<"Cent", "aurH", "auls">>, \h000006F2, 0, 0)}
=============================================================================
