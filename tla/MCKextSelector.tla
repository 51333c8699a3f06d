--------------------------- MODULE MCKextSelector ---------------------------
(***************************************************************************)
(* KextSelector on the shipped tables and machines with up to three        *)
(* devices per list: several driver families, a device no row names, the   *)
(* device two rows name (10EC:8161), and a kext wanted twice with another  *)
(* in between.  The capacity is the least CapacityAssumption allows.       *)
(***************************************************************************)
EXTENDS KextSelector, KextDatabase

Dev(vendor, device, class) ==
  [VendorID |-> vendor, DeviceID |-> device, ClassCode |-> class]

IntelGPU    == Dev(\h8086, \h3E9B, 3)
RadeonGPU   == Dev(\h1002, \h67DF, 3)
UnknownGPU  == Dev(\h1A03, \h2000, 3)
Realtek8161 == Dev(\h10EC, \h8161, 2)
Realtek8125 == Dev(\h10EC, \h8125, 2)
IntelWiFi   == Dev(\h8086, \h2725, 13)
UnknownNIC  == Dev(\h1D6A, \h07B1, 2)
Codec       == Dev(\h10EC, \h0892, 4)
UnknownHDMI == Dev(\h10DE, \h0E0A, 4)
SamsungNVMe == Dev(\h144D, \hA808, 1)
IntelAHCI   == Dev(\h8086, \h2829, 1)
AbsentSlot  == Dev(\hFFFF, \hFFFF, 255)

UpToTwo(S) == UNION {[1 .. n -> S] : n \in 0 .. 2}

MCSystemInfos ==
  [GPUs : {<<UnknownGPU>>, <<IntelGPU, RadeonGPU>>},
   Networks : UpToTwo({Realtek8161, Realtek8125, IntelWiFi, UnknownNIC})
                \cup {<<Realtek8161, IntelWiFi, Realtek8161>>},
   AudioCodecs : {<<>>, <<UnknownHDMI, Codec>>},
   Storage : {<<AbsentSlot, SamsungNVMe>>, <<SamsungNVMe, IntelAHCI>>}]

MCMaxCount == [l \in DeviceLists |-> IF l = "Networks" THEN 3 ELSE 2]
=============================================================================
