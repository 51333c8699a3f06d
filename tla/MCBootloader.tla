----------------------------- MODULE MCBootloader -----------------------------
(***************************************************************************)
(* Bootloader on the shipped tables and three machines: two that need      *)
(* different kexts and one whose list differs from the first's in order    *)
(* only.                                                                   *)
(***************************************************************************)
EXTENDS Bootloader, KextDatabase

Dev(vendor, device, class) ==
  [VendorID |-> vendor, DeviceID |-> device, ClassCode |-> class]

Radeon  == Dev(\h1002, \h67DF, 3)
Realtek8111 == Dev(\h10EC, \h8168, 2)
WiFi    == Dev(\h8086, \h2725, 13)
Codec   == Dev(\h10EC, \h0892, 4)
NVMe    == Dev(\h144D, \hA808, 1)

Machine(gpus, networks, codecs, storage) ==
  [GPUs |-> gpus, Networks |-> networks, AudioCodecs |-> codecs,
   Storage |-> storage]

Desktop == Machine(<<Radeon>>, <<Realtek8111, WiFi>>, <<>>, <<>>)

MCSystemInfos ==
  {Desktop,
   Machine(<<Radeon>>, <<>>, <<Codec>>, <<NVMe>>),
   Machine(<<Radeon>>, <<WiFi, Realtek8111>>, <<>>, <<>>)}

MCMaxCount ==
  [l \in {"GPUs", "Networks", "AudioCodecs", "Storage"} |->
     IF l = "Networks" THEN 2 ELSE 1]
=============================================================================
