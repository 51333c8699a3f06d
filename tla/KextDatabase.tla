---------------------------- MODULE KextDatabase ----------------------------
(***************************************************************************)
(* The tables compiled into the boot loader by                             *)
(* bootloader/src/kext_selector.c.  Consecutive rows of gKextDatabase that *)
(* agree on vendor, class and kext are written as one entry whose          *)
(* DeviceIDs is the set of their device identifiers; the order of entries  *)
(* is the order of the rows, which decides between two rows with the same  *)
(* key.  The Flags column is left out: no code reads it.                   *)
(***************************************************************************)
EXTENDS Integers, Sequences

Rows(vendor, class, kext, devices) ==
  <<[VendorID |-> vendor, DeviceIDs |-> devices, ClassCode |-> class,
     KextName |-> kext]>>

Intel    == \h8086
Nvidia   == \h10DE
ATI      == \h1002
AMD      == \h1022
Realtek  == \h10EC
Broadcom == \h14E4
VIA      == \h1106
Conexant == \h14F1
Samsung  == \h144D

IntelGPURows ==
  Rows(Intel, 3, "WhateverGreen.kext",
       {\h0102, \h0106, \h010A, \h0152, \h0156, \h015A, \h0162, \h0166,
        \h5912, \h5916, \h5917, \h591B, \h591D, \h3E98, \h3E9B,
        \h8A70, \h9A60, \h9A74, \h9A84}
         \cup \h3E90 .. \h3E93 \cup \h8A50 .. \h8A52)

NvidiaGPURows ==
  Rows(Nvidia, 3, "WhateverGreen.kext",
       {\h0DC0, \h0DF8, \h1280, \h1282, \h1B00, \h1B80, \h1C03, \h1F10,
        \h2204, \h2684})

AMDGPURows ==
  Rows(ATI, 3, "WhateverGreen.kext",
       {\h6739, \h6740, \h67DF, \h6860, \h687F, \h6880, \h6898, \h68A0,
        \h7310, \h73A0, \h73AB, \h744C})

IntelEthernetRows ==
  Rows(Intel, 2, "AppleIntelE1000e.kext", {\h100E, \h100F, \h1015})
    \o Rows(Intel, 2, "IntelMausi.kext", {\h10D3})
    \o Rows(Intel, 2, "AppleIntelE1000e.kext", {\h10D5})
    \o Rows(Intel, 2, "IntelMausi.kext",
            \h1130 .. \h1133 \cup \h1137 .. \h1138 \cup \h113A .. \h1142
              \cup \h1148 .. \h1149 \cup \h1150 .. \h1151
              \cup \h15A0 .. \h15A3 \cup \h15B7 .. \h15B8
              \cup \h15C7 .. \h15C8 \cup \h15D6 .. \h15D9
              \cup \h15E3 .. \h15E4 \cup \h15F0 .. \h15F8)

(* 10EC:8161 is listed twice, for RealtekRTL8111 and for RealtekRTL8125.   *)
RealtekEthernetRows ==
  Rows(Realtek, 2, "RealtekRTL8111.kext",
       \h8136 .. \h8139 \cup \h8161 .. \h8164 \cup \h8167 .. \h817F
         \cup \h8185 .. \h8187 \cup \h818B .. \h818D)
    \o Rows(Realtek, 2, "RealtekRTL8125.kext", {\h8125, \h8129, \h8135})
    \o Rows(Realtek, 2, "RealtekRTL8152.kext", {\h8152, \h8153})
    \o Rows(Realtek, 2, "RealtekRTL8125.kext", {\h8156, \h8161})

WiFiRows ==
  Rows(Intel, 13, "AirportItlwm.kext",
       {\h34FE, \h272B, \h272D, \h272F} \cup \h2723 .. \h2729)
    \o Rows(Broadcom, 13, "AirportBrcmFixup.kext",
            {\h0576, \h43A0, \h43B1, \h4353, \h4354, \h4360, \h4361,
             \h43A3, \h43D0, \h43E0})

AudioRows ==
  Rows(Realtek, 4, "AppleALC.kext",
       {\h0880, \h0883, \h0885, \h0887, \h0889, \h0892, \h0897, \h0A00,
        \h0A03, \h0A05, \h0A08, \h0A0C, \h0A10, \h0A20, \h0A2D, \h0A3C,
        \h0A48, \h0A50, \h0A52, \h0A55, \h0A70} \cup \h0A72 .. \h0A78)
    \o Rows(VIA, 4, "AppleALC.kext", \h3288 .. \h3290)
    \o Rows(Conexant, 4, "AppleALC.kext",
            \h5011 .. \h5013 \cup \h5018 .. \h501A \cup \h509F .. \h50AF)

StorageRows ==
  Rows(Intel, 1, "NVMeFix.kext", \h2260 .. \h2262 \cup {\h5001})
    \o Rows(Samsung, 1, "NVMeFix.kext",
            \hA800 .. \hA802 \cup \hA804 .. \hA808)
    \o Rows(AMD, 1, "NVMeFix.kext", \h5001 .. \h5007)
    \o Rows(Intel, 1, "AHCIPortInjector.kext", {\h2829, \h2825})
    \o Rows(AMD, 1, "AHCIPortInjector.kext", {\h7801})
    \o Rows(ATI, 1, "AHCIPortInjector.kext", \h4390 .. \h4394)

USBRows ==
  Rows(Intel, 12, "USBInjectAll.kext",
       \h8CB1 .. \h8CB3 \cup {\h8D26, \h8D2D, \h8D7F} \cup \hA0AF .. \hA0B8)

(* The row whose vendor ends every scan of the table.                      *)
EndMarker == Rows(\hFFFF, \hFF, "", {\hFFFF})

gKextDatabase ==
  IntelGPURows \o NvidiaGPURows \o AMDGPURows \o IntelEthernetRows
    \o RealtekEthernetRows \o WiFiRows \o AudioRows \o StorageRows
    \o USBRows \o EndMarker

gEssentialKexts == <<"Lilu.kext", "VirtualSMC.kext">>
=============================================================================
