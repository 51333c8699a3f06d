------------------------------ MODULE MCBuildIso ------------------------------
(***************************************************************************)
(* BuildIso with two file systems that may be stacked.  The parts have the *)
(* sizes they have in the repository, in MB, or sizes that fit the image.  *)
(***************************************************************************)
EXTENDS BuildIso

ShippedSizes == [bootloader |-> 1, OpenCore |-> 24, kexts |-> 18, database |-> 1]
SmallSizes == [bootloader |-> 1, OpenCore |-> 6, kexts |-> 8, database |-> 1]

MCMovable == {"tetratosh.efi", "kexts"}
=============================================================================
