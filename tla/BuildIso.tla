------------------------------- MODULE BuildIso -------------------------------
(***************************************************************************)
(* scripts/build_iso.sh: the steps from a source tree to dist/             *)
(* tetratosh.iso.  The script runs under `set -e': a command that fails    *)
(* ends it where it stands, and nothing is undone.  What a run leaves in   *)
(* build/ the next run finds there.                                        *)
(*                                                                         *)
(* A tree is the set of the parts copied whole into it; a failed copy      *)
(* leaves its part incomplete.  Any command may fail, for want of space or *)
(* of permission or because it is interrupted, and copying into the image  *)
(* must fail when the parts do not fit.  build/bootloader is filled by     *)
(* hand: build_tetratosh.sh runs make on a Makefile that holds conflict    *)
(* markers.                                                                *)
(***************************************************************************)
EXTENDS Naturals, FiniteSetsExt

CONSTANTS
  Size,       \* the size of each part
  ImageSize,  \* the size of efi.img
  Movable,    \* the files somebody adds or removes by hand
  MaxMounts   \* bound: the file systems that may be stacked on efi_mount

VARIABLES
  pc,          \* the command the script is at, or how the last run ended
  sources,     \* the files the script looks for and that exist
  isoTree,     \* build/iso
  img,         \* build/efi.img
  mountPoint,  \* the directory build/efi_mount, under what is mounted on it
  mounts,      \* the images mounted on it, one on top of the other
  iso          \* dist/tetratosh.iso: the tree and the image in it

built == <<isoTree, img, mountPoint, mounts, iso>>
isoVars == <<pc, sources, built>>

Parts == {"bootloader", "OpenCore", "kexts", "database"}
Files == {"tetratosh.efi", "OpenCore", "kexts", "device_database"}

ASSUME ConstantsAssumption ==
  /\ Size \in [Parts -> Nat]
  /\ ImageSize \in Nat
  /\ Movable \subseteq Files
  /\ MaxMounts \in Nat \ {0}

IsoSteps == {"check_dependencies", "create_structure", "copy_bootloader",
             "copy_opencore", "copy_kexts", "copy_database", "format", "mount",
             "copy_image", "umount", "rmdir", "create_iso"}

(* A file that is missing, or half written, or an image of a tree.         *)
Absent == [state |-> "absent", holds |-> {}]
TornFile == [state |-> "torn", holds |-> {}]
Image(tree) == [state |-> "whole", holds |-> tree]

Fits(tree) == MapThenSumSet(LAMBDA part : Size[part], tree) <= ImageSize

-----------------------------------------------------------------------------
(* A checkout: the repository holds OpenCore, kexts, databases, a build/iso*)
(* with OpenCore in it, and files in build/efi_mount.                      *)
IsoInit ==
  /\ pc = "idle"
  /\ sources = {"OpenCore", "kexts", "device_database"}
  /\ isoTree = {"OpenCore"}
  /\ img = Absent
  /\ mountPoint = "filled"
  /\ mounts = 0
  /\ iso = [tree |-> {}, image |-> Absent]

StartIso ==
  /\ pc \in {"idle", "done", "failed"}
  /\ pc' = "check_dependencies"
  /\ UNCHANGED <<sources, built>>

(* The checks and the mkdir -p commands, none of which leaves a trace.     *)
Prepare ==
  /\ \/ pc = "check_dependencies" /\ pc' = "create_structure"
     \/ pc = "create_structure" /\ pc' = "copy_bootloader"
     \/ pc \in {"check_dependencies", "create_structure"} /\ pc' = "failed"
  /\ UNCHANGED <<sources, built>>

(* Copying one part, if the file it comes from is there.                   *)
Copy(file, part, next, onError) ==
  /\ \/ /\ file \notin sources
        /\ pc' = next
        /\ UNCHANGED isoTree
     \/ /\ file \in sources
        /\ isoTree' = isoTree \cup {part}
        /\ pc' = next
     \/ /\ file \in sources
        /\ isoTree' = isoTree \ {part}
        /\ pc' = onError
  /\ UNCHANGED <<sources, img, mountPoint, mounts, iso>>

copy_bootloader ==
  /\ pc = "copy_bootloader"
  /\ Copy("tetratosh.efi", "bootloader", "copy_opencore", "failed")

(* The next two copies end in `|| true'.                                   *)
copy_opencore ==
  /\ pc = "copy_opencore"
  /\ Copy("OpenCore", "OpenCore", "copy_kexts", "copy_kexts")

copy_kexts ==
  /\ pc = "copy_kexts"
  /\ Copy("kexts", "kexts", "copy_database", "copy_database")

copy_database ==
  /\ pc = "copy_database"
  /\ Copy("device_database", "database", "format", "failed")

(* dd and mkfs.fat.                                                        *)
Format ==
  /\ pc = "format"
  /\ \/ img' = Image({}) /\ pc' = "mount"
     \/ img' = TornFile /\ pc' = "failed"
  /\ UNCHANGED <<sources, isoTree, mountPoint, mounts, iso>>

(* Mutant: the script goes on without a mounted image.                     *)
MountOrTrue ==
  /\ pc = "mount"
  /\ mountPoint' = IF mountPoint = "missing" THEN "empty" ELSE mountPoint
  /\ \/ /\ mounts < MaxMounts
        /\ mounts' = mounts + 1
        /\ pc' = "copy_image"
     \/ UNCHANGED mounts /\ pc' = "copy_image"
  /\ UNCHANGED <<sources, isoTree, img, iso>>

(* mkdir -p and mount -o loop, on top of whatever is mounted already.      *)
Mount ==
  /\ pc = "mount"
  /\ mountPoint' = IF mountPoint = "missing" THEN "empty" ELSE mountPoint
  /\ \/ /\ mounts < MaxMounts
        /\ mounts' = mounts + 1
        /\ pc' = "copy_image"
     \/ UNCHANGED mounts /\ pc' = "failed"
  /\ UNCHANGED <<sources, isoTree, img, iso>>

(* Mutant: the copy ends in `|| true', like two of the copies before it.   *)
CopyImageOrTrue ==
  /\ pc = "copy_image"
  /\ \/ Fits(isoTree) /\ img' = Image(isoTree) /\ pc' = "umount"
     \/ img' = TornFile /\ pc' = "umount"
  /\ UNCHANGED <<sources, isoTree, mountPoint, mounts, iso>>

(* cp -r into the mounted image.                                           *)
CopyImage ==
  /\ pc = "copy_image"
  /\ \/ Fits(isoTree) /\ img' = Image(isoTree) /\ pc' = "umount"
     \/ img' = TornFile /\ pc' = "failed"
  /\ UNCHANGED <<sources, isoTree, mountPoint, mounts, iso>>

(* Mutant: the image stays mounted.                                        *)
UmountForgotten ==
  /\ pc = "umount"
  /\ pc' = "rmdir"
  /\ UNCHANGED <<sources, built>>

(* The image on top is unmounted.                                          *)
Umount ==
  /\ pc = "umount"
  /\ \/ mounts' = mounts - 1 /\ pc' = "rmdir"
     \/ UNCHANGED mounts /\ pc' = "failed"
  /\ UNCHANGED <<sources, isoTree, img, mountPoint, iso>>

(* Mutant: errors of rmdir are ignored.                                    *)
RmdirIgnoringErrors ==
  /\ pc = "rmdir"
  /\ pc' = "create_iso"
  /\ mountPoint' = IF mounts = 0 /\ mountPoint = "empty" THEN "missing" ELSE mountPoint
  /\ UNCHANGED <<sources, isoTree, img, mounts, iso>>

(* rmdir removes an empty directory on which nothing is mounted.           *)
Rmdir ==
  /\ pc = "rmdir"
  /\ \/ /\ mounts = 0 /\ mountPoint = "empty"
        /\ mountPoint' = "missing"
        /\ pc' = "create_iso"
     \/ UNCHANGED mountPoint /\ pc' = "failed"
  /\ UNCHANGED <<sources, isoTree, img, mounts, iso>>

create_iso ==
  /\ pc = "create_iso"
  /\ \/ iso' = [tree |-> isoTree, image |-> img] /\ pc' = "done"
     \/ iso' = [tree |-> {}, image |-> TornFile] /\ pc' = "failed"
  /\ UNCHANGED <<sources, isoTree, img, mountPoint, mounts>>

main ==
  \/ Prepare \/ copy_bootloader \/ copy_opencore \/ copy_kexts \/ copy_database
  \/ Format \/ Mount \/ CopyImage \/ Umount \/ Rmdir \/ create_iso

Idle == pc \in {"idle", "done", "failed"}

(* Somebody adds or removes a file by hand.                                *)
ChangeSources(file) ==
  /\ Idle
  /\ sources' = IF file \in sources THEN sources \ {file} ELSE sources \cup {file}
  /\ UNCHANGED <<pc, built>>

(* `make clean' in the root directory removes build/.  It cannot remove a  *)
(* directory on which something is mounted.                                *)
MakeClean ==
  /\ Idle
  /\ sources' = sources \ {"tetratosh.efi"}
  /\ isoTree' = {}
  /\ img' = Absent
  /\ mountPoint' = IF mounts = 0 THEN "missing" ELSE mountPoint
  /\ UNCHANGED <<pc, mounts, iso>>

(* Somebody unmounts what failed runs have left mounted.                   *)
UnmountByHand ==
  /\ Idle
  /\ mounts > 0
  /\ mounts' = 0
  /\ UNCHANGED <<pc, sources, isoTree, img, mountPoint, iso>>

IsoNext ==
  \/ StartIso \/ main \/ MakeClean \/ UnmountByHand
  \/ \E file \in Movable : ChangeSources(file)

IsoSpec == IsoInit /\ [][IsoNext]_isoVars

(* A run that has started goes on.                                         *)
IsoFairSpec == IsoSpec /\ WF_isoVars(main)
-----------------------------------------------------------------------------
(* Type invariant; the script has something to unmount when it unmounts.   *)
IsoTypeOK ==
  LET files == {Absent, TornFile} \cup {Image(tree) : tree \in SUBSET Parts}
  IN  /\ pc \in {"idle", "done", "failed"} \cup IsoSteps
      /\ sources \subseteq Files
      /\ isoTree \subseteq Parts
      /\ img \in files
      /\ mountPoint \in {"missing", "empty", "filled"}
      /\ mounts \in 0 .. MaxMounts
      /\ iso \in [tree : SUBSET Parts, image : files]
      /\ pc \in {"copy_image", "umount"} => mounts > 0

(* A run that succeeds leaves an ISO whose EFI partition and file system   *)
(* hold the same parts, whichever commands of earlier runs have failed.    *)
PartitionMatchesTree == pc = "done" => iso.image = Image(iso.tree)

(* What an earlier run, or the checkout, has left in build/efi_mount or    *)
(* mounted on it keeps every later run from touching the ISO.              *)
LeftoversBlockISO ==
  [][iso' # iso => mounts = 0 /\ mountPoint = "missing"]_isoVars

(* A command fails that could have succeeded.                              *)
IsoMishap ==
  \/ /\ pc \in IsoSteps /\ pc' = "failed"
     /\ pc = "rmdir" => mounts = 0 /\ mountPoint = "empty"
     /\ pc = "mount" => mounts < MaxMounts
     /\ pc = "copy_image" => Fits(isoTree)
  \/ pc = "copy_opencore" /\ "OpenCore" \in sources \ isoTree'
  \/ pc = "copy_kexts" /\ "kexts" \in sources \ isoTree'

(* Somebody keeps running the script, and unmounts and cleans between the  *)
(* runs again and again.                                                   *)
Persistent ==
  WF_isoVars(StartIso) /\ SF_isoVars(UnmountByHand) /\ SF_isoVars(MakeClean)

(* When commands stop failing, unmounting and cleaning are enough to get   *)
(* an ISO, whatever earlier runs left behind, if the parts fit.  The       *)
(* script's header says that it "Creates a bootable ISO".                  *)
Recovers == Persistent /\ <>[][~IsoMishap]_isoVars => []<>(pc = "done")

(* "EFI/BOOT/BOOTx64.efi <- Tetratosh Bootloader": a run that succeeds     *)
(* puts the boot loader into the ISO.                                      *)
IsoHasBootloader ==
  [][pc = "create_iso" /\ pc' = "done" => "bootloader" \in iso'.tree]_isoVars
=============================================================================
