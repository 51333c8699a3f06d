---------------------------- MODULE OpenCoreProofs ----------------------------
(***************************************************************************)
(* Proofs about the utilities of OpenCore the repository ships: NvramHook, *)
(* for any number of saves cut off, Vault, for any files and keys, and     *)
(* Macrecovery, for any releases, images and servers.                      *)
(***************************************************************************)
EXTENDS NvramHook, Vault, Macrecovery, SequenceTheorems, TLAPS

-----------------------------------------------------------------------------
(* The NVRAM hook.                                                         *)

(* Where a save is on its way.                                             *)
Saving == {"trap", "save", "dump", "saved"} \cup Copying

(* When a save can be on its way, and what it leaves.                      *)
SaverOK ==
  /\ os = "off" => saver = "gone"
  /\ os = "up" /\ installed # "none" => saver \notin Saving
  /\ saver = "fallback" => plist # "absent"
  /\ saver = "copied" => plist # "absent" /\ fallback = plist
  /\ saver = "saved" => plist \in Intact /\ cuts = 0

(* Where the copy is.  A save cut off spoils one file, not both.           *)
CopiesOK ==
  installed # "none" =>
    /\ cuts = 0 => used \in Intact \/ (IF saver = "plist" THEN fallback ELSE plist) \in Intact
    /\ cuts = 1 /\ saver \notin Copying => plist \in Intact \/ fallback \in Intact \/ used \in Intact

HookInv == HookTypeOK /\ SaverOK /\ CopiesOK

LEMMA HookInit ==
  ASSUME NvramHookInit
  PROVE  HookInv
<1>1. cuts \in 0 .. MaxCuts
  BY CutsAssumption DEF NvramHookInit
<1>2. HookTypeOK
  BY <1>1 DEF NvramHookInit, HookTypeOK, Intact
<1>3. SaverOK /\ CopiesOK
  BY DEF NvramHookInit, SaverOK, CopiesOK, Saving, Copying
<1> QED
  BY <1>2, <1>3 DEF HookInv

(* Types.                                                                  *)
LEMMA HookTypes ==
  ASSUME HookTypeOK, [NvramHookNext]_hookVars
  PROVE  HookTypeOK'
<1> USE CutsAssumption DEF HookTypeOK, Intact, Copying, HasDaemon, esp, nvram, hookFiles
<1>1. CASE saveMount
  BY <1>1 DEF saveMount
<1>2. CASE PreMount \/ KillAgent \/ PostMount
  BY <1>2 DEF PreMount, KillAgent, PostMount, MountESP
<1>3. CASE FindNode \/ DoNotSave
  BY <1>3 DEF FindNode, DoNotSave, MountESP
<1>4. CASE Dump
  BY <1>4 DEF Dump
<1>5. CASE SaveFallback \/ BeginPlist
  BY <1>5 DEF SaveFallback, BeginPlist
<1>6. CASE SavePlist
  BY <1>6 DEF SavePlist
<1>7. CASE Finish
  BY <1>7 DEF Finish
<1>8. CASE Aborts({"start", "seek", "kill", "sleep", "trap", "save", "dump"} \cup Copying)
  <2>1. cuts' \in 0 .. MaxCuts
    BY <1>8 DEF Aborts
  <2> QED
    BY <1>8, <2>1 DEF Aborts
<1>9. CASE onCompleteOfAgent
  BY <1>9 DEF onCompleteOfAgent
<1>10. CASE Launch
  BY <1>10 DEF Launch
<1>11. CASE ShutDown
  BY <1>11 DEF ShutDown, TrapAgent
<1>12. CASE install \/ uninstall
  BY <1>12 DEF install, uninstall, TrapAgent
<1>13. CASE PowerOff
  <2>1. cuts' \in 0 .. MaxCuts
    BY <1>13 DEF PowerOff
  <2> QED
    BY <1>13, <2>1 DEF PowerOff
<1>14. CASE Boot
  BY <1>14 DEF Boot, Aged
<1>15. CASE UNCHANGED hookVars
  BY <1>15 DEF hookVars
<1> QED
  BY <1>1, <1>2, <1>3, <1>4, <1>5, <1>6, <1>7, <1>8, <1>9, <1>10, <1>11, <1>12, <1>13, <1>14,
     <1>15 DEF NvramHookNext, saveNvram

(* No step saves out of turn.                                              *)
LEMMA HookSaver ==
  ASSUME HookInv, [NvramHookNext]_hookVars
  PROVE  SaverOK'
<1> USE DEF HookInv, HookTypeOK, SaverOK, Intact, Copying, Saving, HasDaemon, esp, nvram, hookFiles
<1>1. CASE saveMount
  BY <1>1 DEF saveMount
<1>2. CASE PreMount \/ KillAgent \/ PostMount
  BY <1>2 DEF PreMount, KillAgent, PostMount, MountESP
<1>3. CASE FindNode \/ DoNotSave
  BY <1>3 DEF FindNode, DoNotSave, MountESP
<1>4. CASE Dump
  BY <1>4 DEF Dump
<1>5. CASE SaveFallback \/ BeginPlist
  BY <1>5 DEF SaveFallback, BeginPlist
<1>6. CASE SavePlist
  BY <1>6 DEF SavePlist
<1>7. CASE Finish
  BY <1>7 DEF Finish
<1>8. CASE Aborts({"start", "seek", "kill", "sleep", "trap", "save", "dump"} \cup Copying)
  <2>1. CASE saver \in Copying
    BY <1>8, <2>1 DEF Aborts
  <2>2. CASE saver \notin Copying
    BY <1>8, <2>2 DEF Aborts
  <2> QED
    BY <2>1, <2>2
<1>9. CASE onCompleteOfAgent
  BY <1>9 DEF onCompleteOfAgent
<1>10. CASE Launch
  BY <1>10 DEF Launch
<1>11. CASE ShutDown
  BY <1>11 DEF ShutDown, TrapAgent
<1>12. CASE install \/ uninstall
  BY <1>12 DEF install, uninstall, TrapAgent
<1>13. CASE PowerOff
  <2>1. CASE saver \in Copying
    BY <1>13, <2>1 DEF PowerOff
  <2>2. CASE saver \notin Copying
    BY <1>13, <2>2 DEF PowerOff
  <2> QED
    BY <2>1, <2>2
<1>14. CASE Boot
  BY <1>14 DEF Boot, Aged
<1>15. CASE UNCHANGED hookVars
  BY <1>15 DEF hookVars
<1> QED
  BY <1>1, <1>2, <1>3, <1>4, <1>5, <1>6, <1>7, <1>8, <1>9, <1>10, <1>11, <1>12, <1>13, <1>14,
     <1>15 DEF NvramHookNext, saveNvram

(* No step spoils the last copy.                                           *)
LEMMA HookCopies ==
  ASSUME HookInv, [NvramHookNext]_hookVars
  PROVE  CopiesOK'
<1> USE DEF HookInv, HookTypeOK, SaverOK, CopiesOK, Intact, Copying, Saving,
           HasDaemon, esp, nvram, hookFiles
<1>1. CASE saveMount
  BY <1>1 DEF saveMount
<1>2. CASE PreMount \/ KillAgent \/ PostMount
  BY <1>2 DEF PreMount, KillAgent, PostMount, MountESP
<1>3. CASE FindNode \/ DoNotSave
  BY <1>3 DEF FindNode, DoNotSave, MountESP
<1>4. CASE Dump
  BY <1>4 DEF Dump
<1>5. CASE SaveFallback \/ BeginPlist
  BY <1>5 DEF SaveFallback, BeginPlist
<1>6. CASE SavePlist
  BY <1>6 DEF SavePlist
<1>7. CASE Finish
  BY <1>7 DEF Finish
<1>8. CASE Aborts({"start", "seek", "kill", "sleep", "trap", "save", "dump"} \cup Copying)
  <2>1. CASE saver \in Copying
    BY <1>8, <2>1 DEF Aborts
  <2>2. CASE saver \notin Copying
    BY <1>8, <2>2 DEF Aborts
  <2> QED
    BY <2>1, <2>2
<1>9. CASE onCompleteOfAgent
  BY <1>9 DEF onCompleteOfAgent
<1>10. CASE Launch
  BY <1>10 DEF Launch
<1>11. CASE ShutDown
  BY <1>11 DEF ShutDown, TrapAgent
<1>12. CASE install \/ uninstall
  BY <1>12 DEF install, uninstall, TrapAgent
<1>13. CASE PowerOff
  <2>1. CASE saver \in Copying
    BY <1>13, <2>1 DEF PowerOff
  <2>2. CASE saver \notin Copying
    BY <1>13, <2>2 DEF PowerOff
  <2> QED
    BY <2>1, <2>2
<1>14. CASE Boot
  BY <1>14 DEF Boot, Aged
<1>15. CASE UNCHANGED hookVars
  BY <1>15 DEF hookVars
<1> QED
  BY <1>1, <1>2, <1>3, <1>4, <1>5, <1>6, <1>7, <1>8, <1>9, <1>10, <1>11, <1>12, <1>13, <1>14,
     <1>15 DEF NvramHookNext, saveNvram

(* The inductive invariant of the hook.                                    *)
THEOREM HookInvariant == NvramHookSpec => []HookInv
<1>1. HookInv /\ [NvramHookNext]_hookVars => HookInv'
  BY HookTypes, HookSaver, HookCopies DEF HookInv
<1> QED
  BY <1>1, HookInit, PTL DEF NvramHookSpec

(* Type correctness of NvramHook.                                          *)
THEOREM HookTypeCorrect == NvramHookSpec => []HookTypeOK
<1>1. HookInv => HookTypeOK
  BY DEF HookInv
<1> QED
  BY <1>1, HookInvariant, PTL

(* Once installed, the hook leaves a whole copy of NVRAM on the ESP at     *)
(* every moment but after two saves in a row that were cut off.            *)
THEOREM NvramIsNeverLost == NvramHookSpec => []OneWholeCopy
<1>1. HookInv => OneWholeCopy
  <2> SUFFICES ASSUME HookTypeOK, CopiesOK,
                      installed # "none", cuts + (IF saver \in Copying THEN 1 ELSE 0) <= 1
               PROVE  {plist, fallback, used} \cap Intact # {}
    BY DEF HookInv, OneWholeCopy
  <2>1. cuts = 0 \/ (cuts = 1 /\ saver \notin Copying)
    <3>1. CASE saver \in Copying
      BY <3>1, CutsAssumption DEF HookTypeOK
    <3>2. CASE saver \notin Copying
      BY <3>2, CutsAssumption DEF HookTypeOK
    <3> QED
      BY <3>1, <3>2
  <2>2. plist \in Intact \/ fallback \in Intact \/ used \in Intact
    BY <2>1 DEF CopiesOK
  <2> QED
    BY <2>2
<1> QED
  BY <1>1, HookInvariant, PTL
-----------------------------------------------------------------------------
(* The vault.                                                              *)

(* The lines of a list of some files.                                      *)
Lines(files) == {<<f, contents[f]>> : f \in files}

(* A list of files as they are, with its header if it has any.             *)
ListedAsTheyAre ==
  vault.listed \subseteq Lines(OCFiles) /\ (vault.listed # {} => vault.header)

VaultTypeOK ==
  /\ vault \in [header : BOOLEAN, listed : SUBSET (OCFiles \X (1 .. 2)), footer : BOOLEAN]
  /\ vaultSig.key \in Nat /\ efiKey \in Nat
  /\ pubKey \in [made : BOOLEAN, key : Nat]
  /\ contents \in [OCFiles -> 1 .. 2] /\ hashed \subseteq OCFiles

(* A run that is past its cleanup has listed files as they are, and signed *)
(* what it has listed.                                                     *)
ListOK ==
  /\ vtStep = "hash" => vault.header
  /\ vtStep \in {"hash", "footer", "sign", "patch"} => ListedAsTheyAre
  /\ vtStep = "patch" => vaultSig.over = vault /\ (pubKey.made => vaultSig.key = pubKey.key)
  /\ vtExit = "done" => vtStep = "idle" /\ vaultSig.over = vault /\ vaultSig.key = efiKey
                        /\ ListedAsTheyAre

VaultInv == VaultTypeOK /\ ListOK

LEMMA VaultAtFirst ==
  ASSUME VaultInit
  PROVE  VaultInv
BY DEF VaultInit, VaultInv, VaultTypeOK, ListOK, NoVault, NoSig, Gone

(* No step leaves an old hash in the list, whatever fails.                 *)
LEMMA VaultStep ==
  ASSUME VaultInv, [VaultNext]_vaultVars
  PROVE  VaultInv'
<1> USE DEF VaultInv, VaultTypeOK, ListOK, ListedAsTheyAre, Lines, NoVault, NoSig, Gone, ocVars
<1>1. CASE Sign
  BY <1>1 DEF Sign
<1>2. CASE AbortSign /\ (UNCHANGED <<vault, vaultSig>> \/ (vault' = NoVault /\ vaultSig' = NoSig))
  <2>1. CASE UNCHANGED <<vault, vaultSig>>
    BY <1>2, <2>1 DEF AbortSign
  <2>2. CASE vault' = NoVault /\ vaultSig' = NoSig
    BY <1>2, <2>2 DEF AbortSign
  <2> QED
    BY <1>2, <2>1, <2>2
<1>3. CASE CleanUp
  BY <1>3 DEF CleanUp
<1>4. CASE HashFile
  <2>1. PICK f \in OCFiles \ hashed :
          /\ vault' = [vault EXCEPT !.listed = @ \cup {<<f, contents[f]>>}]
          /\ hashed' = hashed \cup {f}
    BY <1>4 DEF HashFile
  <2>2. <<f, contents[f]>> \in Lines(OCFiles) /\ Lines(OCFiles)' = Lines(OCFiles)
    BY <1>4, <2>1 DEF HashFile
  <2> QED
    BY <1>4, <2>1, <2>2 DEF HashFile
<1>5. CASE AbortHashing
  BY <1>5 DEF AbortHashing
<1>6. CASE EndOfFiles
  BY <1>6 DEF EndOfFiles
<1>7. CASE WriteFooter
  BY <1>7 DEF WriteFooter
<1>8. CASE RsaTool
  BY <1>8, KeysAssumption DEF RsaTool
<1>9. CASE Patch
  BY <1>9 DEF Patch
<1>10. CASE Signal
  BY <1>10 DEF Signal
<1>11. CASE EditFile
  BY <1>11 DEF EditFile
<1>12. CASE UNCHANGED vaultVars
  BY <1>12 DEF vaultVars
<1> QED
  BY <1>1, <1>2, <1>3, <1>4, <1>5, <1>6, <1>7, <1>8, <1>9, <1>10, <1>11, <1>12
     DEF VaultNext, sign_command, create_vault, CommandFails

(* Signals and failures at any point never make sign.command report a list *)
(* with the hash of an earlier version of a file, or a signature or key    *)
(* that is not the list's.                                                 *)
THEOREM VaultIsCurrent == VaultSpec => []VaultListsWhatIsThere
<1>1. VaultInv => VaultListsWhatIsThere
  BY DEF VaultInv, ListOK, ListedAsTheyAre, Lines, VaultListsWhatIsThere
<1> QED
  BY <1>1, VaultAtFirst, VaultStep, PTL DEF VaultSpec
-----------------------------------------------------------------------------
(* macrecovery.                                                            *)

(* What the files are while a download goes on.                            *)
DownloadOK ==
  /\ release \in Releases /\ mrStep \in {"idle", "chunklist", "image", "verify"}
  /\ mrStep \in {"image", "verify"} =>
       /\ cnk \in [chunks : Saved(release), signed : BOOLEAN]
       /\ cnk.signed => cnk.chunks = Image(release)
  /\ mrStep = "verify" => dmg \in Saved(release)
  /\ mrExit = "done" => mrStep = "idle" /\ \E r \in Releases : cnk = Whole(r) /\ dmg = Image(r)

SelfcheckOK == passed => consistent(server)

MrInv == DownloadOK /\ SelfcheckOK

(* A file with the image's length and chunks is the image.                 *)
LEMMA SavedImage ==
  ASSUME NEW r \in Releases, NEW file \in Saved(r), Len(file) = Chunks,
         \A n \in 1 .. Chunks : file[n] = r
  PROVE  file = Image(r)
<1> DEFINE S == {r, "bad"}
<1>1. Image(r) \in Seq(S) /\ Len(Image(r)) = Chunks
  BY ChunksAssumption DEF Image
<1>2. file \in Seq(S)
  <2>1. ASSUME NEW n \in 0 .. Chunks
        PROVE  SubSeq(Image(r), 1, n) \in Seq(S)
    BY <1>1, <2>1, SubSeqProperties, ChunksAssumption
  <2>2. ASSUME NEW n \in 1 .. Chunks
        PROVE  [Image(r) EXCEPT ![n] = "bad"] \in Seq(S)
    BY <1>1, <2>2, ExceptSeq, ChunksAssumption
  <2>3. Append(Image(r), "bad") \in Seq(S)
    BY <1>1, AppendProperties
  <2> QED
    BY <2>1, <2>2, <2>3 DEF Saved
<1>3. \A n \in 1 .. Chunks : Image(r)[n] = r
  BY DEF Image
<1> QED
  BY <1>1, <1>2, <1>3, SeqEqual

(* A download is reported only when the image has passed verify_image.     *)
LEMMA MrStep ==
  ASSUME MrInv, [MrNext]_mrVars
  PROVE  MrInv'
<1> USE DEF MrInv, DownloadOK, SelfcheckOK
<1>1. CASE get_image_info
  BY <1>1 DEF get_image_info
<1>2. CASE save_chunklist
  BY <1>2 DEF save_chunklist, Fail
<1>3. CASE save_image
  BY <1>3 DEF save_image, Fail
<1>4. CASE /\ mrStep = "verify" /\ mrStep' = "idle"
           /\ mrExit' = IF verify_image THEN "done" ELSE "failed"
           /\ UNCHANGED <<server, release, cnk, dmg, passed>>
  <2>1. CASE verify_image
    <3>1. cnk.chunks = Image(release) /\ cnk.signed = TRUE
      BY <1>4, <2>1 DEF verify_image
    <3>2. cnk = Whole(release)
      BY <1>4, <3>1 DEF Whole
    <3>3. Len(Image(release)) = Chunks /\ DOMAIN Image(release) = 1 .. Chunks
      BY ChunksAssumption DEF Image
    <3>4. Len(dmg) = Chunks /\ \A n \in 1 .. Chunks : dmg[n] = release
      BY <2>1, <3>1, <3>3 DEF verify_image, Image
    <3>5. dmg = Image(release)
      BY <1>4, <3>4, SavedImage
    <3> QED
      BY <1>4, <3>2, <3>5
  <2>2. CASE ~verify_image
    BY <1>4, <2>2
  <2> QED
    BY <2>1, <2>2
<1>5. CASE action_selfcheck
  BY <1>5 DEF action_selfcheck
<1>6. CASE UNCHANGED mrVars
  BY <1>6 DEF mrVars
<1> QED
  BY <1>1, <1>2, <1>3, <1>4, <1>5, <1>6 DEF MrNext, action_download

(* The inductive invariant of macrecovery.                                 *)
THEOREM MrInvariant == MrSpec => []MrInv
<1>1. MrInit => MrInv
  BY DEF MrInit, MrInv, DownloadOK, SelfcheckOK
<1> QED
  BY <1>1, MrStep, PTL DEF MrSpec

(* Both files are those of one release, as Apple signed it, whenever       *)
(* download reports success.                                               *)
THEOREM DownloadIsVerified == MrSpec => []SuccessMeansVerified
<1>1. MrInv => SuccessMeansVerified
  BY DEF MrInv, DownloadOK, SuccessMeansVerified
<1> QED
  BY <1>1, MrInvariant, PTL

(* Whatever the server answers, once it has passed selfcheck verify tells  *)
(* a valid MLB from one that names a product and from none.                *)
THEOREM SelfcheckIsEnough == MrSpec => []SelfcheckMeansVerifiable
<1>1. MrInv => SelfcheckMeansVerifiable
  BY Zenon
     DEF MrInv, SelfcheckOK, SelfcheckMeansVerifiable, consistent, action_verify, product_mlb
<1> QED
  BY <1>1, MrInvariant, PTL
=============================================================================
