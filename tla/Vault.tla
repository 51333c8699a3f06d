--------------------------------- MODULE Vault ---------------------------------
(***************************************************************************)
(* OpenCore/Utilities/CreateVault: sign.command, which has create_vault.sh *)
(* list the files of EFI/OC with their hashes in vault.plist, signs the    *)
(* list with a new key and puts the key into OpenCore.efi.  A command      *)
(* whose status is looked at may fail, and a signal may come at any time;  *)
(* the lines added to vault.plist are written.                             *)
(*                                                                         *)
(* A hash stands for the contents hashed; contents are versions.           *)
(***************************************************************************)
EXTENDS Naturals, FiniteSets

CONSTANTS
  OCFiles,  \* the files find selects
  Keys      \* the keys RsaTool may make

VARIABLES
  contents,  \* of each file
  vault,     \* vault.plist
  vaultSig,  \* vault.sig: what was signed and with which key
  efiKey,    \* the key in OpenCore.efi
  pubKey,    \* KeyPath, the file of the new key in it
  hashed,    \* the files the loop of create_vault.sh has read
  vtStep,
  vtExit     \* the status of the last run; EFI/OC has not changed since

ocVars == <<contents, vault, vaultSig, efiKey>>
vaultVars == <<ocVars, pubKey, hashed, vtStep, vtExit>>

Gone == [made |-> FALSE, key |-> 0]
NoVault == [header |-> FALSE, listed |-> {}, footer |-> FALSE]
NoSig == [over |-> NoVault, key |-> 0]

ASSUME KeysAssumption == Keys \subseteq Nat \ {0}

VaultInit ==
  /\ contents = [f \in OCFiles |-> 1]
  /\ vault = NoVault /\ vaultSig = NoSig /\ efiKey = 0
  /\ pubKey = Gone /\ hashed = {}
  /\ vtStep = "idle" /\ vtExit = "none"

Sign ==
  /\ vtStep = "idle"
  /\ vtStep' = "cleanup" /\ vtExit' = "none"
  /\ pubKey' = [made |-> TRUE, key |-> 0]
  /\ UNCHANGED <<ocVars, hashed>>

(* abort of sign.command, and its trap.                                    *)
AbortSign ==
  /\ vtStep # "idle"
  /\ vtStep' = "idle" /\ vtExit' = "failed" /\ pubKey' = Gone
  /\ UNCHANGED <<contents, efiKey, hashed>>

(* Mutant: an old vault.plist is not removed, and is added to.             *)
CleanUpKeepingVault ==
  /\ vtStep = "cleanup"
  /\ vault' = [vault EXCEPT !.header = TRUE] /\ vaultSig' = NoSig
  /\ hashed' = {} /\ vtStep' = "hash"
  /\ UNCHANGED <<contents, efiKey, pubKey, vtExit>>

CleanUp ==
  /\ vtStep = "cleanup"
  /\ vault' = [NoVault EXCEPT !.header = TRUE] /\ vaultSig' = NoSig
  /\ hashed' = {} /\ vtStep' = "hash"
  /\ UNCHANGED <<contents, efiKey, pubKey, vtExit>>

(* The loop is the last part of a pipeline: abort ends the subshell it     *)
(* runs in and not the script.                                             *)
AbortHashing ==
  /\ vtStep = "hash" /\ hashed # OCFiles
  /\ vault' = NoVault /\ vaultSig' = NoSig
  /\ vtStep' = "footer"
  /\ UNCHANGED <<contents, efiKey, hashed, pubKey, vtExit>>

HashFile ==
  /\ vtStep = "hash"
  /\ \E f \in OCFiles \ hashed :
       /\ vault' = [vault EXCEPT !.listed = @ \cup {<<f, contents[f]>>}]
       /\ hashed' = hashed \cup {f}
  /\ UNCHANGED <<contents, vaultSig, efiKey, pubKey, vtStep, vtExit>>

(* The loop ends with its input.  Nobody looks at the status of find and   *)
(* sort, which may have stopped before the last file.                      *)
EndOfFiles ==
  /\ vtStep = "hash"
  /\ vtStep' = "footer"
  /\ UNCHANGED <<ocVars, hashed, pubKey, vtExit>>

WriteFooter ==
  /\ vtStep = "footer"
  /\ vault' = [vault EXCEPT !.footer = TRUE]
  /\ vtStep' = "sign"
  /\ UNCHANGED <<contents, vaultSig, efiKey, hashed, pubKey, vtExit>>

create_vault ==
  \/ CleanUp \/ HashFile \/ AbortHashing \/ EndOfFiles \/ WriteFooter
  \/ vtStep = "cleanup" /\ AbortSign /\ vault' = NoVault /\ vaultSig' = NoSig

(* A new key each time; it has no place when a signal had KeyPath removed. *)
RsaTool ==
  /\ vtStep = "sign" /\ pubKey.made
  /\ \E k \in Keys \ {efiKey, vaultSig.key} :
       vaultSig' = [over |-> vault, key |-> k] /\ pubKey' = [pubKey EXCEPT !.key = k]
  /\ vtStep' = "patch"
  /\ UNCHANGED <<contents, vault, efiKey, hashed, vtExit>>

Patch ==
  /\ vtStep = "patch" /\ pubKey.made
  /\ efiKey' = pubKey.key
  /\ vtStep' = "idle" /\ vtExit' = "done" /\ pubKey' = Gone
  /\ UNCHANGED <<contents, vault, vaultSig, hashed>>

(* The trap for a signal removes KeyPath and the script goes on.           *)
Signal ==
  /\ vtStep # "idle" /\ pubKey.made
  /\ pubKey' = Gone
  /\ UNCHANGED <<ocVars, hashed, vtStep, vtExit>>

(* A command fails, or the signal ends create_vault.sh too.                *)
CommandFails == AbortSign /\ UNCHANGED <<vault, vaultSig>>

sign_command == Sign \/ create_vault \/ RsaTool \/ Patch \/ Signal \/ CommandFails

EditFile ==
  /\ vtStep = "idle"
  /\ \E f \in OCFiles : contents' = [contents EXCEPT ![f] = 3 - @]
  /\ vtExit' = "none"
  /\ UNCHANGED <<vault, vaultSig, efiKey, hashed, pubKey, vtStep>>

VaultNext == sign_command \/ EditFile

VaultSpec == VaultInit /\ [][VaultNext]_vaultVars
-----------------------------------------------------------------------------
(* When sign.command reports success, the signature, the list and the key  *)
(* in OpenCore.efi belong together, every hash in the list is of a file as *)
(* it is now, whatever earlier runs have listed, and a list that lost its  *)
(* header has no file.  The list need not have all the files.              *)
VaultListsWhatIsThere ==
  vtExit = "done" =>
    /\ vaultSig.over = vault /\ vaultSig.key = efiKey
    /\ vault.listed \subseteq {<<f, contents[f]>> : f \in OCFiles}
    /\ vault.listed # {} => vault.header
=============================================================================
