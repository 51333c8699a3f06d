------------------------------- MODULE MCVendored -------------------------------
(***************************************************************************)
(* What the repository ships with its images and other projects wrote:     *)
(* two containers of Lilu, the NVRAM hook, the vault and macrecovery of    *)
(* OpenCore.  They share nothing; each run of the model is about one.      *)
(***************************************************************************)
EXTENDS CircularBuffer, ThreadLocal, NvramHook, Vault, Macrecovery

MCServers == [Questions -> 1 .. 3]

VARIABLE part  \* which of them is looked at

vars == <<cbVars, tlVars, hookVars, vaultVars, mrVars, part>>

Init ==
  /\ part \in {"CircularBuffer", "ThreadLocal", "NvramHook", "Vault", "download", "selfcheck"}
  /\ CbInit /\ TlInit /\ NvramHookInit /\ VaultInit /\ MrInit
  /\ part # "ThreadLocal" => users = {}
  /\ part # "selfcheck" => server = [asked \in Questions |-> 1]

Next ==
  /\ UNCHANGED part
  /\ \/ /\ part = "CircularBuffer" /\ CbNext
        /\ UNCHANGED <<tlVars, hookVars, vaultVars, mrVars>>
     \/ /\ part = "ThreadLocal" /\ TlNext
        /\ UNCHANGED <<cbVars, hookVars, vaultVars, mrVars>>
     \/ /\ part = "NvramHook" /\ NvramHookNext
        /\ UNCHANGED <<cbVars, tlVars, vaultVars, mrVars>>
     \/ /\ part = "Vault" /\ VaultNext
        /\ UNCHANGED <<cbVars, tlVars, hookVars, mrVars>>
     \/ /\ \/ part = "download" /\ action_download
           \/ part = "selfcheck" /\ action_selfcheck
        /\ UNCHANGED <<cbVars, tlVars, hookVars, vaultVars>>

Spec == Init /\ [][Next]_vars
=============================================================================
