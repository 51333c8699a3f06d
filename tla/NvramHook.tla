------------------------------- MODULE NvramHook -------------------------------
(***************************************************************************)
(* OpenCore/Utilities/LogoutHook/Launchd.command, installed: a daemon that *)
(* saves NVRAM to the EFI system partition (ESP) when macOS shuts down,    *)
(* alone or with an agent (`both'), or a logout hook.  Daemon and agent    *)
(* are processes of their own that launchd starts again when they end;     *)
(* they meet in NVRAM variables and in signals.  Power may fail anywhere.  *)
(*                                                                         *)
(* A file is "absent", "torn" (half written or empty), or whole and then   *)
(* of this session ("current") or an earlier one ("old").                  *)
(***************************************************************************)
EXTENDS Naturals

CONSTANT MaxCuts  \* how many saves in a row may be cut off

ASSUME CutsAssumption == MaxCuts \in Nat

VARIABLES
  installed,   \* "daemon", "both", "logout" or "none"
  os,          \* "off", "up" or "stopping"
  bootNode,    \* boot-node in NVRAM: "unset", "null" or "node"
  daemonWaiting, espMounted,
  mountedHere, \* MOUNTED of the daemon, the hook or the installer
  saver,       \* where that one is
  agent,       \* where the agent is
  plist, fallback, used,  \* nvram.plist, nvram.fallback, nvram.used
  cuts         \* saves cut off since the last complete one

hookFiles == <<plist, fallback, used>>
esp == <<espMounted, mountedHere>>
nvram == <<bootNode, daemonWaiting>>
hookVars == <<installed, os, nvram, esp, saver, agent, hookFiles, cuts>>

Intact == {"current", "old"}
HasDaemon == installed \in {"daemon", "both"}
Copying == {"fallback", "copied", "plist"}

NvramHookInit ==
  /\ installed = "none" /\ os = "up"
  /\ bootNode = "unset" /\ daemonWaiting = FALSE
  /\ espMounted = FALSE /\ mountedHere = FALSE
  /\ saver = "gone" /\ agent = "gone"
  /\ plist = "absent" /\ fallback = "absent" /\ used = "absent" /\ cuts = 0

-----------------------------------------------------------------------------
(* The daemon.  What aborts ends the process and leaves the rest as it is. *)

Aborts(steps) ==
  /\ saver \in steps
  /\ saver' = "gone" /\ mountedHere' = FALSE
  /\ cuts' = IF saver \in Copying THEN cuts + 1 ELSE cuts
  /\ cuts' <= MaxCuts
  /\ UNCHANGED <<installed, os, nvram, espMounted, agent, hookFiles>>

(* The ESP is where somebody else mounted it, or is mounted here.          *)
MountESP == espMounted' = TRUE /\ mountedHere' = (mountedHere \/ ~espMounted)

(* With an early mount and unmount, unless an agent will be there for it.  *)
saveMount ==
  /\ saver = "start"
  /\ bootNode' = "node"
  /\ saver' = IF installed = "both" THEN "seek" ELSE "running"
  /\ UNCHANGED <<installed, os, daemonWaiting, esp, agent, hookFiles, cuts>>

(* The agent is found, and the ESP mounted for it.                         *)
PreMount ==
  /\ saver = "seek" /\ agent # "gone" /\ bootNode = "node"
  /\ MountESP /\ daemonWaiting' = TRUE
  /\ saver' = "kill"
  /\ UNCHANGED <<installed, os, bootNode, agent, hookFiles, cuts>>

KillAgent ==
  /\ saver = "kill" /\ agent # "gone"
  /\ agent' = IF agent = "running" THEN "trapped" ELSE agent
  /\ saver' = "sleep"
  /\ UNCHANGED <<installed, os, nvram, esp, hookFiles, cuts>>

(* A second later, whether the agent has been quick enough or not.         *)
PostMount ==
  /\ saver = "sleep"
  /\ daemonWaiting' = FALSE
  /\ saver' = "running" /\ mountedHere' = FALSE
  /\ espMounted' = (espMounted /\ ~mountedHere)
  /\ UNCHANGED <<installed, os, bootNode, agent, hookFiles, cuts>>

-----------------------------------------------------------------------------
(* saveNvram when it really saves: in the trap of the daemon ("trap"), with *)
(* the node it left in NVRAM; in the logout hook and the installer         *)
(* ("save"), with what diskutil says.                                      *)

FindNode ==
  /\ \/ saver = "trap" /\ bootNode = "node" /\ bootNode' = "unset"
     \/ saver = "save" /\ UNCHANGED bootNode
  /\ MountESP /\ saver' = "dump"
  /\ UNCHANGED <<installed, os, daemonWaiting, agent, hookFiles, cuts>>

(* No node, or that of uninstalling, which is removed.                     *)
DoNotSave ==
  /\ saver = "trap" /\ bootNode # "node"
  /\ bootNode' = "unset" /\ saver' = "gone" /\ mountedHere' = FALSE
  /\ UNCHANGED <<installed, os, daemonWaiting, espMounted, agent, hookFiles, cuts>>

(* Mutant: nvram.plist is written over at once.                            *)
DumpWithoutFallback ==
  /\ saver = "dump"
  /\ plist' = "torn" /\ saver' = "plist"
  /\ UNCHANGED <<installed, os, nvram, esp, agent, fallback, used, cuts>>

Dump ==
  /\ saver = "dump"
  /\ \/ /\ plist # "absent"
        /\ fallback' = "torn" /\ saver' = "fallback"
        /\ UNCHANGED plist
     \/ /\ plist = "absent"
        /\ plist' = "torn" /\ saver' = "plist"
        /\ UNCHANGED fallback
  /\ UNCHANGED <<installed, os, nvram, esp, agent, used, cuts>>

SaveFallback ==
  /\ saver = "fallback"
  /\ fallback' = plist
  /\ saver' = "copied"
  /\ UNCHANGED <<installed, os, nvram, esp, agent, plist, used, cuts>>

BeginPlist ==
  /\ saver = "copied"
  /\ plist' = "torn" /\ saver' = "plist"
  /\ UNCHANGED <<installed, os, nvram, esp, agent, fallback, used, cuts>>

SavePlist ==
  /\ saver = "plist"
  /\ plist' = "current" /\ cuts' = 0
  /\ saver' = "saved"
  /\ UNCHANGED <<installed, os, nvram, esp, agent, fallback, used>>

(* nvram.used goes; the hook and the installer unmount what they mounted.  *)
(* The daemon does not, and with an ESP mounted here never leaves its loop.*)
Finish ==
  /\ saver = "saved"
  /\ used' = "absent"
  /\ IF HasDaemon
     THEN /\ saver' = IF mountedHere THEN "spinning" ELSE "gone"
          /\ UNCHANGED <<installed, esp>>
     ELSE /\ saver' = "gone" /\ mountedHere' = FALSE
          /\ espMounted' = (espMounted /\ ~mountedHere)
          /\ installed' \in IF installed = "none" THEN {"daemon", "both", "logout"}
                                                  ELSE {installed}
  /\ UNCHANGED <<os, nvram, agent, plist, fallback, cuts>>

saveNvram ==
  \/ PreMount \/ KillAgent \/ PostMount
  \/ FindNode \/ DoNotSave \/ Dump \/ SaveFallback \/ BeginPlist \/ SavePlist \/ Finish
  \/ Aborts({"start", "seek", "kill", "sleep", "trap", "save", "dump"} \cup Copying)

-----------------------------------------------------------------------------
(* The trap of the agent: it touches nvram.plist while the daemon waits.   *)
onCompleteOfAgent ==
  /\ agent = "trapped"
  /\ agent' = "gone"
  /\ plist' = IF bootNode = "node" /\ daemonWaiting /\ espMounted /\ plist = "absent"
              THEN "torn" ELSE plist
  /\ UNCHANGED <<installed, os, nvram, esp, saver, fallback, used, cuts>>

-----------------------------------------------------------------------------
(* launchd, the user, and the power.                                       *)

Launch ==
  /\ os = "up"
  /\ \/ /\ HasDaemon /\ saver = "gone" /\ saver' = "start"
        /\ UNCHANGED agent
     \/ /\ installed = "both" /\ agent = "gone" /\ agent' = "running"
        /\ UNCHANGED saver
  /\ UNCHANGED <<installed, os, nvram, esp, hookFiles, cuts>>

TrapAgent == agent' = IF agent = "running" THEN "trapped" ELSE agent

ShutDown ==
  /\ os = "up" /\ os' = "stopping"
  /\ saver' = CASE HasDaemon /\ saver # "gone" -> "trap"
                [] installed = "logout" -> "save"
                [] OTHER -> saver
  /\ TrapAgent
  /\ UNCHANGED <<installed, nvram, esp, hookFiles, cuts>>

(* The installer saves once before it installs anything.                   *)
install ==
  /\ os = "up" /\ installed = "none" /\ saver = "gone"
  /\ saver' = "save"
  /\ UNCHANGED <<installed, os, nvram, esp, agent, hookFiles, cuts>>

(* The daemon, and then the agent, find `null' in place of the node.       *)
uninstall ==
  /\ os = "up" /\ installed # "none"
  /\ installed' = "none"
  /\ bootNode' = IF saver # "gone" \/ agent # "gone" THEN "null" ELSE bootNode
  /\ saver' = IF saver # "gone" THEN "trap" ELSE saver
  /\ TrapAgent
  /\ UNCHANGED <<os, daemonWaiting, esp, hookFiles, cuts>>

(* What is in emulated NVRAM, and who runs, is lost.                       *)
PowerOff ==
  /\ os # "off" /\ os' = "off"
  /\ saver' = "gone" /\ agent' = "gone"
  /\ bootNode' = "unset" /\ daemonWaiting' = FALSE
  /\ espMounted' = FALSE /\ mountedHere' = FALSE
  /\ cuts' = IF saver \in Copying THEN cuts + 1 ELSE cuts
  /\ cuts' <= MaxCuts
  /\ UNCHANGED <<installed, hookFiles>>

Aged(file) == IF file = "current" THEN "old" ELSE file

(* OpenCore may turn the nvram.plist it has read into nvram.used.          *)
Boot ==
  /\ os = "off" /\ os' = "up"
  /\ fallback' = Aged(fallback)
  /\ \/ plist' = Aged(plist) /\ used' = Aged(used)
     \/ plist \in Intact /\ plist' = "absent" /\ used' = Aged(plist)
  /\ UNCHANGED <<installed, nvram, esp, saver, agent, cuts>>

NvramHookNext ==
  \/ saveMount \/ saveNvram \/ onCompleteOfAgent
  \/ Launch \/ ShutDown \/ install \/ uninstall \/ PowerOff \/ Boot

NvramHookSpec == NvramHookInit /\ [][NvramHookNext]_hookVars
-----------------------------------------------------------------------------
HookTypeOK ==
  /\ installed \in {"daemon", "both", "logout", "none"}
  /\ os \in {"off", "up", "stopping"}
  /\ bootNode \in {"unset", "null", "node"} /\ daemonWaiting \in BOOLEAN
  /\ espMounted \in BOOLEAN /\ mountedHere \in BOOLEAN
  /\ saver \in {"gone", "start", "seek", "kill", "sleep", "running", "trap", "save", "dump",
                "fallback", "copied", "plist", "saved", "spinning"}
  /\ agent \in {"gone", "running", "trapped"}
  /\ \A file \in {plist, fallback, used} : file \in Intact \cup {"absent", "torn"}
  /\ cuts \in 0 .. MaxCuts

(* Once installed, a whole copy of NVRAM is on the ESP at every moment, in *)
(* nvram.plist, nvram.fallback or nvram.used, unless two saves in a row    *)
(* have been cut off while they copied.                                    *)
OneWholeCopy ==
  installed # "none" /\ cuts + (IF saver \in Copying THEN 1 ELSE 0) <= 1 =>
    {plist, fallback, used} \cap Intact # {}
=============================================================================
