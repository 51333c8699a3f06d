--------------------------- MODULE PatchSelection ---------------------------
(***************************************************************************)
(* What patch selection promises, whatever the processor and the table: a  *)
(* selection starts from an empty list, a quota and three classes of       *)
(* patches, and takes patches one by one and each of them once.  The first *)
(* class is taken whatever the quota.  Of a later class a patch is taken   *)
(* only while there is quota left and no patch of an earlier class is      *)
(* missing.  A selection ends when nothing is missing, or nothing of the   *)
(* first class and the quota is used up.                                   *)
(***************************************************************************)
EXTENDS Integers, Sequences

CONSTANT Patches  \* the names of all patches

VARIABLES
  wanted,  \* the patches of each class that the processor needs
  quota,   \* how many patches may be taken
  chosen,  \* the patches taken so far
  running  \* whether a selection is in progress

vars == <<wanted, quota, chosen, running>>

Classes == 1 .. 3

NamesOf(seq) == {seq[n] : n \in DOMAIN seq}

Init ==
  /\ wanted \in [Classes -> SUBSET Patches]
  /\ quota \in Nat
  /\ chosen = <<>>
  /\ running = FALSE

Begin ==
  /\ ~running
  /\ running' = TRUE
  /\ chosen' = <<>>
  /\ wanted' \in [Classes -> SUBSET Patches]
  /\ quota' \in Nat

Choose(p) ==
  /\ running
  /\ p \notin NamesOf(chosen)
  /\ \E k \in Classes :
       /\ p \in wanted[k]
       /\ k # 1 => Len(chosen) < quota
       /\ \A earlier \in 1 .. k - 1 : wanted[earlier] \subseteq NamesOf(chosen)
  /\ chosen' = Append(chosen, p)
  /\ UNCHANGED <<wanted, quota, running>>

Finish ==
  /\ running
  /\ wanted[1] \subseteq NamesOf(chosen)
  /\ \A k \in Classes : wanted[k] \subseteq NamesOf(chosen) \/ Len(chosen) >= quota
  /\ running' = FALSE
  /\ UNCHANGED <<wanted, quota, chosen>>

Next == Begin \/ (\E p \in Patches : Choose(p)) \/ Finish

Spec == Init /\ [][Next]_vars
=============================================================================
