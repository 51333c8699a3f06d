---------------------------- MODULE KextSelection ----------------------------
(***************************************************************************)
(* What kext selection promises, whatever the hardware and the tables: a   *)
(* selection starts from an empty list and a set of wanted kexts, takes    *)
(* the essential kexts in their order and then every other wanted kext     *)
(* once, in any order, and ends only when nothing wanted is missing.       *)
(***************************************************************************)
EXTENDS Integers, Sequences

CONSTANTS
  Kexts,      \* the names of all kexts
  Essentials  \* the kexts every machine needs, in load order

VARIABLES
  wanted,     \* the kexts the machine needs
  chosen,     \* the kexts selected so far, in load order
  running     \* whether a selection is in progress

vars == <<wanted, chosen, running>>

NamesOf(seq) == {seq[n] : n \in DOMAIN seq}

Init ==
  /\ wanted = NamesOf(Essentials)
  /\ chosen = <<>>
  /\ running = FALSE

Begin ==
  /\ ~running
  /\ running' = TRUE
  /\ chosen' = <<>>
  /\ wanted' \in SUBSET Kexts
  /\ NamesOf(Essentials) \subseteq wanted'

Choose(k) ==
  /\ running
  /\ k \in wanted \ NamesOf(chosen)
  /\ Len(chosen) < Len(Essentials) => k = Essentials[Len(chosen) + 1]
  /\ chosen' = Append(chosen, k)
  /\ UNCHANGED <<wanted, running>>

Finish ==
  /\ running
  /\ NamesOf(chosen) = wanted
  /\ running' = FALSE
  /\ UNCHANGED <<wanted, chosen>>

Next == Begin \/ (\E k \in Kexts : Choose(k)) \/ Finish

Spec == Init /\ [][Next]_vars
=============================================================================
