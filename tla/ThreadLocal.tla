------------------------------ MODULE ThreadLocal ------------------------------
(***************************************************************************)
(* ThreadLocal of kexts/essential/Lilu.kext/.../kern_util.hpp: one value   *)
(* for each of up to N threads, without a lock.  A slot belongs to the     *)
(* thread whose identifier is in it.  Each compare-and-exchange and each   *)
(* write of a value is a step; looking for one's own slot is one with the  *)
(* call, since no other thread can change what it finds.                   *)
(***************************************************************************)
EXTENDS Naturals, FiniteSets

CONSTANTS
  Callers,   \* the threads there are
  Contents,  \* the values they set
  N,         \* the slots
  Nothing    \* nullptr in threads, {} in values

ASSUME SlotsAssumption == N \in Nat
ASSUME CallersAssumption == IsFiniteSet(Callers)
ASSUME NothingAssumption == Nothing \notin Callers /\ Nothing \notin Contents

VARIABLES
  users,     \* the threads that use it
  threads, values,
  tlStep,    \* where each thread is in a call
  ptr,       \* the slot it is at
  value,     \* what it sets
  last,      \* what it has set last and not erased
  refused    \* the threads to which set has returned false

tlVars == <<users, threads, values, tlStep, ptr, value, last, refused>>

TlSlots == 0 .. N - 1

Own(t) == {i \in TlSlots : threads[i] = t}

Lowest(slots) == CHOOSE i \in slots : \A j \in slots : i <= j

TlInit ==
  /\ users \in SUBSET Callers
  /\ threads = [i \in TlSlots |-> Nothing] /\ values = [i \in TlSlots |-> Nothing]
  /\ tlStep = [t \in Callers |-> "idle"] /\ ptr = [t \in Callers |-> 0]
  /\ value = [t \in Callers |-> Nothing] /\ last = [t \in Callers |-> Nothing]
  /\ refused = {}

GoTo(t, step, slot) ==
  /\ tlStep' = [tlStep EXCEPT ![t] = step]
  /\ ptr' = [ptr EXCEPT ![t] = slot]

(* Mutant: the previous value is not looked for.                           *)
setAnew(t, v) ==
  /\ tlStep[t] = "idle"
  /\ value' = [value EXCEPT ![t] = v]
  /\ GoTo(t, "claim", 0)
  /\ UNCHANGED <<users, threads, values, last, refused>>

set(t, v) ==
  /\ tlStep[t] = "idle"
  /\ value' = [value EXCEPT ![t] = v]
  /\ IF Own(t) = {} THEN GoTo(t, "claim", 0) ELSE GoTo(t, "write", Lowest(Own(t)))
  /\ UNCHANGED <<users, threads, values, last, refused>>

Claim(t) ==
  /\ tlStep[t] = "claim" /\ ptr[t] < N
  /\ \/ /\ threads[ptr[t]] = Nothing
        /\ threads' = [threads EXCEPT ![ptr[t]] = t]
        /\ GoTo(t, "write", ptr[t])
     \/ /\ threads[ptr[t]] # Nothing
        /\ GoTo(t, "claim", ptr[t] + 1)
        /\ UNCHANGED threads
  /\ UNCHANGED <<users, values, value, last, refused>>

Insert(t) ==
  /\ tlStep[t] = "write"
  /\ values' = [values EXCEPT ![ptr[t]] = value[t]]
  /\ last' = [last EXCEPT ![t] = value[t]]
  /\ GoTo(t, "idle", 0)
  /\ UNCHANGED <<users, threads, value, refused>>

Full(t) ==
  /\ tlStep[t] = "claim" /\ ptr[t] = N
  /\ refused' = refused \cup {t}
  /\ GoTo(t, "idle", 0)
  /\ UNCHANGED <<users, threads, values, value, last>>

(* Mutant: the slot is given up before its value is cleared.               *)
eraseBackwards(t) ==
  \/ /\ tlStep[t] = "idle" /\ Own(t) # {}
     /\ threads' = [threads EXCEPT ![Lowest(Own(t))] = Nothing]
     /\ last' = [last EXCEPT ![t] = Nothing]
     /\ GoTo(t, "release", Lowest(Own(t)))
     /\ UNCHANGED <<users, values, value, refused>>
  \/ /\ tlStep[t] = "release"
     /\ values' = [values EXCEPT ![ptr[t]] = Nothing]
     /\ GoTo(t, "idle", 0)
     /\ UNCHANGED <<users, threads, value, last, refused>>

erase(t) ==
  \/ /\ tlStep[t] = "idle" /\ Own(t) # {}
     /\ values' = [values EXCEPT ![Lowest(Own(t))] = Nothing]
     /\ last' = [last EXCEPT ![t] = Nothing]
     /\ GoTo(t, "release", Lowest(Own(t)))
     /\ UNCHANGED <<users, threads, value, refused>>
  \/ /\ tlStep[t] = "release"
     /\ threads' = [threads EXCEPT ![ptr[t]] = Nothing]
     /\ GoTo(t, "idle", 0)
     /\ UNCHANGED <<users, values, value, last, refused>>

(* The owner stops using it while no thread is in a call.                  *)
deinit ==
  /\ \A t \in Callers : tlStep[t] = "idle"
  /\ threads' = [i \in TlSlots |-> Nothing] /\ values' = [i \in TlSlots |-> Nothing]
  /\ last' = [t \in Callers |-> Nothing]
  /\ UNCHANGED <<users, tlStep, ptr, value, refused>>

TlNext ==
  \/ deinit
  \/ \E t \in users :
       Claim(t) \/ Insert(t) \/ Full(t) \/ erase(t) \/ \E v \in Contents : set(t, v)

TlSpec == TlInit /\ [][TlNext]_tlVars

get(t) == IF Own(t) = {} THEN Nothing ELSE values[Lowest(Own(t))]
-----------------------------------------------------------------------------
TlTypeOK ==
  /\ users \subseteq Callers
  /\ threads \in [TlSlots -> Callers \cup {Nothing}]
  /\ values \in [TlSlots -> Contents \cup {Nothing}]
  /\ tlStep \in [Callers -> {"idle", "claim", "write", "release"}]
  /\ ptr \in [Callers -> 0 .. N]
  /\ value \in [Callers -> Contents \cup {Nothing}]
  /\ last \in [Callers -> Contents \cup {Nothing}]
  /\ refused \subseteq Callers

(* Whatever other threads set and erase meanwhile, a thread finds what it  *)
(* has set last, and nothing after it has erased it: it never has a second *)
(* slot, and nobody clears or overwrites one that has changed hands.       *)
OwnValueKept ==
  \A t \in Callers :
    /\ \A i, j \in Own(t) : i = j
    /\ tlStep[t] = "idle" => get(t) = last[t]

(* Slots become free and are taken again while a thread goes through them; *)
(* yet when there is a slot for every user none finds all of them taken.   *)
EveryThreadFindsASlot == Cardinality(users) <= N => refused = {}
=============================================================================
