----------------------------- MODULE CircularBuffer -----------------------------
(***************************************************************************)
(* CircularBuffer of kexts/essential/Lilu.kext/.../kern_util.hpp: a ring   *)
(* of elements under a recursive lock, shared by threads.  Inside the lock *)
(* every assignment is a step of its own.  Creating and deleting a buffer  *)
(* are one step each: nobody else has it then.                             *)
(***************************************************************************)
EXTENDS Integers, Sequences

CONSTANTS
  Threads,
  Values,    \* the elements
  Size,      \* the capacity
  NoValue,   \* what is in storage and element at first
  Nobody     \* holds the lock when it is free

ASSUME SizeAssumption == Size \in Nat
ASSUME NoValueAssumption == NoValue \notin Values /\ Nobody \notin Threads

VARIABLES
  allocated,  \* the memory the buffer has
  storage, indexr, indexw, count,
  lock,       \* the thread in a call
  step,       \* where it is
  element,    \* the caller's element
  returned    \* each thread's last call and what it returned

cbData == <<storage, indexr, indexw, count>>
cbVars == <<allocated, cbData, lock, step, element, returned>>

NoCall == <<>>

Memory == {"storage", "instance", "lock"}
Slots == 0 .. Size - 1

CbInit ==
  /\ allocated = {}
  /\ storage = [s \in Slots |-> NoValue] /\ indexr = 0 /\ indexw = 0 /\ count = 0
  /\ lock = Nobody /\ step = "idle"
  /\ element = [t \in Threads |-> NoValue] /\ returned = [t \in Threads |-> NoCall]

(* A new buffer is empty, and nothing is left of a deleted one.            *)
NewBuffer ==
  /\ storage' = [s \in Slots |-> NoValue]
  /\ indexr' = 0 /\ indexw' = 0 /\ count' = 0
  /\ UNCHANGED <<lock, step, element, returned>>

(* Any of the three allocations may fail; what succeeded is given back.    *)
withCapacity == allocated = {} /\ allocated' \in {Memory, {}} /\ NewBuffer

(* A buffer is deleted when no thread is in a call, with what is in it.    *)
deleter == allocated = Memory /\ lock = Nobody /\ allocated' = {} /\ NewBuffer

(* Mutant: isEmpty looks at the indexes only.                              *)
isEmptyByIndex == indexr = indexw

isEmpty == count = 0 /\ indexr = indexw

isFull == count = Size /\ indexr = indexw

Enter(t, call) ==
  /\ allocated = Memory /\ lock = Nobody
  /\ lock' = t /\ step' = call
  /\ UNCHANGED <<allocated, cbData, returned>>

push(t) ==
  /\ Enter(t, "push")
  /\ \E v \in Values : element' = [element EXCEPT ![t] = v]

pop(t) == Enter(t, "pop") /\ UNCHANGED element

Leave(call, result) ==
  /\ lock' = Nobody /\ step' = "idle"
  /\ returned' = [returned EXCEPT ![lock] = <<call, result>>]

Refused ==
  /\ (step = "push" /\ isFull) \/ (step = "pop" /\ isEmpty)
  /\ Leave(step, FALSE)
  /\ UNCHANGED <<allocated, cbData, element>>

Store ==
  /\ step = "push" /\ ~isFull
  /\ storage' = [storage EXCEPT ![indexw] = element[lock]]
  /\ step' = "stored"
  /\ UNCHANGED <<allocated, indexr, indexw, count, lock, element, returned>>

AdvanceWrite ==
  /\ step = "stored"
  /\ indexw' = (indexw + 1) % Size
  /\ step' = "written"
  /\ UNCHANGED <<allocated, storage, indexr, count, lock, element, returned>>

Written ==
  /\ step = "written"
  /\ count' = count + 1
  /\ Leave("push", TRUE)
  /\ UNCHANGED <<allocated, storage, indexr, indexw, element>>

Load ==
  /\ step = "pop" /\ ~isEmpty
  /\ element' = [element EXCEPT ![lock] = storage[indexr]]
  /\ step' = "loaded"
  /\ UNCHANGED <<allocated, cbData, lock, returned>>

AdvanceRead ==
  /\ step = "loaded"
  /\ indexr' = (indexr + 1) % Size
  /\ step' = "read"
  /\ UNCHANGED <<allocated, storage, indexw, count, lock, element, returned>>

Read ==
  /\ step = "read"
  /\ count' = count - 1
  /\ Leave("pop", TRUE)
  /\ UNCHANGED <<allocated, storage, indexr, indexw, element>>

Locked == Refused \/ Store \/ AdvanceWrite \/ Written \/ Load \/ AdvanceRead \/ Read

CbNext == withCapacity \/ deleter \/ Locked \/ \E t \in Threads : push(t) \/ pop(t)

CbSpec == CbInit /\ [][CbNext]_cbVars
-----------------------------------------------------------------------------
(* Type invariant; a buffer has all its memory or none.                    *)
CbTypeOK ==
  /\ allocated \in {{}, Memory}
  /\ storage \in [Slots -> Values \cup {NoValue}]
  /\ indexr \in Nat /\ indexw \in Nat /\ count \in 0 .. Size
  /\ indexr <= Size /\ indexw <= Size
  /\ step \in {"idle", "push", "stored", "written", "pop", "loaded", "read"}
  /\ lock \in Threads \cup {Nobody} /\ (lock = Nobody <=> step = "idle")
  /\ element \in [Threads -> Values \cup {NoValue}]
  /\ returned \in [Threads -> {NoCall} \cup ({"push", "pop"} \X BOOLEAN)]

(* The queue in the ring: an element is out of it as soon as it is loaded. *)
Front == IF step = "loaded" THEN (indexr + 1) % Size ELSE indexr
Length == IF step \in {"loaded", "read"} THEN count - 1 ELSE count
Queue == [k \in 1 .. Length |-> storage[(Front + k - 1) % Size]]

Promise == INSTANCE BoundedQueue WITH
  Capacity <- Size,
  exists   <- allocated = Memory,
  queue    <- Queue,
  returned <- [t \in Threads |->
                 IF step \in {"loaded", "read"} /\ t = lock THEN <<"pop", TRUE>>
                 ELSE returned[t]]

(* Whatever threads push and pop, the ring is a first-in first-out queue:  *)
(* no element is repeated or reordered when the indexes wrap, none is lost *)
(* but in deleter, and a call is refused only when the queue is full or    *)
(* empty.                                                                  *)
ImplementsQueue == Promise!BqSpec
=============================================================================
