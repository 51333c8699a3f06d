------------------------------ MODULE BoundedQueue ------------------------------
(***************************************************************************)
(* What CircularBuffer of Lilu's kern_util.hpp promises its threads: a     *)
(* first-in first-out queue of a fixed capacity.  A push returns false     *)
(* only when the queue is full, a pop only when it is empty, and elements  *)
(* are dropped only with the queue itself.                                 *)
(***************************************************************************)
EXTENDS Naturals, Sequences

CONSTANTS Threads, Values, Capacity, NoValue

VARIABLES
  exists,    \* somebody has created the queue and not deleted it
  queue,
  element,   \* what each thread has popped last, or pushes
  returned   \* each thread's last call and what it returned

bqVars == <<exists, queue, element, returned>>

BqInit ==
  /\ exists = FALSE
  /\ queue = <<>>
  /\ element = [t \in Threads |-> NoValue]
  /\ returned = [t \in Threads |-> <<>>]

Create == ~exists /\ exists' = TRUE /\ UNCHANGED <<queue, element, returned>>

Delete == exists /\ exists' = FALSE /\ queue' = <<>> /\ UNCHANGED <<element, returned>>

(* A thread decides what to push.                                          *)
Choose(t, v) ==
  /\ element' = [element EXCEPT ![t] = v]
  /\ UNCHANGED <<queue, returned>>

Returns(t, call, result) == returned' = [returned EXCEPT ![t] = <<call, result>>]

Push(t) ==
  \/ /\ Len(queue) < Capacity /\ element[t] \in Values
     /\ queue' = Append(queue, element[t])
     /\ Returns(t, "push", TRUE)
     /\ UNCHANGED element
  \/ /\ Len(queue) = Capacity
     /\ Returns(t, "push", FALSE)
     /\ UNCHANGED <<queue, element>>

Pop(t) ==
  \/ /\ queue # <<>>
     /\ element' = [element EXCEPT ![t] = Head(queue)]
     /\ queue' = Tail(queue)
     /\ Returns(t, "pop", TRUE)
  \/ /\ queue = <<>>
     /\ Returns(t, "pop", FALSE)
     /\ UNCHANGED <<queue, element>>

Call(t) == Push(t) \/ Pop(t) \/ \E v \in Values : Choose(t, v)

BqNext ==
  \/ Create \/ Delete
  \/ exists /\ exists' = exists /\ \E t \in Threads : Call(t)

BqSpec == BqInit /\ [][BqNext]_bqVars
=============================================================================
