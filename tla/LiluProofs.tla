------------------------------- MODULE LiluProofs -------------------------------
(***************************************************************************)
(* Proofs about Lilu's containers.  CircularBuffer, for every capacity and *)
(* any threads, implements BoundedQueue.  In ThreadLocal, for any number   *)
(* of threads and slots, a thread finds its own last value, and a slot     *)
(* when there are enough of them.                                          *)
(***************************************************************************)
EXTENDS CircularBuffer, ThreadLocal, SequenceTheorems, FiniteSetTheorems, TLAPS

Stored == Values \cup {NoValue}

(* The index k places behind index 0 of the ring, at most once around.     *)
Wrap(k) == IF k < Size THEN k ELSE k - Size

(* Where the oldest element is, without a remainder.                       *)
Oldest == IF step = "loaded" THEN Wrap(indexr + 1) ELSE indexr

(* The write index follows from the read index and the count.              *)
IndexesAgree ==
  /\ Size > 0 => indexr < Size /\ indexw < Size
  /\ Size > 0 /\ step # "written" => indexw = Wrap(Oldest + Length)
  /\ step = "written" => indexw = Wrap(Oldest + Length + 1)

(* What the thread in the lock is about to do can be done.                 *)
StepsAgree ==
  /\ allocated = {} => step = "idle" /\ count = 0
  /\ step \in {"stored", "written"} => count < Size
  /\ step \in {"loaded", "read"} => count > 0
  /\ step \in {"push", "stored", "written"} => element[lock] \in Values
  /\ step \in {"stored", "written"} => storage[Wrap(Oldest + Length)] = element[lock]

(* The inductive invariant.                                                *)
RingInv == CbTypeOK /\ IndexesAgree /\ StepsAgree

(* The elements in the ring, oldest first.                                 *)
OldestFirst ==
  /\ Queue \in Seq(Stored)
  /\ Len(Queue) = Length /\ Length \in 0 .. Size
  /\ Size > 0 => Oldest \in 0 .. Size - 1
  /\ \A k \in 1 .. Length : Queue[k] = storage[Wrap(Oldest + k - 1)]
-----------------------------------------------------------------------------
(* Lemmas on the ring.                                                     *)

(* Once around at most, the remainder is a subtraction.                    *)
LEMMA Remainder ==
  ASSUME Size > 0, NEW k \in Nat, k < Size + Size
  PROVE  k % Size = Wrap(k) /\ Wrap(k) \in Slots
<1>1. CASE k < Size
  BY <1>1, SizeAssumption DEF Wrap, Slots
<1>2. CASE ~(k < Size)
  BY <1>2, SizeAssumption DEF Wrap, Slots
<1> QED
  BY <1>1, <1>2

(* Places less than a round apart are different.                           *)
LEMMA DistinctPlaces ==
  ASSUME Size > 0, NEW f \in 0 .. Size - 1, NEW j \in 0 .. Size - 1, NEW k \in 0 .. Size - 1,
         j # k
  PROVE  Wrap(f + j) # Wrap(f + k)
BY SizeAssumption DEF Wrap

(* The ring holds the queue.                                               *)
LEMMA QueueElements ==
  ASSUME RingInv
  PROVE  OldestFirst
<1>1. Length \in 0 .. Size
  BY SizeAssumption DEF RingInv, CbTypeOK, StepsAgree, Length
<1>2. Size > 0 => Oldest \in 0 .. Size - 1 /\ Front = Oldest
  BY Remainder, SizeAssumption DEF RingInv, CbTypeOK, IndexesAgree, Oldest, Front, Wrap
<1>3. ASSUME NEW k \in 1 .. Length
      PROVE  /\ (Front + k - 1) % Size = Wrap(Oldest + k - 1)
             /\ Wrap(Oldest + k - 1) \in Slots
  <2>1. Size > 0
    BY <1>1, <1>3, SizeAssumption
  <2>2. Oldest + k - 1 \in Nat /\ Oldest + k - 1 < Size + Size
    BY <1>1, <1>2, <1>3, <2>1, SizeAssumption
  <2> QED BY <1>2, <2>1, <2>2, Remainder
<1>4. Queue \in [1 .. Length -> Stored]
  BY <1>3 DEF Queue, RingInv, CbTypeOK, Stored
<1>5. Queue \in Seq(Stored) /\ Len(Queue) = Length
  BY <1>1, <1>4
<1> QED
  BY <1>1, <1>2, <1>3, <1>5 DEF Queue, OldestFirst

LEMMA QueueElementsAfter == RingInv' => OldestFirst'
<1>1. RingInv => OldestFirst
  BY QueueElements
<1> QED
  BY <1>1, PTL

(* With this invariant the tests on count and indexes are tests on count.  *)
LEMMA Tests ==
  ASSUME RingInv
  PROVE  /\ step = "push" => (isFull <=> count = Size)
         /\ step = "pop" => (isEmpty <=> count = 0)
BY SizeAssumption DEF RingInv, CbTypeOK, IndexesAgree, isFull, isEmpty, Wrap, Oldest, Length
-----------------------------------------------------------------------------
(* The invariant holds at first and every step preserves it.               *)

LEMMA InitRingInv ==
  ASSUME CbInit
  PROVE  RingInv
BY SizeAssumption
   DEF CbInit, RingInv, CbTypeOK, IndexesAgree, StepsAgree, Memory, Slots, NoCall, Length, Oldest, Wrap

(* A buffer comes empty and leaves nothing behind.                         *)
LEMMA LifeRingInv ==
  ASSUME RingInv, withCapacity \/ deleter
  PROVE  RingInv'
<1>1. step = "idle"
  BY DEF RingInv, CbTypeOK, StepsAgree, withCapacity, deleter
<1> QED
  BY <1>1, SizeAssumption
     DEF withCapacity, deleter, NewBuffer, RingInv, CbTypeOK, IndexesAgree, StepsAgree, Memory, Slots,
         Length, Oldest, Wrap

(* A call that begins moves nothing.                                       *)
LEMMA EnterRingInv ==
  ASSUME RingInv, NEW t \in Threads, push(t) \/ pop(t)
  PROVE  RingInv'
<1>1. lock = Nobody /\ step = "idle" /\ lock' = t /\ lock' # Nobody
  BY NoValueAssumption DEF push, pop, Enter, RingInv, CbTypeOK
<1>2. CASE push(t)
  <2>1. PICK v \in Values : element' = [element EXCEPT ![t] = v]
    BY <1>2 DEF push
  <2>2. CbTypeOK'
    BY <1>1, <1>2, <2>1 DEF push, Enter, cbData, RingInv, CbTypeOK
  <2> QED
    BY <1>1, <1>2, <2>1, <2>2
       DEF push, Enter, cbData, RingInv, CbTypeOK, IndexesAgree, StepsAgree, Memory, Length, Oldest
<1>3. CASE pop(t)
  <2>1. CbTypeOK'
    BY <1>1, <1>3 DEF pop, Enter, cbData, RingInv, CbTypeOK
  <2> QED
    BY <1>1, <1>3, <2>1
       DEF pop, Enter, cbData, RingInv, CbTypeOK, IndexesAgree, StepsAgree, Memory, Length, Oldest
<1> QED
  BY <1>2, <1>3

(* A thread that leaves the lock frees it and has a result.                *)
LEMMA LeaveTypes ==
  ASSUME RingInv, lock \in Threads, NEW call \in {"push", "pop"}, NEW result \in BOOLEAN,
         Leave(call, result)
  PROVE  /\ lock' = Nobody /\ step' = "idle"
         /\ returned' \in [Threads -> {NoCall} \cup ({"push", "pop"} \X BOOLEAN)]
BY DEF Leave, RingInv, CbTypeOK

LEMMA RefusedRingInv ==
  ASSUME RingInv, Refused
  PROVE  RingInv'
<1>1. lock \in Threads /\ step \in {"push", "pop"}
  BY DEF Refused, RingInv, CbTypeOK
<1>2. /\ lock' = Nobody /\ step' = "idle"
      /\ returned' \in [Threads -> {NoCall} \cup ({"push", "pop"} \X BOOLEAN)]
  BY <1>1, LeaveTypes DEF Refused
<1>3. UNCHANGED <<allocated, cbData, element>>
  BY DEF Refused
<1> QED
  BY <1>1, <1>2, <1>3 DEF cbData, RingInv, CbTypeOK, IndexesAgree, StepsAgree, Length, Oldest

LEMMA StoreRingInv ==
  ASSUME RingInv, Store
  PROVE  RingInv'
<1>1. lock \in Threads /\ lock # Nobody /\ count < Size /\ element[lock] \in Values
  BY Tests, NoValueAssumption, SizeAssumption DEF Store, RingInv, CbTypeOK, StepsAgree
<1>2. indexw \in Slots /\ indexw = Wrap(indexr + count)
  BY <1>1, SizeAssumption DEF Store, RingInv, CbTypeOK, IndexesAgree, Slots, Oldest, Length
<1>3. CbTypeOK'
  BY <1>1, <1>2 DEF Store, RingInv, CbTypeOK
<1> QED
  BY <1>1, <1>2, <1>3, SizeAssumption
     DEF Store, RingInv, CbTypeOK, IndexesAgree, StepsAgree, Memory, Slots, Length, Oldest

LEMMA AdvanceWriteRingInv ==
  ASSUME RingInv, AdvanceWrite
  PROVE  RingInv'
<1>1. /\ lock \in Threads /\ lock # Nobody /\ count < Size
      /\ indexr \in 0 .. Size - 1 /\ indexw \in 0 .. Size - 1 /\ Size \in Nat
      /\ indexw = Wrap(indexr + count)
  BY NoValueAssumption, SizeAssumption
     DEF AdvanceWrite, RingInv, CbTypeOK, IndexesAgree, StepsAgree, Oldest, Length
<1>2. indexw' = Wrap(indexw + 1) /\ indexw' \in 0 .. Size - 1
  BY <1>1, Remainder DEF AdvanceWrite, Wrap
<1>3. indexw' = Wrap(indexr + count + 1)
  BY <1>1, <1>2 DEF RingInv, CbTypeOK, Wrap
<1>4. CbTypeOK'
  BY <1>1, <1>2 DEF AdvanceWrite, RingInv, CbTypeOK
<1> QED
  BY <1>1, <1>2, <1>3, <1>4
     DEF AdvanceWrite, RingInv, CbTypeOK, IndexesAgree, StepsAgree, Length, Oldest

LEMMA WrittenRingInv ==
  ASSUME RingInv, Written
  PROVE  RingInv'
<1>1. lock \in Threads /\ count < Size
  BY DEF Written, RingInv, CbTypeOK, StepsAgree
<1>2. /\ lock' = Nobody /\ step' = "idle"
      /\ returned' \in [Threads -> {NoCall} \cup ({"push", "pop"} \X BOOLEAN)]
  BY <1>1, LeaveTypes DEF Written
<1>3. CbTypeOK'
  BY <1>1, <1>2, SizeAssumption DEF Written, RingInv, CbTypeOK
<1> QED
  BY <1>1, <1>2, <1>3 DEF Written, RingInv, CbTypeOK, IndexesAgree, StepsAgree, Length, Oldest

LEMMA LoadRingInv ==
  ASSUME RingInv, Load
  PROVE  RingInv'
<1>1. /\ lock \in Threads /\ lock # Nobody /\ count > 0 /\ count \in 0 .. Size /\ Size \in Nat
      /\ indexr \in 0 .. Size - 1 /\ indexw = Wrap(indexr + count)
  BY Tests, NoValueAssumption, SizeAssumption
     DEF Load, RingInv, CbTypeOK, IndexesAgree, StepsAgree, Oldest, Length
<1>2. indexw = Wrap(Wrap(indexr + 1) + count - 1)
  BY <1>1 DEF Wrap
<1>3. CbTypeOK'
  BY <1>1 DEF Load, cbData, RingInv, CbTypeOK, Slots
<1> QED
  BY <1>1, <1>2, <1>3 DEF Load, cbData, RingInv, IndexesAgree, StepsAgree, Length, Oldest

LEMMA AdvanceReadRingInv ==
  ASSUME RingInv, AdvanceRead
  PROVE  RingInv'
<1>1. /\ lock \in Threads /\ lock # Nobody /\ count > 0 /\ count \in 0 .. Size /\ Size \in Nat
      /\ indexr \in 0 .. Size - 1
  BY NoValueAssumption, SizeAssumption DEF AdvanceRead, RingInv, CbTypeOK, IndexesAgree, StepsAgree
<1>2. indexr' = Wrap(indexr + 1) /\ indexr' \in 0 .. Size - 1
  BY <1>1, Remainder DEF AdvanceRead, Wrap
<1>3. CbTypeOK'
  BY <1>1, <1>2 DEF AdvanceRead, RingInv, CbTypeOK
<1> QED
  BY <1>1, <1>2, <1>3 DEF AdvanceRead, RingInv, IndexesAgree, StepsAgree, Length, Oldest

LEMMA ReadRingInv ==
  ASSUME RingInv, Read
  PROVE  RingInv'
<1>1. lock \in Threads /\ count > 0 /\ count \in 0 .. Size
  BY DEF Read, RingInv, CbTypeOK, StepsAgree
<1>2. /\ lock' = Nobody /\ step' = "idle"
      /\ returned' \in [Threads -> {NoCall} \cup ({"push", "pop"} \X BOOLEAN)]
  BY <1>1, LeaveTypes DEF Read
<1>3. CbTypeOK'
  BY <1>1, <1>2, SizeAssumption DEF Read, RingInv, CbTypeOK
<1> QED
  BY <1>1, <1>2, <1>3 DEF Read, RingInv, IndexesAgree, StepsAgree, Length, Oldest

LEMMA StutterRingInv ==
  ASSUME RingInv, UNCHANGED cbVars
  PROVE  RingInv'
BY DEF cbVars, cbData, RingInv, CbTypeOK, IndexesAgree, StepsAgree, Length, Oldest

LEMMA NextRingInv ==
  ASSUME RingInv, [CbNext]_cbVars
  PROVE  RingInv'
BY LifeRingInv, EnterRingInv, RefusedRingInv, StoreRingInv, AdvanceWriteRingInv, WrittenRingInv, LoadRingInv,
   AdvanceReadRingInv, ReadRingInv, StutterRingInv DEF CbNext, Locked

(* The count never passes the capacity, the indexes stay in the storage    *)
(* and follow from one another, whatever threads push and pop.             *)
THEOREM RingInvariant == CbSpec => []RingInv
BY InitRingInv, NextRingInv, PTL DEF CbSpec

(* Type correctness of CircularBuffer.                                     *)
THEOREM RingTypeCorrect == CbSpec => []CbTypeOK
<1>1. RingInv => CbTypeOK
  BY DEF RingInv
<1> QED
  BY <1>1, RingInvariant, PTL
-----------------------------------------------------------------------------
(* Every step is one of the queue's or none.                               *)

(* What the threads of the queue know of their calls: a pop has returned   *)
(* as soon as its element is loaded.                                       *)
Results == [t \in Threads |->
              IF step \in {"loaded", "read"} /\ t = lock THEN <<"pop", TRUE>> ELSE returned[t]]

LEMMA InitPromise ==
  ASSUME CbInit
  PROVE  Promise!BqInit
<1>1. Length = 0
  BY DEF CbInit, Length
<1>2. Queue = <<>>
  BY <1>1, InitRingInv, QueueElements DEF OldestFirst
<1> QED
  BY <1>2 DEF CbInit, Promise!BqInit, NoCall, Memory

(* A stutter of the queue: neither the elements nor the results change.    *)
LEMMA QuietPromise ==
  ASSUME Queue' = Queue, UNCHANGED element, Results' = Results,
         (allocated' = Memory) = (allocated = Memory)
  PROVE  UNCHANGED Promise!bqVars
BY DEF Promise!bqVars, Results

(* A call that is one of the queue's, in a buffer that stays allocated.    *)
LEMMA CallPromise ==
  ASSUME allocated = Memory, allocated' = allocated, NEW t \in Threads, Promise!Call(t)
  PROVE  Promise!BqNext
BY DEF Promise!BqNext

(* A thread is in a call only of a buffer that is allocated.               *)
LEMMA AllocatedInCalls ==
  ASSUME RingInv, step # "idle"
  PROVE  allocated = Memory
BY DEF RingInv, CbTypeOK, StepsAgree

(* A buffer that is created is an empty queue, and so is a deleted one.    *)
LEMMA LifePromise ==
  ASSUME RingInv, RingInv', withCapacity \/ deleter
  PROVE  [Promise!BqNext]_(Promise!bqVars)
<1>1. step = "idle" /\ step' = "idle" /\ count' = 0 /\ (allocated = {} => count = 0)
      /\ UNCHANGED <<lock, element, returned>>
  BY DEF RingInv, StepsAgree, CbTypeOK, withCapacity, deleter, NewBuffer
<1>2. Length' = 0 /\ (allocated = {} => Length = 0)
  BY <1>1 DEF Length
<1>3. Queue' = <<>> /\ (allocated = {} => Queue = <<>>)
  BY <1>2, QueueElements, QueueElementsAfter DEF OldestFirst
<1>4. Results' = Results
  BY <1>1 DEF Results
<1>5. {} # Memory
  BY DEF Memory
<1>6. CASE withCapacity /\ allocated' = Memory
  <2>1. Promise!Create
    BY <1>1, <1>3, <1>4, <1>5, <1>6 DEF withCapacity, Promise!Create, Results
  <2> QED
    BY <2>1 DEF Promise!BqNext
<1>7. CASE withCapacity /\ allocated' = {}
  BY <1>1, <1>3, <1>4, <1>5, <1>7, QuietPromise DEF withCapacity
<1>8. CASE deleter
  <2>1. Promise!Delete
    BY <1>1, <1>3, <1>4, <1>5, <1>8 DEF deleter, Promise!Delete, Results
  <2> QED
    BY <2>1 DEF Promise!BqNext
<1> QED
  BY <1>6, <1>7, <1>8 DEF withCapacity

(* A push begins by choosing its element, a pop by nothing.                *)
LEMMA EnterPromise ==
  ASSUME RingInv, NEW t \in Threads, push(t) \/ pop(t)
  PROVE  [Promise!BqNext]_(Promise!bqVars)
<1>1. /\ step = "idle" /\ step' \in {"push", "pop"}
      /\ UNCHANGED <<allocated, cbData, returned>>
      /\ allocated = Memory
  BY DEF push, pop, Enter, RingInv, CbTypeOK
<1>2. Queue' = Queue /\ Results' = Results
  BY <1>1 DEF cbData, Queue, Front, Length, Results
<1>3. CASE push(t)
  <2>1. PICK v \in Values : element' = [element EXCEPT ![t] = v]
    BY <1>3 DEF push
  <2>2. Promise!Choose(t, v)
    BY <1>2, <2>1 DEF Promise!Choose, Results
  <2> QED
    BY <1>1, <2>2, CallPromise DEF Promise!Call
<1>4. CASE pop(t)
  BY <1>1, <1>2, <1>4, QuietPromise DEF pop
<1> QED
  BY <1>3, <1>4

(* A refused push finds the queue full, a refused pop finds it empty.      *)
LEMMA RefusedPromise ==
  ASSUME RingInv, Refused
  PROVE  Promise!BqNext
<1>0. allocated = Memory /\ allocated' = allocated
  BY AllocatedInCalls DEF Refused
<1>1. lock \in Threads /\ step \in {"push", "pop"} /\ step' = "idle"
  BY DEF Refused, Leave, RingInv, CbTypeOK
<1> PICK t \in Threads : t = lock
  BY <1>1
<1>2. Queue' = Queue /\ Len(Queue) = count /\ Queue \in Seq(Stored)
  BY <1>1, QueueElements DEF OldestFirst, Refused, cbData, Queue, Front, Length
<1>3. Results' = [Results EXCEPT ![t] = <<step, FALSE>>]
  BY <1>1 DEF Refused, Leave, Results, RingInv, CbTypeOK
<1>4. CASE step = "push"
  <2>1. Len(Queue) = Size
    BY <1>2, <1>4, Tests DEF Refused
  <2>2. Promise!Push(t)
    BY <1>2, <1>3, <1>4, <2>1 DEF Promise!Push, Promise!Returns, Results, Refused
  <2> QED
    BY <1>0, <2>2, CallPromise DEF Promise!Call
<1>5. CASE step = "pop"
  <2>1. Queue = <<>>
    BY <1>2, <1>5, Tests DEF Refused
  <2>2. Promise!Pop(t)
    BY <1>2, <1>3, <1>5, <2>1 DEF Promise!Pop, Promise!Returns, Results, Refused
  <2> QED
    BY <1>0, <2>2, CallPromise DEF Promise!Call
<1> QED
  BY <1>1, <1>4, <1>5

(* The place written to is none of the queue's.                            *)
LEMMA StorePromise ==
  ASSUME RingInv, RingInv', Store
  PROVE  UNCHANGED Promise!bqVars
<1>1. /\ Length = count /\ Length' = count /\ Oldest = indexr /\ Oldest' = indexr
      /\ count \in 0 .. Size - 1 /\ indexr \in 0 .. Size - 1 /\ Size > 0
      /\ indexw = Wrap(indexr + count)
  BY Tests, SizeAssumption
     DEF Store, RingInv, CbTypeOK, IndexesAgree, Length, Oldest
<1>2. ASSUME NEW k \in 1 .. count
      PROVE  storage'[Wrap(indexr + k - 1)] = storage[Wrap(indexr + k - 1)]
  <2>1. k - 1 \in 0 .. Size - 1 /\ k - 1 # count
    BY <1>1, <1>2, SizeAssumption
  <2>2. Wrap(indexr + (k - 1)) # indexw
    BY <1>1, <2>1, DistinctPlaces
  <2>3. indexr + (k - 1) = indexr + k - 1
    BY <1>1, <1>2, SizeAssumption
  <2> QED
    BY <2>2, <2>3 DEF Store, RingInv, CbTypeOK
<1>3. Queue' = Queue
  <2>1. Queue \in Seq(Stored) /\ Len(Queue) = count
    BY <1>1, QueueElements DEF OldestFirst
  <2>2. Queue' \in Seq(Stored) /\ Len(Queue') = count
    BY <1>1, QueueElementsAfter DEF OldestFirst
  <2>3. ASSUME NEW k \in 1 .. count
        PROVE  Queue'[k] = Queue[k]
    <3>1. Queue[k] = storage[Wrap(indexr + k - 1)]
      BY <1>1, QueueElements DEF OldestFirst
    <3>2. Queue'[k] = storage'[Wrap(indexr + k - 1)]
      BY <1>1, QueueElementsAfter DEF OldestFirst
    <3> QED
      BY <1>2, <3>1, <3>2
  <2> QED
    BY <2>1, <2>2, <2>3, SeqEqual
<1>4. Results' = Results
  BY DEF Store, Results
<1> QED
  BY <1>3, <1>4, QuietPromise DEF Store

(* Only an index and the place in the code change.                         *)
LEMMA AdvancePromise ==
  ASSUME RingInv, AdvanceWrite \/ AdvanceRead
  PROVE  UNCHANGED Promise!bqVars
<1>1. Front' = Front /\ Length' = Length /\ UNCHANGED <<allocated, storage, element>>
  BY DEF AdvanceWrite, AdvanceRead, Front, Length
<1>2. Queue' = Queue
  BY <1>1 DEF Queue
<1>3. Results' = Results
  BY DEF AdvanceWrite, AdvanceRead, Results
<1> QED
  BY <1>1, <1>2, <1>3, QuietPromise

(* The element written is the last of the queue when it is counted.        *)
LEMMA WrittenPromise ==
  ASSUME RingInv, RingInv', Written
  PROVE  Promise!BqNext
<1>0. allocated = Memory /\ allocated' = allocated
  BY AllocatedInCalls DEF Written
<1>1. /\ lock \in Threads /\ step = "written" /\ step' = "idle" /\ element[lock] \in Values
      /\ count \in 0 .. Size - 1 /\ Length = count /\ Length' = count + 1
      /\ Oldest' = Oldest /\ storage' = storage
      /\ storage[Wrap(Oldest + count)] = element[lock]
  BY SizeAssumption DEF Written, Leave, RingInv, CbTypeOK, StepsAgree, Length, Oldest
<1> PICK t \in Threads : t = lock
  BY <1>1
<1>2. Queue \in Seq(Stored) /\ Len(Queue) = count /\ Oldest \in 0 .. Size - 1
  BY <1>1, QueueElements, SizeAssumption DEF OldestFirst
<1>3. Queue' \in Seq(Stored) /\ Len(Queue') = count + 1
  BY <1>1, QueueElementsAfter DEF OldestFirst
<1>4. element[t] \in Stored
  BY <1>1 DEF Stored
<1>5. ASSUME NEW k \in 1 .. count + 1
      PROVE  Queue'[k] = Append(Queue, element[t])[k]
  <2>1. Queue'[k] = storage[Wrap(Oldest + k - 1)]
    BY <1>1, <1>5, QueueElementsAfter DEF OldestFirst
  <2>2. CASE k = count + 1
    <3>1. Oldest + k - 1 = Oldest + count
      BY <1>1, <1>2, <2>2
    <3> QED
      BY <1>1, <1>2, <1>4, <2>1, <2>2, <3>1
  <2>3. CASE k # count + 1
    <3>1. k \in 1 .. count
      BY <1>1, <1>5, <2>3
    <3>2. Queue[k] = storage[Wrap(Oldest + k - 1)]
      BY <1>1, <3>1, QueueElements DEF OldestFirst
    <3> QED
      BY <1>2, <1>4, <2>1, <3>1, <3>2
  <2> QED
    BY <2>2, <2>3
<1>6. Queue' = Append(Queue, element[t])
  <2>1. Append(Queue, element[t]) \in Seq(Stored) /\ Len(Append(Queue, element[t])) = count + 1
    BY <1>2, <1>4
  <2> QED
    BY <1>1, <1>3, <1>5, <2>1, SeqEqual
<1>7. Results' = [Results EXCEPT ![t] = <<"push", TRUE>>] /\ element' = element
  BY <1>1 DEF Written, Leave, Results, RingInv, CbTypeOK
<1>8. Promise!Push(t)
  BY <1>1, <1>2, <1>6, <1>7, SizeAssumption DEF Promise!Push, Promise!Returns, Results
<1> QED
  BY <1>0, <1>8, CallPromise DEF Promise!Call

(* A pop takes the oldest element.                                         *)
LEMMA LoadPromise ==
  ASSUME RingInv, RingInv', Load
  PROVE  Promise!BqNext
<1>0. allocated = Memory /\ allocated' = allocated
  BY AllocatedInCalls DEF Load
<1>1. /\ lock \in Threads /\ lock' = lock /\ step = "pop" /\ step' = "loaded"
      /\ count \in 1 .. Size /\ Length = count /\ Length' = count - 1
      /\ indexr \in 0 .. Size - 1 /\ Oldest = indexr /\ Oldest' = Wrap(indexr + 1)
      /\ storage' = storage /\ returned' = returned
      /\ element' = [element EXCEPT ![lock] = storage[indexr]]
  BY Tests, SizeAssumption
     DEF Load, cbData, RingInv, CbTypeOK, IndexesAgree, Length, Oldest
<1> PICK t \in Threads : t = lock
  BY <1>1
<1>2. /\ Queue \in Seq(Stored) /\ Len(Queue) = count /\ Queue # <<>>
      /\ \A k \in 1 .. count : Queue[k] = storage[Wrap(indexr + k - 1)]
  BY <1>1, QueueElements DEF OldestFirst
<1>3. /\ Queue' \in Seq(Stored) /\ Len(Queue') = count - 1
      /\ \A k \in 1 .. count - 1 : Queue'[k] = storage[Wrap(Wrap(indexr + 1) + k - 1)]
  BY <1>1, QueueElementsAfter DEF OldestFirst
<1>4. Head(Queue) = storage[indexr]
  <2>1. Wrap(indexr + 1 - 1) = indexr /\ 1 \in 1 .. count
    BY <1>1, SizeAssumption DEF Wrap
  <2> QED
    BY <1>2, <2>1
<1>5. ASSUME NEW k \in 1 .. count - 1
      PROVE  Queue'[k] = Tail(Queue)[k]
  <2>1. k + 1 \in 1 .. count /\ Tail(Queue)[k] = Queue[k + 1]
    BY <1>1, <1>2, <1>5
  <2>2. Wrap(Wrap(indexr + 1) + k - 1) = Wrap(indexr + (k + 1) - 1)
    BY <1>1, <1>5, SizeAssumption DEF Wrap
  <2> QED
    BY <1>2, <1>3, <2>1, <2>2
<1>6. Queue' = Tail(Queue)
  <2>1. Tail(Queue) \in Seq(Stored) /\ Len(Tail(Queue)) = count - 1
    BY <1>1, <1>2
  <2> QED
    BY <1>1, <1>3, <1>5, <2>1, SeqEqual
<1>7. Results' = [Results EXCEPT ![t] = <<"pop", TRUE>>]
  BY <1>1 DEF Results, RingInv, CbTypeOK
<1>8. Promise!Pop(t)
  BY <1>1, <1>2, <1>4, <1>6, <1>7 DEF Promise!Pop, Promise!Returns, Results
<1> QED
  BY <1>0, <1>8, CallPromise DEF Promise!Call

(* The queue knows already what the pop returns.                           *)
LEMMA ReadPromise ==
  ASSUME RingInv, Read
  PROVE  UNCHANGED Promise!bqVars
<1>1. /\ lock \in Threads /\ step = "read" /\ step' = "idle"
      /\ count \in 1 .. Size /\ count' = count - 1
      /\ UNCHANGED <<allocated, storage, indexr, element>>
  BY SizeAssumption DEF Read, Leave, RingInv, CbTypeOK, StepsAgree
<1>2. Queue' = Queue
  BY <1>1 DEF Queue, Front, Length
<1>3. Results' = Results
  BY <1>1 DEF Read, Leave, Results, RingInv, CbTypeOK
<1> QED
  BY <1>1, <1>2, <1>3, QuietPromise

LEMMA StutterPromise ==
  ASSUME UNCHANGED cbVars
  PROVE  UNCHANGED Promise!bqVars
BY QuietPromise DEF cbVars, cbData, Queue, Front, Length, Results

LEMMA NextPromise ==
  ASSUME RingInv, RingInv', [CbNext]_cbVars
  PROVE  [Promise!BqNext]_(Promise!bqVars)
BY LifePromise, EnterPromise, RefusedPromise, StorePromise, AdvancePromise, WrittenPromise,
   LoadPromise, ReadPromise, StutterPromise DEF CbNext, Locked

(* The ring is a first-in first-out queue of its capacity for any threads, *)
(* elements and size: no element is lost, repeated or reordered, and no    *)
(* call is refused but by a full or an empty queue.                        *)
THEOREM RingIsQueue == CbSpec => ImplementsQueue
BY InitPromise, NextPromise, RingInvariant, PTL DEF CbSpec, ImplementsQueue, Promise!BqSpec
-----------------------------------------------------------------------------
(* What a thread has, wherever it is in its call.                          *)
OwnerOK(t) ==
  /\ \A i, j \in TlSlots : threads[i] = t /\ threads[j] = t => i = j
  /\ tlStep[t] = "idle" =>
       /\ \A i \in TlSlots : threads[i] = t => values[i] = last[t]
       /\ (\A i \in TlSlots : threads[i] # t) => last[t] = Nothing
  /\ tlStep[t] = "claim" => last[t] = Nothing /\ \A i \in TlSlots : threads[i] # t
  /\ tlStep[t] \in {"write", "release"} => ptr[t] \in TlSlots /\ threads[ptr[t]] = t
  /\ tlStep[t] = "release" => last[t] = Nothing

OwnersOK == \A t \in Callers : OwnerOK(t)

(* The users that have a slot from k on, or look for one there.            *)
From(k) ==
  {t \in users : \/ \E i \in TlSlots : i >= k /\ threads[i] = t
                 \/ tlStep[t] = "claim" /\ ptr[t] >= k}

(* Who has come as far as slot k has left a user behind for each slot      *)
(* before it.                                                              *)
FewFrom(k) == From(k) # {} => Cardinality(From(k)) + k <= Cardinality(users)

UsersOK ==
  /\ \A i \in TlSlots : threads[i] \in users \cup {Nothing}
  /\ \A k \in 0 .. N : FewFrom(k)

(* The inductive invariant.                                                *)
SlotInv == TlTypeOK /\ OwnersOK /\ UsersOK /\ EveryThreadFindsASlot
-----------------------------------------------------------------------------
(* A thread's own slot is the one found.                                   *)
LEMMA OwnSlot ==
  ASSUME NEW t \in Callers, OwnerOK(t), Own(t) # {}
  PROVE  Lowest(Own(t)) \in TlSlots /\ threads[Lowest(Own(t))] = t
<1>1. PICK i \in Own(t) : \A j \in Own(t) : i <= j
  <2>1. PICK i \in Own(t) : TRUE
    OBVIOUS
  <2>2. \A j \in Own(t) : i <= j
    BY SlotsAssumption DEF OwnerOK, Own, TlSlots
  <2> QED
    BY <2>2
<1>2. Lowest(Own(t)) \in Own(t)
  BY <1>1 DEF Lowest
<1> QED
  BY <1>2 DEF Own

LEMMA InitSlotInv ==
  ASSUME TlInit
  PROVE  SlotInv
<1>1. TlTypeOK
  BY SlotsAssumption DEF TlInit, TlTypeOK
<1>2. OwnersOK
  BY NothingAssumption DEF TlInit, OwnersOK, OwnerOK
<1>3. \A k \in 0 .. N : From(k) = {}
  BY NothingAssumption DEF TlInit, From
<1> QED
  BY <1>1, <1>2, <1>3 DEF TlInit, SlotInv, UsersOK, FewFrom, EveryThreadFindsASlot

(* The types of every action.                                              *)
LEMMA NextTypeOK ==
  ASSUME SlotInv, [TlNext]_tlVars
  PROVE  TlTypeOK'
<1> USE DEF SlotInv, TlTypeOK
<1>1. CASE deinit
  BY <1>1 DEF deinit
<1>2. ASSUME NEW t \in users, NEW v \in Contents, set(t, v)
      PROVE  TlTypeOK'
  <2>1. Own(t) # {} => Lowest(Own(t)) \in 0 .. N
    BY OwnSlot, SlotsAssumption DEF OwnersOK, TlSlots
  <2> QED
    BY <1>2, <2>1, SlotsAssumption DEF set, GoTo
<1>3. ASSUME NEW t \in users, Claim(t)
      PROVE  TlTypeOK'
  <2>1. ptr[t] \in 0 .. N /\ ptr[t] + 1 \in 0 .. N
    BY <1>3, SlotsAssumption DEF Claim
  <2> QED
    BY <1>3, <2>1 DEF Claim, GoTo
<1>4. ASSUME NEW t \in users, Insert(t)
      PROVE  TlTypeOK'
  <2>1. ptr[t] \in TlSlots
    BY <1>4 DEF Insert, OwnersOK, OwnerOK
  <2> QED
    BY <1>4, <2>1, SlotsAssumption DEF Insert, GoTo
<1>5. ASSUME NEW t \in users, Full(t)
      PROVE  TlTypeOK'
  BY <1>5, SlotsAssumption DEF Full, GoTo
<1>6. ASSUME NEW t \in users, erase(t)
      PROVE  TlTypeOK'
  <2>1. Own(t) # {} => Lowest(Own(t)) \in 0 .. N
    BY OwnSlot, SlotsAssumption DEF OwnersOK, TlSlots
  <2> QED
    BY <1>6, <2>1, SlotsAssumption DEF erase, GoTo
<1>7. CASE UNCHANGED tlVars
  BY <1>7 DEF tlVars
<1> QED
  BY <1>1, <1>2, <1>3, <1>4, <1>5, <1>6, <1>7 DEF TlNext
-----------------------------------------------------------------------------
(* Every thread keeps its slot and its value.                              *)

LEMMA SetOwners ==
  ASSUME SlotInv, NEW t \in users, NEW v \in Contents, set(t, v)
  PROVE  OwnersOK'
<1> USE DEF SlotInv, TlTypeOK
<1>1. t \in Callers /\ OwnerOK(t)
  BY DEF OwnersOK
<1>2. ASSUME NEW u \in Callers
      PROVE  OwnerOK(u)'
  <2>1. CASE u # t
    BY <2>1 DEF OwnersOK, OwnerOK, set, GoTo
  <2>2. CASE u = t /\ Own(t) = {}
    <3>1. \A i \in TlSlots : threads[i] # t
      BY <2>2 DEF Own
    <3> QED
      BY <1>1, <2>2, <3>1 DEF OwnerOK, set, GoTo
  <2>3. CASE u = t /\ Own(t) # {}
    BY <1>1, <2>3, OwnSlot DEF OwnerOK, set, GoTo
  <2> QED
    BY <2>1, <2>2, <2>3
<1> QED
  BY <1>2 DEF OwnersOK

LEMMA ClaimOwners ==
  ASSUME SlotInv, NEW t \in users, Claim(t)
  PROVE  OwnersOK'
<1> USE DEF SlotInv, TlTypeOK
<1>1. t \in Callers /\ OwnerOK(t) /\ tlStep[t] = "claim" /\ ptr[t] \in TlSlots
  BY SlotsAssumption DEF OwnersOK, Claim, TlSlots
<1>2. ASSUME NEW u \in Callers
      PROVE  OwnerOK(u)'
  <2>1. CASE u # t
    BY <1>1, <2>1, NothingAssumption DEF OwnersOK, OwnerOK, Claim, GoTo
  <2>2. CASE u = t
    BY <1>1, <2>2 DEF OwnerOK, Claim, GoTo
  <2> QED
    BY <2>1, <2>2
<1> QED
  BY <1>2 DEF OwnersOK

LEMMA InsertOwners ==
  ASSUME SlotInv, NEW t \in users, Insert(t)
  PROVE  OwnersOK'
<1> USE DEF SlotInv, TlTypeOK
<1>1. t \in Callers /\ OwnerOK(t) /\ ptr[t] \in TlSlots /\ threads[ptr[t]] = t
  BY DEF OwnersOK, OwnerOK, Insert
<1>2. ASSUME NEW u \in Callers
      PROVE  OwnerOK(u)'
  <2>1. CASE u # t
    BY <1>1, <2>1 DEF OwnersOK, OwnerOK, Insert, GoTo
  <2>2. CASE u = t
    BY <1>1, <2>2 DEF OwnerOK, Insert, GoTo
  <2> QED
    BY <2>1, <2>2
<1> QED
  BY <1>2 DEF OwnersOK

LEMMA FullOwners ==
  ASSUME SlotInv, NEW t \in users, Full(t)
  PROVE  OwnersOK'
BY DEF SlotInv, TlTypeOK, OwnersOK, OwnerOK, Full, GoTo

LEMMA EraseOwners ==
  ASSUME SlotInv, NEW t \in users, erase(t)
  PROVE  OwnersOK'
<1> USE DEF SlotInv, TlTypeOK
<1>1. t \in Callers /\ OwnerOK(t)
  BY DEF OwnersOK
<1>2. CASE tlStep[t] = "idle"
  <2> DEFINE slot == Lowest(Own(t))
  <2>1. slot \in TlSlots /\ threads[slot] = t
    BY <1>1, <1>2, OwnSlot DEF erase
  <2>2. /\ values' = [values EXCEPT ![slot] = Nothing] /\ last' = [last EXCEPT ![t] = Nothing]
        /\ GoTo(t, "release", slot) /\ UNCHANGED threads
    BY <1>2 DEF erase
  <2> HIDE DEF slot
  <2>3. ASSUME NEW u \in Callers
        PROVE  OwnerOK(u)'
    <3>1. CASE u # t
      BY <1>1, <2>1, <2>2, <3>1 DEF OwnersOK, OwnerOK, GoTo
    <3>2. CASE u = t
      BY <1>1, <2>1, <2>2, <3>2 DEF OwnerOK, GoTo
    <3> QED
      BY <3>1, <3>2
  <2> QED
    BY <2>3 DEF OwnersOK
<1>3. CASE tlStep[t] = "release"
  <2>1. ptr[t] \in TlSlots /\ threads[ptr[t]] = t /\ last[t] = Nothing
    BY <1>1, <1>3 DEF OwnerOK
  <2>2. ASSUME NEW u \in Callers
        PROVE  OwnerOK(u)'
    <3>1. CASE u # t
      BY <1>1, <1>3, <2>1, <3>1, NothingAssumption DEF OwnersOK, OwnerOK, erase, GoTo
    <3>2. CASE u = t
      BY <1>1, <1>3, <2>1, <3>2, NothingAssumption DEF OwnerOK, erase, GoTo
    <3> QED
      BY <3>1, <3>2
  <2> QED
    BY <2>2 DEF OwnersOK
<1> QED
  BY <1>2, <1>3 DEF erase

LEMMA DeinitOwners ==
  ASSUME SlotInv, deinit
  PROVE  OwnersOK'
BY NothingAssumption DEF SlotInv, TlTypeOK, OwnersOK, OwnerOK, deinit

LEMMA NextOwners ==
  ASSUME SlotInv, [TlNext]_tlVars
  PROVE  OwnersOK'
<1>1. CASE UNCHANGED tlVars
  BY <1>1 DEF tlVars, SlotInv, OwnersOK, OwnerOK
<1> QED
  BY <1>1, SetOwners, ClaimOwners, InsertOwners, FullOwners, EraseOwners, DeinitOwners DEF TlNext
-----------------------------------------------------------------------------
(* Who goes through the slots leaves a user behind for each.               *)

LEMMA UsersFinite ==
  ASSUME SlotInv, NEW k
  PROVE  /\ IsFiniteSet(users) /\ Cardinality(users) \in Nat
         /\ IsFiniteSet(From(k)) /\ Cardinality(From(k)) \in Nat
         /\ Cardinality(From(k)) <= Cardinality(users)
<1>1. IsFiniteSet(users)
  BY CallersAssumption, FS_Subset DEF SlotInv, TlTypeOK
<1>2. From(k) \subseteq users
  BY DEF From
<1> QED
  BY <1>1, <1>2, FS_Subset, FS_CardinalityType

(* A step after which no new user is at k or behind it.                    *)
LEMMA FewerFrom ==
  ASSUME SlotInv, NEW k \in 0 .. N, users' = users, From(k)' \subseteq From(k)
  PROVE  FewFrom(k)'
<1>1. Cardinality(From(k)') <= Cardinality(From(k)) /\ Cardinality(From(k)') \in Nat
  BY UsersFinite, FS_Subset, FS_CardinalityType
<1>2. FewFrom(k)
  BY DEF SlotInv, UsersOK
<1> QED
  BY <1>1, <1>2, UsersFinite, SlotsAssumption DEF FewFrom

(* There are no more users than there are.                                 *)
LEMMA FewFromStart ==
  ASSUME SlotInv, users' = users
  PROVE  FewFrom(0)'
<1>1. From(0)' \subseteq users
  BY DEF From
<1>2. IsFiniteSet(users) /\ Cardinality(users) \in Nat
  BY UsersFinite
<1>3. Cardinality(From(0)') <= Cardinality(users) /\ Cardinality(From(0)') \in Nat
  BY <1>1, <1>2, FS_Subset, FS_CardinalityType
<1> QED
  BY <1>2, <1>3 DEF FewFrom

LEMMA SetUsers ==
  ASSUME SlotInv, NEW t \in users, NEW v \in Contents, set(t, v)
  PROVE  UsersOK'
<1>1. \A i \in TlSlots : threads'[i] \in users' \cup {Nothing}
  BY DEF SlotInv, UsersOK, set
<1>2. ASSUME NEW k \in 0 .. N, k # 0
      PROVE  FewFrom(k)'
  <2>1. From(k)' \subseteq From(k)
    BY <1>2 DEF From, set, GoTo, SlotInv, TlTypeOK
  <2> QED
    BY <2>1, FewerFrom DEF set
<1> QED
  BY <1>1, <1>2, FewFromStart DEF UsersOK, set

LEMMA ClaimUsers ==
  ASSUME SlotInv, NEW t \in users, Claim(t)
  PROVE  UsersOK'
<1> PICK p \in 0 .. N - 1 : p = ptr[t]
  BY SlotsAssumption DEF SlotInv, TlTypeOK, Claim
<1>1. p \in 0 .. N - 1 /\ p \in TlSlots /\ N \in Nat /\ t \in Callers /\ users' = users
  BY SlotsAssumption DEF SlotInv, TlTypeOK, Claim, TlSlots
<1>2. \A i \in TlSlots : threads'[i] \in users' \cup {Nothing}
  BY <1>1 DEF SlotInv, TlTypeOK, UsersOK, Claim
<1>3. CASE threads[p] = Nothing
  <2>1. ASSUME NEW k \in 0 .. N
        PROVE  From(k)' \subseteq From(k)
    BY <1>1, <1>3 DEF From, Claim, GoTo, SlotInv, TlTypeOK
  <2> QED
    BY <1>1, <1>2, <2>1, FewerFrom DEF UsersOK
<1>4. CASE threads[p] # Nothing
  <2>1. /\ tlStep' = [tlStep EXCEPT ![t] = "claim"] /\ ptr' = [ptr EXCEPT ![t] = p + 1]
        /\ tlStep[t] = "claim" /\ threads' = threads
    BY <1>4 DEF Claim, GoTo
  <2>2. ASSUME NEW k \in 0 .. N, k # p + 1
        PROVE  FewFrom(k)'
    <3>1. From(k)' \subseteq From(k)
      BY <1>1, <2>1, <2>2 DEF From, SlotInv, TlTypeOK
    <3> QED
      BY <1>1, <3>1, FewerFrom
  <2>3. FewFrom(p + 1)'
    <3> DEFINE w == threads[p]
    <3>1. w \in users /\ w \in Callers /\ OwnerOK(w) /\ w # t
      <4>1. w \in users
        BY <1>1, <1>4 DEF SlotInv, UsersOK
      <4>2. OwnerOK(w) /\ OwnerOK(t)
        BY <1>1, <4>1 DEF SlotInv, TlTypeOK, OwnersOK
      <4> QED
        BY <1>1, <2>1, <4>1, <4>2 DEF SlotInv, TlTypeOK, OwnerOK
    <3>2. w \notin From(p + 1)'
      BY <1>1, <2>1, <3>1 DEF From, OwnerOK, SlotInv, TlTypeOK, TlSlots
    <3>3. w \in From(p)
      BY <1>1, <3>1 DEF From
    <3>4. From(p + 1)' \subseteq From(p) \ {w}
      <4>1. From(p + 1)' \subseteq From(p)
        BY <1>1, <2>1 DEF From, SlotInv, TlTypeOK, TlSlots
      <4> QED
        BY <3>2, <4>1
    <3>5. Cardinality(From(p)) + p <= Cardinality(users)
      BY <1>1, <3>3 DEF SlotInv, UsersOK, FewFrom
    <3>6. /\ IsFiniteSet(From(p)) /\ Cardinality(From(p)) \in Nat /\ Cardinality(users) \in Nat
      BY UsersFinite
    <3>7. /\ IsFiniteSet(From(p) \ {w}) /\ Cardinality(From(p) \ {w}) = Cardinality(From(p)) - 1
      BY <3>3, <3>6, FS_RemoveElement
    <3>8. Cardinality(From(p + 1)') <= Cardinality(From(p)) - 1 /\ Cardinality(From(p + 1)') \in Nat
      BY <3>4, <3>7, FS_Subset, FS_CardinalityType
    <3> QED
      BY <1>1, <3>5, <3>6, <3>8 DEF FewFrom
  <2> QED
    BY <1>2, <2>2, <2>3 DEF UsersOK
<1> QED
  BY <1>3, <1>4

LEMMA InsertUsers ==
  ASSUME SlotInv, NEW t \in users, Insert(t)
  PROVE  UsersOK'
<1>1. \A i \in TlSlots : threads'[i] \in users' \cup {Nothing}
  BY DEF SlotInv, UsersOK, Insert
<1>2. ASSUME NEW k \in 0 .. N
      PROVE  From(k)' \subseteq From(k)
  BY DEF From, Insert, GoTo, SlotInv, TlTypeOK
<1> QED
  BY <1>1, <1>2, FewerFrom DEF UsersOK, Insert

LEMMA FullUsers ==
  ASSUME SlotInv, NEW t \in users, Full(t)
  PROVE  UsersOK' /\ EveryThreadFindsASlot'
<1>1. \A i \in TlSlots : threads'[i] \in users' \cup {Nothing}
  BY DEF SlotInv, UsersOK, Full
<1>2. ASSUME NEW k \in 0 .. N
      PROVE  From(k)' \subseteq From(k)
  BY DEF From, Full, GoTo, SlotInv, TlTypeOK
<1>3. UsersOK'
  BY <1>1, <1>2, FewerFrom DEF UsersOK, Full
<1>4. t \in From(N)
  BY SlotsAssumption DEF From, Full
<1>5. Cardinality(From(N)) + N <= Cardinality(users)
  BY <1>4, SlotsAssumption DEF SlotInv, UsersOK, FewFrom
<1>6. Cardinality(From(N)) \in Nat \ {0} /\ Cardinality(users) \in Nat
  BY <1>4, UsersFinite, FS_EmptySet
<1>7. ~(Cardinality(users) <= N)
  BY <1>5, <1>6, SlotsAssumption
<1> QED
  BY <1>3, <1>7 DEF EveryThreadFindsASlot, Full

LEMMA EraseUsers ==
  ASSUME SlotInv, NEW t \in users, erase(t)
  PROVE  UsersOK'
<1>1. users' = users
  BY DEF erase
<1>2. \A i \in TlSlots : threads'[i] = threads[i] \/ threads'[i] = Nothing
  BY DEF erase, SlotInv, TlTypeOK
<1>3. \A u \in Callers : tlStep'[u] = "claim" => tlStep[u] = "claim" /\ ptr'[u] = ptr[u]
  BY DEF erase, GoTo, SlotInv, TlTypeOK
<1>4. ASSUME NEW k \in 0 .. N
      PROVE  From(k)' \subseteq From(k)
  BY <1>1, <1>2, <1>3, NothingAssumption DEF From, SlotInv, TlTypeOK
<1> QED
  BY <1>1, <1>2, <1>4, FewerFrom DEF UsersOK, SlotInv

LEMMA DeinitUsers ==
  ASSUME SlotInv, deinit
  PROVE  UsersOK'
<1>1. ASSUME NEW k \in 0 .. N
      PROVE  From(k)' \subseteq From(k)
  BY NothingAssumption DEF From, deinit, SlotInv, TlTypeOK
<1> QED
  BY <1>1, FewerFrom DEF UsersOK, deinit

LEMMA NextUsers ==
  ASSUME SlotInv, [TlNext]_tlVars
  PROVE  UsersOK' /\ EveryThreadFindsASlot'
<1>1. CASE UNCHANGED tlVars
  BY <1>1 DEF tlVars, SlotInv, UsersOK, FewFrom, From, EveryThreadFindsASlot
<1>2. EveryThreadFindsASlot' \/ \E t \in users : Full(t)
  BY DEF TlNext, tlVars, set, Claim, Insert, erase, deinit, SlotInv, EveryThreadFindsASlot
<1> QED
  BY <1>1, <1>2, SetUsers, ClaimUsers, InsertUsers, FullUsers, EraseUsers, DeinitUsers DEF TlNext
-----------------------------------------------------------------------------
(* The inductive invariant: an owner's only slot has its last value, and   *)
(* who goes through the slots leaves a user behind for each.               *)
THEOREM SlotInvariant == TlSpec => []SlotInv
<1>1. SlotInv /\ [TlNext]_tlVars => SlotInv'
  BY NextTypeOK, NextOwners, NextUsers DEF SlotInv
<1> QED
  BY <1>1, InitSlotInv, PTL DEF TlSpec

(* A thread finds its own last value, and never has two slots, however     *)
(* many threads and slots there are.                                       *)
THEOREM OwnValueIsKept == TlSpec => []OwnValueKept
<1>1. SlotInv => OwnValueKept
  <2> SUFFICES ASSUME SlotInv, NEW t \in Callers
               PROVE  /\ \A i, j \in Own(t) : i = j
                      /\ tlStep[t] = "idle" => get(t) = last[t]
    BY DEF OwnValueKept
  <2>1. OwnerOK(t)
    BY DEF SlotInv, OwnersOK
  <2>2. \A i, j \in Own(t) : i = j
    BY <2>1 DEF OwnerOK, Own
  <2>3. ASSUME tlStep[t] = "idle"
        PROVE  get(t) = last[t]
    BY <2>1, <2>3, OwnSlot DEF OwnerOK, Own, get
  <2> QED
    BY <2>2, <2>3
<1> QED
  BY <1>1, SlotInvariant, PTL

(* With a slot for every user, set never returns false: a thread that      *)
(* races with others for a slot finds one before it has seen them all.     *)
THEOREM SlotForEveryone == TlSpec => []EveryThreadFindsASlot
<1>1. SlotInv => EveryThreadFindsASlot
  BY DEF SlotInv
<1> QED
  BY <1>1, SlotInvariant, PTL
=============================================================================
