------------------------------- MODULE XQueue -------------------------------
(***************************************************************************)
(* The ring deque XQueue<T> of comlog (include/comlog/xqueue.h).           *)
(* `front' is the slot the next push_front fills, `rear' the slot the next *)
(* push_back fills; both are free slots except when the queue is nearly    *)
(* full, where they run into each other and only `size' tells a full queue *)
(* from an empty one.  Every call is atomic: XSigQu wraps it in its mutex. *)
(* `out' is the output array of the last call.                             *)
(***************************************************************************)
EXTENDS Integers, Sequences

CONSTANTS Capacity,   \* qcap, the argument of create()
          Val,        \* the values stored
          Undef,      \* what a slot of `new T[qcap]' holds before it is written
          MaxBatch    \* bound: the largest `nums' passed to pop_backs

\* create() rejects a capacity below 2 (line 92).
ASSUME CapacityAssumption == Capacity \in Nat /\ Capacity >= 2
ASSUME ValAssumption == Undef \notin Val
ASSUME BatchAssumption == MaxBatch \in Nat

VARIABLES capacity, size, front, rear, array, out

vars == <<capacity, size, front, rear, array, out>>

Slot == 0..(Capacity - 1)

Init ==
    /\ capacity = 0 /\ size = 0 /\ front = 0 /\ rear = 0
    /\ array = [s \in Slot |-> Undef]
    /\ out = <<>>

empty == size = 0
full == size = capacity

\* Mutant: the wrap to the wrong slot.
DecShortWrap(x) == IF x - 1 < 0 THEN Capacity - 2 ELSE x - 1

\* ++x and --x with the wrap of the code.
Inc(x) == IF x + 1 = Capacity THEN 0 ELSE x + 1
Dec(x) == IF x - 1 < 0 THEN Capacity - 1 ELSE x - 1

\* The slot reached from x by k decrements, k <= Capacity.
Back(x, k) == IF x < k THEN x - k + Capacity ELSE x - k

clear == size' = 0 /\ front' = 0 /\ rear' = 1

Create ==
    /\ capacity = 0
    /\ capacity' = Capacity
    /\ clear
    /\ array' = [s \in Slot |-> Undef]
    /\ out' = <<>>

\* Both owners drain the queue before they destroy it.
Destroy ==
    /\ empty
    /\ capacity' = 0
    /\ out' = <<>>
    /\ UNCHANGED <<size, front, rear, array>>

Clear == capacity # 0 /\ clear /\ out' = <<>> /\ UNCHANGED <<capacity, array>>

Fail == out' = <<>> /\ UNCHANGED <<capacity, size, front, rear, array>>

push_back(v) ==
    \/ full /\ Fail
    \/ /\ ~full
       /\ array' = [array EXCEPT ![rear] = v]
       /\ size' = size + 1
       /\ rear' = Inc(rear)
       /\ out' = <<>>
       /\ UNCHANGED <<capacity, front>>

\* Mutant: the pointer is moved before the slot is written.
MoveFirstPushFront(v) ==
    \/ full /\ Fail
    \/ /\ ~full
       /\ front' = Dec(front)
       /\ array' = [array EXCEPT ![front'] = v]
       /\ size' = size + 1
       /\ out' = <<>>
       /\ UNCHANGED <<capacity, rear>>

push_front(v) ==
    \/ full /\ Fail
    \/ /\ ~full
       /\ array' = [array EXCEPT ![front] = v]
       /\ size' = size + 1
       /\ front' = Dec(front)
       /\ out' = <<>>
       /\ UNCHANGED <<capacity, rear>>

\* pop_back, which decrements rear before it reads.
pop_back ==
    \/ empty /\ Fail
    \/ /\ ~empty
       /\ rear' = Dec(rear)
       /\ out' = <<array[rear']>>
       /\ size' = size - 1
       /\ UNCHANGED <<capacity, front, array>>

pop_front ==
    \/ empty /\ Fail
    \/ /\ ~empty
       /\ front' = Inc(front)
       /\ out' = <<array[front']>>
       /\ size' = size - 1
       /\ UNCHANGED <<capacity, rear, array>>

\* pop_backs: pop_back until nums values are taken or the queue is empty.
pop_backs(nums) ==
    LET cnt == IF nums <= size THEN nums ELSE size
    IN  /\ rear' = Back(rear, cnt)
        /\ out' = [i \in 1..cnt |-> array[Back(rear, i)]]
        /\ size' = size - cnt
        /\ UNCHANGED <<capacity, front, array>>

Next ==
    \/ Create \/ Destroy \/ Clear
    \/ \E v \in Val : push_back(v) \/ push_front(v)
    \/ pop_back \/ pop_front
    \/ \E nums \in 0..MaxBatch : pop_backs(nums)

Spec == Init /\ [][Next]_vars
-----------------------------------------------------------------------------
(* The content, front to back: the `size' slots after `front'. *)
At(i) == IF front + i >= Capacity THEN front + i - Capacity ELSE front + i
content == [i \in 1..size |-> array[At(i)]]

TypeOK ==
    /\ capacity \in {0, Capacity}
    /\ size \in 0..Capacity
    /\ front \in Slot /\ rear \in Slot
    /\ array \in [Slot -> Val \cup {Undef}]
    /\ out \in Seq(Val \cup {Undef})

(* The two pointers stay size + 1 slots apart around the ring, and every   *)
(* slot between them was written by a push (so no pop reads a value that   *)
(* was never stored).                                                      *)
RingShape ==
    /\ capacity = 0 => size = 0
    /\ capacity = Capacity =>
          rear - (front + size + 1) \in {0, -Capacity, -(2 * Capacity)}
    /\ \A i \in 1..size : array[At(i)] \in Val

(* No call ever hands an unwritten slot to its caller. *)
NoUndefRead == \A i \in 1..Len(out) : out[i] # Undef

(* Through every sequence of pushes, pops and clears the ring keeps its    *)
(* types and its shape and hands out only what was stored.                 *)
RingOK == TypeOK /\ RingShape /\ NoUndefRead

(* XQueue is a bounded double-ended queue of its content. *)
D == INSTANCE Deque WITH cap <- capacity, q <- content
ImplementsDeque == D!Spec
=============================================================================
