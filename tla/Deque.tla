------------------------------- MODULE Deque -------------------------------
(***************************************************************************)
(* What XQueue promises its users: a double-ended queue of bounded length. *)
(* `q' is the content, front first; `cap' is 0 while no storage exists;    *)
(* `out' holds the values the last call handed back, in the order in which *)
(* it filled its output array (<<>> when it reported failure).             *)
(***************************************************************************)
EXTENDS Naturals, Sequences

CONSTANTS Capacity, Val, MaxBatch

VARIABLES cap, q, out

vars == <<cap, q, out>>

Init == cap = 0 /\ q = <<>> /\ out = <<>>

Create == cap = 0 /\ cap' = Capacity /\ q' = <<>> /\ out' = <<>>

Destroy == q = <<>> /\ cap' = 0 /\ out' = <<>> /\ UNCHANGED q

Clear == cap # 0 /\ q' = <<>> /\ out' = <<>> /\ UNCHANGED cap

Refuse == out' = <<>> /\ UNCHANGED <<cap, q>>

PushBack(v) ==
    \/ Len(q) < cap /\ q' = Append(q, v) /\ out' = <<>> /\ UNCHANGED cap
    \/ Len(q) = cap /\ Refuse

PushFront(v) ==
    \/ Len(q) < cap /\ q' = <<v>> \o q /\ out' = <<>> /\ UNCHANGED cap
    \/ Len(q) = cap /\ Refuse

\* The last k elements, last one first.
Backs(k) == [i \in 1..k |-> q[Len(q) + 1 - i]]

PopBacks(n) ==
    \E k \in 0..n :
        /\ k <= Len(q) /\ (k < n => k = Len(q))
        /\ out' = Backs(k)
        /\ q' = SubSeq(q, 1, Len(q) - k)
        /\ UNCHANGED cap

PopFront ==
    \/ q # <<>> /\ out' = <<Head(q)>> /\ q' = Tail(q) /\ UNCHANGED cap
    \/ q = <<>> /\ Refuse

Next ==
    \/ Create \/ Destroy \/ Clear \/ PopFront
    \/ \E v \in Val : PushBack(v) \/ PushFront(v)
    \/ \E n \in 0..MaxBatch : PopBacks(n)
    \/ PopBacks(1)

Spec == Init /\ [][Next]_vars
=============================================================================
