----------------------------- MODULE ByteQueue -----------------------------
(***************************************************************************)
(* What ul_circle promises (include/ul_circle.h): a queue of at most       *)
(* BufSize bytes.  A put or get is done completely or refused.  `up' tells *)
(* whether the queue exists, `reply' the last call and its result.         *)
(***************************************************************************)
EXTENDS Integers, Sequences

CONSTANTS BufSize, Byte

VARIABLES up, q, reply

vars == <<up, q, reply>>

Answer(op, ret, data) == reply' = [op |-> op, ret |-> ret, data |-> data]

Init == up = FALSE /\ q = <<>> /\ reply = [op |-> "none", ret |-> "ok", data |-> <<>>]

Create == ~up /\ up' = TRUE /\ q' = <<>> /\ Answer("none", "ok", <<>>)
Free == up /\ up' = FALSE /\ q' = <<>> /\ Answer("none", "ok", <<>>)

NotInit == ~up /\ Answer("none", "NOTINIT", <<>>) /\ UNCHANGED <<up, q>>

Put(s) ==
    /\ up /\ UNCHANGED up
    /\ \/ Len(q) + Len(s) <= BufSize /\ q' = q \o s /\ Answer("put", "ok", <<>>)
       \/ Len(q) + Len(s) > BufSize /\ Answer("put", "CQFULL", <<>>) /\ UNCHANGED q

Get(n) ==
    /\ up /\ UNCHANGED up
    /\ \/ /\ n <= Len(q) /\ Answer("get", "ok", SubSeq(q, 1, n))
          /\ q' = SubSeq(q, n + 1, Len(q))
       \/ n > Len(q) /\ Answer("get", "CQEMPTY", <<>>) /\ UNCHANGED q

Lookup(n) ==
    /\ up /\ UNCHANGED <<up, q>>
    /\ \/ n <= Len(q) /\ Answer("lookup", "ok", SubSeq(q, 1, n))
       \/ n > Len(q) /\ Answer("lookup", "CQEMPTY", <<>>)

Next ==
    \/ Create \/ Free \/ NotInit
    \/ \E n \in 1..(BufSize + 1) :
          Get(n) \/ Lookup(n) \/ \E s \in [1..n -> Byte] : Put(s)

Spec == Init /\ [][Next]_vars
=============================================================================
