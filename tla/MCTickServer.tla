---------------------------- MODULE MCTickServer ----------------------------
(***************************************************************************)
(* Datagrams for the model checker: first cell the claimed length.         *)
(***************************************************************************)
EXTENDS TickServer

\* Well-formed, and too short by one: for long sequences.
FewDatagrams == {<<2, 7, 7>>, <<3, 7, 7>>}

\* Well-formed with one and two body cells; too short by one and by two; too
\* long; no body; a length below the opcode's; and an empty datagram.
SomeDatagrams ==
    {<<2, 7, 7>>, <<3, 7, 7, 7>>, <<3, 7, 7>>, <<3, 7>>, <<2, 7, 7, 7>>,
     <<1, 7>>, <<0, 7, 7>>, <<>>}

\* Any three datagrams; longer sequences of a few kinds, to fill the pipes.
SomeTraffic == UNION {[1..n -> SomeDatagrams] : n \in 1..3}
               \cup UNION {[1..n -> FewDatagrams] : n \in 4..5}
=============================================================================
