------------------------------ MODULE MCUlLog ------------------------------
(* Programs for UlLog: two threads that share their files, rotating or     *)
(* splitting them; one of them with a self-defined log besides, with too   *)
(* few slots for it and with enough; files that cannot be opened or vanish.*)
EXTENDS UlLog

Shared == [t \in Thread |-> <<"log", "wf">>]
Besides == [t \in Thread |-> IF t = "t1" THEN <<"log", "wf">> ELSE <<"log", "wf", "sdf">>]

SomePrograms ==
    { [plans |-> Shared, slots |-> 3, split |-> TRUE, failing |-> FALSE,
       opens |-> 3, writes |-> 1, unlinks |-> 0],
      [plans |-> Shared, slots |-> 3, split |-> FALSE, failing |-> FALSE,
       opens |-> 2, writes |-> 2, unlinks |-> 0],
      [plans |-> Besides, slots |-> 2, split |-> TRUE, failing |-> FALSE,
       opens |-> 3, writes |-> 1, unlinks |-> 0],
      [plans |-> Shared, slots |-> 2, split |-> TRUE, failing |-> TRUE,
       opens |-> 2, writes |-> 2, unlinks |-> 0],
      [plans |-> Shared, slots |-> 2, split |-> FALSE, failing |-> FALSE,
       opens |-> 2, writes |-> 2, unlinks |-> 1],
      [plans |-> Besides, slots |-> 3, split |-> FALSE, failing |-> TRUE,
       opens |-> 2, writes |-> 1, unlinks |-> 0] }
=============================================================================
