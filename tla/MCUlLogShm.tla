---------------------------- MODULE MCUlLogShm ----------------------------
(* Tables for UlLogShm: with room for every name, too small, cleaned while *)
(* processes start and end, and with names that processes share.  The      *)
(* tables that are cleaned hold one value, as Exported does not speak of   *)
(* them.                                                                   *)
EXTENDS UlLogShm

SomeSetups ==
    { [slots |-> 2, opens |-> 3, values |-> 1, habits |-> {"crash"}],
      [slots |-> 1, opens |-> 3, values |-> 1, habits |-> {"crash"}],
      [slots |-> 1, opens |-> 3, values |-> 0, habits |-> {"crash", "clean"}],
      [slots |-> 2, opens |-> 2, values |-> 0,
       habits |-> {"crash", "clean", "shmat", "early"}],
      [slots |-> 2, opens |-> 2, values |-> 1, habits |-> {"crash", "same", "shmat"}] }
=============================================================================
