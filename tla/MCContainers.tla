---------------------------- MODULE MCContainers ----------------------------
(* The three sequential data structures of ullib in one model: a run       *)
(* exercises one of them, the others stay in their initial states.         *)
EXTENDS XQueue, UlCircle, MemPool

VARIABLE subject

allVars == <<subject, vars, circleVars, poolVars>>

ContainersInit ==
    /\ subject \in {"XQueue", "UlCircle", "MemPool"}
    /\ Init /\ CircleInit /\ PoolInit

ContainersNext ==
    /\ UNCHANGED subject
    /\ \/ subject = "XQueue" /\ Next /\ UNCHANGED <<circleVars, poolVars>>
       \/ subject = "UlCircle" /\ CircleNext /\ UNCHANGED <<vars, poolVars>>
       \/ subject = "MemPool" /\ PoolNext /\ UNCHANGED <<vars, circleVars>>

ContainersSpec == ContainersInit /\ [][ContainersNext]_allVars
=============================================================================
