----------------------- MODULE ComlogLifecycleProofs -----------------------
(***************************************************************************)
(* For any number of logging threads.  First the gate of com_closelog,     *)
(* whatever the threads' habits: between g_closing.reset(1) and reset(0)   *)
(* none is added to g_close_atomic.  Then what the gate is for: in a       *)
(* program whose threads open and close in order, and whose close was not  *)
(* forced, no entry goes through a category that was freed, and none       *)
(* through NULL unless the program is hasty and lazy.                      *)
(***************************************************************************)
EXTENDS ComlogLifecycle, FiniteSetTheorems, TLAPS

\* Where a logging thread can be.
Place == {"idle", "lock", "handle", "turnon", "category", "check", "ullog", "farewell", "refused", "make", "count", "print",
          "uncount"}

(* The flag is up exactly while com_closelog is between its two resets; a  *)
(* thread past the flag's test holds the lock, and the flag is down as     *)
(* long as it does.  The last part is why NoNewcomer is not inductive by   *)
(* itself.                                                                 *)
GateInv ==
    /\ cnt \in Int /\ gate \in Worker \cup {Main} /\ closing \in {0, 1}
    /\ wpc \in [Worker -> Place]
    /\ closing = 1 => mpc \in {"closing", "poll", "freed", "off"}
    /\ \A w \in Worker : wpc[w] \in {"make", "count"} => gate = w /\ closing = 0

(* No thread is past the gate before the program runs. *)
LEMMA GateInit == Init => GateInv
BY ThreadAssumption DEF Init, GateInv, Place

(* A step of the main thread: reset(1) needs the lock, so no thread holds  *)
(* it; nothing else raises the flag.                                       *)
LEMMA MainGate == GateInv /\ MainThread => GateInv'
<1> SUFFICES ASSUME GateInv, MainThread PROVE GateInv'
  OBVIOUS
<1>1. CASE Shut
  <2>1. \A w \in Worker : wpc[w] \notin {"make", "count"}
    BY <1>1, ThreadAssumption DEF Shut, GateInv
  <2> QED BY <1>1, <2>1 DEF Shut, GateInv, wvars
<1>2. CASE EndClosing
  BY <1>2 DEF EndClosing, GateInv, wvars
<1>3. CASE CloseLog \/ SubMain \/ Poll \/ Free \/ SwitchOff \/ Restore
  BY <1>3 DEF CloseLog, SubMain, Poll, Free, SwitchOff, Restore, GateInv, wvars
<1>4. CASE OpenLog \/ Switch \/ OpenFails \/ ResetCount \/ AddMain
  BY <1>4 DEF OpenLog, Switch, OpenFails, ResetCount, AddMain, GateInv, wvars
<1>5. CASE OpenRefused
  BY <1>5 DEF OpenRefused, GateInv, vars, wvars, mvars
<1> QED BY <1>1, <1>2, <1>3, <1>4, <1>5 DEF MainThread

(* Moving one thread leaves the others where they are. *)
LEMMA Moved ==
    ASSUME GateInv, NEW w \in Worker, NEW where \in Place, Goto(w, where)
    PROVE  /\ wpc' \in [Worker -> Place] /\ wpc'[w] = where
           /\ \A v \in Worker : v # w => wpc'[v] = wpc[v]
BY DEF GateInv, Goto

(* A thread that moves without touching lock, flag or main thread, and not *)
(* past the gate, keeps the gate.                                          *)
LEMMA Elsewhere ==
    ASSUME GateInv, NEW w \in Worker, NEW where \in Place, Goto(w, where),
           where \in {"make", "count"} => wpc[w] \in {"make", "count"},
           gate' = gate, closing' = closing, mpc' = mpc, cnt' \in Int
    PROVE  GateInv'
<1>1. /\ wpc' \in [Worker -> Place] /\ wpc'[w] = where
      /\ \A v \in Worker : v # w => wpc'[v] = wpc[v]
  BY Moved
<1>2. ASSUME NEW v \in Worker, wpc'[v] \in {"make", "count"}
      PROVE  wpc[v] \in {"make", "count"}
  BY <1>1, <1>2
<1> QED BY <1>1, <1>2 DEF GateInv

(* A step of a logging thread: only Lock moves one past the gate, and only *)
(* while the lock is free and the flag down.                               *)
LEMMA WorkerGate ==
    ASSUME GateInv, NEW w \in Worker,
           openlog_r(w) \/ writelog(w) \/ closelog_r(w) \/ Calling(w)
    PROVE  GateInv'
<1>0. cnt \in Int /\ closing \in {0, 1}
  BY DEF GateInv
<1>1. CASE openlog_r(w) \/ writelog(w) \/ closelog_r(w)
  <2>1. gate' = gate /\ closing' = closing /\ mpc' = mpc /\ cnt' \in Int
    BY <1>0, <1>1 DEF openlog_r, writelog, closelog_r, Begin, mvars
  <2>2. \E where \in {"lock", "refused", "handle", "farewell"} : Goto(w, where)
    BY <1>1, Zenon DEF openlog_r, Enter, writelog, closelog_r
  <2> QED BY <2>1, <2>2, Elsewhere DEF Place
<1>2. CASE Farewell(w) \/ gethandle(w) \/ TurnOn(w)
  <2>1. gate' = gate /\ closing' = closing /\ mpc' = mpc /\ cnt' \in Int
    BY <1>0, <1>2 DEF Farewell, gethandle, TurnOn, mvars
  <2>2. \E where \in {"handle", "uncount", "turnon", "category"} : Goto(w, where)
    BY <1>2, Zenon DEF Farewell, gethandle, TurnOn
  <2> QED BY <2>1, <2>2, Elsewhere DEF Place
<1>8. CASE HasCategory(w) \/ openlog_rInside(w) \/ ul_openlog_r(w)
  <2>1. gate' = gate /\ closing' = closing /\ mpc' = mpc /\ cnt' \in Int
    BY <1>0, <1>8 DEF HasCategory, openlog_rInside, ul_openlog_r, mvars
  <2>2. \E where \in {"check", "print", "refused", "lock", "ullog"} : Goto(w, where)
    BY <1>8, Zenon DEF HasCategory, openlog_rInside, ul_openlog_r, Enter
  <2> QED BY <2>1, <2>2, Elsewhere DEF Place
<1>3. CASE Refused(w) \/ Printed(w) \/ Uncount(w)
  <2>1. gate' = gate /\ closing' = closing /\ mpc' = mpc /\ cnt' \in Int
    BY <1>0, <1>3 DEF Refused, Printed, Uncount, mvars
  <2>2. \E where \in {"idle", "uncount"} : Goto(w, where)
    BY <1>3, Zenon DEF Refused, Printed, Uncount, Return
  <2> QED BY <2>1, <2>2, Elsewhere DEF Place
<1>4. CASE Make(w)
  <2>1. gate' = gate /\ closing' = closing /\ mpc' = mpc /\ cnt' \in Int
    BY <1>0, <1>4 DEF Make, mvars
  <2>2. Goto(w, "count") /\ wpc[w] = "make"
    BY <1>4 DEF Make
  <2> QED BY <2>1, <2>2, Elsewhere DEF Place
<1>5. CASE Lock(w) /\ closing = 1
  <2>1. gate' = gate /\ closing' = closing /\ mpc' = mpc /\ cnt' \in Int
    BY <1>0, <1>5 DEF Lock, mvars
  <2>2. Goto(w, "refused")
    BY <1>5 DEF Lock
  <2> QED BY <2>1, <2>2, Elsewhere DEF Place
<1>6. CASE Lock(w) /\ closing = 0
  <2>1. \A v \in Worker : wpc[v] \notin {"make", "count"}
    BY <1>6, ThreadAssumption DEF Lock, GateInv
  <2>2. gate' = w /\ closing' = 0 /\ mpc' = mpc /\ cnt' \in Int /\ Goto(w, "make")
    BY <1>0, <1>6 DEF Lock, mvars
  <2>3. wpc' \in [Worker -> Place] /\ \A v \in Worker : v # w => wpc'[v] = wpc[v]
    BY <2>2, Moved DEF Place
  <2>4. ASSUME NEW v \in Worker, wpc'[v] \in {"make", "count"} PROVE v = w
    BY <2>1, <2>3, <2>4
  <2> QED BY <2>2, <2>3, <2>4 DEF GateInv
<1>7. CASE Count(w)
  <2>1. \A v \in Worker : v # w => wpc[v] \notin {"make", "count"}
    BY <1>7 DEF Count, GateInv
  <2>2. PICK where \in {"print", "idle"} : Goto(w, where)
    BY <1>7, Zenon DEF Count, Return
  <2>3. /\ wpc' \in [Worker -> Place] /\ wpc'[w] = where
        /\ \A v \in Worker : v # w => wpc'[v] = wpc[v]
    BY <2>2, Moved DEF Place
  <2>4. gate' = Main /\ closing' = closing /\ mpc' = mpc /\ cnt' \in Int
    BY <1>0, <1>7 DEF Count, mvars
  <2>5. \A v \in Worker : wpc'[v] \notin {"make", "count"}
    BY <2>1, <2>3
  <2> QED BY <2>3, <2>4, <2>5 DEF GateInv
<1> QED BY <1>0, <1>1, <1>2, <1>3, <1>4, <1>5, <1>6, <1>7, <1>8 DEF Calling

(* Every step keeps the gate. *)
LEMMA GateStep == GateInv /\ [Next]_vars => GateInv'
<1> SUFFICES ASSUME GateInv, [Next]_vars PROVE GateInv'
  OBVIOUS
<1>1. CASE MainThread
  BY <1>1, MainGate
<1>2. ASSUME NEW w \in Worker,
             openlog_r(w) \/ writelog(w) \/ closelog_r(w) \/ Calling(w)
      PROVE  GateInv'
  BY <1>2, WorkerGate
<1>3. CASE UNCHANGED vars
  BY <1>3 DEF GateInv, vars, wvars, mvars
<1>4. ASSUME NEW w \in Worker, UlLog(w) \/ Crashed(w) PROVE GateInv'
  BY <1>4, <1>3 DEF UlLog, Crashed
<1> QED BY <1>1, <1>2, <1>3, <1>4 DEF Next

(* While the flag stays up no step counts a thread. *)
LEMMA GateShut == GateInv /\ [Next]_vars => (closing = 1 /\ closing' = 1 => cnt' <= cnt)
<1> SUFFICES ASSUME GateInv, [Next]_vars, closing = 1 PROVE cnt' <= cnt
  OBVIOUS
<1>0. cnt \in Int /\ mpc \in {"closing", "poll", "freed", "off"}
  BY DEF GateInv
<1>1. CASE MainThread
  BY <1>0, <1>1 DEF MainThread, OpenLog, OpenRefused, Switch, OpenFails, ResetCount,
     AddMain, CloseLog, Shut, SubMain, Poll, Free, SwitchOff, EndClosing, Restore, vars
<1>2. ASSUME NEW w \in Worker, openlog_r(w) \/ writelog(w) \/ closelog_r(w)
      PROVE  cnt' <= cnt
  BY <1>0, <1>2 DEF openlog_r, writelog, closelog_r, Begin
<1>3. ASSUME NEW w \in Worker, Calling(w) PROVE cnt' <= cnt
  <2>1. wpc[w] # "count"
    BY DEF GateInv
  <2> QED BY <1>0, <1>3, <2>1 DEF Calling, Farewell, gethandle, TurnOn, HasCategory,
             openlog_rInside, ul_openlog_r, Lock, Refused, Make, Count, Printed, Uncount
<1>4. CASE UNCHANGED vars
  BY <1>0, <1>4 DEF vars
<1>5. ASSUME NEW w \in Worker, UlLog(w) \/ Crashed(w) PROVE cnt' <= cnt
  BY <1>5, <1>4 DEF UlLog, Crashed
<1> QED BY <1>1, <1>2, <1>3, <1>4, <1>5 DEF Next

(* Once com_closelog has begun to close, the counter it waits on only      *)
(* falls: com_openlog_r tests g_closing and adds itself under one hold of  *)
(* the lock that com_closelog needs to raise the flag.                     *)
THEOREM GateHolds == Spec => NoNewcomer
<1>1. Spec => []GateInv
  BY GateInit, GateStep, PTL DEF Spec
<1>2. GateInv /\ [Next]_vars => [closing = 1 /\ closing' = 1 => cnt' <= cnt]_vars
  BY GateShut
<1> QED BY <1>1, <1>2, PTL DEF Spec, NoNewcomer
-----------------------------------------------------------------------------
(* The second part: unless threads call early or again, none prints        *)
(* through a category that was freed.                                      *)

Stage == {"closed", "built", "switched", "failed", "reset", "open", "gate", "closing", "poll",
          "freed", "off", "restore"}

\* The threads that have their log open: those the counter stands for.
Open == {w \in Worker : openr[w]}

\* Whatever the habits: the counter is at most the threads it stands for.
CountInv ==
    /\ TypeOK /\ mpc \in Stage
    /\ mpc \in {"closing", "poll", "freed", "off"} => closing = 1
    /\ mpc \in Stage \ {"closed", "freed", "off", "restore"} => epoch <= MaxEpoch
    /\ cnt <= Cardinality(Open) + IF mpc \in {"open", "gate", "closing"} THEN 1 ELSE 0
    /\ \A w \in Worker : wpc[w] \in {"lock", "make", "count"} => ~openr[w]

\* Threads open and close their logs in order.
InOrder == habits \cap {"early", "again"} = {}

\* Where such a thread's category comes from and where it is counted.
ThreadInv ==
    \A w \in Worker :
        /\ wpc[w] \in {"farewell", "uncount"} => openr[w]
        /\ wpc[w] = "print" => openr[w] \/ cat[w] = 0
        /\ wpc[w] \in {"check", "ullog"} => cat[w] = 0
        /\ cat[w] # 0 => \/ openr[w] \/ wpc[w] = "count"
                         \/ left[w] /\ wpc[w] \notin {"handle", "turnon", "category"}
        /\ openr[w] \/ wpc[w] = "count" => cat[w] = epoch

\* The counter is exact from com_openlog to the free, and before a program has
\* opened the log no thread is inside comlog.
MainInv ==
    /\ mpc \in {"built", "switched", "failed", "reset", "closed", "restore"} => ~opened
    /\ mpc = "open" => opened
    /\ mpc \in {"switched", "reset", "open"} => sw = "comlog"
    /\ ~opened /\ mpc # "closed" => \A w \in Worker : wpc[w] = "idle" /\ ~openr[w]
    /\ mpc = "reset" => cnt = 0
    /\ opened /\ mpc \in {"open", "gate", "closing", "poll"} =>
          cnt = Cardinality(Open) + IF mpc = "poll" THEN 0 ELSE 1

\* How a thread comes to the print without a category: it logs without having
\* opened, and is not counted while comlog is switched off.
NullInv ==
    \A w \in Worker :
        /\ wpc[w] \in {"handle", "turnon", "category"} => openr[w] \/ "lazy" \in habits
        /\ wpc[w] = "check" => "lazy" \in habits
        /\ wpc[w] = "ullog" \/ (wpc[w] = "print" /\ cat[w] = 0) => {"hasty", "lazy"} \subseteq habits
        /\ "hasty" \in habits \/ wpc[w] = "idle" \/ openr[w] \/ mpc = "open"

LifeInv ==
    /\ GateInv /\ CountInv
    /\ InOrder /\ ~forced => ThreadInv /\ MainInv /\ NullInv

(* The number of open threads, and what one thread more or less makes of it.*)
LEMMA OpenCount ==
    ASSUME CountInv
    PROVE  /\ Cardinality(Open) \in Nat /\ Cardinality(Open) <= Cardinality(Worker)
           /\ Cardinality(Worker) \in Nat
           /\ Cardinality(Open) = 0 <=> \A w \in Worker : ~openr[w]
<1>1. IsFiniteSet(Open) /\ Cardinality(Open) <= Cardinality(Worker)
  BY ThreadAssumption, FS_Subset DEF Open
<1>2. Cardinality(Open) \in Nat /\ Cardinality(Worker) \in Nat
  BY <1>1, ThreadAssumption, FS_CardinalityType
<1>3. Cardinality(Open) = 0 <=> Open = {}
  BY <1>1, FS_EmptySet
<1> QED BY <1>1, <1>2, <1>3 DEF Open

(* A thread that was not open is counted once when it opens its log, and   *)
(* once less when it closes it.                                            *)
LEMMA OpenChange ==
    ASSUME CountInv, NEW w \in Worker, NEW b \in BOOLEAN, openr' = [openr EXCEPT ![w] = b],
           openr[w] # b
    PROVE  Cardinality(Open') = Cardinality(Open) + IF b THEN 1 ELSE -1
<1>0. openr \in [Worker -> BOOLEAN] /\ IsFiniteSet(Open)
  BY ThreadAssumption, FS_Subset DEF CountInv, TypeOK, Open
<1>1. \A v \in Worker : openr'[v] = IF v = w THEN b ELSE openr[v]
  BY <1>0
<1>2. CASE b
  <2>1. w \notin Open /\ Open' = Open \cup {w}
    BY <1>0, <1>1, <1>2 DEF Open
  <2> QED BY <1>0, <1>2, <2>1, FS_AddElement
<1>3. CASE ~b
  <2>1. w \in Open /\ Open' = Open \ {w}
    BY <1>0, <1>1, <1>3 DEF Open
  <2>2. Cardinality(Open') = Cardinality(Open) - 1
    BY <1>0, <2>1, FS_RemoveElement
  <2>3. Cardinality(Open) \in Nat
    BY OpenCount
  <2> QED BY <1>3, <2>2, <2>3
<1> QED BY <1>2, <1>3

(* Nothing is open, and nobody is anywhere, before the program runs. *)
LEMMA LifeInit == Init => LifeInv
<1> SUFFICES ASSUME Init PROVE LifeInv
  OBVIOUS
<1>1. GateInv
  BY GateInit
<1>2. TypeOK
  <2>1. Cardinality(Worker) \in Nat
    BY ThreadAssumption, FS_CardinalityType
  <2>2. cnt \in Int /\ cnt <= Cardinality(Worker) + 1 /\ epoch \in 1..(MaxEpoch + 1) /\ tries \in 0..MaxTries
    BY <2>1, BoundsAssumption DEF Init
  <2>3. cat \in [Worker -> 0..(MaxEpoch + 1)]
    BY BoundsAssumption DEF Init
  <2> QED BY <2>2, <2>3 DEF Init, TypeOK
<1>3. Open = {} /\ Cardinality(Open) = 0
  BY FS_EmptySet DEF Open, Init
<1>4. CountInv
  BY <1>2, <1>3 DEF Init, CountInv, Stage
<1>5. ThreadInv /\ MainInv /\ NullInv
  BY DEF Init, ThreadInv, MainInv, NullInv
<1> QED BY <1>1, <1>4, <1>5 DEF LifeInv

(* A step of the main thread keeps the bound of the counter. *)
LEMMA MainCount ==
    ASSUME GateInv, CountInv, MainThread
    PROVE  CountInv'
<1>0. /\ TypeOK /\ mpc \in Stage /\ cnt \in Int /\ Cardinality(Open) \in Nat /\ Cardinality(Worker) \in Nat
      /\ Cardinality(Open) <= Cardinality(Worker)
  BY OpenCount DEF CountInv, TypeOK
<1>1. UNCHANGED <<wpc, call, cat, openr, left, habits, gate>> /\ Open' = Open
  BY DEF MainThread, OpenLog, OpenRefused, Switch, OpenFails, ResetCount, AddMain, CloseLog, Shut, SubMain,
         Poll, Free, SwitchOff, EndClosing, Restore, vars, wvars, mvars, Open
<1> DEFINE bump == IF mpc' \in {"open", "gate", "closing"} THEN 1 ELSE 0
<1>2. ASSUME sw' \in {"none", "comlog"}, init' \in BOOLEAN, epoch' \in 1..(MaxEpoch + 1),
             closing' \in {0, 1}, tries' \in 0..MaxTries, saved' \in {"none", "comlog"}, opened' \in BOOLEAN,
             forced' \in BOOLEAN,
             cnt' \in Int, cnt' <= Cardinality(Open) + bump, mpc' \in Stage,
             mpc' \in {"closing", "poll", "freed", "off"} => closing' = 1,
             mpc' \in Stage \ {"closed", "freed", "off", "restore"} => epoch' <= MaxEpoch
      PROVE  CountInv'
  <2>1. cnt' <= Cardinality(Worker) + 1
    BY <1>0, <1>2
  <2>2. TypeOK'
    BY <1>0, <1>1, <1>2, <2>1 DEF TypeOK
  <2>3. \A w \in Worker : wpc'[w] \in {"lock", "make", "count"} => ~openr'[w]
    BY <1>1 DEF CountInv
  <2> QED BY <1>1, <1>2, <2>2, <2>3 DEF CountInv
<1>3. CASE OpenLog \/ Switch \/ OpenFails
  BY <1>0, <1>2, <1>3 DEF OpenLog, Switch, OpenFails, CountInv, TypeOK, Stage
<1>4. CASE ResetCount \/ AddMain
  <2>1. /\ opened' \in BOOLEAN /\ UNCHANGED <<sw, init, epoch, closing, tries, saved, forced>>
        /\ mpc \in {"switched", "reset"} /\ mpc' \in {"reset", "open"}
    BY <1>0, <1>4 DEF ResetCount, AddMain, TypeOK
  <2>2. cnt' \in Int /\ cnt' <= Cardinality(Open) + bump
    BY <1>0, <1>4 DEF ResetCount, AddMain, CountInv
  <2> QED BY <1>0, <1>2, <2>1, <2>2 DEF CountInv, TypeOK, Stage
<1>5. CASE CloseLog \/ Shut \/ SubMain
  BY <1>0, <1>2, <1>5, BoundsAssumption DEF CloseLog, Shut, SubMain, CountInv, TypeOK, Stage
<1>6. CASE Poll
  BY <1>0, <1>2, <1>6, BoundsAssumption DEF Poll, CountInv, TypeOK, Stage
<1>7. CASE Free
  <2>1. epoch' \in 1..(MaxEpoch + 1)
    BY <1>0, <1>7, BoundsAssumption DEF Free, CountInv, TypeOK, Stage
  <2>2. forced' \in BOOLEAN
    BY <1>7, Zenon DEF Free
  <2>3. mpc' = "freed" /\ init' = FALSE /\ UNCHANGED <<sw, closing, cnt, tries, saved, opened>> /\ mpc = "poll"
    BY <1>7 DEF Free
  <2> QED BY <1>0, <1>2, <2>1, <2>2, <2>3 DEF CountInv, TypeOK, Stage
<1>8. CASE SwitchOff \/ EndClosing \/ Restore
  BY <1>0, <1>2, <1>8 DEF SwitchOff, EndClosing, Restore, CountInv, TypeOK, Stage
<1>9. CASE OpenRefused
  <2>1. UNCHANGED <<sw, init, epoch, closing, cnt, mpc, tries, saved, opened, forced>>
    BY <1>9 DEF OpenRefused, vars, mvars
  <2> QED BY <1>0, <1>2, <2>1 DEF CountInv, TypeOK
<1> QED BY <1>3, <1>4, <1>5, <1>6, <1>7, <1>8, <1>9 DEF MainThread

(* A step of the main thread of a disciplined program: com_openlog finds no*)
(* thread in comlog, com_closelog frees when none is open.                 *)
LEMMA MainDisciplined ==
    ASSUME LifeInv, MainThread, InOrder', ~forced'
    PROVE  ThreadInv' /\ MainInv'
<1>0. UNCHANGED <<wpc, call, cat, openr, left, habits, gate>> /\ Open' = Open /\ ~forced
  <2>1. UNCHANGED <<wpc, call, cat, openr, left, habits, gate>>
    BY DEF MainThread, OpenLog, OpenRefused, Switch, OpenFails, ResetCount, AddMain, CloseLog, SubMain, Poll,
           Shut, Free, SwitchOff, EndClosing, Restore, vars, wvars, mvars
  <2>2. ASSUME Free PROVE ~forced
    BY <2>2, Zenon DEF Free
  <2>3. ASSUME UNCHANGED forced PROVE ~forced
    BY <2>3
  <2>4. ~forced
    BY <2>2, <2>3 DEF MainThread, OpenLog, OpenRefused, Switch, OpenFails, ResetCount, AddMain, CloseLog,
           Shut, SubMain, Poll, SwitchOff, EndClosing, Restore, vars, mvars
  <2> QED BY <2>1, <2>4 DEF Open
<1>1. ThreadInv /\ MainInv /\ NullInv /\ "early" \notin habits /\ CountInv /\ GateInv
  BY <1>0 DEF LifeInv, InOrder
<1>2. /\ Cardinality(Open) \in Nat /\ (Cardinality(Open) = 0 <=> \A w \in Worker : ~openr[w])
      /\ cnt \in Int
  BY <1>1, OpenCount DEF GateInv
<1>3. CASE OpenLog
  <2>1. UNCHANGED <<epoch, opened>> /\ mpc' = "built" /\ mpc = "closed"
        /\ \A w \in Worker : wpc[w] = "idle" /\ ~openr[w]
    BY <1>1, <1>3 DEF OpenLog
  <2>2. ThreadInv'
    BY <1>0, <1>1, <2>1 DEF ThreadInv
  <2> QED BY <1>0, <1>1, <2>1, <2>2 DEF MainInv
<1>4. CASE Free
  <2>1. mpc = "poll" /\ mpc' = "freed" /\ epoch' = epoch + 1 /\ UNCHANGED opened /\ cnt <= 0 /\ closing = 1
    <3>1. ~(cnt > 0)
      BY <1>4, Zenon DEF Free
    <3>2. mpc = "poll" /\ mpc' = "freed" /\ epoch' = epoch + 1 /\ UNCHANGED opened
      BY <1>4 DEF Free
    <3> QED BY <1>1, <1>2, <3>1, <3>2 DEF CountInv
  <2>2. \A w \in Worker : ~openr[w]
    <3>1. CASE opened
      BY <1>1, <1>2, <2>1, <3>1 DEF MainInv
    <3>2. CASE ~opened
      BY <1>1, <2>1, <3>2 DEF MainInv
    <3> QED BY <3>1, <3>2
  <2>3. \A w \in Worker : wpc[w] # "count"
    BY <1>1, <2>1 DEF GateInv
  <2>4. ThreadInv'
    BY <1>0, <1>1, <2>2, <2>3 DEF ThreadInv
  <2>5. MainInv'
    BY <1>0, <1>1, <2>1 DEF MainInv
  <2> QED BY <2>4, <2>5
<1>5. CASE Switch \/ OpenFails \/ ResetCount
  <2>1. ThreadInv'
    BY <1>0, <1>1, <1>5 DEF ThreadInv, Switch, OpenFails, ResetCount
  <2> QED BY <1>0, <1>1, <1>5, <2>1 DEF MainInv, Switch, OpenFails, ResetCount
<1>6. CASE AddMain
  <2>1. ThreadInv'
    BY <1>0, <1>1, <1>6 DEF ThreadInv, AddMain
  <2>2. /\ mpc = "reset" /\ mpc' = "open" /\ opened' = TRUE /\ cnt' = cnt + 1 /\ cnt = 0 /\ ~opened
        /\ sw' = "comlog"
    BY <1>1, <1>6 DEF AddMain, MainInv
  <2>3. Cardinality(Open) = 0
    BY <1>1, <1>2, <2>2 DEF MainInv
  <2> QED BY <1>0, <2>1, <2>2, <2>3 DEF MainInv
<1>7. CASE CloseLog \/ Shut
  <2>1. ThreadInv'
    BY <1>0, <1>1, <1>7 DEF ThreadInv, CloseLog, Shut
  <2> QED BY <1>0, <1>1, <1>7, <2>1 DEF MainInv, CloseLog, Shut
<1>8. CASE SubMain
  <2>1. ThreadInv'
    BY <1>0, <1>1, <1>8 DEF ThreadInv, SubMain
  <2>2. mpc = "closing" /\ mpc' = "poll" /\ cnt' = cnt - 1 /\ UNCHANGED opened
    BY <1>8 DEF SubMain
  <2> QED BY <1>0, <1>1, <1>2, <2>1, <2>2 DEF MainInv
<1>9. CASE Poll \/ SwitchOff
  <2>1. ThreadInv'
    BY <1>0, <1>1, <1>9 DEF ThreadInv, Poll, SwitchOff
  <2> QED BY <1>0, <1>1, <1>9, <2>1 DEF MainInv, Poll, SwitchOff
<1>10. CASE EndClosing \/ Restore
  <2>1. ThreadInv'
    BY <1>0, <1>1, <1>10 DEF ThreadInv, EndClosing, Restore
  <2> QED BY <1>0, <1>1, <1>10, <2>1 DEF MainInv, EndClosing, Restore
<1>11. CASE OpenRefused
  <2>1. UNCHANGED <<epoch, mpc, opened, cnt, sw>>
    BY <1>11 DEF OpenRefused, vars, mvars
  <2> QED BY <1>0, <1>1, <2>1 DEF ThreadInv, MainInv
<1> QED BY <1>3, <1>4, <1>5, <1>6, <1>7, <1>8, <1>9, <1>10, <1>11 DEF MainThread

(* What one thread's step leaves alone. *)
LEMMA OneThread ==
    ASSUME GateInv, NEW w \in Worker,
           openlog_r(w) \/ writelog(w) \/ closelog_r(w) \/ Calling(w)
    PROVE  /\ UNCHANGED <<habits, epoch, closing, mpc, tries, saved, opened, forced>>
           /\ \A v \in Worker : v # w => wpc'[v] = wpc[v]
<1>1. UNCHANGED <<habits, epoch, closing, mpc, tries, saved, opened, forced>>
  BY DEF openlog_r, writelog, closelog_r, Begin, Enter, Calling, Farewell, gethandle, TurnOn, HasCategory,
         openlog_rInside, ul_openlog_r, Lock, Refused, Make, Count, Printed, Uncount, mvars
<1>2. \E where \in Place : Goto(w, where)
  BY Zenon DEF openlog_r, writelog, closelog_r, Enter, Calling, Farewell, gethandle, TurnOn, HasCategory,
         openlog_rInside, ul_openlog_r, Lock, Refused, Make, Count, Printed, Uncount, Return, Place
<1> QED BY <1>1, <1>2, Moved

(* A step of a logging thread keeps the bound of the counter: it is counted*)
(* only when it was not.                                                   *)
LEMMA WorkerCount ==
    ASSUME GateInv, CountInv, NEW w \in Worker,
           openlog_r(w) \/ writelog(w) \/ closelog_r(w) \/ Calling(w)
    PROVE  CountInv'
<1>0. /\ TypeOK /\ mpc \in Stage /\ cnt \in Int /\ Cardinality(Open) \in Nat /\ Cardinality(Worker) \in Nat
      /\ Cardinality(Open) <= Cardinality(Worker) /\ wpc \in [Worker -> Place]
      /\ openr \in [Worker -> BOOLEAN] /\ left \in [Worker -> BOOLEAN] /\ cat \in [Worker -> 0..(MaxEpoch + 1)]
  BY OpenCount DEF CountInv, TypeOK, GateInv
<1>1. /\ UNCHANGED <<habits, epoch, closing, mpc, tries, saved, opened, forced>>
      /\ \A v \in Worker : v # w => wpc'[v] = wpc[v]
  BY OneThread
<1> DEFINE bump == IF mpc \in {"open", "gate", "closing"} THEN 1 ELSE 0
<1>2. ASSUME sw' \in {"none", "comlog"}, init' \in BOOLEAN, gate' \in Worker \cup {Main},
             cat' \in [Worker -> 0..(MaxEpoch + 1)], UNCHANGED <<cnt, openr, left>>,
             wpc'[w] \in {"lock", "make", "count"} => ~openr[w]
      PROVE  CountInv'
  <2>1. TypeOK'
    BY <1>0, <1>1, <1>2 DEF TypeOK
  <2>2. \A v \in Worker : wpc'[v] \in {"lock", "make", "count"} => ~openr'[v]
    BY <1>1, <1>2 DEF CountInv
  <2>3. Open' = Open
    BY <1>2 DEF Open
  <2> QED BY <1>1, <1>2, <2>1, <2>2, <2>3 DEF CountInv
<1>3. CASE openlog_r(w) \/ writelog(w) \/ closelog_r(w)
  <2>1. UNCHANGED <<sw, init, gate, cat, cnt, openr, left>>
    BY <1>3 DEF openlog_r, writelog, closelog_r, Begin
  <2>2. wpc'[w] \in {"lock", "make", "count"} => ~openr[w]
    BY <1>0, <1>3 DEF openlog_r, Enter, writelog, closelog_r, Goto
  <2> QED BY <1>0, <1>2, <2>1, <2>2 DEF TypeOK
<1>4. CASE Farewell(w) \/ Refused(w) \/ Printed(w)
  <2>1. UNCHANGED <<sw, init, gate, cat, cnt, openr, left>>
    BY <1>4 DEF Farewell, Refused, Printed
  <2>2. wpc'[w] \notin {"lock", "make", "count"}
    BY <1>0, <1>4 DEF Farewell, Refused, Printed, Goto, Return
  <2> QED BY <1>0, <1>2, <2>1, <2>2 DEF TypeOK
<1>5. CASE gethandle(w) \/ TurnOn(w) \/ HasCategory(w)
  <2>1. UNCHANGED <<gate, cat, cnt, openr, left>> /\ sw' \in {sw, "comlog"} /\ init' \in BOOLEAN
    BY <1>0, <1>5 DEF gethandle, TurnOn, HasCategory, TypeOK
  <2>2. wpc'[w] \notin {"lock", "make", "count"}
    BY <1>0, <1>5 DEF gethandle, TurnOn, HasCategory, Goto
  <2> QED BY <1>0, <1>2, <2>1, <2>2 DEF TypeOK
<1>8. CASE openlog_rInside(w) \/ ul_openlog_r(w)
  <2>1. UNCHANGED <<sw, init, gate, cat, cnt, openr, left>>
    BY <1>8 DEF openlog_rInside, ul_openlog_r
  <2>2. wpc'[w] \in {"lock", "make", "count"} => ~openr[w]
    BY <1>0, <1>8 DEF openlog_rInside, ul_openlog_r, Enter, Goto
  <2> QED BY <1>0, <1>2, <2>1, <2>2 DEF TypeOK
<1>6. CASE Lock(w) \/ Make(w)
  <2>1. UNCHANGED <<sw, init, cnt, openr, left>> /\ gate' \in Worker \cup {Main}
    BY <1>0, <1>6 DEF Lock, Make, TypeOK
  <2>2. ~openr[w]
    BY <1>6 DEF Lock, Make, CountInv
  <2>3. cat' \in [Worker -> 0..(MaxEpoch + 1)]
    <3>1. epoch \in 0..(MaxEpoch + 1)
      BY <1>0 DEF TypeOK
    <3>2. cat' = cat \/ cat' = [cat EXCEPT ![w] = epoch]
      BY <1>6 DEF Lock, Make
    <3> QED BY <1>0, <3>1, <3>2
  <2> QED BY <1>0, <1>2, <2>1, <2>2, <2>3 DEF TypeOK
<1>7. CASE Count(w) \/ Uncount(w)
  <2>1. /\ UNCHANGED <<sw, init, cat>> /\ gate' \in Worker \cup {Main}
        /\ openr' \in [Worker -> BOOLEAN] /\ left' \in [Worker -> BOOLEAN]
    BY <1>0, <1>7 DEF Count, Uncount, TypeOK
  <2>2. wpc'[w] \notin {"lock", "make", "count"}
    BY <1>0, <1>7 DEF Count, Uncount, Goto, Return
  <2>3. \A v \in Worker : v # w => openr'[v] = openr[v]
    BY <1>0, <1>7 DEF Count, Uncount
  <2>4. cnt' \in Int /\ cnt' <= Cardinality(Open') + bump
    <3>1. CASE Count(w)
      <4>1. openr[w] # TRUE /\ openr' = [openr EXCEPT ![w] = TRUE] /\ cnt' = cnt + 1
        BY <3>1 DEF Count, CountInv
      <4>2. Cardinality(Open') = Cardinality(Open) + 1
        BY <4>1, OpenChange
      <4> QED BY <1>0, <4>1, <4>2 DEF CountInv
    <3>2. CASE Uncount(w) /\ openr[w]
      <4>1. openr[w] # FALSE /\ openr' = [openr EXCEPT ![w] = FALSE] /\ cnt' = cnt - 1
        BY <3>2 DEF Uncount
      <4>2. Cardinality(Open') = Cardinality(Open) - 1
        <5>1. Cardinality(Open') = Cardinality(Open) + (-1)
          BY <4>1, OpenChange
        <5> QED BY <1>0, <5>1
      <4> QED BY <1>0, <4>1, <4>2 DEF CountInv
    <3>3. CASE Uncount(w) /\ ~openr[w]
      <4>1. openr' = openr /\ cnt' = cnt - 1
        BY <1>0, <3>3 DEF Uncount
      <4>2. Open' = Open
        BY <4>1 DEF Open
      <4> QED BY <1>0, <4>1, <4>2 DEF CountInv
    <3> QED BY <1>7, <3>1, <3>2, <3>3
  <2>5. Cardinality(Open') <= Cardinality(Worker) /\ Cardinality(Open') \in Nat
    <3>1. IsFiniteSet(Open') /\ Cardinality(Open') <= Cardinality(Worker)
      BY ThreadAssumption, FS_Subset DEF Open
    <3> QED BY <3>1, FS_CardinalityType
  <2>6. cnt' <= Cardinality(Worker) + 1
    BY <1>0, <2>4, <2>5
  <2>7. TypeOK'
    BY <1>0, <1>1, <2>1, <2>4, <2>6 DEF TypeOK
  <2>8. \A v \in Worker : wpc'[v] \in {"lock", "make", "count"} => ~openr'[v]
    BY <1>1, <2>2, <2>3 DEF CountInv
  <2> QED BY <1>0, <1>1, <2>4, <2>7, <2>8 DEF CountInv
<1> QED BY <1>3, <1>4, <1>5, <1>6, <1>7, <1>8 DEF Calling

(* A step of a disciplined thread: it prints only while it is counted, and *)
(* the counter follows it.                                                 *)
LEMMA WorkerDisciplined ==
    ASSUME LifeInv, NEW w \in Worker,
           openlog_r(w) \/ writelog(w) \/ closelog_r(w) \/ Calling(w),
           InOrder', ~forced'
    PROVE  ThreadInv' /\ MainInv'
<1>1. /\ UNCHANGED <<habits, epoch, closing, mpc, tries, saved, opened, forced>>
      /\ \A v \in Worker : v # w => wpc'[v] = wpc[v]
  BY OneThread DEF LifeInv
<1>2. ThreadInv /\ MainInv /\ "early" \notin habits /\ "again" \notin habits /\ CountInv /\ GateInv
  BY <1>1 DEF LifeInv, InOrder
<1>3. /\ wpc \in [Worker -> Place] /\ cat \in [Worker -> 0..(MaxEpoch + 1)] /\ epoch \in 1..(MaxEpoch + 1)
      /\ openr \in [Worker -> BOOLEAN] /\ left \in [Worker -> BOOLEAN] /\ cnt \in Int
      /\ Cardinality(Open) \in Nat
  BY <1>2, OpenCount DEF CountInv, GateInv, TypeOK
<1>4. opened \/ mpc = "closed"
  <2>1. CASE openlog_r(w) \/ writelog(w) \/ closelog_r(w)
    BY <1>2, <2>1 DEF openlog_r, writelog, closelog_r, Begin
  <2>2. CASE Calling(w)
    <3>1. wpc[w] # "idle"
      BY <2>2 DEF Calling, Farewell, gethandle, TurnOn, HasCategory, openlog_rInside, ul_openlog_r, Lock,
                  Refused, Make, Count, Printed, Uncount
    <3> QED BY <1>2, <3>1 DEF MainInv
  <2> QED BY <2>1, <2>2
<1>5. /\ wpc[w] \in {"farewell", "uncount"} => openr[w]
      /\ wpc[w] = "print" => openr[w] \/ cat[w] = 0
      /\ wpc[w] \in {"check", "ullog"} => cat[w] = 0
      /\ cat[w] # 0 => openr[w] \/ wpc[w] = "count"
            \/ (left[w] /\ wpc[w] \notin {"handle", "turnon", "category"})
      /\ openr[w] \/ wpc[w] = "count" => cat[w] = epoch
  BY <1>2 DEF ThreadInv
<1>6. /\ \A v \in Worker : v # w => cat'[v] = cat[v] /\ openr'[v] = openr[v] /\ left'[v] = left[v]
      /\ /\ wpc'[w] \in {"farewell", "uncount"} => openr'[w]
         /\ wpc'[w] = "print" => openr'[w] \/ cat'[w] = 0
         /\ wpc'[w] \in {"check", "ullog"} => cat'[w] = 0
         /\ cat'[w] # 0 => openr'[w] \/ wpc'[w] = "count"
               \/ (left'[w] /\ wpc'[w] \notin {"handle", "turnon", "category"})
         /\ openr'[w] \/ wpc'[w] = "count" => cat'[w] = epoch
  <2>1. CASE openlog_r(w)
    <3>1. /\ wpc'[w] \in {"lock", "refused"} /\ wpc[w] = "idle" /\ UNCHANGED <<cat, openr, left>>
      BY <1>3, <2>1 DEF openlog_r, Begin, Enter, Goto
    <3> QED BY <1>5, <3>1
  <2>2. CASE writelog(w)
    <3>1. openr[w] \/ ~left[w]
      BY <1>2, <2>2 DEF writelog, Begin
    <3>2. wpc[w] = "idle" /\ wpc'[w] = "handle" /\ UNCHANGED <<cat, openr, left>>
      BY <1>3, <2>2 DEF writelog, Begin, Goto
    <3> QED BY <1>5, <3>1, <3>2
  <2>3. CASE closelog_r(w)
    <3>1. openr[w] /\ wpc'[w] = "farewell" /\ UNCHANGED <<cat, openr, left>>
      BY <1>3, <2>3 DEF closelog_r, Begin, Goto
    <3> QED BY <1>5, <3>1
  <2>4. CASE Farewell(w)
    <3>1. openr[w] /\ wpc'[w] \in {"handle", "uncount"} /\ UNCHANGED <<cat, openr, left>>
      BY <1>3, <1>5, <2>4 DEF Farewell, Goto
    <3> QED BY <1>5, <3>1
  <2>5. CASE gethandle(w) \/ TurnOn(w)
    <3>1. /\ wpc[w] \in {"handle", "turnon"} /\ wpc'[w] \in {"turnon", "category"}
          /\ UNCHANGED <<cat, openr, left>>
      BY <1>3, <2>5 DEF gethandle, TurnOn, Goto
    <3> QED BY <1>5, <3>1
  <2>12. CASE HasCategory(w)
    <3>1. /\ wpc[w] = "category" /\ UNCHANGED <<cat, openr, left>>
          /\ IF cat[w] = 0 THEN wpc'[w] = "check" ELSE wpc'[w] = "print"
      BY <1>3, <2>12 DEF HasCategory, Goto
    <3> QED BY <1>5, <3>1
  <2>13. CASE openlog_rInside(w) \/ ul_openlog_r(w)
    <3>1. /\ wpc[w] \in {"check", "ullog"} /\ UNCHANGED <<cat, openr, left>>
          /\ wpc'[w] \in {"refused", "lock", "check", "ullog", "print"}
      BY <1>3, <2>13 DEF openlog_rInside, ul_openlog_r, Enter, Goto
    <3> QED BY <1>5, <3>1
  <2>6. CASE Lock(w)
    <3>1. wpc[w] = "lock" /\ wpc'[w] \in {"refused", "make"} /\ UNCHANGED <<cat, openr, left>>
      BY <1>3, <2>6 DEF Lock, Goto
    <3> QED BY <1>5, <3>1
  <2>7. CASE Refused(w)
    <3>1. wpc[w] = "refused" /\ wpc'[w] = "idle" /\ UNCHANGED <<cat, openr, left>>
      BY <1>3, <2>7 DEF Refused, Goto, Return
    <3> QED BY <1>5, <3>1
  <2>8. CASE Make(w)
    <3>1. wpc'[w] = "count" /\ cat' = [cat EXCEPT ![w] = epoch] /\ UNCHANGED <<openr, left>>
      BY <1>3, <2>8 DEF Make, Goto
    <3> QED BY <1>3, <3>1
  <2>9. CASE Count(w)
    <3>1. /\ wpc[w] = "count" /\ wpc'[w] \in {"print", "idle"} /\ UNCHANGED cat
          /\ openr' = [openr EXCEPT ![w] = TRUE] /\ left' = [left EXCEPT ![w] = FALSE]
      BY <1>3, <2>9 DEF Count, Goto, Return
    <3> QED BY <1>3, <1>5, <3>1
  <2>10. CASE Printed(w)
    <3>1. /\ wpc[w] = "print" /\ cat[w] # 0 /\ wpc'[w] \in {"idle", "uncount"}
          /\ UNCHANGED <<cat, openr, left>>
      BY <1>3, <2>10 DEF Printed, Goto, Return
    <3> QED BY <1>5, <3>1
  <2>11. CASE Uncount(w)
    <3>1. /\ wpc'[w] = "idle" /\ UNCHANGED cat
          /\ openr' = [openr EXCEPT ![w] = FALSE] /\ left' = [left EXCEPT ![w] = TRUE]
      BY <1>3, <2>11 DEF Uncount, Goto, Return
    <3> QED BY <1>3, <3>1
  <2> QED BY <2>1, <2>2, <2>3, <2>4, <2>5, <2>6, <2>7, <2>8, <2>9, <2>10, <2>11, <2>12, <2>13
            DEF Calling
<1>7. ThreadInv'
  <2> SUFFICES ASSUME NEW v \in Worker
               PROVE  /\ wpc'[v] \in {"farewell", "uncount"} => openr'[v]
                      /\ wpc'[v] = "print" => openr'[v] \/ cat'[v] = 0
                      /\ wpc'[v] \in {"check", "ullog"} => cat'[v] = 0
                      /\ cat'[v] # 0 => openr'[v] \/ wpc'[v] = "count"
                            \/ (left'[v] /\ wpc'[v] \notin {"handle", "turnon", "category"})
                      /\ openr'[v] \/ wpc'[v] = "count" => cat'[v] = epoch'
    BY DEF ThreadInv
  <2>1. CASE v = w
    BY <1>1, <1>6, <2>1
  <2>2. CASE v # w
    BY <1>1, <1>2, <1>6, <2>2 DEF ThreadInv
  <2> QED BY <2>1, <2>2
<1>8. ASSUME opened, mpc \in {"open", "gate", "closing", "poll"}
      PROVE  cnt' = Cardinality(Open') + IF mpc = "poll" THEN 0 ELSE 1
  <2>0. cnt = Cardinality(Open) + IF mpc = "poll" THEN 0 ELSE 1
    BY <1>2, <1>8 DEF MainInv
  <2>1. CASE Count(w)
    <3>1. openr[w] # TRUE /\ openr' = [openr EXCEPT ![w] = TRUE] /\ cnt' = cnt + 1
      BY <1>2, <2>1 DEF Count, CountInv
    <3>2. Cardinality(Open') = Cardinality(Open) + 1
      BY <1>2, <3>1, OpenChange
    <3> QED BY <1>3, <2>0, <3>1, <3>2
  <2>2. CASE Uncount(w)
    <3>1. openr[w] # FALSE /\ openr' = [openr EXCEPT ![w] = FALSE] /\ cnt' = cnt - 1
      BY <1>5, <2>2 DEF Uncount
    <3>2. Cardinality(Open') = Cardinality(Open) + (-1)
      BY <1>2, <3>1, OpenChange
    <3> QED BY <1>3, <2>0, <3>1, <3>2
  <2>3. CASE UNCHANGED <<cnt, openr>>
    BY <2>0, <2>3 DEF Open
  <2> QED BY <2>1, <2>2, <2>3 DEF openlog_r, writelog, closelog_r, Begin, Calling, Farewell, gethandle,
             TurnOn, HasCategory, openlog_rInside, ul_openlog_r, Lock, Refused, Make, Printed
<1>9. sw' \in {sw, "comlog"}
  BY DEF openlog_r, writelog, closelog_r, Begin, Calling, Farewell, gethandle, TurnOn, HasCategory,
         openlog_rInside, ul_openlog_r, Lock, Refused, Make, Count, Printed, Uncount
<1>10. MainInv'
  BY <1>1, <1>2, <1>4, <1>8, <1>9 DEF MainInv
<1> QED BY <1>7, <1>10

(* A step of the main thread closes the log of a program that is not hasty *)
(* only when every thread inside a call is counted.                        *)
LEMMA MainNull ==
    ASSUME LifeInv, MainThread, InOrder', ~forced', ThreadInv', MainInv', ThreadInv, MainInv, NullInv
    PROVE  NullInv'
<1>1. UNCHANGED <<wpc, cat, openr, left, habits>>
  BY DEF MainThread, OpenLog, OpenRefused, Switch, OpenFails, ResetCount, AddMain, CloseLog, Shut, SubMain,
         Poll, Free, SwitchOff, EndClosing, Restore, vars, wvars
<1>2. mpc = "open" => CloseLog \/ mpc' = mpc
  BY DEF MainThread, OpenLog, OpenRefused, Switch, OpenFails, ResetCount, AddMain, Shut, SubMain,
         Poll, Free, SwitchOff, EndClosing, Restore, vars, mvars
<1>3. ASSUME CloseLog, NEW w \in Worker PROVE "hasty" \in habits \/ wpc[w] = "idle" \/ openr[w]
  BY <1>3 DEF CloseLog, Counted
<1> QED BY <1>1, <1>2, <1>3 DEF NullInv

(* A step of a thread: only a lazy one comes to com_openlog_r's test of the*)
(* switch in gethandle, and only a hasty one finds it off there.           *)
LEMMA WorkerNull ==
    ASSUME LifeInv, NEW w \in Worker,
           openlog_r(w) \/ writelog(w) \/ closelog_r(w) \/ Calling(w),
           InOrder', ~forced', ThreadInv', MainInv', ThreadInv, MainInv, NullInv
    PROVE  NullInv'
<1>1. /\ UNCHANGED <<habits, epoch, closing, mpc, tries, saved, opened, forced>>
      /\ \A v \in Worker : v # w => wpc'[v] = wpc[v]
  BY OneThread DEF LifeInv
<1>2. /\ wpc \in [Worker -> Place] /\ cat \in [Worker -> 0..(MaxEpoch + 1)] /\ epoch \in 1..(MaxEpoch + 1)
      /\ openr \in [Worker -> BOOLEAN] /\ left \in [Worker -> BOOLEAN] /\ sw \in {"none", "comlog"}
      /\ mpc \in Stage /\ "early" \notin habits /\ "again" \notin habits
  BY <1>1 DEF LifeInv, CountInv, GateInv, TypeOK, InOrder
<1>3. \A v \in Worker : v # w => cat'[v] = cat[v] /\ openr'[v] = openr[v]
  BY <1>2 DEF openlog_r, writelog, closelog_r, Begin, Calling, Farewell, gethandle, TurnOn, HasCategory,
         openlog_rInside, ul_openlog_r, Lock, Refused, Make, Count, Printed, Uncount
<1>4. /\ wpc[w] \in {"handle", "turnon", "category"} => openr[w] \/ "lazy" \in habits
      /\ wpc[w] = "check" => "lazy" \in habits
      /\ wpc[w] = "ullog" \/ (wpc[w] = "print" /\ cat[w] = 0) => {"hasty", "lazy"} \subseteq habits
      /\ "hasty" \in habits \/ wpc[w] = "idle" \/ openr[w] \/ mpc = "open"
      /\ openr[w] \/ wpc[w] = "count" => cat[w] # 0
      /\ wpc[w] \in {"check", "ullog"} => ~openr[w]
  BY <1>2 DEF NullInv, ThreadInv
<1> DEFINE Kept == /\ wpc'[w] \in {"handle", "turnon", "category"} => openr'[w] \/ "lazy" \in habits
                   /\ wpc'[w] = "check" => "lazy" \in habits
                   /\ wpc'[w] = "ullog" \/ (wpc'[w] = "print" /\ cat'[w] = 0)
                         => {"hasty", "lazy"} \subseteq habits
                   /\ "hasty" \in habits \/ wpc'[w] = "idle" \/ openr'[w] \/ mpc = "open"
<1>5. CASE openlog_r(w) \/ writelog(w) \/ closelog_r(w)
  <2>1. opened /\ UNCHANGED <<cat, openr, left>>
    BY <1>2, <1>5 DEF openlog_r, writelog, closelog_r, Begin
  <2>2. "hasty" \in habits \/ openr[w] \/ mpc = "open"
    <3>1. "hasty" \in habits \/ openr[w] \/ ~Closing
      BY <1>5 DEF openlog_r, writelog, closelog_r, Begin
    <3> QED BY <1>2, <2>1, <3>1 DEF Closing, MainInv, Stage
  <2>3. wpc'[w] \in {"lock", "refused", "farewell", "handle"}
    BY <1>2, <1>5 DEF openlog_r, writelog, closelog_r, Enter, Goto
  <2>4. wpc'[w] = "handle" => openr[w] \/ "lazy" \in habits
    <3>1. CASE writelog(w)
      BY <1>2, <3>1 DEF writelog, Begin
    <3>2. CASE openlog_r(w) \/ closelog_r(w)
      BY <1>2, <3>2 DEF openlog_r, closelog_r, Enter, Goto
    <3> QED BY <1>5, <3>1, <3>2
  <2>5. Kept
    BY <2>1, <2>2, <2>3, <2>4
  <2> QED BY <1>1, <1>3, <2>5 DEF NullInv
<1>6. CASE Farewell(w) \/ gethandle(w) \/ TurnOn(w) \/ HasCategory(w)
  <2>1. UNCHANGED <<cat, openr>> /\ wpc[w] # "idle"
    BY <1>6 DEF Farewell, gethandle, TurnOn, HasCategory
  <2>2. /\ wpc'[w] \in {"handle", "uncount", "turnon", "category", "check", "print"}
        /\ wpc'[w] = "handle" => wpc[w] = "farewell"
        /\ wpc'[w] \in {"turnon", "category"} => wpc[w] \in {"handle", "turnon"}
        /\ wpc'[w] \in {"check", "print"} => wpc[w] = "category"
        /\ wpc'[w] = "check" => cat[w] = 0
        /\ wpc'[w] = "print" => cat[w] # 0
    BY <1>2, <1>6 DEF Farewell, gethandle, TurnOn, HasCategory, Goto
  <2>3. wpc[w] = "farewell" => openr[w]
    BY DEF ThreadInv
  <2>4. Kept
    BY <1>4, <2>1, <2>2, <2>3
  <2> QED BY <1>1, <1>3, <2>4 DEF NullInv
<1>7. CASE openlog_rInside(w)
  <2>1. /\ UNCHANGED <<cat, openr>> /\ wpc[w] = "check" /\ wpc'[w] \in {"refused", "lock", "ullog"}
        /\ wpc'[w] = "ullog" => sw # "comlog"
    BY <1>2, <1>7 DEF openlog_rInside, Enter, Goto
  <2>2. wpc'[w] = "ullog" => "hasty" \in habits
    BY <1>4, <2>1 DEF MainInv
  <2>3. Kept
    BY <1>4, <2>1, <2>2
  <2> QED BY <1>1, <1>3, <2>3 DEF NullInv
<1>8. CASE ul_openlog_r(w)
  <2>1. UNCHANGED <<cat, openr>> /\ wpc[w] = "ullog" /\ wpc'[w] \in {"check", "print", "refused"}
    BY <1>2, <1>8 DEF ul_openlog_r, Goto
  <2>2. Kept
    BY <1>4, <2>1
  <2> QED BY <1>1, <1>3, <2>2 DEF NullInv
<1>9. CASE Lock(w) \/ Refused(w) \/ Make(w)
  <2>1. UNCHANGED openr /\ wpc'[w] \in {"refused", "make", "count", "idle"} /\ wpc[w] # "idle"
    BY <1>2, <1>9 DEF Lock, Refused, Make, Goto, Return
  <2>2. Kept
    BY <1>4, <2>1
  <2> QED BY <1>1, <1>3, <2>2 DEF NullInv
<1>10. CASE Count(w)
  <2>1. openr'[w] /\ UNCHANGED cat /\ wpc'[w] \in {"print", "idle"} /\ wpc[w] = "count"
    BY <1>2, <1>10 DEF Count, Goto, Return
  <2>2. Kept
    BY <1>4, <2>1
  <2> QED BY <1>1, <1>3, <2>2 DEF NullInv
<1>11. CASE Printed(w)
  <2>1. UNCHANGED <<cat, openr>> /\ wpc'[w] \in {"uncount", "idle"} /\ wpc[w] = "print"
    BY <1>2, <1>11 DEF Printed, Goto, Return
  <2>2. Kept
    BY <1>4, <2>1
  <2> QED BY <1>1, <1>3, <2>2 DEF NullInv
<1>12. CASE Uncount(w)
  <2>1. wpc'[w] = "idle"
    BY <1>2, <1>12 DEF Uncount, Goto, Return
  <2>2. Kept
    BY <2>1
  <2> QED BY <1>1, <1>3, <2>2 DEF NullInv
<1> QED BY <1>5, <1>6, <1>7, <1>8, <1>9, <1>10, <1>11, <1>12 DEF Calling

(* Every step keeps the invariant of the life cycle. *)
LEMMA LifeStep == LifeInv /\ [Next]_vars => LifeInv'
<1> SUFFICES ASSUME LifeInv, [Next]_vars PROVE LifeInv'
  OBVIOUS
<1>0. GateInv' /\ GateInv /\ CountInv
  BY GateStep DEF LifeInv
<1>1. CASE MainThread
  <2>1. ASSUME InOrder', ~forced' PROVE ThreadInv' /\ MainInv' /\ NullInv'
    <3>1. ThreadInv' /\ MainInv'
      BY <1>1, <2>1, MainDisciplined
    <3>2. InOrder /\ ~forced
      <4>1. UNCHANGED habits
        BY <1>1 DEF MainThread, OpenLog, OpenRefused, Switch, OpenFails, ResetCount, AddMain, CloseLog, Shut,
               SubMain, Poll, Free, SwitchOff, EndClosing, Restore, vars
      <4>2. CASE Free
        BY <2>1, <4>1, <4>2, Zenon DEF Free, InOrder
      <4>3. CASE UNCHANGED forced
        BY <2>1, <4>1, <4>3 DEF InOrder
      <4> QED BY <1>1, <4>2, <4>3 DEF MainThread, OpenLog, OpenRefused, Switch, OpenFails, ResetCount, AddMain,
                 CloseLog, Shut, SubMain, Poll, SwitchOff, EndClosing, Restore, vars, mvars
    <3> QED BY <1>1, <2>1, <3>1, <3>2, MainNull DEF LifeInv
  <2> QED BY <1>0, <1>1, <2>1, MainCount DEF LifeInv
<1>2. ASSUME NEW w \in Worker,
             openlog_r(w) \/ writelog(w) \/ closelog_r(w) \/ Calling(w)
      PROVE  LifeInv'
  <2>1. ASSUME InOrder', ~forced' PROVE ThreadInv' /\ MainInv' /\ NullInv'
    <3>1. ThreadInv' /\ MainInv'
      BY <1>2, <2>1, WorkerDisciplined
    <3>2. InOrder /\ ~forced
      BY <1>0, <1>2, <2>1, OneThread DEF InOrder
    <3> QED BY <1>2, <2>1, <3>1, <3>2, WorkerNull DEF LifeInv
  <2> QED BY <1>0, <1>2, <2>1, WorkerCount DEF LifeInv
<1>3. CASE UNCHANGED vars
  <2>1. UNCHANGED <<habits, sw, init, epoch, closing, gate, cnt, mpc, tries, saved, opened, forced, wpc, call,
                    cat, openr, left>>
    BY <1>3 DEF vars, wvars, mvars
  <2>2. CountInv'
    BY <1>0, <2>1 DEF CountInv, TypeOK, Open
  <2>3. InOrder' /\ ~forced' => ThreadInv' /\ MainInv' /\ NullInv'
    BY <2>1 DEF LifeInv, InOrder, ThreadInv, MainInv, NullInv, Open
  <2> QED BY <1>0, <2>2, <2>3 DEF LifeInv
<1>4. ASSUME NEW w \in Worker, UlLog(w) \/ Crashed(w) PROVE LifeInv'
  BY <1>4, <1>3 DEF UlLog, Crashed
<1> QED BY <1>1, <1>2, <1>3, <1>4 DEF Next

(* For any number of logging threads: the counter never exceeds the threads*)
(* it stands for, and unless the program lets threads call early or again, *)
(* or the close gave up waiting, no thread prints through a category that  *)
(* com_closelog freed, and none through NULL unless threads log without    *)
(* com_openlog_r and are not counted while com_closelog runs.              *)
THEOREM LifeAlwaysSafe == Spec => []LifeSafe
<1>1. LifeInv => LifeSafe
  <2> SUFFICES ASSUME LifeInv PROVE LifeSafe
    OBVIOUS
  <2>1. NoPrintThroughFreed
    BY DEF LifeInv, InOrder, ThreadInv, NullInv, NoPrintThroughFreed
  <2> QED BY <2>1 DEF LifeInv, CountInv, LifeSafe
<1> QED BY <1>1, LifeInit, LifeStep, PTL DEF Spec
=============================================================================
