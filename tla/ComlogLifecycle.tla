-------------------------- MODULE ComlogLifecycle --------------------------
(***************************************************************************)
(* Opening and closing comlog while other threads log.  The main thread    *)
(* calls com_openlog and com_closelog; each logging thread calls           *)
(* com_openlog_r, com_writelog (which opens the thread's log by itself the *)
(* first time) and com_closelog_r.  com_closelog frees every category; the *)
(* counter g_close_atomic and the lock and flag of g_closing are there to  *)
(* keep it from freeing one that a thread still prints through.            *)
(*                                                                         *)
(* A category is the epoch it was created in: close_log ends an epoch and  *)
(* frees its categories, so a pointer of an earlier epoch dangles.         *)
(***************************************************************************)
EXTENDS Integers, FiniteSets

CONSTANTS Worker,       \* the logging threads
          Main,         \* the main thread
          HabitSets,    \* what programs do, see below
          MaxTries,     \* seconds com_closelog waits for the counter
          MaxEpoch      \* bound: closes

(* Habits a program may or may not have:                                   *)
(*   "early"   threads call comlog while com_openlog runs, or still have   *)
(*             their log open, or are inside a call, when it begins;       *)
(*   "hasty"   threads that are not counted are inside a call, or begin    *)
(*             one, while com_closelog runs;                               *)
(*   "lazy"    threads log without a com_openlog_r of their own;           *)
(*   "again"   a thread logs after its com_closelog_r.                     *)
ASSUME HabitsAssumption == HabitSets \subseteq SUBSET {"early", "hasty", "lazy", "again"}
ASSUME ThreadAssumption == Main \notin Worker /\ IsFiniteSet(Worker)
ASSUME BoundsAssumption == MaxTries \in Nat /\ MaxEpoch \in Nat

VARIABLES
    habits,     \* those of this program
    sw,         \* __log_switcher__: "none" or "comlog"
    init,       \* g_is_init_log
    epoch,      \* the epoch of the categories in NameMg
    closing,    \* g_closing._cnt
    gate,       \* holder of g_closing._lock: a worker, or nobody (Main)
    cnt,        \* g_close_atomic
    mpc, tries, \* where the main thread is, seconds left
    saved,      \* com_openlog's log_switcher, put back by its error path
    opened,     \* com_openlog returned 0 and the log is not closed
    forced,     \* history: com_closelog gave up waiting for threads
    wpc,        \* where each worker is
    call,       \* the call it is in
    cat,        \* its category, 0 for NULL
    openr,      \* key_open_r is set
    left        \* it called com_closelog_r since it last opened its log

mvars == <<mpc, tries, saved, opened, forced>>
wvars == <<wpc, call, cat, openr, left>>
vars == <<habits, sw, init, epoch, closing, gate, cnt, mvars, wvars>>

Init ==
    /\ habits \in HabitSets
    /\ sw = "none" /\ init = FALSE /\ epoch = 1
    /\ closing = 0 /\ gate = Main /\ cnt = 0
    /\ mpc = "closed" /\ tries = 0 /\ saved = "none" /\ opened = FALSE /\ forced = FALSE
    /\ wpc = [w \in Worker |-> "idle"] /\ call = [w \in Worker |-> "none"]
    /\ cat = [w \in Worker |-> 0] /\ openr = [w \in Worker |-> FALSE]
    /\ left = [w \in Worker |-> FALSE]
-----------------------------------------------------------------------------
(* com_openlog(): refused while comlog is in use; build the root category  *)
(* and its appenders; then switch, reset the counter and count this thread.*)
OpenLog ==
    /\ mpc = "closed" /\ sw = "none" /\ epoch <= MaxEpoch
    /\ "early" \in habits \/ \A w \in Worker : wpc[w] = "idle" /\ ~openr[w]
    /\ init' = TRUE
    /\ mpc' = "built"
    /\ UNCHANGED <<habits, sw, epoch, closing, gate, cnt, tries, saved, opened, forced, wvars>>

\* "Log is open....": it returns -1.
OpenRefused == mpc = "closed" /\ sw = "comlog" /\ UNCHANGED vars

Switch ==
    /\ mpc = "built" /\ sw' = "comlog" /\ mpc' = "switched"
    /\ UNCHANGED <<habits, init, epoch, closing, gate, cnt, tries, saved, opened, forced, wvars>>

\* An appender could not be made: com_closelog(1000) with the switch on.
OpenFails ==
    /\ mpc = "built" /\ saved' = sw /\ sw' = "comlog" /\ mpc' = "failed"
    /\ UNCHANGED <<habits, init, epoch, closing, gate, cnt, tries, opened, forced, wvars>>

ResetCount ==
    /\ mpc = "switched" /\ cnt' = 0 /\ mpc' = "reset"
    /\ UNCHANGED <<habits, sw, init, epoch, closing, gate, tries, saved, opened, forced, wvars>>

AddMain ==
    /\ mpc = "reset" /\ cnt' = cnt + 1 /\ mpc' = "open" /\ opened' = TRUE
    /\ UNCHANGED <<habits, sw, init, epoch, closing, gate, tries, saved, forced, wvars>>

Counted(w) == openr[w] \/ (wpc[w] = "idle" /\ (left[w] \/ cat[w] = 0))

Closing == mpc \in {"gate", "closing", "poll", "freed", "off"}

\* com_closelog() is called; (1) it waits for the lock of g_closing, ...
CloseLog ==
    /\ mpc \in {"open", "failed"} /\ sw = "comlog"
    /\ "hasty" \in habits \/ \A w \in Worker : Counted(w)
    /\ mpc' = "gate"
    /\ UNCHANGED <<habits, sw, init, epoch, closing, gate, cnt, tries, saved, opened, forced, wvars>>

\* ... admits no new threads, waits for queues, uncounts this thread.
Shut ==
    /\ mpc = "gate" /\ gate = Main
    /\ closing' = 1 /\ mpc' = "closing"
    /\ UNCHANGED <<habits, sw, init, epoch, gate, cnt, tries, saved, opened, forced, wvars>>

SubMain ==
    /\ mpc = "closing" /\ cnt' = cnt - 1
    /\ mpc' = "poll" /\ tries' = MaxTries
    /\ UNCHANGED <<habits, sw, init, epoch, closing, gate, saved, opened, forced, wvars>>

\* Mutant: the seconds are not counted.
PollForEver == mpc = "poll" /\ cnt > 0 /\ UNCHANGED vars

\* (3) A second more for the threads that are still counted.
Poll ==
    /\ mpc = "poll" /\ cnt > 0 /\ tries > 0
    /\ tries' = tries - 1
    /\ UNCHANGED <<habits, sw, init, epoch, closing, gate, cnt, mpc, saved, opened, forced, wvars>>

\* Mutant: (4) follows without looking at the counter.
FreeAtOnce ==
    /\ mpc = "poll"
    /\ UNCHANGED forced
    /\ epoch' = epoch + 1 /\ init' = FALSE
    /\ mpc' = "freed"
    /\ UNCHANGED <<habits, sw, closing, gate, cnt, tries, saved, opened, wvars>>

\* (4) close_log() frees the categories.
Free ==
    /\ mpc = "poll" /\ (cnt <= 0 \/ tries = 0)
    /\ forced' = (forced \/ cnt > 0)
    /\ epoch' = epoch + 1 /\ init' = FALSE
    /\ mpc' = "freed"
    /\ UNCHANGED <<habits, sw, closing, gate, cnt, tries, saved, opened, wvars>>

SwitchOff ==
    /\ mpc = "freed" /\ sw' = "none" /\ mpc' = "off"
    /\ UNCHANGED <<habits, init, epoch, closing, gate, cnt, tries, saved, opened, forced, wvars>>

EndClosing ==
    /\ mpc = "off" /\ gate = Main
    /\ closing' = 0 /\ opened' = FALSE
    /\ mpc' = IF opened THEN "closed" ELSE "restore"
    /\ UNCHANGED <<habits, sw, init, epoch, gate, cnt, tries, saved, forced, wvars>>

\* A com_openlog that failed puts the switch back after its com_closelog.
Restore ==
    /\ mpc = "restore" /\ sw' = saved /\ mpc' = "closed"
    /\ UNCHANGED <<habits, init, epoch, closing, gate, cnt, tries, saved, opened, forced, wvars>>

MainThread == OpenLog \/ OpenRefused \/ Switch \/ OpenFails \/ ResetCount \/ AddMain \/ CloseLog
              \/ Shut \/ SubMain \/ Poll \/ Free \/ SwitchOff \/ EndClosing \/ Restore
-----------------------------------------------------------------------------
Goto(w, where) == wpc' = [wpc EXCEPT ![w] = where]
Return(w) == Goto(w, "idle") /\ call' = [call EXCEPT ![w] = "none"]

(* A worker begins a call.  While comlog is not in use all three go to     *)
(* ul_log, which keeps its own data.                                       *)
Begin(w, c) ==
    /\ wpc[w] = "idle" /\ sw = "comlog"
    /\ opened \/ "early" \in habits
    /\ openr[w] \/ ~Closing \/ "hasty" \in habits
    /\ c = "writelog" /\ ~openr[w] => (IF left[w] THEN "again" ELSE "lazy") \in habits
    /\ call' = [call EXCEPT ![w] = c]
    /\ UNCHANGED <<habits, sw, init, epoch, closing, gate, cnt, mvars, cat, openr, left>>

UlLog(w) == wpc[w] = "idle" /\ sw = "none" /\ UNCHANGED vars

\* What com_openlog_r does once the switch was found on: once per thread.
Enter(w) == Goto(w, IF openr[w] THEN "refused" ELSE "lock")

openlog_r(w) == Begin(w, "openlog_r") /\ Enter(w)

writelog(w) == Begin(w, "writelog") /\ Goto(w, "handle")

\* com_closelog_r() does nothing without a com_openlog_r.
closelog_r(w) ==
    /\ Begin(w, "closelog_r")
    /\ openr[w] /\ Goto(w, "farewell")

\* Its entries go to the category only while comlog is still switched on.
Farewell(w) ==
    /\ wpc[w] = "farewell"
    /\ Goto(w, IF sw = "comlog" THEN "handle" ELSE "uncount")
    /\ UNCHANGED <<habits, sw, init, epoch, closing, gate, cnt, mvars, call, cat, openr, left>>

\* gethandle(): finds that comlog was switched off meanwhile, ...
gethandle(w) ==
    /\ wpc[w] = "handle"
    /\ Goto(w, IF sw = "none" THEN "turnon" ELSE "category")
    /\ UNCHANGED <<habits, sw, init, epoch, closing, gate, cnt, mvars, call, cat, openr, left>>

\* ... and switches it on again.
TurnOn(w) ==
    /\ wpc[w] = "turnon" /\ sw' = "comlog" /\ Goto(w, "category")
    /\ UNCHANGED <<habits, init, epoch, closing, gate, cnt, mvars, call, cat, openr, left>>

\* A thread without a category initialises comlog and calls com_openlog_r.
HasCategory(w) ==
    /\ wpc[w] = "category"
    /\ IF cat[w] = 0 THEN init' = TRUE /\ Goto(w, "check") ELSE UNCHANGED init /\ Goto(w, "print")
    /\ UNCHANGED <<habits, sw, epoch, closing, gate, cnt, mvars, call, cat, openr, left>>

\* com_openlog_r() tests the switch by itself, and goes to ul_log if it is off.
openlog_rInside(w) ==
    /\ wpc[w] = "check"
    /\ IF sw = "comlog" THEN Enter(w) ELSE Goto(w, "ullog")
    /\ UNCHANGED <<habits, sw, init, epoch, closing, gate, cnt, mvars, call, cat, openr, left>>

\* ul_openlog_r() comes back if the switch is on again; else it opens a log of
\* ul_log, and gethandle is content although there is still no category.
ul_openlog_r(w) ==
    /\ wpc[w] = "ullog"
    /\ IF sw = "comlog" THEN Goto(w, "check") ELSE Goto(w, "print") \/ Goto(w, "refused")
    /\ UNCHANGED <<habits, sw, init, epoch, closing, gate, cnt, mvars, call, cat, openr, left>>

\* Mutant: the flag is looked at without the lock.
LockNot(w) ==
    /\ wpc[w] = "lock"
    /\ Goto(w, IF closing = 1 THEN "refused" ELSE "make")
    /\ UNCHANGED <<habits, sw, init, epoch, closing, gate, cnt, mvars, call, cat, openr, left>>

\* com_openlog_r takes g_closing._lock and keeps it unless it is refused.
Lock(w) ==
    /\ wpc[w] = "lock" /\ gate = Main
    /\ IF closing = 1 THEN Goto(w, "refused") /\ UNCHANGED gate
       ELSE Goto(w, "make") /\ gate' = w
    /\ UNCHANGED <<habits, sw, init, epoch, closing, cnt, mvars, call, cat, openr, left>>

Refused(w) ==
    /\ wpc[w] = "refused" /\ Return(w)
    /\ UNCHANGED <<habits, sw, init, epoch, closing, gate, cnt, mvars, cat, openr, left>>

\* The thread's category, two entries, the count, the key, the unlock.
Make(w) ==
    /\ wpc[w] = "make"
    /\ cat' = [cat EXCEPT ![w] = epoch]
    /\ Goto(w, "count")
    /\ UNCHANGED <<habits, sw, init, epoch, closing, gate, cnt, mvars, call, openr, left>>

Count(w) ==
    /\ wpc[w] = "count"
    /\ cnt' = cnt + 1
    /\ openr' = [openr EXCEPT ![w] = TRUE] /\ left' = [left EXCEPT ![w] = FALSE]
    /\ gate' = Main
    /\ IF call[w] = "writelog" THEN Goto(w, "print") /\ UNCHANGED call ELSE Return(w)
    /\ UNCHANGED <<habits, sw, init, epoch, closing, mvars, cat>>

\* A print through NULL ends the program; nothing is said of what follows.
Crashed(w) == wpc[w] = "print" /\ cat[w] = 0 /\ UNCHANGED vars

\* Category::print() has ended; com_closelog_r printed its two entries.
Printed(w) ==
    /\ wpc[w] = "print" /\ cat[w] # 0
    /\ IF call[w] = "writelog" THEN Return(w) ELSE Goto(w, "uncount") /\ UNCHANGED call
    /\ UNCHANGED <<habits, sw, init, epoch, closing, gate, cnt, mvars, cat, openr, left>>

\* The category pointer stays as it is.
Uncount(w) ==
    /\ wpc[w] = "uncount"
    /\ cnt' = cnt - 1
    /\ openr' = [openr EXCEPT ![w] = FALSE] /\ left' = [left EXCEPT ![w] = TRUE]
    /\ Return(w)
    /\ UNCHANGED <<habits, sw, init, epoch, closing, gate, mvars, cat>>

Calling(w) == Farewell(w) \/ gethandle(w) \/ TurnOn(w) \/ HasCategory(w)
              \/ openlog_rInside(w) \/ ul_openlog_r(w) \/ Lock(w) \/ Refused(w) \/ Make(w) \/ Count(w)
              \/ Printed(w) \/ Uncount(w)

Next == \/ MainThread
        \/ \E w \in Worker : \/ openlog_r(w) \/ writelog(w) \/ closelog_r(w)
                            \/ UlLog(w) \/ Crashed(w) \/ Calling(w)

Spec == Init /\ [][Next]_vars

(* Threads inside a call go on; the main thread goes on once it has called *)
(* com_openlog or com_closelog; nobody need begin a call.                  *)
FairSpec == /\ Spec /\ WF_vars(MainThread /\ mpc \notin {"closed", "open"}) /\ SF_vars(Shut)
            /\ \A w \in Worker : WF_vars(Calling(w)) /\ SF_vars(Lock(w))
-----------------------------------------------------------------------------
TypeOK ==
    /\ habits \in HabitSets
    /\ sw \in {"none", "comlog"} /\ init \in BOOLEAN
    /\ epoch \in 1..(MaxEpoch + 1) /\ closing \in {0, 1}
    /\ gate \in Worker \cup {Main}
    /\ cnt \in Int /\ cnt <= Cardinality(Worker) + 1
    /\ tries \in 0..MaxTries /\ saved \in {"none", "comlog"} /\ opened \in BOOLEAN /\ forced \in BOOLEAN
    /\ cat \in [Worker -> 0..(MaxEpoch + 1)]
    /\ openr \in [Worker -> BOOLEAN] /\ left \in [Worker -> BOOLEAN]

(* Unless threads call early or again, and as long as every com_closelog   *)
(* saw the counter reach zero, no thread prints through a category that was*)
(* freed: a close waits for each thread counted and admits no new one, also*)
(* when it begins while a thread is on its way to be counted. And a thread *)
(* prints through NULL, because com_openlog_r found comlog switched off    *)
(* after gethandle had found it on, only in a program that is both hasty   *)
(* and lazy: either discipline, opening with com_openlog_r or no uncounted *)
(* calls during a close, is enough.                                        *)
NoPrintThroughFreed ==
    habits \cap {"early", "again"} = {} /\ ~forced =>
        \A w \in Worker : wpc[w] \in {"count", "print"} =>
            cat[w] = epoch \/ (cat[w] = 0 /\ {"hasty", "lazy"} \subseteq habits)

(* Opening, logging and closing keep counter and switch in their ranges,   *)
(* and no thread of a disciplined program uses freed memory.               *)
LifeSafe == TypeOK /\ NoPrintThroughFreed

(* Once com_closelog has begun to close, no further thread is counted, no  *)
(* matter how its com_openlog_r and the close interleave: a waiting close  *)
(* only ever sees the counter fall.                                        *)
NoNewcomer == [][closing = 1 /\ closing' = 1 => cnt' <= cnt]_vars

(* com_closelog ends from its call on, though threads in com_openlog_r take*)
(* the lock it needs twice, and even when threads never close their logs.  *)
CloseEnds == (mpc = "gate") ~> (mpc = "closed")

(* A count of zero means that no other thread is between com_openlog_r and *)
(* com_closelog_r.                                                         *)
ZeroMeansNone ==
    mpc = "poll" /\ cnt <= 0 => \A w \in Worker : ~openr[w]
=============================================================================
