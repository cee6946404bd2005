----------------------------- MODULE UlLogShm -----------------------------
(***************************************************************************)
(* The table in shared memory through which processes that use ul_log show *)
(* name-value pairs to monitors.  Each ul_openlog() claims the slot of the *)
(* process' name, or a free one, under a System V semaphore whose          *)
(* operations carry SEM_UNDO; ul_closelog() gives it back.  A process may  *)
(* die anywhere.  The administration creates and cleans the table without  *)
(* the semaphore.                                                          *)
(*                                                                         *)
(* Null is the string "@NULL@" of an unused entry, Zero the empty string   *)
(* of memory that was never cleaned.                                       *)
(***************************************************************************)
EXTENDS Integers, Sequences, FiniteSets, SequencesExt

CONSTANTS Proc, Name,  \* processes, the names they run under
          Item,        \* names of exported values
          NItems,      \* NAMENUM_INDATA + namenum_inc
          Setups       \* tables and programs, see SetupAssumption

Null == "@NULL@"
Zero == ""

ASSUME NamesAssumption == Name \cap {Null, Zero} = {} /\ Item \cap {Null, Zero} = {}
ASSUME BoundAssumption == NItems \in Nat \ {0}

(* slots: MAX_ATTACH_NUM.  opens: bound, calls of ul_openlog.  values:     *)
(* bound, the greatest value exported.  habits: "crash", processes may die *)
(* while their log is open; "same", two of them may run under one name;    *)
(* "clean", any entry of the table may be cleaned at any time, also that   *)
(* of a process that runs; "shmat", attaching may fail; "early", processes *)
(* may start while the table is being made.                                *)
ASSUME SetupAssumption ==
    \A s \in Setups : /\ s.slots \in Nat \ {0} /\ s.opens \in Nat /\ s.values \in Nat
                      /\ s.habits \subseteq {"crash", "same", "clean", "shmat", "early"}

VARIABLES
    setup,        \* the member of Setups this run is in
    apc,          \* where the administration is
    key,          \* the segment can be found by its key
    ctrl,         \* processname of each slot
    data,         \* item_str of each slot
    cleaning,     \* the slot ul_log_cleanshm found and is cleaning, or 0
    sem,          \* the semaphore, -1 before it exists
    adj,          \* what SEM_UNDO adds to it when each process ends
    pc, name,     \* where each process is, its name
    cp, dp,       \* its ctrl_ptr and data_ptr, 0 for NULL
    mine,         \* names in its item_str; item_loc is the length
    opens,        \* how often this process has opened the log
    opened,       \* calls of ul_openlog so far
    want,         \* history: the value last given to each item by its id: by
                  \* its first ul_log_assign, ul_log_setval or ul_log_addval
    torn,         \* history: slots whose process died between the two halves
                  \* of ul_closeshm
    robbed        \* history: slots whose name ul_log_cleanshm removed while a
                  \* process used them

table == <<key, ctrl, data>>
proc == <<pc, name, cp, dp, mine, opens>>
rest == <<setup, apc, cleaning, opened, want, torn, robbed>>
vars == <<setup, apc, key, ctrl, data, cleaning, sem, adj, proc, opened, want, torn,
          robbed>>

Slot == 1..setup.slots
MaxOpens == setup.opens
MaxValue == setup.values
Empty == [k \in 1..NItems |-> [name |-> Null, value |-> -1]]

Init ==
    /\ setup \in Setups
    /\ apc = "none" /\ key = FALSE /\ cleaning = 0
    /\ ctrl = [s \in Slot |-> Zero]
    /\ data = [s \in Slot |-> [k \in 1..NItems |-> [name |-> Zero, value |-> 0]]]
    /\ sem = -1 /\ adj = [p \in Proc |-> 0]
    /\ pc = [p \in Proc |-> "off"] /\ name = [p \in Proc |-> Zero]
    /\ cp = [p \in Proc |-> 0] /\ dp = [p \in Proc |-> 0]
    /\ mine = [p \in Proc |-> <<>>] /\ opens = [p \in Proc |-> 0]
    /\ opened = 0 /\ want = [p \in Proc |-> [x \in Item |-> 0]]
    /\ torn = {} /\ robbed = {}

Goto(p, where) == pc' = [pc EXCEPT ![p] = where]
-----------------------------------------------------------------------------
(* The administration: ul_log_createshm() and ul_log_cleanshm(NULL, ...)   *)
(* once, then ul_log_cleanshm(n, NULL, false) for any name of the table.   *)
CreateShm ==
    /\ apc = "none" /\ apc' = "semget" /\ key' = TRUE
    /\ UNCHANGED <<setup, ctrl, data, cleaning, sem, adj, proc, opened, want, torn, robbed>>

CreateSem ==
    /\ apc = "semget" /\ apc' = "semop" /\ sem' = 0
    /\ UNCHANGED <<setup, table, cleaning, adj, proc, opened, want, torn, robbed>>

FirstPost ==
    /\ apc = "semop" /\ apc' = "cleanctrl" /\ sem' = sem + 1
    /\ UNCHANGED <<setup, table, cleaning, adj, proc, opened, want, torn, robbed>>

CleanAllCtrl ==
    /\ apc = "cleanctrl" /\ apc' = "cleandata"
    /\ ctrl' = [s \in Slot |-> Null]
    /\ UNCHANGED <<setup, key, data, cleaning, sem, adj, proc, opened, want, torn, robbed>>

CleanAllData ==
    /\ apc = "cleandata" /\ apc' = "done"
    /\ data' = [s \in Slot |-> Empty]
    /\ UNCHANGED <<setup, key, ctrl, cleaning, sem, adj, proc, opened, want, torn, robbed>>

\* A scan of the table stops at the first slot that fits.
First(s, S) == s \in S /\ \A r \in S : s <= r

(* ul_log_cleanshm(n) looks the slot of n up, then frees that slot, then   *)
(* wipes it; without the semaphore, and whoever uses the slot by then.     *)
cleanshm(n) ==
    /\ "clean" \in setup.habits /\ apc = "done" /\ apc' = "free"
    /\ \E s \in Slot : First(s, {r \in Slot : ctrl[r] = n}) /\ cleaning' = s
    /\ UNCHANGED <<setup, table, sem, adj, proc, opened, want, torn, robbed>>

\* A process at "sign" is still to write the name.
Used(s) == \E p \in Proc : cp[p] = s /\ pc[p] # "sign"

CleanCtrl ==
    /\ apc = "free" /\ apc' = "wipe"
    /\ ctrl' = [ctrl EXCEPT ![cleaning] = Null]
    /\ robbed' = IF Used(cleaning) THEN robbed \cup {cleaning} ELSE robbed
    /\ UNCHANGED <<setup, key, data, cleaning, sem, adj, proc, opened, want, torn>>

CleanData ==
    /\ apc = "wipe" /\ apc' = "done" /\ cleaning' = 0
    /\ data' = [data EXCEPT ![cleaning] = Empty]
    /\ torn' = torn \ {cleaning}
    /\ UNCHANGED <<setup, key, ctrl, sem, adj, proc, opened, want, robbed>>

Admin ==
    \/ CreateShm \/ CreateSem \/ FirstPost \/ CleanAllCtrl \/ CleanAllData
    \/ CleanCtrl \/ CleanData

\* The table has been made.
Made == apc \in {"done", "free", "wipe"}

Alive(p) == pc[p] # "off"
-----------------------------------------------------------------------------
(* ul_openlog() calls ul_openshm(), which always returns 0.  The log is    *)
(* open at most once at a time, by the log switch.                         *)
openlog(p, n) ==
    /\ pc[p] = "off" /\ opened < MaxOpens
    /\ Made \/ "early" \in setup.habits
    /\ "same" \in setup.habits \/ \A q \in Proc : Alive(q) => name[q] # n
    /\ opens[p] > 0 => n = name[p]
    /\ opened' = opened + 1
    /\ opens' = [opens EXCEPT ![p] = @ + 1]
    /\ name' = [name EXCEPT ![p] = n]
    /\ Goto(p, "attach")
    /\ UNCHANGED <<setup, apc, table, cleaning, sem, adj, cp, dp, mine, want, torn,
                   robbed>>

\* shmget(), shmat() and semget(); a failing shmat() removes the segment.
Attach(p) ==
    /\ pc[p] = "attach"
    /\ \/ key /\ sem >= 0 /\ Goto(p, "wait") /\ UNCHANGED key
       \/ (~key \/ sem < 0) /\ Goto(p, "open") /\ UNCHANGED key
       \/ key /\ "shmat" \in setup.habits /\ key' = FALSE /\ Goto(p, "open")
    /\ UNCHANGED <<rest, ctrl, data, sem, adj, name, cp, dp, mine, opens>>

\* semop(-1) with SEM_UNDO.
Acquire(p) ==
    /\ pc[p] \in {"wait", "cwait"} /\ sem > 0
    /\ sem' = sem - 1
    /\ adj' = [adj EXCEPT ![p] = @ + 1]
    /\ Goto(p, IF pc[p] = "wait" THEN "claim" ELSE "cctrl")
    /\ UNCHANGED <<rest, table, name, cp, dp, mine, opens>>

Own(p) == {s \in Slot : ctrl[s] = name[p]}
FreeSlots == {s \in Slot : ctrl[s] = Null}

\* Mutant: a free slot is taken first, the process' own name looked for after.
ClaimFreeFirst(p) ==
    /\ pc[p] = "claim"
    /\ \/ \E s \in Slot :
             /\ First(s, IF FreeSlots # {} THEN FreeSlots ELSE Own(p))
             /\ cp' = [cp EXCEPT ![p] = s] /\ dp' = [dp EXCEPT ![p] = s]
             /\ UNCHANGED data
             /\ Goto(p, "sign")
       \/ /\ Own(p) = {} /\ FreeSlots = {}
          /\ Goto(p, "open") /\ UNCHANGED <<data, cp, dp>>
    /\ UNCHANGED <<rest, key, ctrl, sem, adj, name, mine, opens>>

\* Mutant: the items of a process that ended abnormally are left in the slot.
ClaimUncleaned(p) ==
    /\ pc[p] = "claim"
    /\ \/ \E s \in Slot :
             /\ First(s, IF Own(p) # {} THEN Own(p) ELSE FreeSlots)
             /\ cp' = [cp EXCEPT ![p] = s] /\ dp' = [dp EXCEPT ![p] = s]
             /\ UNCHANGED data
             /\ Goto(p, "sign")
       \/ /\ Own(p) = {} /\ FreeSlots = {}
          /\ Goto(p, "open") /\ UNCHANGED <<data, cp, dp>>
    /\ UNCHANGED <<rest, key, ctrl, sem, adj, name, mine, opens>>

(* The slot with the process' own name (it "not normally exit"ed), whose   *)
(* items are wiped, or the first free one, whose items are left as they    *)
(* are.  With neither, ul_openshm() returns and keeps the semaphore.       *)
Claim(p) ==
    /\ pc[p] = "claim"
    /\ \/ \E s \in Slot :
             /\ First(s, IF Own(p) # {} THEN Own(p) ELSE FreeSlots)
             /\ cp' = [cp EXCEPT ![p] = s] /\ dp' = [dp EXCEPT ![p] = s]
             /\ data' = IF Own(p) # {} THEN [data EXCEPT ![s] = Empty] ELSE data
             /\ Goto(p, "sign")
       \/ /\ Own(p) = {} /\ FreeSlots = {}
          /\ Goto(p, "open") /\ UNCHANGED <<data, cp, dp>>
    /\ UNCHANGED <<rest, key, ctrl, sem, adj, name, mine, opens>>

\* The name is written whatever the slot holds by now.
Sign(p) ==
    /\ pc[p] = "sign"
    /\ ctrl' = [ctrl EXCEPT ![cp[p]] = name[p]]
    /\ Goto(p, "post")
    /\ UNCHANGED <<rest, key, data, sem, adj, name, cp, dp, mine, opens>>

\* Mutant: the release is not undone.
PostKeepsUndo(p) ==
    /\ pc[p] \in {"post", "cpost"}
    /\ sem' = sem + 1
    /\ Goto(p, IF pc[p] = "post" THEN "open" ELSE "off")
    /\ UNCHANGED <<rest, table, adj, name, cp, dp, mine, opens>>

\* Mutant: the semaphore is not released on the way out of ul_closeshm.
PostOpenOnly(p) ==
    /\ pc[p] \in {"post", "cpost"}
    /\ IF pc[p] = "post"
       THEN sem' = sem + 1 /\ adj' = [adj EXCEPT ![p] = @ - 1] /\ Goto(p, "open")
       ELSE Goto(p, "off") /\ UNCHANGED <<sem, adj>>
    /\ UNCHANGED <<rest, table, name, cp, dp, mine, opens>>

\* semop(+1), with SEM_UNDO as well.
Post(p) ==
    /\ pc[p] \in {"post", "cpost"}
    /\ sem' = sem + 1
    /\ adj' = [adj EXCEPT ![p] = @ - 1]
    /\ Goto(p, IF pc[p] = "post" THEN "open" ELSE "off")
    /\ UNCHANGED <<rest, table, name, cp, dp, mine, opens>>
-----------------------------------------------------------------------------
\* ul_log_assign(x, 0).
assign(p, x) ==
    /\ pc[p] = "open" /\ dp[p] # 0 /\ Len(mine[p]) < NItems
    /\ mine' = [mine EXCEPT ![p] = Append(@, x)]
    /\ data' = [data EXCEPT ![dp[p]][Len(mine'[p])] = [name |-> x, value |-> 0]]
    /\ want' = IF x \in ToSet(mine[p]) THEN want ELSE [want EXCEPT ![p][x] = 0]
    /\ UNCHANGED <<setup, apc, key, ctrl, cleaning, sem, adj, pc, name, cp, dp, opens,
                   opened, torn, robbed>>

\* ul_log_getid(x): the first place of x in the process' own item_str.
getid(p, x) == Min({k \in 1..Len(mine[p]) : mine[p][k] = x})

Set(p, x, v) ==
    /\ pc[p] = "open" /\ dp[p] # 0 /\ x \in ToSet(mine[p])
    /\ data' = [data EXCEPT ![dp[p]][getid(p, x)].value = v]
    /\ want' = [want EXCEPT ![p][x] = v]
    /\ UNCHANGED <<setup, apc, key, ctrl, cleaning, sem, adj, proc, opened, torn, robbed>>

\* ul_log_setval(ul_log_getid(x), v) and ul_log_addval(ul_log_getid(x), 1).
setval(p, x) == \E v \in 0..MaxValue : Set(p, x, v)
addval(p, x) ==
    /\ dp[p] # 0 /\ x \in ToSet(mine[p])
    /\ LET v == data[dp[p]][getid(p, x)].value IN v \in 0..(MaxValue - 1) /\ Set(p, x, v + 1)
-----------------------------------------------------------------------------
(* ul_closelog() calls ul_closeshm(). *)
closelog(p) ==
    /\ pc[p] = "open"
    /\ Goto(p, IF sem >= 0 THEN "cwait" ELSE "off")
    /\ UNCHANGED <<rest, table, sem, adj, name, cp, dp, mine, opens>>

CloseCtrl(p) ==
    /\ pc[p] = "cctrl"
    /\ ctrl' = IF cp[p] = 0 THEN ctrl ELSE [ctrl EXCEPT ![cp[p]] = Null]
    /\ cp' = [cp EXCEPT ![p] = 0]
    /\ Goto(p, "cdata")
    /\ UNCHANGED <<rest, key, data, sem, adj, name, dp, mine, opens>>

\* Mutant: the slot is freed with its items in it.
CloseDataNot(p) ==
    /\ pc[p] = "cdata"
    /\ dp' = [dp EXCEPT ![p] = 0]
    /\ Goto(p, "cpost")
    /\ UNCHANGED <<rest, table, sem, adj, name, cp, mine, opens>>

CloseData(p) ==
    /\ pc[p] = "cdata"
    /\ data' = IF dp[p] = 0 THEN data ELSE [data EXCEPT ![dp[p]] = Empty]
    /\ dp' = [dp EXCEPT ![p] = 0]
    /\ Goto(p, "cpost")
    /\ UNCHANGED <<rest, key, ctrl, sem, adj, name, cp, mine, opens>>

(* The process ends, in the middle of anything if it crashes; the kernel   *)
(* applies SEM_UNDO.                                                       *)
Die(p) ==
    /\ "crash" \in setup.habits \/ pc[p] = "off"
    /\ opens[p] > 0
    /\ sem' = sem + adj[p] /\ adj' = [adj EXCEPT ![p] = 0]
    /\ torn' = IF pc[p] = "cdata" /\ dp[p] # 0 THEN torn \cup {dp[p]} ELSE torn
    /\ Goto(p, "off") /\ name' = [name EXCEPT ![p] = Zero]
    /\ cp' = [cp EXCEPT ![p] = 0] /\ dp' = [dp EXCEPT ![p] = 0]
    /\ mine' = [mine EXCEPT ![p] = <<>>] /\ opens' = [opens EXCEPT ![p] = 0]
    /\ want' = [want EXCEPT ![p] = [x \in Item |-> 0]]
    /\ UNCHANGED <<setup, apc, table, cleaning, opened, robbed>>

Call(p) ==
    Attach(p) \/ Claim(p) \/ Sign(p) \/ Post(p) \/ CloseCtrl(p) \/ CloseData(p)

\* Every process has ended for good.
Quiet == opened = MaxOpens /\ (\A p \in Proc : opens[p] = 0) /\ UNCHANGED vars

Next ==
    \/ Admin \/ Quiet \/ \E n \in Name : cleanshm(n)
    \/ \E p \in Proc :
          \/ Call(p) \/ Acquire(p) \/ closelog(p) \/ Die(p)
          \/ \E n \in Name : openlog(p, n)
          \/ \E x \in Item : assign(p, x) \/ setval(p, x) \/ addval(p, x)

Spec == Init /\ [][Next]_vars

(* Processes inside a call and the administration are scheduled; semop()   *)
(* serves waiting processes in turn.                                       *)
FairSpec == Spec /\ WF_vars(Admin) /\ \A p \in Proc : WF_vars(Call(p)) /\ SF_vars(Acquire(p))
-----------------------------------------------------------------------------
TypeOK ==
    /\ setup \in Setups
    /\ apc \in {"none", "semget", "semop", "cleanctrl", "cleandata", "done", "free", "wipe"}
    /\ key \in BOOLEAN /\ cleaning \in 0..setup.slots
    /\ ctrl \in [Slot -> Name \cup {Null, Zero}]
    /\ data \in [Slot -> [1..NItems -> [name : Item \cup {Null, Zero}, value : -1..MaxValue]]]
    /\ sem \in -1..1 /\ adj \in [Proc -> {0, 1}]
    /\ pc \in [Proc -> {"off", "attach", "wait", "claim", "sign", "post", "open",
                        "cwait", "cctrl", "cdata", "cpost"}]
    /\ name \in [Proc -> Name \cup {Zero}]
    /\ cp \in [Proc -> 0..setup.slots] /\ dp \in [Proc -> 0..setup.slots]
    /\ mine \in [Proc -> Seq(Item)] /\ opens \in [Proc -> 0..MaxOpens]
    /\ opened \in 0..MaxOpens /\ want \in [Proc -> [Item -> 0..MaxValue]]
    /\ torn \subseteq Slot /\ robbed \subseteq Slot

Inside(p) == pc[p] \in {"claim", "sign", "post", "cctrl", "cdata", "cpost"}

(* However processes end, inside ul_openshm or outside, SEM_UNDO puts back *)
(* exactly what is missing: the semaphore never lets two processes at the  *)
(* table and is never lost.                                                *)
SemKept ==
    /\ \A p, q \in Proc : p # q /\ Inside(p) => adj[q] = 0
    /\ \A p \in Proc : Inside(p) => adj[p] = 1
    /\ apc \notin {"none", "semget", "semop"} =>
          sem = IF \E p \in Proc : adj[p] = 1 THEN 0 ELSE 1

(* A name is in the table once: restarts after a crash and processes that  *)
(* start at the same moment never leave two entries for a monitor to find. *)
UniqueName ==
    \A s, t \in Slot : ctrl[s] = ctrl[t] /\ ctrl[s] \in Name => s = t

(* Processes that do not share a name never export into one slot, except   *)
(* one whose name was removed under a process that used it: looked up while *)
(* nobody did and freed after a restart, or of a process that runs.        *)
Exclusive ==
    setup.habits \cap {"same"} = {} =>
        \A p, q \in Proc : p # q /\ dp[p] # 0 /\ dp[p] \notin robbed => dp[p] # dp[q]

\* No item of an earlier owner is left.
Clean(s) == \A k \in 1..NItems : data[s][k].name \notin Item

(* A free slot is clean, because the next owner does not clean it.  The    *)
(* exceptions: a slot that is being cleaned, one whose owner died between  *)
(* the two halves of ul_closeshm, and one taken from its owner as above.   *)
FreeClean ==
    setup.habits \cap {"same"} = {} =>
        \A s \in Slot :
            /\ ctrl[s] = Null /\ s \notin torn \cup robbed
            /\ ~(apc = "wipe" /\ s = cleaning)
            => Clean(s) \/ \E p \in Proc : pc[p] = "cdata" /\ dp[p] = s

(* A slot of the table belongs to one process, from a clean start to a     *)
(* clean end, however processes crash and restart and whatever is cleaned  *)
(* at the same time; only a cleaning that frees the slot of a process that *)
(* runs by then ends that.                                                 *)
SlotsKept == TypeOK /\ Exclusive /\ FreeClean

\* What ul_log_getval(x) of a monitor reads from slot s.
getval(s, x) == data[s][Min({k \in 1..NItems : data[s][k].name = x})].value

(* A monitor that looks a process up by name finds exactly the items it    *)
(* assigned, each with the value last given to it, also after the process  *)
(* crashed and came back; provided it opened the log once, into a clean    *)
(* slot, after the table was made, and nobody cleans it meanwhile.         *)
Exported ==
    setup.habits \cap {"same", "clean", "early"} = {} /\ torn = {} =>
        \A p \in Proc : pc[p] = "open" /\ opens[p] = 1 /\ dp[p] # 0 =>
            /\ ctrl[dp[p]] = name[p]
            /\ {data[dp[p]][k].name : k \in 1..NItems} \cap Item = ToSet(mine[p])
            /\ \A x \in ToSet(mine[p]) : getval(dp[p], x) = want[p][x]

\* A process that found the table full and went on without releasing.
Keeper(p) == adj[p] = 1 /\ dp[p] = 0 /\ pc[p] \in {"open", "cwait"}

(* No call waits for ever on a process that died or on the administration: *)
(* only on one that found the table full and still runs.                   *)
CallReturns ==
    \A p \in Proc :
        pc[p] \in {"wait", "cwait"} ~>
            (pc[p] \notin {"wait", "cwait"} \/ \E q \in Proc : Keeper(q))
=============================================================================
