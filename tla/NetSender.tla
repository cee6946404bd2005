----------------------------- MODULE NetSender -----------------------------
(***************************************************************************)
(* comlog's network logging: net appenders push entries into the queue of  *)
(* the SendSvr they share; its thread sends them in batches to the first   *)
(* of a list of log servers that answers and writes them to the backup     *)
(* file when none does; the CheckSvr thread reconnects lost servers under  *)
(* _lock, while the sending thread closes sockets without it.              *)
(*                                                                         *)
(* A connection is the number of its connect(); 0 stands for a sock, _id   *)
(* or _now of -1.  An entry is the number of its print().  Every call on a *)
(* socket may fail.  Sizes are in entries: a message has size 1.           *)
(***************************************************************************)
EXTENDS Integers, Sequences, FiniteSets, SequencesExt

CONSTANTS NApp,        \* net appenders of one host list, in address order
          Backed,      \* the appenders with a _bkappender
          NSvr,        \* _svrsiz
          Setups,      \* programs to run, see SetupAssumption
          MaxBatch,    \* MAXREADITEMS
          MaxEntries,  \* bound: prints
          MaxConn      \* bound: connections made; further connect()s fail

ASSUME CountsAssumption == NApp \in Nat \ {0} /\ NSvr \in Nat \ {0}
ASSUME BackedAssumption == Backed \subseteq 1..NApp
ASSUME BufferAssumption == MaxBatch \in Nat \ {0}

(* apps: the appenders the program opens, in its configuration's order;    *)
(* qsize: entries the queue holds.                                         *)
ASSUME SetupAssumption ==
    \A s \in Setups : s.apps \in Seq(1..NApp) /\ s.qsize \in Nat \ {0}
ASSUME BoundsAssumption == MaxEntries \in Nat /\ MaxConn \in Nat

App == 1..NApp
Svr == 1..NSvr
Conn == 1..MaxConn

VARIABLES
    setup,         \* the member of Setups this run is in
    sock, valid,   \* sock and isvalid of each _svrs[j]
    peer,          \* history: the server each connection was made to
    live,          \* the connections not closed
    inapp,         \* _inappender; empty before createServer
    id,            \* the connection whose CREATE gave each appender its _id
    queue,         \* _queue, newest first
    run,           \* _run
    spc,           \* where the sending thread is
    now,           \* _now
    pos, loop,     \* i and loop of synchandle
    nth,           \* j of reopens, pos of close_safe
    after,         \* where close_safe returns to
    batch,         \* _readbuf: entries and their item.size
    cpc, cpos,     \* where the check thread is, j of its _checkalive
    holder,        \* who holds CheckSvr's _lock: "check", "close" or "nobody"
    watched,       \* the SendSvr is in CheckSvr's _servers
    kpc,           \* where com_closelog is
    entries,       \* history: the appender of each entry
    sent,          \* history: what went out, [entry, handle]
    backup,        \* history: what backup files got, [entry, size]
    dropped        \* history: entries freed unwritten

slots == <<sock, valid, peer, live>>
svars == <<spc, now, pos, loop, nth, after, batch>>
cvars == <<cpc, cpos, holder>>
QueueSize == setup.qsize
history == <<sent, backup, dropped>>
vars == <<setup, slots, inapp, id, queue, run, svars, cvars, watched, kpc, entries,
          history>>

Init ==
    /\ setup \in Setups
    /\ sock = [j \in Svr |-> 0] /\ valid = [j \in Svr |-> FALSE]
    /\ peer = <<>> /\ live = {}
    /\ inapp = <<>> /\ id = [a \in App |-> 0]
    /\ queue = <<>> /\ run = 0
    /\ spc = "none" /\ now = 0 /\ pos = 1 /\ loop = 0 /\ nth = 1
    /\ after = "none" /\ batch = <<>>
    /\ cpc = "sleep" /\ cpos = 1 /\ holder = "nobody" /\ watched = FALSE
    /\ kpc = "open" /\ entries = <<>>
    /\ sent = {} /\ backup = {} /\ dropped = {}

\* _lock is free: only the check thread holds it for more than one step.
Unlocked == cpc \in {"sleep", "pass"}
-----------------------------------------------------------------------------
(* _checkalive() by a thread that nobody can interfere with: every slot is *)
(* invalid, they are closed and connected in turn until one answers.       *)
ConnectFirst(j) ==
    /\ Len(peer) < MaxConn
    /\ peer' = Append(peer, j)
    /\ live' = (live \ {sock[l] : l \in 1..j}) \cup {Len(peer')}
    /\ sock' = [l \in Svr |-> IF l < j THEN 0
                              ELSE IF l = j THEN Len(peer') ELSE sock[l]]
    /\ valid' = [valid EXCEPT ![j] = TRUE]

ConnectNone ==
    /\ live' = live \ {sock[l] : l \in Svr}
    /\ sock' = [l \in Svr |-> 0]
    /\ UNCHANGED <<valid, peer>>

\* createServer() for the first appender of the host list.
createServer ==
    /\ inapp = <<>>
    /\ ConnectNone \/ \E j \in Svr : ConnectFirst(j)
    /\ watched' = TRUE /\ run' = 1 /\ spc' = "top"

(* NetAppender::open(NULL): get or create the SendSvr, then registAppender *)
(* under _lock.                                                            *)
open(a) ==
    /\ kpc = "open" /\ Unlocked
    /\ Len(inapp) < Len(setup.apps) /\ a = setup.apps[Len(inapp) + 1]
    /\ \/ createServer
       \/ inapp # <<>> /\ UNCHANGED <<slots, watched, run, spc>>
    /\ inapp' = Append(inapp, a)
    /\ UNCHANGED <<setup, id, queue, now, pos, loop, nth, after, batch, cvars, kpc,
                   entries, history>>

\* To the backup appenders, for the entries whose appender has one.
BackUp(items) ==
    LET kept == {b \in items : entries'[b.entry] \in Backed}
    IN  /\ backup' = backup \cup kept
        /\ dropped' = dropped \cup {b.entry : b \in items \ kept}

Queue == /\ queue' = <<Len(entries')>> \o queue
         /\ UNCHANGED <<backup, dropped>>

(* NetAppender::print(): push() the entry under the queue's mutex; a full  *)
(* queue sends it to the backup appender.  Nothing looks at _run.          *)
print(a) ==
    /\ kpc # "closed" /\ a \in ToSet(inapp) /\ Len(entries) < MaxEntries
    /\ entries' = Append(entries, a)
    /\ IF Len(queue) < QueueSize THEN Queue
       ELSE BackUp({[entry |-> Len(entries'), size |-> 1]}) /\ UNCHANGED queue
    /\ UNCHANGED <<slots, setup, inapp, id, run, svars, cvars, watched, kpc, sent>>
-----------------------------------------------------------------------------
(* The sending thread: NetAppenderSvr::run() until _run is 0. *)

\* The entries of b sorted by appender; within one second in any order.
Sorted(b) ==
    {s \in SetToSeqs(ToSet(b)) :
        \A x, y \in 1..Len(s) : x < y => entries[s[x]] <= entries[s[y]]}

Leave ==
    /\ spc = "top" /\ run = 0
    /\ spc' = "done"
    /\ UNCHANGED <<slots, setup, inapp, id, queue, run, now, pos, loop, nth, after,
                   batch, cvars, watched, kpc, entries, history>>

\* pop_backs() timed out on an empty queue.
Idle ==
    /\ spc = "top" /\ run = 1 /\ queue = <<>>
    /\ UNCHANGED vars

PopBacks ==
    /\ spc = "top" /\ run = 1 /\ queue # <<>>
    /\ LET n == IF MaxBatch < Len(queue) THEN MaxBatch ELSE Len(queue)
           rest == Len(queue) - n
       IN  /\ \E s \in Sorted(SubSeq(queue, rest + 1, Len(queue))) :
                 batch' = [k \in 1..n |-> [entry |-> s[k], size |-> 1]]
           /\ queue' = SubSeq(queue, 1, rest)
    /\ spc' = "sync" /\ pos' = 1 /\ loop' = 0
    /\ UNCHANGED <<slots, setup, inapp, id, run, now, nth, after, cvars, watched, kpc,
                   entries, history>>

\* Call close_safe(j): close the socket and mark the slot; Unset completes it.
Shut(j, next) ==
    /\ live' = live \ {sock[j]}
    /\ valid' = [valid EXCEPT ![j] = FALSE]
    /\ nth' = j
    /\ spc' = "unset" /\ after' = next
    /\ UNCHANGED <<sock, peer>>

Unset ==
    /\ spc = "unset"
    /\ sock' = [sock EXCEPT ![nth] = 0]
    /\ spc' = after /\ after' = "none" /\ nth' = 1
    /\ UNCHANGED <<valid, peer, live, setup, inapp, id, queue, run, now, pos, loop,
                   batch, cvars, watched, kpc, entries, history>>

\* ul_swriteable_ms() says no at any time, yes only for an open socket.
CanWrite(c) == c \in live

(* One round of the loop of synchandle(). *)
Skip ==
    /\ spc = "sync" /\ pos <= NSvr /\ ~valid[pos]
    /\ pos' = pos + 1
    /\ UNCHANGED <<slots, setup, inapp, id, queue, run, spc, now, loop, nth, after,
                   batch, cvars, watched, kpc, entries, history>>

SameServer ==
    /\ spc = "sync" /\ pos <= NSvr /\ valid[pos] /\ pos = now
    /\ \/ /\ CanWrite(sock[pos])
          /\ spc' = "send"
          /\ UNCHANGED <<slots, now, pos, nth, after>>
       \/ /\ Shut(pos, "sync")
          /\ now' = 0 /\ pos' = pos + 1
    /\ UNCHANGED <<setup, inapp, id, queue, run, loop, batch, cvars, watched, kpc,
                   entries, history>>

OtherServer ==
    /\ spc = "sync" /\ pos <= NSvr /\ valid[pos] /\ pos # now
    /\ \/ /\ CanWrite(sock[pos])
          /\ spc' = "reopen" /\ nth' = 1
          /\ UNCHANGED <<slots, pos, after>>
       \/ Shut(pos, "sync") /\ pos' = pos + 1
    /\ UNCHANGED <<setup, inapp, id, queue, run, now, loop, batch, cvars, watched, kpc,
                   entries, history>>

\* reopens(): ask the server for a handle for one appender after another.
Reopen ==
    /\ spc = "reopen" /\ nth <= Len(inapp)
    /\ \/ /\ id' = [id EXCEPT ![inapp[nth]] = sock[pos]]
          /\ nth' = nth + 1
          /\ UNCHANGED <<slots, spc, after, pos>>
       \/ Shut(pos, "sync") /\ pos' = pos + 1 /\ UNCHANGED id
    /\ UNCHANGED <<setup, inapp, queue, run, now, loop, batch, cvars, watched, kpc,
                   entries, history>>

\* Every appender has a handle: the old socket is closed, this one is _now.
Switch ==
    /\ spc = "reopen" /\ nth > Len(inapp)
    /\ \/ now # 0 /\ Shut(now, "send")
       \/ now = 0 /\ spc' = "send" /\ nth' = 1 /\ UNCHANGED <<slots, after>>
    /\ now' = pos
    /\ UNCHANGED <<setup, inapp, id, queue, run, pos, loop, batch, cvars, watched, kpc,
                   entries, history>>

\* Mutant: it goes on until a server answers.
TryForever ==
    /\ spc = "sync" /\ pos > NSvr /\ loop = 0 /\ Unlocked
    /\ \/ (\E j \in Svr : valid[j]) /\ loop' = 1 /\ UNCHANGED slots
       \/ /\ \A j \in Svr : ~valid[j]
          /\ \/ (\E j \in Svr : ConnectFirst(j)) /\ loop' = 1
             \/ ConnectNone /\ loop' = 0
    /\ now' = 0 /\ pos' = 1 /\ spc' = "sync"
    /\ UNCHANGED <<setup, inapp, id, queue, run, nth, after, batch, cvars, watched, kpc,
                   entries, history>>

(* No slot was left: tryalive() under _lock, once. *)
TryAlive ==
    /\ spc = "sync" /\ pos > NSvr /\ loop = 0 /\ Unlocked
    /\ \/ (\E j \in Svr : valid[j]) /\ spc' = "sync" /\ UNCHANGED slots
       \/ /\ \A j \in Svr : ~valid[j]
          /\ \/ (\E j \in Svr : ConnectFirst(j)) /\ spc' = "sync"
             \/ ConnectNone /\ spc' = "fail"
    /\ now' = 0 /\ pos' = 1 /\ loop' = 1
    /\ UNCHANGED <<setup, inapp, id, queue, run, nth, after, batch, cvars, watched, kpc,
                   entries, history>>

GiveUp ==
    /\ spc = "sync" /\ pos > NSvr /\ loop = 1
    /\ now' = 0 /\ spc' = "fail"
    /\ UNCHANGED <<slots, setup, inapp, id, queue, run, pos, loop, nth, after, batch,
                   cvars, watched, kpc, entries, history>>

\* What senddata() makes of _readbuf: the first item of each appender's run
\* gets the size of the whole run.
Grouped ==
    [x \in 1..Len(batch) |->
        LET a == entries[batch[x].entry]
            same == {y \in 1..Len(batch) : entries[batch[y].entry] = a}
        IN  IF \A y \in same : x <= y
            THEN [batch[x] EXCEPT !.size = Cardinality(same)] ELSE batch[x]]

(* senddata(): one writev of the batch, each item with its appender's _id. *)
SendData ==
    /\ spc = "send"
    /\ \/ /\ CanWrite(sock[now])
          /\ sent' = sent \cup
                {[entry |-> b.entry, handle |-> id[entries[b.entry]]] : b \in ToSet(batch)}
          /\ batch' = <<>>      \* erasedata
          /\ spc' = "top"
          /\ UNCHANGED <<slots, now, nth, after>>
       \/ /\ Shut(now, "fail")
          /\ now' = 0
          /\ batch' = Grouped
          /\ UNCHANGED sent
    /\ UNCHANGED <<setup, inapp, id, queue, run, pos, loop, cvars, watched, kpc, entries,
                   backup, dropped>>

\* Mutant: the batch is freed without being written.
FailSilent ==
    /\ spc = "fail"
    /\ batch' = <<>> /\ spc' = "top"
    /\ UNCHANGED <<slots, setup, inapp, id, queue, run, now, pos, loop, nth, after, cvars,
                   watched, kpc, entries, history>>

(* The fail label of run(): the batch goes to the backup appenders. *)
Fail ==
    /\ spc = "fail"
    /\ UNCHANGED <<slots, setup, inapp, id, queue, run, now, pos, loop, nth, after, cvars,
                   watched, kpc, entries, sent>>
    /\ BackUp(ToSet(batch))
    /\ batch' = <<>> /\ spc' = "top"

Sender == Leave \/ Idle \/ PopBacks \/ Unset \/ Skip \/ SameServer \/ OtherServer
          \/ Reopen \/ Switch \/ TryAlive \/ GiveUp \/ SendData \/ Fail
-----------------------------------------------------------------------------
(* The check thread, which the first createServer starts: a pass of check()*)
(* is made under CheckSvr's _lock, checkalive() under the SendSvr's too.   *)
CheckTake ==
    /\ cpc = "sleep" /\ watched /\ holder = "nobody"
    /\ holder' = "check" /\ cpc' = "pass"
    /\ UNCHANGED <<slots, setup, inapp, id, queue, run, svars, cpos, watched, kpc, entries,
                   history>>

\* No server is registered.
CheckIdle ==
    /\ cpc = "sleep" /\ ~watched /\ inapp # <<>> /\ holder = "nobody"
    /\ UNCHANGED vars

CheckStart ==
    /\ cpc = "pass"
    /\ cpc' = "look" /\ cpos' = 1
    /\ UNCHANGED <<slots, setup, inapp, id, queue, run, svars, holder, watched, kpc,
                   entries, history>>

\* Both locks are released on the way out; it sleeps 10 s.
PassEnds == cpc' = "sleep" /\ cpos' = 1 /\ holder' = "nobody"

\* Mutant: a valid slot is connected anew as well.
CheckLookAll ==
    /\ cpc = "look"
    /\ IF cpos > NSvr
       THEN PassEnds /\ UNCHANGED live
       ELSE cpc' = "clear" /\ live' = live \ {sock[cpos]} /\ UNCHANGED <<cpos, holder>>
    /\ UNCHANGED <<sock, valid, peer, setup, inapp, id, queue, run, svars, watched, kpc,
                   entries, history>>

\* The first valid slot ends the pass and is left alone.
CheckLook ==
    /\ cpc = "look"
    /\ IF cpos > NSvr \/ valid[cpos]
       THEN PassEnds /\ UNCHANGED live
       ELSE cpc' = "clear" /\ live' = live \ {sock[cpos]} /\ UNCHANGED <<cpos, holder>>
    /\ UNCHANGED <<sock, valid, peer, setup, inapp, id, queue, run, svars, watched, kpc,
                   entries, history>>

CheckClear ==
    /\ cpc = "clear"
    /\ sock' = [sock EXCEPT ![cpos] = 0]
    /\ cpc' = "connect"
    /\ UNCHANGED <<valid, peer, live, cpos, setup, inapp, id, queue, run, svars, holder,
                   watched, kpc, entries, history>>

CheckConnect ==
    /\ cpc = "connect"
    /\ \/ /\ Len(peer) < MaxConn
          /\ peer' = Append(peer, cpos) /\ live' = live \cup {Len(peer')}
          /\ sock' = [sock EXCEPT ![cpos] = Len(peer')]
       \/ sock' = [sock EXCEPT ![cpos] = 0] /\ UNCHANGED <<peer, live>>
    /\ cpc' = "test"
    /\ UNCHANGED <<valid, cpos, setup, inapp, id, queue, run, svars, holder, watched, kpc,
                   entries, history>>

CheckTest ==
    /\ cpc = "test"
    /\ IF sock[cpos] > 0
       THEN PassEnds /\ valid' = [valid EXCEPT ![cpos] = TRUE]
       ELSE cpc' = "look" /\ cpos' = cpos + 1 /\ UNCHANGED <<valid, holder>>
    /\ UNCHANGED <<sock, peer, live, setup, inapp, id, queue, run, svars, watched, kpc,
                   entries, history>>

Checker == CheckTake \/ CheckIdle \/ CheckStart \/ CheckLook \/ CheckClear \/ CheckConnect
           \/ CheckTest
-----------------------------------------------------------------------------
(* com_closelog(): com_wait_close calls checkOver, unless it must not wait,*)
(* and clear, each of which takes CheckSvr's _lock; then com_close_appender*)
(* and close_log.                                                          *)
WaitClose ==
    /\ kpc = "open" /\ inapp # <<>>
    /\ kpc' \in {"wait", "clear"}
    /\ UNCHANGED <<slots, setup, inapp, id, queue, run, svars, cvars, watched, entries,
                   history>>

checkOver ==
    /\ kpc = "wait" /\ holder = "nobody"
    /\ holder' = "close" /\ kpc' = "over"
    /\ UNCHANGED <<slots, setup, inapp, id, queue, run, svars, cpc, cpos, watched, entries,
                   history>>

\* Mutant: checkOver returns without unlocking.
OverLocked ==
    /\ kpc = "over" /\ kpc' = "clear"
    /\ UNCHANGED <<slots, setup, inapp, id, queue, run, svars, cvars, watched, entries,
                   history>>

\* It returns when it saw an empty queue or when waittime is over.
Over ==
    /\ kpc = "over"
    /\ holder' = "nobody" /\ kpc' = "clear"
    /\ UNCHANGED <<slots, setup, inapp, id, queue, run, svars, cpc, cpos, watched, entries,
                   history>>

\* clear(): from here on the check thread leaves the SendSvr alone.
Clear ==
    /\ kpc = "clear" /\ holder = "nobody"
    /\ watched' = FALSE /\ kpc' = "stop"
    /\ UNCHANGED <<slots, setup, inapp, id, queue, run, svars, cvars, entries, history>>

\* SendSvr::stop() sets _run under the queue's mutex and joins the thread.
Stop ==
    /\ kpc = "stop" /\ run' = 0 /\ kpc' = "join"
    /\ UNCHANGED <<slots, setup, inapp, id, queue, svars, cvars, watched, entries, history>>

Join ==
    /\ kpc = "join" /\ spc = "done"
    /\ kpc' = "stopped"
    /\ UNCHANGED <<slots, setup, inapp, id, queue, run, svars, cvars, watched, entries,
                   history>>

\* ~SendSvr(): close the sockets, free what is still queued.
Destroy ==
    /\ kpc = "stopped"
    /\ live' = live \ {sock[j] : j \in Svr}
    /\ sock' = [j \in Svr |-> 0] /\ valid' = [j \in Svr |-> FALSE]
    /\ dropped' = dropped \cup ToSet(queue) /\ queue' = <<>>
    /\ kpc' = "closed"
    /\ UNCHANGED <<peer, setup, inapp, id, run, svars, cvars, watched, entries, sent,
                   backup>>

Closing == checkOver \/ Over \/ Clear \/ Stop \/ Join \/ Destroy

Next == (\E a \in App : open(a) \/ print(a)) \/ Sender \/ Checker \/ WaitClose \/ Closing

Spec == Init /\ [][Next]_vars

(* The sending and the check thread are scheduled, every socket call       *)
(* returns within its timeout, and a com_closelog() that was called goes   *)
(* on; nothing obliges a program to open, print or close.  The check       *)
(* thread sleeps 10 s without a lock after each pass, so a sender waiting  *)
(* in tryalive() and a close waiting in checkOver() or clear() get theirs: *)
(* strong fairness, which is weak fairness at every other step of these    *)
(* threads.                                                                *)
FairSpec == Spec /\ WF_vars(Checker) /\ SF_vars(Sender) /\ SF_vars(Closing)
-----------------------------------------------------------------------------
TypeOK ==
    /\ setup \in Setups
    /\ sock \in [Svr -> 0..MaxConn] /\ valid \in [Svr -> BOOLEAN]
    /\ peer \in Seq(Svr) /\ Len(peer) <= MaxConn /\ live \subseteq 1..Len(peer)
    /\ inapp \in Seq(App) /\ id \in [App -> 0..MaxConn]
    /\ queue \in Seq(Nat \ {0}) /\ Len(queue) <= QueueSize /\ run \in {0, 1}
    /\ spc \in {"none", "top", "sync", "reopen", "send", "unset", "fail", "done"}
    /\ now \in 0..NSvr /\ pos \in 1..(NSvr + 1) /\ loop \in {0, 1}
    /\ nth \in Nat \ {0} /\ after \in {"none", "sync", "send", "fail"}
    /\ batch \in Seq([entry : Nat, size : Nat]) /\ Len(batch) <= MaxBatch
    /\ cpc \in {"sleep", "pass", "look", "clear", "connect", "test"}
    /\ cpos \in 1..(NSvr + 1) /\ holder \in {"nobody", "check", "close"}
    /\ watched \in BOOLEAN
    /\ kpc \in {"open", "wait", "over", "clear", "stop", "join", "stopped", "closed"}
    /\ entries \in Seq(App)
    /\ dropped \subseteq Nat

(* The check thread and the sending thread do not fight over the socket in *)
(* use: while the sender asks a server for handles or is about to write to *)
(* _now, that slot is valid and its socket open and its own, although only *)
(* the check thread's side takes _lock.                                    *)
SocketStable ==
    /\ spc = "reopen" => valid[pos] /\ sock[pos] \in live /\ peer[sock[pos]] = pos
    /\ spc = "send" => valid[now] /\ sock[now] \in live /\ peer[sock[now]] = now

QueuedNow == ToSet(queue)
InBatch == {b.entry : b \in ToSet(batch)}
Sent == {s.entry : s \in sent}
BackedUp == {b.entry : b \in backup}

(* Every entry is in exactly one place: queued, in the batch, sent whole,  *)
(* in a backup file, or freed.  Failover, reconnection and closing neither *)
(* repeat one nor lose one: before the destructor only an entry that has   *)
(* no backup appender is freed unwritten.                                  *)
EachOnce ==
    /\ kpc # "closed" => \A e \in dropped : entries[e] \notin Backed
    /\ \A e \in 1..Len(entries) :
        Cardinality({place \in {"queue", "batch", "sent", "backup", "dropped"} :
            e \in CASE place = "queue" -> QueuedNow [] place = "batch" -> InBatch
                    [] place = "sent" -> Sent [] place = "backup" -> BackedUp
                    [] OTHER -> dropped}) = 1

(* Whatever servers and sockets do, each entry has one well-formed place.  *)
EntriesPlaced == TypeOK /\ EachOnce

Waiting == 1..Len(entries) \ (Sent \cup BackedUp \cup dropped)

(* An accepted entry is sent, backed up or freed in the end: no failing    *)
(* server, no race with the check thread and no close leaves it waiting.   *)
(* There are MaxEntries prints: to settle each is to settle all some day.  *)
EntrySettled == (Waiting # {}) ~> (Waiting = {})

(* com_closelog() comes to its end: neither CheckSvr's lock, which it takes*)
(* twice while the check thread takes it for every pass and waits inside it*)
(* for _lock, nor the join of a sending thread that may wait for _lock     *)
(* blocks it for good.                                                     *)
CloseEnds == (kpc \in {"wait", "clear"}) ~> (kpc = "closed")

(* "It cannot be -1": an item goes out with a handle.                      *)
HandleSet == \A s \in sent : s.handle # 0

(* What a failed send writes to disk is the entry: its own length of it.   *)
BackupExact == \A b \in backup : b.size = 1
=============================================================================
