----------------------------- MODULE TickServer -----------------------------
(***************************************************************************)
(* The tick relay: one server thread reads packets from a non-blocking UDP *)
(* socket through a rio buffer and deals them in turn to worker threads,   *)
(* each with its own queue, mutex and notify pipe; a worker that reads a   *)
(* byte from its pipe takes one item off its queue and sends it to QBus.   *)
(*                                                                         *)
(* A datagram is a sequence of 4-byte cells: the header (the length of     *)
(* what follows it), the opcode, the body.  The sender may get any of it   *)
(* wrong.  Cell <<d, k>> is the k-th cell of the d-th datagram received,   *)
(* so an item shows which datagrams its parts come from.  Lengths are in   *)
(* cells: COMMAND_HEADER_LENGTH and COMMAND_CODE_LENGTH are 1.             *)
(***************************************************************************)
EXTENDS Integers, Sequences, FiniteSets, SequencesExt

CONSTANTS NThreads,      \* TICK_THREAD_NUM
          Datagrams,     \* the datagrams a client may send
          Traffic,       \* the sequences in which they may arrive
          PipeCap,       \* bytes a notify pipe holds
          SockBuf,       \* datagrams the socket buffer holds
          MaxDatagrams,  \* bound: datagrams received
          Nil            \* no item

ASSUME NThreadsAssumption == NThreads \in Nat \ {0}
ASSUME PipeAssumption == PipeCap \in Nat \ {0}
ASSUME SockAssumption == SockBuf \in Nat \ {0} /\ MaxDatagrams \in Nat
ASSUME DatagramsAssumption == Datagrams \subseteq Seq(Nat)

Thread == 0..(NThreads - 1)

VARIABLES
    arrived,        \* history: every datagram received
    socket,         \* the datagrams (their numbers) in the socket buffer
    spc,            \* where the server thread is
    rio,            \* unread cells of the datagram in the rio buffer
    need, got,      \* cells asked of the running rio_readnb, cells it has
    header, code,   \* the cells header_len_ and r_opcode_ were read from
    item,           \* the TickItem being dispatched
    last_thread,
    q,              \* conn_queue_ of each worker
    pipe,           \* bytes in each notify pipe
    tpc, ti,        \* where each worker is, the item it holds
    sent,           \* history: items each worker's send() accepted
    failed          \* history: items it refused

rvars == <<socket, rio, need, got, header, code>>
tvars == <<tpc, ti, sent, failed>>
vars == <<arrived, rvars, spc, item, last_thread, q, pipe, tvars>>

Cells(d) == [k \in 1..Len(arrived[d]) |-> <<d, k>>]
ValueOf(cell) == arrived[cell[1]][cell[2]]

Init ==
    /\ arrived = <<>> /\ socket = <<>>
    /\ spc = "poll" /\ rio = <<>> /\ need = 0 /\ got = <<>>
    /\ header = Nil /\ code = Nil /\ item = Nil
    /\ last_thread = 0
    /\ q = [t \in Thread |-> <<>>]
    /\ pipe = [t \in Thread |-> 0]
    /\ tpc = [t \in Thread |-> "poll"] /\ ti = [t \in Thread |-> Nil]
    /\ sent = [t \in Thread |-> <<>>] /\ failed = [t \in Thread |-> <<>>]

\* A datagram reaches the socket; one that finds its buffer full is lost.
Arrive(dg) ==
    /\ Len(arrived) < MaxDatagrams /\ Len(socket) < SockBuf
    /\ Append(arrived, dg) \in Traffic
    /\ arrived' = Append(arrived, dg)
    /\ socket' = Append(socket, Len(arrived'))
    /\ UNCHANGED <<spc, rio, need, got, header, code, item, last_thread, q, pipe, tvars>>
-----------------------------------------------------------------------------
(* RunProcess of the server. *)

\* `continue' after a bad status.
NextEvent(rest) ==
    /\ spc' = "poll" /\ rio' = rest /\ need' = 0 /\ got' = <<>>
    /\ header' = Nil /\ code' = Nil

Ask(stage, n) == spc' = stage /\ need' = n /\ got' = <<>>

\* Mutant: the rio buffer is initialised once, not for every event.
PollKeepsRio ==
    /\ spc = "poll" /\ socket # <<>>
    /\ Ask("header", 1)
    /\ UNCHANGED <<arrived, socket, rio, header, code, item, last_thread, q, pipe, tvars>>

\* TickPoll reports the socket readable; rio_readinitb drops what the last
\* event left in the buffer.
Poll ==
    /\ spc = "poll" /\ socket # <<>>
    /\ Ask("header", 1)
    /\ rio' = <<>>
    /\ UNCHANGED <<arrived, socket, header, code, item, last_thread, q, pipe, tvars>>

\* TickReadHeader, TickReadCode and TickReadPacket once rio_readnb returned
\* `cells' and left `rest' in its buffer; TickReadPacket refuses a length below
\* 4 bytes before it reads, and a packet without a body after.
HeaderRead(cells, rest) ==
    /\ spc = "header"
    /\ IF cells = <<>> THEN NextEvent(rest)
       ELSE Ask("code", 1) /\ rio' = rest /\ header' = cells[1] /\ code' = Nil
    /\ UNCHANGED item

CodeRead(cells, rest) ==
    /\ spc = "code"
    /\ IF cells = <<>> \/ ValueOf(header) <= 1 THEN NextEvent(rest)
       ELSE Ask("packet", ValueOf(header) - 1) /\ rio' = rest
            /\ code' = cells[1] /\ UNCHANGED header
    /\ UNCHANGED item

\* BuildObuf recomputes the length from the cells really read.
PacketRead(cells, rest) ==
    /\ spc = "packet"
    /\ IF cells = <<>> THEN NextEvent(rest) /\ UNCHANGED item
       ELSE /\ spc' = "push" /\ rio' = rest /\ need' = 0 /\ got' = <<>>
            /\ item' = [hdr |-> header, code |-> code, body |-> cells]
            /\ header' = Nil /\ code' = Nil

Returned(cells, rest) ==
    HeaderRead(cells, rest) \/ CodeRead(cells, rest) \/ PacketRead(cells, rest)

Reading == spc \in {"header", "code", "packet"}

\* One rio_read: from the buffer, else from the next datagram.
Chunk == IF rio # <<>> THEN rio ELSE Cells(Head(socket))

ReadMore ==
    /\ Reading /\ (rio # <<>> \/ socket # <<>>)
    /\ Chunk # <<>>
    /\ LET n == IF need - Len(got) < Len(Chunk) THEN need - Len(got) ELSE Len(Chunk)
           cells == got \o SubSeq(Chunk, 1, n)
           rest == SubSeq(Chunk, n + 1, Len(Chunk))
       IN  \/ Len(cells) = need /\ Returned(cells, rest)
           \/ /\ Len(cells) < need
              /\ got' = cells /\ rio' = rest
              /\ UNCHANGED <<spc, need, header, code, item>>
    /\ socket' = IF rio # <<>> THEN socket ELSE Tail(socket)
    /\ UNCHANGED <<arrived, last_thread, q, pipe, tvars>>

\* An empty datagram reads as end of file: rio_readnb returns what it has.
ReadEmpty ==
    /\ Reading /\ rio = <<>> /\ socket # <<>>
    /\ Cells(Head(socket)) = <<>>
    /\ socket' = Tail(socket)
    /\ Returned(got, <<>>)
    /\ UNCHANGED <<arrived, last_thread, q, pipe, tvars>>

\* EAGAIN on the non-blocking socket: IOError, the cells read are dropped.
ReadAgain ==
    /\ Reading /\ rio = <<>> /\ socket = <<>>
    /\ NextEvent(<<>>)
    /\ UNCHANGED <<arrived, socket, item, last_thread, q, pipe, tvars>>

\* Mutant: the newest item is put first.
PushFirst ==
    /\ spc = "push"
    /\ q' = [q EXCEPT ![last_thread] = <<item>> \o @]
    /\ spc' = "notify"
    /\ UNCHANGED <<arrived, rvars, item, last_thread, pipe, tvars>>

Push ==
    /\ spc = "push"
    /\ q' = [q EXCEPT ![last_thread] = Append(@, item)]
    /\ spc' = "notify"
    /\ UNCHANGED <<arrived, rvars, item, last_thread, pipe, tvars>>

\* Mutant: every byte goes to the same worker's pipe.
NotifyFirst ==
    /\ spc = "notify" /\ pipe[0] < PipeCap
    /\ pipe' = [pipe EXCEPT ![0] = @ + 1]
    /\ last_thread' = (last_thread + 1) % NThreads
    /\ spc' = "poll" /\ item' = Nil
    /\ UNCHANGED <<arrived, rvars, q, tvars>>

\* Mutant: a non-blocking pipe; a full one only leaves the turn unchanged.
NotifyNonBlocking ==
    /\ spc = "notify"
    /\ IF pipe[last_thread] < PipeCap
       THEN /\ pipe' = [pipe EXCEPT ![last_thread] = @ + 1]
            /\ last_thread' = (last_thread + 1) % NThreads
       ELSE UNCHANGED <<pipe, last_thread>>
    /\ spc' = "poll" /\ item' = Nil
    /\ UNCHANGED <<arrived, rvars, q, tvars>>

\* write() of one byte: blocks while the pipe is full.
Notify ==
    /\ spc = "notify" /\ pipe[last_thread] < PipeCap
    /\ pipe' = [pipe EXCEPT ![last_thread] = @ + 1]
    /\ last_thread' = (last_thread + 1) % NThreads
    /\ spc' = "poll" /\ item' = Nil
    /\ UNCHANGED <<arrived, rvars, q, tvars>>

Server == Poll \/ ReadMore \/ ReadEmpty \/ ReadAgain \/ Push \/ Notify
-----------------------------------------------------------------------------
(* RunProcess of worker t. *)

ReadByte(t) ==
    /\ tpc[t] = "poll" /\ pipe[t] > 0
    /\ pipe' = [pipe EXCEPT ![t] = @ - 1]
    /\ tpc' = [tpc EXCEPT ![t] = "pop"]
    /\ UNCHANGED <<arrived, rvars, spc, item, last_thread, q, ti, sent, failed>>

\* Mutant: the item is looked at and only removed after it was sent.
PopLate(t) ==
    /\ tpc[t] = "pop" /\ q[t] # <<>>
    /\ ti' = [ti EXCEPT ![t] = Head(q[t])]
    /\ tpc' = [tpc EXCEPT ![t] = "send"]
    /\ UNCHANGED <<arrived, rvars, spc, item, last_thread, q, pipe, sent, failed>>

\* front() and pop() under the worker's mutex; undefined on an empty queue.
Pop(t) ==
    /\ tpc[t] = "pop" /\ q[t] # <<>>
    /\ ti' = [ti EXCEPT ![t] = Head(q[t])]
    /\ q' = [q EXCEPT ![t] = Tail(@)]
    /\ tpc' = [tpc EXCEPT ![t] = "send"]
    /\ UNCHANGED <<arrived, rvars, spc, item, last_thread, pipe, sent, failed>>

\* SendMessage, whose result RunProcess ignores, and delete of the item.
Send(t) ==
    /\ tpc[t] = "send"
    /\ \/ sent' = [sent EXCEPT ![t] = Append(@, ti[t])] /\ UNCHANGED failed
       \/ failed' = [failed EXCEPT ![t] = Append(@, ti[t])] /\ UNCHANGED sent
    /\ ti' = [ti EXCEPT ![t] = Nil]
    /\ tpc' = [tpc EXCEPT ![t] = "poll"]
    /\ UNCHANGED <<arrived, rvars, spc, item, last_thread, q, pipe>>

Worker(t) == ReadByte(t) \/ Pop(t) \/ Send(t)

\* Server and workers sit in TickPoll, whose 1 s timeout finds nothing to do.
PollTimeout ==
    /\ spc = "poll" /\ socket = <<>>
    /\ \A t \in Thread : tpc[t] = "poll" /\ pipe[t] = 0
    /\ UNCHANGED vars

Next == Server \/ PollTimeout \/ (\E dg \in Datagrams : Arrive(dg)) \/ (\E t \in Thread : Worker(t))

Spec == Init /\ [][Next]_vars

(* The server thread and each worker are threads of their own that the     *)
(* scheduler runs; send() returns (it has a timeout); clients owe nothing. *)
FairSpec == Spec /\ WF_vars(Server) /\ \A t \in Thread : WF_vars(Worker(t))
-----------------------------------------------------------------------------
\* The cells received so far, and the items made of them.
Cell == {c \in (1..Len(arrived)) \X Nat : c[2] \in 1..Len(arrived[c[1]])}
Item == [hdr : Cell, code : Cell, body : Seq(Cell)]

TypeOK ==
    /\ arrived \in Seq(Datagrams) /\ socket \in Seq(1..Len(arrived))
    /\ spc \in {"poll", "header", "code", "packet", "push", "notify"}
    /\ rio \in Seq(Cell)
    /\ need \in Nat /\ got \in Seq(Cell) /\ Len(got) <= need
    /\ spc \in {"code", "packet"} => header \in Cell
    /\ spc = "packet" => code \in Cell
    /\ spc \in {"push", "notify"} => item \in Item
    /\ last_thread \in Thread
    /\ q \in [Thread -> Seq(Item)]
    /\ pipe \in [Thread -> 0..PipeCap]
    /\ tpc \in [Thread -> {"poll", "pop", "send"}]
    /\ ti \in [Thread -> Item \cup {Nil}]
    /\ \A t \in Thread : tpc[t] = "send" => ti[t] \in Item
    /\ sent \in [Thread -> Seq(Item)] /\ failed \in [Thread -> Seq(Item)]

(* A worker that read a byte finds an item: front() and pop() never run on *)
(* an empty queue, in any interleaving of the pipe, the mutex and the      *)
(* server.                                                                 *)
NeverPopEmpty == \A t \in Thread : tpc[t] = "pop" => q[t] # <<>>

(* Bytes and items stay matched: a worker's queue holds one item for every *)
(* byte in its pipe, one for the byte it just read, and one for the push   *)
(* that is not notified yet.                                               *)
BytesMatchItems ==
    \A t \in Thread :
        Len(q[t]) = pipe[t] + (IF tpc[t] = "pop" THEN 1 ELSE 0)
                    + (IF spc = "notify" /\ last_thread = t THEN 1 ELSE 0)

(* The pipe bounds the queue: a worker stuck in send() stops the server    *)
(* after PipeCap + 1 further items rather than filling memory.             *)
QueueBounded == \A t \in Thread : Len(q[t]) <= PipeCap + 2

(* The pipes carry exactly one byte per queued item; that keeps workers    *)
(* from popping an empty queue and the queues from growing.                *)
QueuesSound == TypeOK /\ BytesMatchItems /\ NeverPopEmpty /\ QueueBounded

\* Everything dealt to worker t so far, in order of handling.
Dealt(t) ==
    Len(sent[t]) + Len(failed[t]) + (IF tpc[t] = "send" THEN 1 ELSE 0) + Len(q[t])

(* Round robin: no worker was dealt more than one item more than another,  *)
(* and the next in turn is never one that is ahead.                        *)
Balanced ==
    \A t, u \in Thread :
        /\ Dealt(t) - Dealt(u) \in {-1, 0, 1}
        /\ spc # "notify" => Dealt(last_thread) <= Dealt(t)

Held(t) == sent[t] \o failed[t] \o q[t] \o
           (IF ti[t] = Nil THEN <<>> ELSE <<ti[t]>>)
Items == UNION {ToSet(Held(t)) : t \in Thread}

Sources(it) == {it.hdr[1], it.code[1]} \cup {c[1] : c \in ToSet(it.body)}

(* No cell is relayed twice: an item is held by one worker, once, and two  *)
(* items never share a datagram.                                           *)
NoDoubleRelay ==
    \A t, u \in Thread : \A i \in 1..Len(Held(t)), j \in 1..Len(Held(u)) :
        <<t, i>> # <<u, j>> =>
            Sources(Held(t)[i]) \cap Sources(Held(u)[j]) = {}

WellFormed(dg) == Len(dg) >= 3 /\ dg[1] = Len(dg) - 1

(* Every item starts where a datagram starts, and an item that starts in a *)
(* well-formed datagram is exactly that datagram: whatever malformed       *)
(* datagrams come before it, the reader is back in step at the next event. *)
Resync ==
    \A it \in Items :
        /\ it.hdr[2] = 1
        /\ WellFormed(arrived[it.hdr[1]]) =>
              /\ it.code = <<it.hdr[1], 2>>
              /\ it.body = SubSeq(Cells(it.hdr[1]), 3, Len(arrived[it.hdr[1]]))

(* Each worker sends its items in the order in which they arrived.         *)
FIFOPerWorker ==
    \A t \in Thread :
        LET line == sent[t] \o (IF ti[t] = Nil THEN <<>> ELSE <<ti[t]>>) \o q[t]
        IN  \A i, j \in 1..Len(line) : i < j => line[i].hdr[1] < line[j].hdr[1]

(* Round robin deals evenly, and no worker changes the order of its share. *)
InTurn == Balanced /\ FIFOPerWorker

HandedOver(d) ==
    \E t \in Thread : \E it \in ToSet(sent[t] \o failed[t]) : it.hdr[1] = d

(* A datagram read into an item is handed to QBus in the end: no byte is   *)
(* lost and no full pipe blocks the server for good.  As long as clients   *)
(* send well-formed datagrams, that goes for each one received.            *)
Relayed ==
    \A d \in 1..MaxDatagrams :
        /\ (item # Nil /\ item.hdr[1] = d) ~> HandedOver(d)
        /\ (Len(arrived) >= d) ~>
              (HandedOver(d) \/ \E e \in 1..Len(arrived) : ~WellFormed(arrived[e]))
=============================================================================
