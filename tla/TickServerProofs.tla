-------------------------- MODULE TickServerProofs --------------------------
(***************************************************************************)
(* For any number of workers, any datagrams and any pipe capacity: types,  *)
(* the match of bytes and items that keeps workers off empty queues, the   *)
(* order and the turns in which packets are dealt and relayed, the return  *)
(* into step at a well-formed datagram, and that none is relayed twice.    *)
(***************************************************************************)
EXTENDS TickServer, TLAPS

USE NThreadsAssumption, PipeAssumption, SockAssumption, DatagramsAssumption

(* The turn stays within the workers. *)
LEMMA TurnInRange ==
    ASSUME NEW i \in Thread
    PROVE  (i + 1) % NThreads \in Thread
BY DEF Thread

(* What has arrived stays valid when more arrives. *)
LEMMA ArrivedGrows ==
    ASSUME TypeOK, NEW dg \in Datagrams, Arrive(dg)
    PROVE  Cell \subseteq Cell'
<1>1. arrived' = Append(arrived, dg) /\ arrived \in Seq(Datagrams)
  BY DEF Arrive, TypeOK
<1>2. /\ Len(arrived') = Len(arrived) + 1
      /\ \A d \in 1..Len(arrived) : arrived'[d] = arrived[d]
  BY <1>1
<1> QED BY <1>1, <1>2 DEF Cell

(* The cells of a datagram in the socket. *)
LEMMA CellsType ==
    ASSUME TypeOK, NEW d \in 1..Len(arrived)
    PROVE  Cells(d) \in Seq(Cell)
<1>1. arrived[d] \in Seq(Nat) /\ Len(arrived[d]) \in Nat
  BY DEF TypeOK
<1>2. \A k \in 1..Len(arrived[d]) : <<d, k>> \in Cell
  BY <1>1 DEF Cell
<1> QED BY <1>1, <1>2 DEF Cells

(* What one rio_read can take from is cells received. *)
LEMMA ChunkType ==
    ASSUME TypeOK, rio # <<>> \/ socket # <<>>
    PROVE  Chunk \in Seq(Cell)
<1>1. CASE rio # <<>> BY <1>1 DEF Chunk, TypeOK
<1>2. CASE rio = <<>>
  <2>1. Head(socket) \in 1..Len(arrived)
    BY <1>2 DEF TypeOK
  <2> QED BY <1>2, <2>1, CellsType DEF Chunk
<1> QED BY <1>1, <1>2

(* Cells and Item depend on what has arrived only. *)
LEMMA SameCells ==
    ASSUME UNCHANGED arrived
    PROVE  Cell' = Cell /\ Item' = Item
BY DEF Cell, Item

(* A cell has a value. *)
LEMMA ValueType ==
    ASSUME TypeOK, NEW c \in Cell
    PROVE  ValueOf(c) \in Nat
<1>1. c[1] \in 1..Len(arrived) /\ c[2] \in 1..Len(arrived[c[1]])
  BY DEF Cell
<1>2. arrived[c[1]] \in Seq(Nat)
  BY <1>1 DEF TypeOK
<1> QED BY <1>1, <1>2 DEF ValueOf

(* What a step of the server that ends a read leaves alone. *)
Kept == /\ UNCHANGED <<arrived, last_thread, q, pipe, tvars>>
        /\ socket' \in Seq(1..Len(arrived))

(* The read variables are well typed again after a step. *)
ReadOK ==
    /\ spc' \in {"poll", "header", "code", "packet", "push"}
    /\ rio' \in Seq(Cell)
    /\ need' \in Nat /\ got' \in Seq(Cell) /\ Len(got') <= need'
    /\ spc' \in {"code", "packet"} => header' \in Cell
    /\ spc' = "packet" => code' \in Cell
    /\ spc' = "push" => item' \in Item

(* A step of the reader that keeps its own variables typed keeps all. *)
LEMMA ReaderStep ==
    ASSUME TypeOK, Kept, ReadOK
    PROVE  TypeOK'
BY SameCells DEF TypeOK, Kept, ReadOK, tvars

(* A read that failed: the server waits for the next event. *)
LEMMA NextEventOK ==
    ASSUME NEW rest \in Seq(Cell), NextEvent(rest)
    PROVE  ReadOK
BY DEF NextEvent, ReadOK

(* What the three read functions do with the cells rio_readnb returned. *)
LEMMA ReturnedOK ==
    ASSUME TypeOK, NEW cells \in Seq(Cell), NEW rest \in Seq(Cell),
           Returned(cells, rest)
    PROVE  ReadOK
<1>0. cells # <<>> => cells[1] \in Cell
  OBVIOUS
<1>1. CASE HeaderRead(cells, rest)
  <2>1. CASE cells = <<>>
    BY <1>1, <2>1, NextEventOK DEF HeaderRead
  <2>2. CASE cells # <<>>
    BY <1>0, <1>1, <2>2 DEF HeaderRead, Ask, ReadOK
  <2> QED BY <2>1, <2>2
<1>2. CASE CodeRead(cells, rest)
  <2>1. header \in Cell /\ ValueOf(header) \in Nat
    BY <1>2, ValueType DEF CodeRead, TypeOK
  <2>2. CASE cells = <<>> \/ ValueOf(header) <= 1
    BY <1>2, <2>2, NextEventOK DEF CodeRead
  <2>3. CASE ~(cells = <<>> \/ ValueOf(header) <= 1)
    <3>1. /\ spc' = "packet" /\ need' = ValueOf(header) - 1 /\ got' = <<>>
          /\ rio' = rest /\ code' = cells[1] /\ header' = header
      BY <1>2, <2>3 DEF CodeRead, Ask
    <3>2. need' \in Nat
      BY <2>1, <2>3, <3>1
    <3> QED BY <1>0, <2>1, <2>3, <3>1, <3>2 DEF ReadOK
  <2> QED BY <2>2, <2>3
<1>3. CASE PacketRead(cells, rest)
  <2>1. header \in Cell /\ code \in Cell
    BY <1>3 DEF PacketRead, TypeOK
  <2>2. [hdr |-> header, code |-> code, body |-> cells] \in Item
    BY <2>1 DEF Item
  <2>3. CASE cells = <<>>
    BY <1>3, <2>3, NextEventOK DEF PacketRead
  <2>4. CASE cells # <<>>
    BY <1>3, <2>2, <2>4 DEF PacketRead, ReadOK
  <2> QED BY <2>3, <2>4
<1> QED BY <1>1, <1>2, <1>3 DEF Returned

(* One rio_read, whether or not it completes the cells asked for. *)
LEMMA ReadMoreOK ==
    ASSUME TypeOK, ReadMore
    PROVE  Kept /\ ReadOK
<1> DEFINE n == IF need - Len(got) < Len(Chunk) THEN need - Len(got) ELSE Len(Chunk)
           cells == got \o SubSeq(Chunk, 1, n)
           rest == SubSeq(Chunk, n + 1, Len(Chunk))
<1>1. Chunk \in Seq(Cell) /\ Len(Chunk) \in Nat
  BY ChunkType DEF ReadMore
<1>2. got \in Seq(Cell) /\ Len(got) \in Nat /\ need \in Nat /\ Len(got) <= need
  BY DEF TypeOK
<1>3. n \in Nat /\ n <= Len(Chunk) /\ n <= need - Len(got)
  BY <1>1, <1>2
<1>4. SubSeq(Chunk, 1, n) \in Seq(Cell) /\ Len(SubSeq(Chunk, 1, n)) = n
  BY <1>1, <1>3
<1>5. cells \in Seq(Cell) /\ Len(cells) <= need
  BY <1>2, <1>3, <1>4
<1>7. rest \in Seq(Cell)
  BY <1>1, <1>3
<1>8. socket' \in Seq(1..Len(arrived))
  <2>1. CASE rio # <<>>
    BY <2>1 DEF ReadMore, TypeOK
  <2>2. CASE rio = <<>>
    <3>1. socket # <<>> /\ socket' = Tail(socket) /\ socket \in Seq(1..Len(arrived))
      BY <2>2 DEF ReadMore, TypeOK
    <3> QED BY <3>1
  <2> QED BY <2>1, <2>2
<1>9. \/ Returned(cells, rest)
      \/ got' = cells /\ rio' = rest /\ UNCHANGED <<spc, need, header, code, item>>
  BY DEF ReadMore
<1>10. Kept /\ Reading
  BY <1>8 DEF ReadMore, Kept
<1> HIDE DEF n, cells, rest
<1>11. CASE Returned(cells, rest)
  BY <1>11, <1>5, <1>7, <1>10, ReturnedOK
<1>12. CASE got' = cells /\ rio' = rest /\ UNCHANGED <<spc, need, header, code, item>>
  BY <1>12, <1>5, <1>7, <1>10 DEF TypeOK, Reading, ReadOK
<1> QED BY <1>9, <1>10, <1>11, <1>12

(* Every step of the server before it dispatches. *)
LEMMA ReadStepOK ==
    ASSUME TypeOK, Poll \/ ReadMore \/ ReadEmpty \/ ReadAgain
    PROVE  TypeOK' /\ Kept /\ spc # "notify" /\ spc' # "notify"
<1>1. Kept /\ ReadOK /\ spc # "notify"
  <2>1. CASE Poll
    BY <2>1 DEF Poll, Ask, Kept, ReadOK, TypeOK
  <2>2. CASE ReadMore
    BY <2>2, ReadMoreOK DEF ReadMore, Reading
  <2>3. CASE ReadEmpty
    <3>1. socket' \in Seq(1..Len(arrived))
      BY <2>3 DEF ReadEmpty, TypeOK
    <3>2. Returned(got, <<>>) /\ got \in Seq(Cell) /\ <<>> \in Seq(Cell)
      BY <2>3 DEF ReadEmpty, TypeOK
    <3>3. ReadOK
      BY <3>2, ReturnedOK
    <3> QED BY <2>3, <3>1, <3>3 DEF ReadEmpty, Kept, Reading
  <2>4. CASE ReadAgain
    BY <2>4, NextEventOK DEF ReadAgain, Kept, Reading, TypeOK
  <2> QED BY <2>1, <2>2, <2>3, <2>4
<1> QED BY <1>1, ReaderStep DEF ReadOK

(* A datagram that arrives disturbs nothing that is being handled. *)
LEMMA ArriveOK ==
    ASSUME TypeOK, NEW dg \in Datagrams, Arrive(dg)
    PROVE  TypeOK' /\ UNCHANGED <<spc, last_thread, q, pipe, tvars>>
<1>1. Cell \subseteq Cell'
  BY ArrivedGrows
<1>2. Item \subseteq Item'
  BY <1>1 DEF Item
<1>3. \A s \in Seq(Cell) : s \in Seq(Cell')
  BY <1>1
<1>4. \A s \in Seq(Item) : s \in Seq(Item')
  BY <1>2
<1>5. arrived' \in Seq(Datagrams) /\ Len(arrived') = Len(arrived) + 1
  BY DEF Arrive, TypeOK
<1>6. socket' \in Seq(1..Len(arrived'))
  <2>1. socket \in Seq(1..Len(arrived')) /\ Len(arrived') \in 1..Len(arrived')
    BY <1>5 DEF TypeOK
  <2> QED BY <2>1 DEF Arrive
<1>7. /\ q \in [Thread -> Seq(Item')]
      /\ ti \in [Thread -> Item' \cup {Nil}]
      /\ sent \in [Thread -> Seq(Item')] /\ failed \in [Thread -> Seq(Item')]
  BY <1>2, <1>4 DEF TypeOK
<1>8. UNCHANGED <<spc, rio, need, got, header, code, item, last_thread, q, pipe, tvars>>
  BY DEF Arrive
<1>9. UNCHANGED <<tpc, ti, sent, failed>>
  BY <1>8 DEF tvars
<1> QED BY <1>1, <1>2, <1>3, <1>5, <1>6, <1>7, <1>8, <1>9 DEF TypeOK

(* The two halves of a dispatch. *)
LEMMA DispatchOK ==
    ASSUME TypeOK, Push \/ Notify
    PROVE  TypeOK'
<1>1. UNCHANGED <<arrived, rvars, tvars>> /\ item \in Item /\ Cell' = Cell /\ Item' = Item
  BY SameCells DEF Push, Notify, TypeOK
<1>2. CASE Push
  <2>1. q' \in [Thread -> Seq(Item)]
    BY <1>1, <1>2 DEF Push, TypeOK
  <2> QED BY <1>1, <1>2, <2>1 DEF Push, TypeOK, rvars, tvars
<1>3. CASE Notify
  <2>1. last_thread' \in Thread
    BY <1>3, TurnInRange DEF Notify, TypeOK
  <2>2. pipe' \in [Thread -> 0..PipeCap]
    BY <1>3 DEF Notify, TypeOK
  <2> QED BY <1>1, <1>3, <2>1, <2>2 DEF Notify, TypeOK, rvars, tvars
<1> QED BY <1>2, <1>3

(* The steps of a worker. *)
LEMMA WorkerOK ==
    ASSUME TypeOK, NEW t \in Thread, Worker(t)
    PROVE  TypeOK'
<1>1. UNCHANGED <<arrived, rvars, spc, item, last_thread>> /\ Cell' = Cell /\ Item' = Item
  BY SameCells DEF Worker, ReadByte, Pop, Send
<1>2. CASE ReadByte(t)
  <2>1. pipe' \in [Thread -> 0..PipeCap]
    BY <1>2 DEF ReadByte, TypeOK
  <2> QED BY <1>1, <1>2, <2>1 DEF ReadByte, TypeOK, rvars
<1>3. CASE Pop(t)
  <2>1. q[t] \in Seq(Item) /\ q[t] # <<>>
    BY <1>3 DEF Pop, TypeOK
  <2>2. Head(q[t]) \in Item /\ Tail(q[t]) \in Seq(Item)
    BY <2>1
  <2>3. q' \in [Thread -> Seq(Item)] /\ ti' \in [Thread -> Item \cup {Nil}]
    BY <1>3, <2>2 DEF Pop, TypeOK
  <2>4. \A u \in Thread : tpc'[u] = "send" => ti'[u] \in Item
    BY <1>3, <2>2 DEF Pop, TypeOK
  <2>5. tpc' \in [Thread -> {"poll", "pop", "send"}]
    BY <1>3 DEF Pop, TypeOK
  <2>6. UNCHANGED <<pipe, sent, failed>>
    BY <1>3 DEF Pop
  <2> QED BY <1>1, <2>3, <2>4, <2>5, <2>6 DEF TypeOK, rvars
<1>4. CASE Send(t)
  <2>1. ti[t] \in Item
    BY <1>4 DEF Send, TypeOK
  <2>2. sent' \in [Thread -> Seq(Item)] /\ failed' \in [Thread -> Seq(Item)]
    <3>1. /\ sent \in [Thread -> Seq(Item)] /\ failed \in [Thread -> Seq(Item)]
          /\ Append(sent[t], ti[t]) \in Seq(Item) /\ Append(failed[t], ti[t]) \in Seq(Item)
      BY <2>1 DEF TypeOK
    <3>2. CASE sent' = [sent EXCEPT ![t] = Append(@, ti[t])] /\ UNCHANGED failed
      BY <3>1, <3>2
    <3>3. CASE failed' = [failed EXCEPT ![t] = Append(@, ti[t])] /\ UNCHANGED sent
      BY <3>1, <3>3
    <3> QED BY <1>4, <3>2, <3>3 DEF Send
  <2>3. /\ ti' \in [Thread -> Item \cup {Nil}]
        /\ tpc' \in [Thread -> {"poll", "pop", "send"}]
    BY <1>4 DEF Send, TypeOK
  <2>4. \A u \in Thread : tpc'[u] = "send" => ti'[u] \in Item
    BY <1>4 DEF Send, TypeOK
  <2>5. UNCHANGED <<q, pipe>>
    BY <1>4 DEF Send
  <2> QED BY <1>1, <2>2, <2>3, <2>4, <2>5 DEF TypeOK, rvars
<1> QED BY <1>2, <1>3, <1>4 DEF Worker

(* TypeOK holds at first and every step keeps it. *)
LEMMA TypeInit == Init => TypeOK
BY DEF Init, TypeOK, Thread

(* Every step keeps TypeOK. *)
LEMMA TypeStep == TypeOK /\ [Next]_vars => TypeOK'
<1> SUFFICES ASSUME TypeOK, [Next]_vars PROVE TypeOK'
  OBVIOUS
<1>1. CASE Server
  BY <1>1, ReadStepOK, DispatchOK DEF Server
<1>2. CASE UNCHANGED vars
  BY <1>2, SameCells DEF vars, rvars, tvars, TypeOK
<1>3. ASSUME NEW dg \in Datagrams, Arrive(dg) PROVE TypeOK'
  BY <1>3, ArriveOK
<1>4. ASSUME NEW t \in Thread, Worker(t) PROVE TypeOK'
  BY <1>4, WorkerOK
<1> QED BY <1>1, <1>2, <1>3, <1>4 DEF Next, PollTimeout

(* For every number of workers, pipe size and datagrams: the items and the *)
(* cells in the server's and the workers' hands are made of cells really   *)
(* received, the turn and the pipes stay in range, and rio_readnb never    *)
(* holds more than it was asked for.                                       *)
THEOREM TypeCorrect == Spec => []TypeOK
BY TypeInit, TypeStep, PTL DEF Spec

(* Bytes and items stay matched over a step of the server. *)
LEMMA ServerMatch ==
    ASSUME TypeOK, BytesMatchItems, Server
    PROVE  BytesMatchItems'
<1>0. \A t \in Thread : pipe[t] \in Nat /\ Len(q[t]) \in Nat
  BY DEF TypeOK
<1>1. CASE Poll \/ ReadMore \/ ReadEmpty \/ ReadAgain
  <2>1. spc # "notify" /\ spc' # "notify" /\ UNCHANGED <<last_thread, q, pipe, tpc>>
    BY <1>1, ReadStepOK DEF Kept, tvars
  <2> QED BY <2>1 DEF BytesMatchItems
<1>2. CASE Push
  <2>0. /\ q \in [Thread -> Seq(Item)] /\ item \in Item
        /\ q' = [q EXCEPT ![last_thread] = Append(@, item)]
    BY <1>2 DEF Push, TypeOK
  <2>1. \A t \in Thread : Len(q'[t]) = Len(q[t]) + (IF t = last_thread THEN 1 ELSE 0)
    BY <2>0, <1>0
  <2>2. UNCHANGED <<last_thread, pipe, tpc>> /\ spc = "push" /\ spc' = "notify"
    BY <1>2 DEF Push, tvars
  <2> SUFFICES ASSUME NEW t \in Thread
               PROVE  Len(q'[t]) = pipe[t] + (IF tpc[t] = "pop" THEN 1 ELSE 0)
                                   + (IF last_thread = t THEN 1 ELSE 0)
    BY <2>2 DEF BytesMatchItems
  <2>3. Len(q[t]) = pipe[t] + (IF tpc[t] = "pop" THEN 1 ELSE 0)
    BY <1>0, <2>2 DEF BytesMatchItems
  <2> QED BY <1>0, <2>1, <2>3
<1>3. CASE Notify
  <2>0. /\ pipe \in [Thread -> 0..PipeCap]
        /\ pipe' = [pipe EXCEPT ![last_thread] = @ + 1]
    BY <1>3 DEF Notify, TypeOK
  <2>1. \A t \in Thread : pipe'[t] = pipe[t] + (IF t = last_thread THEN 1 ELSE 0)
    BY <2>0, <1>0
  <2>2. UNCHANGED <<q, tpc>> /\ spc = "notify" /\ spc' = "poll"
    BY <1>3 DEF Notify, tvars
  <2> QED BY <2>1, <2>2, <1>0 DEF BytesMatchItems
<1> QED BY <1>1, <1>2, <1>3 DEF Server

(* And over a step of a worker. *)
LEMMA WorkerMatch ==
    ASSUME TypeOK, BytesMatchItems, NEW t \in Thread, Worker(t)
    PROVE  BytesMatchItems'
<1>t. /\ pipe \in [Thread -> 0..PipeCap] /\ q \in [Thread -> Seq(Item)]
      /\ tpc \in [Thread -> {"poll", "pop", "send"}]
  BY DEF TypeOK
<1>0. \A u \in Thread : pipe[u] \in Nat /\ Len(q[u]) \in Nat
  BY <1>t
<1>1. UNCHANGED <<spc, last_thread>>
  BY DEF Worker, ReadByte, Pop, Send
<1>2. CASE ReadByte(t)
  <2>1. \A u \in Thread : /\ pipe'[u] = pipe[u] - (IF u = t THEN 1 ELSE 0)
                          /\ tpc'[u] = IF u = t THEN "pop" ELSE tpc[u]
    <3>1. pipe' = [pipe EXCEPT ![t] = @ - 1] /\ tpc' = [tpc EXCEPT ![t] = "pop"]
      BY <1>2 DEF ReadByte
    <3> QED BY <1>t, <1>0, <3>1
  <2>2. q' = q /\ tpc[t] = "poll"
    BY <1>2 DEF ReadByte
  <2> QED BY <1>1, <2>1, <2>2, <1>0 DEF BytesMatchItems
<1>3. CASE Pop(t)
  <2>1. q[t] \in Seq(Item) /\ q[t] # <<>> /\ tpc[t] = "pop" /\ pipe' = pipe
    BY <1>t, <1>3 DEF Pop
  <2>2. Len(Tail(q[t])) = Len(q[t]) - 1
    BY <2>1
  <2>3. \A u \in Thread : /\ Len(q'[u]) = Len(q[u]) - (IF u = t THEN 1 ELSE 0)
                          /\ tpc'[u] = IF u = t THEN "send" ELSE tpc[u]
    <3>1. q' = [q EXCEPT ![t] = Tail(@)] /\ tpc' = [tpc EXCEPT ![t] = "send"]
      BY <1>3 DEF Pop
    <3> QED BY <1>t, <1>0, <2>2, <3>1
  <2> DEFINE Owed(u) == IF spc = "notify" /\ last_thread = u THEN 1 ELSE 0
  <2>4. \A u \in Thread : Owed(u) \in Nat
    OBVIOUS
  <2>5. \A u \in Thread : Len(q[u]) = pipe[u] + (IF tpc[u] = "pop" THEN 1 ELSE 0) + Owed(u)
    BY DEF BytesMatchItems
  <2>6. \A u \in Thread : Len(q'[u]) = pipe[u] + (IF tpc'[u] = "pop" THEN 1 ELSE 0) + Owed(u)
    <3> HIDE DEF Owed
    <3> TAKE u \in Thread
    <3>1. CASE u = t
      <4>1. Len(q[u]) = pipe[u] + 1 + Owed(u) /\ Owed(u) \in Nat /\ pipe[u] \in Nat
        BY <1>0, <2>1, <2>4, <2>5, <3>1
      <4>2. Len(q'[u]) = Len(q[u]) - 1 /\ tpc'[u] # "pop"
        BY <2>3, <3>1
      <4> QED BY <4>1, <4>2
    <3>2. CASE u # t
      <4>1. Len(q'[u]) = Len(q[u]) - 0 /\ tpc'[u] = tpc[u] /\ Len(q[u]) \in Nat
        BY <1>0, <2>3, <3>2
      <4>2. Len(q'[u]) = Len(q[u])
        BY <4>1
      <4> QED BY <2>5, <4>1, <4>2
    <3> QED BY <3>1, <3>2
  <2> QED BY <1>1, <2>1, <2>6 DEF BytesMatchItems
<1>4. CASE Send(t)
  <2>1. \A u \in Thread : tpc'[u] = IF u = t THEN "poll" ELSE tpc[u]
    <3>1. tpc' = [tpc EXCEPT ![t] = "poll"]
      BY <1>4 DEF Send
    <3> QED BY <1>t, <3>1
  <2>2. q' = q /\ pipe' = pipe /\ tpc[t] = "send"
    BY <1>4 DEF Send
  <2> QED BY <1>1, <2>1, <2>2, <1>0 DEF BytesMatchItems
<1> QED BY <1>2, <1>3, <1>4 DEF Worker

(* The match is kept by every step. *)
LEMMA MatchStep == TypeOK /\ BytesMatchItems /\ [Next]_vars => BytesMatchItems'
<1> SUFFICES ASSUME TypeOK, BytesMatchItems, [Next]_vars PROVE BytesMatchItems'
  OBVIOUS
<1>1. CASE Server
  BY <1>1, ServerMatch
<1>2. CASE UNCHANGED vars
  BY <1>2 DEF vars, tvars, BytesMatchItems
<1>3. ASSUME NEW dg \in Datagrams, Arrive(dg) PROVE BytesMatchItems'
  BY <1>3, ArriveOK DEF BytesMatchItems, tvars
<1>4. ASSUME NEW t \in Thread, Worker(t) PROVE BytesMatchItems'
  BY <1>4, WorkerMatch
<1> QED BY <1>1, <1>2, <1>3, <1>4 DEF Next, PollTimeout

(* The match is what keeps the other two. *)
LEMMA MatchSuffices ==
    ASSUME TypeOK, BytesMatchItems
    PROVE  NeverPopEmpty /\ QueueBounded
<1>1. \A t \in Thread : pipe[t] \in 0..PipeCap /\ q[t] \in Seq(Item) /\ Len(q[t]) \in Nat
  BY DEF TypeOK
<1>2. NeverPopEmpty
  BY <1>1 DEF BytesMatchItems, NeverPopEmpty
<1>3. QueueBounded
  BY <1>1 DEF BytesMatchItems, QueueBounded
<1> QED BY <1>2, <1>3

(* In every interleaving of the server, the workers and the clients a      *)
(* worker's queue holds an item for each byte in its pipe and on its way.  *)
THEOREM BytesAndItemsMatch == Spec => []BytesMatchItems
<1>1. Init => BytesMatchItems
  BY DEF Init, BytesMatchItems
<1> QED BY <1>1, MatchStep, TypeCorrect, PTL DEF Spec

(* A worker never takes from an empty queue, whatever the interleaving of  *)
(* pipe, mutex and server.                                                 *)
THEOREM WorkersNeverPopEmpty == Spec => []NeverPopEmpty
BY MatchSuffices, TypeCorrect, BytesAndItemsMatch, PTL

(* The pipe's capacity bounds every queue. *)
THEOREM QueuesBounded == Spec => []QueueBounded
BY MatchSuffices, TypeCorrect, BytesAndItemsMatch, PTL

(* The four together: what the notify pipes guarantee the workers, for any *)
(* number of workers and any pipe capacity.                                *)
THEOREM QueuesAlwaysSound == Spec => []QueuesSound
<1>1. TypeOK /\ BytesMatchItems /\ NeverPopEmpty /\ QueueBounded => QueuesSound
  BY DEF QueuesSound
<1> QED BY <1>1, TypeCorrect, BytesAndItemsMatch, WorkersNeverPopEmpty, QueuesBounded, PTL
-----------------------------------------------------------------------------
(* What the items are made of. *)

\* Everything in a is from datagrams before the one b starts in.
Before(a, b) == \A s \in Sources(a) : s < b.hdr[1]
Apart(a, b) == Before(a, b) \/ Before(b, a)

\* A sequence of items in the order in which they were received.
Rising(s) == \A i, j \in 1..Len(s) : i < j => Before(s[i], s[j])

\* What worker t has handed to QBus, what it holds, and all that is its.
Done(t) == ToSet(sent[t]) \cup ToSet(failed[t])
Hand(t) == IF tpc[t] = "send" THEN {ti[t]} ELSE {}
Mine(t) == Done(t) \cup Hand(t) \cup ToSet(q[t])

\* The items dealt so far end before datagram d.
Past(d) == \A t \in Thread : \A a \in Mine(t) : \A s \in Sources(a) : s < d

\* Datagram d was taken off the socket, before any that is still there.
Taken(d) == \A i \in 1..Len(socket) : d < socket[i]

Ordered(it) == \A s \in Sources(it) : it.hdr[1] <= s
Synced(it) ==
    /\ it.hdr[2] = 1
    /\ WellFormed(arrived[it.hdr[1]]) =>
          /\ it.code = <<it.hdr[1], 2>>
          /\ it.body = SubSeq(Cells(it.hdr[1]), 3, Len(arrived[it.hdr[1]]))

(* Where the reader is in the datagram it reads: in step with it as long   *)
(* as it is well formed.                                                   *)
InStep ==
    /\ spc = "header" => rio = <<>> /\ need = 1 /\ got = <<>>
    /\ spc = "code" => /\ need = 1 /\ got = <<>> /\ header[2] = 1
                       /\ rio = SubSeq(Cells(header[1]), 2, Len(arrived[header[1]]))
    /\ spc = "packet" => /\ header[2] = 1
                         /\ WellFormed(arrived[header[1]]) =>
                              /\ code = <<header[1], 2>> /\ got = <<>>
                              /\ need = Len(arrived[header[1]]) - 2
                              /\ rio = SubSeq(Cells(header[1]), 3, Len(arrived[header[1]]))
    /\ spc = "push" => Ordered(item) /\ Synced(item)

ItemsSynced == \A t \in Thread : \A a \in Mine(t) : Ordered(a) /\ Synced(a)

ReaderInv == InStep /\ ItemsSynced

\* The cells the reader has: not before its header, all off the socket.
InRead(c) == header[1] <= c[1] /\ Taken(c[1])

(* The datagrams come in order: those of dealt items, those being read,    *)
(* those in the socket.                                                    *)
SocketLine ==
    /\ \A i, j \in 1..Len(socket) : i < j => socket[i] < socket[j]
    /\ \A i \in 1..Len(socket) : Past(socket[i])

ReadLine ==
    /\ spc \in {"code", "packet"} => /\ Past(header[1]) /\ Taken(header[1])
                                     /\ \A c \in ToSet(rio) \cup ToSet(got) : InRead(c)
    /\ spc = "packet" => InRead(code)
    /\ spc = "push" => /\ Past(item.hdr[1])
                       /\ \A s \in Sources(item) : Taken(s)

FrontInv == SocketLine /\ ReadLine

(* Each worker's items are in the order received, and all items are apart. *)
OrderInv ==
    /\ \A t \in Thread : /\ Rising(sent[t]) /\ Rising(failed[t]) /\ Rising(q[t])
                         /\ tpc[t] # "send" => ti[t] = Nil
    /\ \A t \in Thread : \A a \in ToSet(sent[t]), b \in ToSet(failed[t]) : Apart(a, b)
    /\ \A t \in Thread : \A a \in Done(t), b \in Hand(t) \cup ToSet(q[t]) : Before(a, b)
    /\ \A t \in Thread : \A a \in Hand(t), b \in ToSet(q[t]) : Before(a, b)
    /\ \A t, u \in Thread : t # u => \A a \in Mine(t), b \in Mine(u) : Apart(a, b)

(* The turn: those before it were dealt one item more in this round. *)
TurnInv ==
    \E r \in Nat : \A t \in Thread :
        Dealt(t) = r + (IF t < last_thread \/ (spc = "notify" /\ t = last_thread) THEN 1 ELSE 0)
(* The items of a worker and their parts are numbered by datagrams. *)
LEMMA SourcesType ==
    ASSUME TypeOK, NEW it \in Item
    PROVE  /\ Sources(it) \subseteq 1..Len(arrived) /\ Sources(it) \subseteq Nat
           /\ it.hdr[1] \in Sources(it) /\ it.hdr[1] \in Nat /\ it.hdr[1] \in 1..Len(arrived)
<1>1. it.hdr \in Cell /\ it.code \in Cell /\ it.body \in Seq(Cell)
  BY DEF Item
<1>2. \A c \in Cell : c[1] \in 1..Len(arrived)
  BY DEF Cell
<1>3. \A c \in ToSet(it.body) : c \in Cell
  BY <1>1 DEF ToSet
<1>4. it.hdr[1] \in Sources(it) /\ Sources(it) \subseteq 1..Len(arrived)
  BY <1>1, <1>2, <1>3 DEF Sources
<1>5. 1..Len(arrived) \subseteq Nat
  BY DEF TypeOK
<1> QED BY <1>4, <1>5

(* What a worker has is made of cells received. *)
LEMMA MineType ==
    ASSUME TypeOK, NEW t \in Thread
    PROVE  Mine(t) \subseteq Item
<1>1. \A s \in Seq(Item) : ToSet(s) \subseteq Item
  BY DEF ToSet
<1>2. sent[t] \in Seq(Item) /\ failed[t] \in Seq(Item) /\ q[t] \in Seq(Item)
      /\ (tpc[t] = "send" => ti[t] \in Item)
  BY DEF TypeOK
<1> QED BY <1>1, <1>2 DEF Mine, Done, Hand

(* Adding to the end of a sequence and taking off its front. *)
LEMMA SeqSets ==
    ASSUME NEW T, NEW s \in Seq(T)
    PROVE  /\ \A x \in T : ToSet(Append(s, x)) = ToSet(s) \cup {x}
           /\ s # <<>> => ToSet(s) = {Head(s)} \cup ToSet(Tail(s))
<1>1. Len(s) \in Nat /\ ToSet(s) = {s[i] : i \in 1..Len(s)}
  BY DEF ToSet
<1>2. ASSUME NEW x \in T PROVE ToSet(Append(s, x)) = ToSet(s) \cup {x}
  <2> DEFINE a == Append(s, x)
  <2>1. /\ a \in Seq(T) /\ Len(a) = Len(s) + 1 /\ a[Len(s) + 1] = x
        /\ \A i \in 1..Len(s) : a[i] = s[i]
    OBVIOUS
  <2>2. ToSet(a) = {a[i] : i \in 1..Len(a)}
    BY DEF ToSet
  <2> HIDE DEF a
  <2>3. 1..Len(a) = (1..Len(s)) \cup {Len(s) + 1}
    BY <1>1, <2>1
  <2>4. ToSet(a) = ToSet(s) \cup {x}
    BY <1>1, <2>1, <2>2, <2>3
  <2> QED BY <2>4 DEF a
<1>3. ASSUME s # <<>> PROVE ToSet(s) = {Head(s)} \cup ToSet(Tail(s))
  <2> DEFINE b == Tail(s)
  <2>1. /\ b \in Seq(T) /\ Len(b) = Len(s) - 1 /\ Head(s) = s[1] /\ Len(s) >= 1
        /\ \A i \in 1..Len(b) : b[i] = s[i + 1]
    BY <1>3
  <2>2. ToSet(b) = {b[i] : i \in 1..Len(b)}
    BY DEF ToSet
  <2> HIDE DEF b
  <2>3. \A i \in 1..Len(s) : i = 1 \/ (i - 1 \in 1..Len(b) /\ s[i] = b[i - 1])
    BY <1>1, <2>1
  <2>4. \A i \in 1..Len(b) : i + 1 \in 1..Len(s)
    BY <1>1, <2>1
  <2>5. ToSet(s) \subseteq {Head(s)} \cup ToSet(b)
    BY <1>1, <2>1, <2>2, <2>3
  <2>6. ToSet(b) \subseteq ToSet(s)
    BY <1>1, <2>1, <2>2, <2>4
  <2>7. Head(s) \in ToSet(s)
    BY <1>1, <2>1
  <2> QED BY <2>5, <2>6, <2>7 DEF b
<1> QED BY <1>2, <1>3

(* Order survives adding a later item and taking the first. *)
LEMMA RisingMoves ==
    ASSUME NEW T, NEW s \in Seq(T), Rising(s)
    PROVE  /\ \A x \in T : (\A a \in ToSet(s) : Before(a, x)) => Rising(Append(s, x))
           /\ s # <<>> => Rising(Tail(s)) /\ \A b \in ToSet(Tail(s)) : Before(Head(s), b)
<1>1. Len(s) \in Nat /\ ToSet(s) = {s[i] : i \in 1..Len(s)}
  BY DEF ToSet
<1>2. ASSUME NEW x \in T, \A a \in ToSet(s) : Before(a, x) PROVE Rising(Append(s, x))
  <2> DEFINE a == Append(s, x)
  <2>1. /\ Len(a) = Len(s) + 1 /\ a[Len(s) + 1] = x
        /\ \A i \in 1..Len(s) : a[i] = s[i]
    OBVIOUS
  <2> HIDE DEF a
  <2>2. ASSUME NEW i \in 1..Len(a), NEW j \in 1..Len(a), i < j PROVE Before(a[i], a[j])
    <3>1. i \in 1..Len(s) /\ (j \in 1..Len(s) \/ j = Len(s) + 1)
      BY <1>1, <2>1, <2>2
    <3>2. CASE j \in 1..Len(s)
      BY <2>1, <2>2, <3>1, <3>2 DEF Rising
    <3>3. CASE j = Len(s) + 1
      <4>1. s[i] \in ToSet(s)
        BY <1>1, <3>1
      <4> QED BY <1>2, <2>1, <3>1, <3>3, <4>1
    <3> QED BY <3>1, <3>2, <3>3
  <2> QED BY <2>2 DEF Rising, a
<1>3. ASSUME s # <<>> PROVE Rising(Tail(s)) /\ \A b \in ToSet(Tail(s)) : Before(Head(s), b)
  <2> DEFINE b == Tail(s)
  <2>1. /\ b \in Seq(T) /\ Len(b) = Len(s) - 1 /\ Head(s) = s[1] /\ Len(s) >= 1
        /\ \A i \in 1..Len(b) : b[i] = s[i + 1]
    BY <1>3
  <2> HIDE DEF b
  <2>2. ToSet(b) = {b[i] : i \in 1..Len(b)}
    BY <2>1 DEF ToSet
  <2>3. \A i \in 1..Len(b) : i + 1 \in 1..Len(s) /\ 1 < i + 1 /\ 1 \in 1..Len(s)
    BY <1>1, <2>1
  <2>4. \A i \in 1..Len(b) : Before(s[1], b[i])
    BY <2>1, <2>3 DEF Rising
  <2>5. ASSUME NEW i \in 1..Len(b), NEW j \in 1..Len(b), i < j PROVE Before(b[i], b[j])
    <3>1. i + 1 < j + 1
      BY <1>1, <2>1, <2>5
    <3> QED BY <2>1, <2>3, <3>1 DEF Rising
  <2> QED BY <2>1, <2>2, <2>4, <2>5 DEF Rising, b
<1> QED BY <1>2, <1>3

(* What a worker has does not change while the server reads. *)
LEMMA SameMine ==
    ASSUME UNCHANGED <<q, tpc, ti, sent, failed>>
    PROVE  /\ \A t \in Thread : Done(t)' = Done(t) /\ Hand(t)' = Hand(t) /\ Mine(t)' = Mine(t)
           /\ \A d : Past(d)' <=> Past(d)
<1>1. \A t \in Thread : Done(t)' = Done(t) /\ Hand(t)' = Hand(t) /\ Mine(t)' = Mine(t)
  BY DEF Done, Hand, Mine
<1>2. \A d : Past(d)' <=> Past(d)
  BY <1>1 DEF Past
<1> QED BY <1>1, <1>2

(* Taking an item off the queue and handing it over leaves it the          *)
(* worker's.                                                               *)
LEMMA WorkerMine ==
    ASSUME TypeOK, NEW t \in Thread, Worker(t)
    PROVE  \A u \in Thread : Mine(u)' = Mine(u)
<1>t. /\ q \in [Thread -> Seq(Item)] /\ tpc \in [Thread -> {"poll", "pop", "send"}]
      /\ ti \in [Thread -> Item \cup {Nil}] /\ (tpc[t] = "send" => ti[t] \in Item)
      /\ sent \in [Thread -> Seq(Item)] /\ failed \in [Thread -> Seq(Item)]
  BY DEF TypeOK
<1>1. CASE ReadByte(t)
  <2>1. UNCHANGED <<q, ti, sent, failed>> /\ tpc[t] = "poll" /\ tpc' = [tpc EXCEPT ![t] = "pop"]
    BY <1>1 DEF ReadByte
  <2> QED BY <1>t, <2>1 DEF Mine, Done, Hand
<1>2. CASE Pop(t)
  <2>1. /\ UNCHANGED <<sent, failed>> /\ tpc[t] = "pop" /\ q[t] # <<>>
        /\ tpc' = [tpc EXCEPT ![t] = "send"] /\ ti' = [ti EXCEPT ![t] = Head(q[t])]
        /\ q' = [q EXCEPT ![t] = Tail(@)]
    BY <1>2 DEF Pop
  <2>2. ToSet(q[t]) = {Head(q[t])} \cup ToSet(Tail(q[t]))
    BY <1>t, <2>1, SeqSets
  <2>3. q'[t] = Tail(q[t]) /\ Hand(t)' = {Head(q[t])} /\ Hand(t) = {} /\ Done(t)' = Done(t)
    BY <1>t, <2>1 DEF Hand, Done
  <2>4. \A u \in Thread \ {t} : q'[u] = q[u] /\ tpc'[u] = tpc[u] /\ ti'[u] = ti[u]
    BY <1>t, <2>1
  <2>5. Mine(t)' = Mine(t)
    BY <2>2, <2>3 DEF Mine
  <2>6. \A u \in Thread \ {t} : Mine(u)' = Mine(u)
    BY <2>1, <2>4 DEF Mine, Done, Hand
  <2> QED BY <2>5, <2>6
<1>3. CASE Send(t)
  <2>1. /\ UNCHANGED q /\ tpc[t] = "send" /\ ti[t] \in Item
        /\ tpc' = [tpc EXCEPT ![t] = "poll"] /\ ti' = [ti EXCEPT ![t] = Nil]
        /\ \/ sent' = [sent EXCEPT ![t] = Append(@, ti[t])] /\ UNCHANGED failed
           \/ failed' = [failed EXCEPT ![t] = Append(@, ti[t])] /\ UNCHANGED sent
    BY <1>t, <1>3 DEF Send
  <2>2. /\ ToSet(Append(sent[t], ti[t])) = ToSet(sent[t]) \cup {ti[t]}
        /\ ToSet(Append(failed[t], ti[t])) = ToSet(failed[t]) \cup {ti[t]}
    BY <1>t, <2>1, SeqSets
  <2>3. Hand(t) = {ti[t]} /\ Hand(t)' = {}
    BY <1>t, <2>1 DEF Hand
  <2>4. Done(t)' = Done(t) \cup {ti[t]}
    <3>1. CASE sent' = [sent EXCEPT ![t] = Append(@, ti[t])] /\ UNCHANGED failed
      BY <1>t, <2>2, <3>1 DEF Done
    <3>2. CASE failed' = [failed EXCEPT ![t] = Append(@, ti[t])] /\ UNCHANGED sent
      BY <1>t, <2>2, <3>2 DEF Done
    <3> QED BY <2>1, <3>1, <3>2
  <2>5. \A u \in Thread \ {t} : Done(u)' = Done(u) /\ Hand(u)' = Hand(u)
    BY <1>t, <2>1 DEF Done, Hand
  <2>6. Mine(t)' = Mine(t)
    BY <2>1, <2>3, <2>4 DEF Mine
  <2>7. \A u \in Thread \ {t} : Mine(u)' = Mine(u)
    BY <2>1, <2>5 DEF Mine
  <2> QED BY <2>6, <2>7
<1> QED BY <1>1, <1>2, <1>3 DEF Worker

(* The cells of a datagram, one after another. *)
LEMMA CellsAre ==
    ASSUME TypeOK, NEW d \in 1..Len(arrived)
    PROVE  /\ Cells(d) \in Seq(Cell) /\ Len(Cells(d)) = Len(arrived[d]) /\ Len(arrived[d]) \in Nat
           /\ \A k \in 1..Len(arrived[d]) : Cells(d)[k] = <<d, k>>
<1>1. arrived[d] \in Seq(Nat) /\ Len(arrived[d]) \in Nat
  BY DEF TypeOK
<1>2. Cells(d) \in Seq(Cell)
  BY CellsType
<1>3. DOMAIN Cells(d) = 1..Len(arrived[d]) /\ \A k \in 1..Len(arrived[d]) : Cells(d)[k] = <<d, k>>
  BY DEF Cells
<1> QED BY <1>1, <1>2, <1>3

(* Cutting a sequence in two, and cutting the rest again. *)
LEMMA Cut ==
    ASSUME NEW T, NEW s \in Seq(T), NEW n \in Nat, n <= Len(s)
    PROVE  /\ SubSeq(s, 1, n) \in Seq(T) /\ Len(SubSeq(s, 1, n)) = n
           /\ SubSeq(s, n + 1, Len(s)) \in Seq(T) /\ Len(SubSeq(s, n + 1, Len(s))) = Len(s) - n
           /\ \A i \in 1..n : SubSeq(s, 1, n)[i] = s[i]
           /\ \A i \in 1..(Len(s) - n) : SubSeq(s, n + 1, Len(s))[i] = s[n + i]
           /\ ToSet(SubSeq(s, 1, n)) \subseteq ToSet(s)
           /\ ToSet(SubSeq(s, n + 1, Len(s))) \subseteq ToSet(s)
<1> DEFINE a == SubSeq(s, 1, n)
           b == SubSeq(s, n + 1, Len(s))
<1>1. a \in Seq(T) /\ Len(a) = n /\ \A i \in 1..n : a[i] = s[i]
  OBVIOUS
<1>2. b \in Seq(T) /\ Len(b) = Len(s) - n /\ \A i \in 1..(Len(s) - n) : b[i] = s[n + i]
  OBVIOUS
<1> HIDE DEF a, b
<1>3. \A r \in Seq(T) : ToSet(r) = {r[i] : i \in 1..Len(r)}
  BY DEF ToSet
<1>4. \A i \in 1..Len(a) : i \in 1..Len(s)
  BY <1>1
<1>5. \A i \in 1..Len(b) : n + i \in 1..Len(s)
  BY <1>2
<1>6. ToSet(a) \subseteq ToSet(s)
  BY <1>1, <1>3, <1>4
<1>7. ToSet(b) \subseteq ToSet(s)
  BY <1>2, <1>3, <1>5
<1> QED BY <1>1, <1>2, <1>6, <1>7 DEF a, b

(* What is left of a datagram after its first cell, less that one's first. *)
LEMMA CutTwice ==
    ASSUME NEW T, NEW s \in Seq(T), Len(s) >= 2
    PROVE  LET r == SubSeq(s, 2, Len(s)) IN
           /\ r \in Seq(T) /\ Len(r) = Len(s) - 1 /\ r # <<>> /\ r[1] = s[2]
           /\ SubSeq(r, 2, Len(r)) = SubSeq(s, 3, Len(s))
<1> DEFINE r == SubSeq(s, 2, Len(s))
           a == SubSeq(r, 2, Len(r))
           b == SubSeq(s, 3, Len(s))
<1>1. r \in Seq(T) /\ Len(r) = Len(s) - 1 /\ \A i \in 1..(Len(s) - 1) : r[i] = s[1 + i]
  OBVIOUS
<1>2. b \in Seq(T) /\ Len(b) = Len(s) - 2 /\ \A i \in 1..(Len(s) - 2) : b[i] = s[2 + i]
  <2>0. Len(s) \in Nat
    OBVIOUS
  <2>1. b \in Seq(T)
    BY <2>0
  <2>2. Len(b) = Len(s) - 2
    <3>1. CASE Len(s) = 2
      BY <2>0, <3>1
    <3>2. CASE Len(s) >= 3
      BY <2>0, <3>2
    <3>3. Len(s) = 2 \/ Len(s) >= 3
      <4>1. \A m \in Nat : m >= 2 => m = 2 \/ m >= 3
        OBVIOUS
      <4> QED BY <2>0, <4>1
    <3> HIDE DEF b
    <3> QED BY <3>1, <3>2, <3>3
  <2>3. ASSUME NEW i \in 1..(Len(s) - 2) PROVE b[i] = s[2 + i]
    BY <2>0
  <2> QED BY <2>1, <2>2, <2>3
<1> HIDE DEF r
<1>3. a \in Seq(T) /\ Len(a) = Len(r) - 1 /\ \A i \in 1..(Len(r) - 1) : a[i] = r[1 + i]
  BY <1>1
<1> HIDE DEF a, b
<1>4. Len(a) = Len(b)
  BY <1>1, <1>2, <1>3
<1>5. \A i \in 1..Len(a) : a[i] = b[i]
  BY <1>1, <1>2, <1>3
<1>6. a = b
  BY <1>2, <1>3, <1>4, <1>5
<1>7. r # <<>> /\ r[1] = s[2]
  BY <1>1
<1> QED BY <1>1, <1>6, <1>7 DEF a, b, r

(* The next datagram. *)
LEMMA HeadOff ==
    ASSUME TypeOK, FrontInv, socket # <<>>
    PROVE  /\ Head(socket) \in 1..Len(arrived) /\ Past(Head(socket))
           /\ Tail(socket) \in Seq(1..Len(arrived))
           /\ \A i \in 1..Len(Tail(socket)) : Head(socket) < Tail(socket)[i]
           /\ \A i \in 1..Len(Tail(socket)) : Past(Tail(socket)[i])
           /\ \A i, j \in 1..Len(Tail(socket)) : i < j => Tail(socket)[i] < Tail(socket)[j]
           /\ \A d : Taken(d) => d < Head(socket) /\ \A i \in 1..Len(Tail(socket)) : d < Tail(socket)[i]
<1> DEFINE u == Tail(socket)
<1>1. socket \in Seq(1..Len(arrived)) /\ Len(socket) \in Nat /\ Len(socket) >= 1
  BY DEF TypeOK
<1>2. /\ u \in Seq(1..Len(arrived)) /\ Len(u) = Len(socket) - 1 /\ Head(socket) = socket[1]
      /\ \A i \in 1..Len(u) : u[i] = socket[i + 1]
  BY <1>1
<1> HIDE DEF u
<1>3. \A i \in 1..Len(u) : i + 1 \in 1..Len(socket) /\ 1 < i + 1
  BY <1>1, <1>2
<1>4. 1 \in 1..Len(socket)
  BY <1>1
<1>5. Head(socket) \in 1..Len(arrived) /\ Past(Head(socket))
  BY <1>1, <1>2, <1>4 DEF FrontInv, SocketLine
<1>6. /\ \A i \in 1..Len(u) : Head(socket) < u[i]
      /\ \A i \in 1..Len(u) : Past(u[i])
  BY <1>2, <1>3, <1>4 DEF FrontInv, SocketLine
<1>7. ASSUME NEW i \in 1..Len(u), NEW j \in 1..Len(u), i < j PROVE u[i] < u[j]
  <2>1. i + 1 < j + 1
    BY <1>1, <1>2, <1>7
  <2> QED BY <1>2, <1>3, <2>1 DEF FrontInv, SocketLine
<1>8. \A d : Taken(d) => d < Head(socket) /\ \A i \in 1..Len(u) : d < u[i]
  BY <1>2, <1>3, <1>4 DEF Taken
<1> QED BY <1>2, <1>5, <1>6, <1>7, <1>8 DEF u

(* A step of the reader leaves the dealt items and the line as they are. *)
LEMMA ReaderKeeps ==
    ASSUME TypeOK, ReaderInv, FrontInv, Kept,
           socket' = socket \/ (socket # <<>> /\ socket' = Tail(socket))
    PROVE  /\ ItemsSynced' /\ SocketLine'
           /\ \A d : (Past(d)' <=> Past(d)) /\ (Taken(d) => Taken(d)')
           /\ \A d : Cells(d)' = Cells(d)
           /\ \A it : Synced(it)' <=> Synced(it)
<1>1. arrived' = arrived /\ UNCHANGED <<q, tpc, ti, sent, failed>>
  BY DEF Kept, tvars
<1>2. /\ \A t \in Thread : Mine(t)' = Mine(t)
      /\ \A d : Past(d)' <=> Past(d)
  BY <1>1, SameMine
<1>3. (\A d : Cells(d)' = Cells(d)) /\ \A it : Synced(it)' <=> Synced(it)
  BY <1>1 DEF Cells, Synced
<1>4. ItemsSynced'
  BY <1>2, <1>3 DEF ReaderInv, ItemsSynced
<1>5. CASE socket' = socket
  BY <1>2, <1>3, <1>4, <1>5 DEF FrontInv, SocketLine, Taken
<1>6. CASE socket # <<>> /\ socket' = Tail(socket)
  <2>1. /\ \A i \in 1..Len(socket') : Past(socket'[i])
        /\ \A i, j \in 1..Len(socket') : i < j => socket'[i] < socket'[j]
        /\ \A d : Taken(d) => \A i \in 1..Len(socket') : d < socket'[i]
    BY <1>6, HeadOff
  <2>2. SocketLine'
    BY <1>2, <2>1 DEF SocketLine
  <2>3. \A d : Taken(d) => Taken(d)'
    BY <2>1 DEF Taken
  <2> QED BY <1>2, <1>3, <1>4, <2>2, <2>3
<1> QED BY <1>5, <1>6

(* TickReadHeader takes the first cell of the next datagram. *)
LEMMA HeaderStep ==
    ASSUME TypeOK, ReaderInv, FrontInv, ReadMore, Kept, spc = "header"
    PROVE  InStep' /\ ReadLine'
<1>h. PICK h, L, rest : h = Head(socket) /\ L = Len(arrived[h]) /\ rest = SubSeq(Cells(h), 2, L)
  OBVIOUS
<1>1. rio = <<>> /\ need = 1 /\ got = <<>> /\ socket # <<>> /\ socket' = Tail(socket)
  BY DEF ReaderInv, InStep, ReadMore
<1>2. /\ h \in 1..Len(arrived) /\ Past(h) /\ h \in Nat
      /\ \A i \in 1..Len(socket') : h < socket'[i]
  BY <1>h, <1>1, HeadOff
<1>3. /\ Cells(h) \in Seq(Cell) /\ Len(Cells(h)) = L /\ L \in Nat
      /\ \A k \in 1..L : Cells(h)[k] = <<h, k>>
  BY <1>h, <1>2, CellsAre
<1>4. Chunk = Cells(h) /\ Cells(h) # <<>> /\ L >= 1
  <2>1. Chunk = Cells(h) /\ Cells(h) # <<>>
    BY <1>h, <1>1 DEF Chunk, ReadMore
  <2> QED BY <1>3, <2>1
<1>5. PICK cells, r : /\ cells = got \o SubSeq(Chunk, 1, 1) /\ r = SubSeq(Chunk, 1 + 1, Len(Chunk))
                      /\ \/ Len(cells) = need /\ Returned(cells, r)
                         \/ Len(cells) < need
  <2>1. (IF need - Len(got) < Len(Chunk) THEN need - Len(got) ELSE Len(Chunk)) = 1
    BY <1>1, <1>3, <1>4
  <2> QED BY <2>1 DEF ReadMore
<1>6. cells \in Seq(Cell) /\ Len(cells) = 1 /\ cells[1] = <<h, 1>> /\ cells # <<>>
  BY <1>1, <1>3, <1>4, <1>5
<1>7. r = rest
  BY <1>h, <1>3, <1>4, <1>5
<1>8. HeaderRead(cells, r)
  BY <1>1, <1>5, <1>6 DEF Returned, HeaderRead, CodeRead, PacketRead
<1>9. /\ spc' = "code" /\ need' = 1 /\ got' = <<>> /\ rio' = rest /\ header' = <<h, 1>>
  BY <1>6, <1>7, <1>8 DEF HeaderRead, Ask
<1>10. header'[1] = h /\ header'[2] = 1
  BY <1>9
<1>11. arrived' = arrived /\ Cells(h)' = Cells(h)
  BY DEF Kept, Cells
<1>12. \A c \in ToSet(rest) : c[1] = h
  <2>1. ToSet(rest) \subseteq ToSet(Cells(h))
    <3>1. ToSet(SubSeq(Cells(h), 1 + 1, Len(Cells(h)))) \subseteq ToSet(Cells(h))
      BY <1>3, <1>4, Cut
    <3> QED BY <1>h, <1>3, <3>1
  <2>2. \A c \in ToSet(Cells(h)) : c[1] = h
    BY <1>3 DEF ToSet
  <2> QED BY <2>1, <2>2
<1>13. InStep'
  <2>1. rio' = SubSeq(Cells(h)', 2, Len(arrived'[h]))
    BY <1>h, <1>9, <1>11
  <2> QED BY <1>9, <1>10, <2>1 DEF InStep, Cells
<1>14. Past(h)' /\ Taken(h)'
  <2>1. Past(h)'
    BY <1>2, SameMine DEF Kept, tvars
  <2>2. Taken(h)'
    BY <1>2 DEF Taken
  <2> QED BY <2>1, <2>2
<1>15. \A c \in ToSet(rio') \cup ToSet(got') : c[1] = h
  <2>1. ToSet(got') = {}
    BY <1>9 DEF ToSet
  <2> QED BY <1>9, <1>12, <2>1
<1> QED BY <1>2, <1>9, <1>10, <1>13, <1>14, <1>15 DEF ReadLine, InRead, Past, Taken

(* What one rio_read brings after the header is not before it. *)
LEMMA ChunkRead ==
    ASSUME TypeOK, ReaderInv, FrontInv, ReadMore, Kept, spc \in {"code", "packet"},
           NEW h, h = header[1]
    PROVE  /\ h \in 1..Len(arrived) /\ h \in Nat /\ Past(h)' /\ Taken(h)'
           /\ Chunk \in Seq(Cell) /\ Len(Chunk) >= 1
           /\ \A c \in ToSet(Chunk) \cup ToSet(got) : h <= c[1] /\ Taken(c[1])'
<1>1. h \in 1..Len(arrived) /\ h \in Nat /\ Past(h) /\ Taken(h)
  <2>1. header \in Cell
    BY DEF TypeOK
  <2>2. h \in 1..Len(arrived)
    BY <2>1 DEF Cell
  <2> QED BY <2>2 DEF FrontInv, ReadLine
<1>2. socket' = socket \/ (socket # <<>> /\ socket' = Tail(socket))
  BY DEF ReadMore
<1>3. \A d : (Past(d)' <=> Past(d)) /\ (Taken(d) => Taken(d)')
  BY <1>2, ReaderKeeps
<1>4. Chunk \in Seq(Cell) /\ Len(Chunk) >= 1
  <2>1. Chunk \in Seq(Cell) /\ Chunk # <<>>
    BY ChunkType DEF ReadMore
  <2> QED BY <2>1
<1>5. \A c \in ToSet(got) \cup ToSet(rio) : h <= c[1] /\ Taken(c[1])'
  BY <1>3 DEF FrontInv, ReadLine, InRead
<1>6. \A c \in ToSet(Chunk) : h <= c[1] /\ Taken(c[1])'
  <2>1. CASE rio # <<>>
    BY <1>5, <2>1 DEF Chunk
  <2>2. CASE rio = <<>>
    <3>1. PICK d : d = Head(socket)
      OBVIOUS
    <3>2. socket # <<>> /\ socket' = Tail(socket) /\ Chunk = Cells(d)
      BY <2>2, <3>1 DEF ReadMore, Chunk
    <3>3. d \in 1..Len(arrived) /\ h < d /\ \A i \in 1..Len(socket') : d < socket'[i]
      BY <1>1, <3>1, <3>2, HeadOff
    <3>4. \A c \in ToSet(Cells(d)) : c[1] = d
      BY <3>3, CellsAre DEF ToSet
    <3>5. Taken(d)' /\ h <= d
      BY <1>1, <3>3 DEF Taken
    <3> QED BY <3>2, <3>4, <3>5
  <2> QED BY <2>1, <2>2
<1> QED BY <1>1, <1>3, <1>4, <1>5, <1>6

(* TickReadCode takes the second cell of the datagram, if it has one. *)
LEMMA CodeStep ==
    ASSUME TypeOK, ReaderInv, FrontInv, ReadMore, Kept, spc = "code"
    PROVE  InStep' /\ ReadLine'
<1>h. PICK h, L : h = header[1] /\ L = Len(arrived[h])
  OBVIOUS
<1>1. /\ need = 1 /\ got = <<>> /\ header[2] = 1 /\ header \in Cell
      /\ rio = SubSeq(Cells(h), 2, L)
  BY <1>h DEF ReaderInv, InStep, TypeOK
<1>2. /\ h \in 1..Len(arrived) /\ h \in Nat /\ Past(h)' /\ Taken(h)'
      /\ Chunk \in Seq(Cell) /\ Len(Chunk) >= 1 /\ Len(Chunk) \in Nat
      /\ \A c \in ToSet(Chunk) : h <= c[1] /\ Taken(c[1])'
  BY <1>h, ChunkRead
<1>3. PICK cells, r : /\ cells = got \o SubSeq(Chunk, 1, 1) /\ r = SubSeq(Chunk, 1 + 1, Len(Chunk))
                      /\ \/ Len(cells) = need /\ Returned(cells, r)
                         \/ Len(cells) < need
  <2>1. (IF need - Len(got) < Len(Chunk) THEN need - Len(got) ELSE Len(Chunk)) = 1
    <3>1. Len(got) = 0 /\ need - Len(got) = 1
      BY <1>1
    <3>2. \A m \in Nat : m >= 1 => (IF 1 < m THEN 1 ELSE m) = 1
      OBVIOUS
    <3> QED BY <1>2, <3>1, <3>2
  <2> QED BY <2>1 DEF ReadMore
<1>4. cells \in Seq(Cell) /\ Len(cells) = 1 /\ cells[1] = Chunk[1] /\ cells # <<>>
  BY <1>1, <1>2, <1>3
<1>5. CodeRead(cells, r)
  BY <1>1, <1>3, <1>4 DEF Returned, HeaderRead, CodeRead, PacketRead
<1>6. CASE ValueOf(header) <= 1
  <2>1. spc' = "poll"
    BY <1>5, <1>6 DEF CodeRead, NextEvent
  <2> QED BY <2>1 DEF InStep, ReadLine
<1>7. CASE ~(ValueOf(header) <= 1)
  <2>1. /\ spc' = "packet" /\ need' = ValueOf(header) - 1 /\ got' = <<>> /\ rio' = r
        /\ code' = Chunk[1] /\ header' = header
    BY <1>4, <1>5, <1>7 DEF CodeRead, Ask
  <2>2. header'[1] = h /\ header'[2] = 1 /\ arrived' = arrived /\ Cells(h)' = Cells(h)
    BY <1>h, <1>1, <2>1 DEF Kept, Cells
  <2>3. ASSUME WellFormed(arrived[h])
        PROVE  /\ code' = <<h, 2>> /\ need' = L - 2
               /\ rio' = SubSeq(Cells(h), 3, L)
    <3>1. L >= 3 /\ arrived[h][1] = L - 1 /\ L \in Nat
      BY <1>h, <1>2, <2>3, CellsAre DEF WellFormed
    <3>2. /\ Cells(h) \in Seq(Cell) /\ Len(Cells(h)) = L /\ Cells(h)[2] = <<h, 2>>
      <4>1. 2 \in 1..L
        BY <3>1
      <4> QED BY <1>h, <1>2, <4>1, CellsAre
    <3>3. /\ rio \in Seq(Cell) /\ Len(rio) = L - 1 /\ rio # <<>> /\ rio[1] = <<h, 2>>
          /\ SubSeq(rio, 2, Len(rio)) = SubSeq(Cells(h), 3, L)
      <4>1. Len(Cells(h)) >= 2
        BY <3>1, <3>2
      <4> QED BY <1>1, <3>2, <4>1, CutTwice
    <3>4. Chunk = rio
      BY <3>3 DEF Chunk
    <3>5. ValueOf(header) = L - 1
      BY <1>h, <1>1, <3>1 DEF ValueOf
    <3>6. need' = L - 2
      BY <2>1, <3>1, <3>5
    <3>7. code' = <<h, 2>>
      BY <2>1, <3>3, <3>4
    <3>8. rio' = SubSeq(rio, 2, Len(rio))
      <4>1. \A m : SubSeq(rio, 1 + 1, m) = SubSeq(rio, 2, m)
        <5>1. 1 + 1 = 2
          OBVIOUS
        <5> QED BY <5>1, Zenon
      <4> QED BY <1>3, <2>1, <3>4, <4>1
    <3>9. rio' = SubSeq(Cells(h), 3, L)
      BY <3>3, <3>8
    <3> QED BY <3>6, <3>7, <3>9
  <2>4. InStep'
    BY <1>h, <2>1, <2>2, <2>3 DEF InStep, WellFormed, Cells
  <2>5. ToSet(rio') \subseteq ToSet(Chunk) /\ ToSet(got') = {} /\ code' \in ToSet(Chunk)
    <3>1. ToSet(r) \subseteq ToSet(Chunk)
      BY <1>2, <1>3, Cut
    <3>2. Chunk[1] \in ToSet(Chunk)
      BY <1>2 DEF ToSet
    <3> QED BY <2>1, <3>1, <3>2 DEF ToSet
  <2> QED BY <1>2, <2>1, <2>2, <2>4, <2>5 DEF ReadLine, InRead, Past, Taken
<1> QED BY <1>6, <1>7

(* An item from what TickReadPacket was given. *)
LEMMA PacketItem ==
    ASSUME TypeOK, ReaderInv, FrontInv, Kept, spc = "packet",
           socket' = socket \/ (socket # <<>> /\ socket' = Tail(socket)),
           NEW cells \in Seq(Cell), NEW rest, PacketRead(cells, rest), cells # <<>>,
           \A c \in ToSet(cells) : header[1] <= c[1] /\ Taken(c[1])',
           WellFormed(arrived[header[1]]) =>
               cells = SubSeq(Cells(header[1]), 3, Len(arrived[header[1]]))
    PROVE  InStep' /\ ReadLine'
<1>1. spc' = "push" /\ item' = [hdr |-> header, code |-> code, body |-> cells]
  BY DEF PacketRead
<1>2. PICK it : it = item'
  OBVIOUS
<1>3. it.hdr = header /\ it.code = code /\ it.body = cells
  BY <1>1, <1>2
<1>4. /\ \A d : (Past(d)' <=> Past(d)) /\ (Taken(d) => Taken(d)')
      /\ Synced(it)' <=> Synced(it)
  BY ReaderKeeps
<1>5. header[1] \in Nat /\ code[1] \in Nat
  <2>1. header \in Cell /\ code \in Cell
    BY DEF TypeOK
  <2>2. \A c \in Cell : c[1] \in 1..Len(arrived)
    BY DEF Cell
  <2>3. Len(arrived) \in Nat
    BY DEF TypeOK
  <2> QED BY <2>1, <2>2, <2>3
<1>6. Past(it.hdr[1])' /\ (\A s \in Sources(it) : it.hdr[1] <= s /\ Taken(s)')
  <2>1. Past(header[1]) /\ Taken(header[1]) /\ header[1] <= code[1] /\ Taken(code[1])
    BY DEF FrontInv, ReadLine, InRead
  <2>2. PICK x, y : x = header[1] /\ y = code[1]
    OBVIOUS
  <2>3. Past(x)' /\ Taken(x)' /\ Taken(y)' /\ x <= y /\ x <= x
    BY <1>4, <1>5, <2>1, <2>2
  <2>4. \A c \in ToSet(cells) : x <= c[1] /\ Taken(c[1])'
    BY <2>2
  <2>5. it.hdr[1] = x /\ Sources(it) = {x, y} \cup {c[1] : c \in ToSet(cells)}
    BY <1>3, <2>2 DEF Sources
  <2> QED BY <2>3, <2>4, <2>5
<1>7. Synced(it)
  BY <1>3 DEF Synced, ReaderInv, InStep
<1>8. InStep'
  BY <1>1, <1>2, <1>4, <1>6, <1>7 DEF InStep, Ordered, Synced, Cells
<1>9. ReadLine'
  BY <1>1, <1>2, <1>6 DEF ReadLine, Past, Taken
<1> QED BY <1>8, <1>9

(* TickReadPacket goes on reading, or has its packet. *)
LEMMA PacketStep ==
    ASSUME TypeOK, ReaderInv, FrontInv, ReadMore, Kept, spc = "packet"
    PROVE  InStep' /\ ReadLine'
<1>h. PICK h, L : h = header[1] /\ L = Len(arrived[h])
  OBVIOUS
<1>0. socket' = socket \/ (socket # <<>> /\ socket' = Tail(socket))
  BY DEF ReadMore
<1>1. /\ h \in 1..Len(arrived) /\ h \in Nat /\ Past(h)' /\ Taken(h)'
      /\ Chunk \in Seq(Cell) /\ Len(Chunk) >= 1 /\ Len(Chunk) \in Nat
      /\ \A c \in ToSet(Chunk) \cup ToSet(got) : h <= c[1] /\ Taken(c[1])'
  BY <1>h, ChunkRead
<1>2. got \in Seq(Cell) /\ Len(got) \in Nat /\ need \in Nat /\ Len(got) <= need
  BY DEF TypeOK
<1>3. PICK n, cells, rest :
        /\ n = IF need - Len(got) < Len(Chunk) THEN need - Len(got) ELSE Len(Chunk)
        /\ cells = got \o SubSeq(Chunk, 1, n) /\ rest = SubSeq(Chunk, n + 1, Len(Chunk))
        /\ \/ Len(cells) = need /\ Returned(cells, rest)
           \/ /\ Len(cells) < need
              /\ got' = cells /\ rio' = rest
              /\ UNCHANGED <<spc, need, header, code, item>>
  BY DEF ReadMore
<1>4. n \in Nat /\ n <= Len(Chunk) /\ n <= need - Len(got)
  BY <1>1, <1>2, <1>3
<1>5. /\ SubSeq(Chunk, 1, n) \in Seq(Cell) /\ Len(SubSeq(Chunk, 1, n)) = n
      /\ ToSet(SubSeq(Chunk, 1, n)) \subseteq ToSet(Chunk) /\ ToSet(rest) \subseteq ToSet(Chunk)
  <2>1. /\ SubSeq(Chunk, 1, n) \in Seq(Cell) /\ Len(SubSeq(Chunk, 1, n)) = n
        /\ ToSet(SubSeq(Chunk, 1, n)) \subseteq ToSet(Chunk)
        /\ ToSet(SubSeq(Chunk, n + 1, Len(Chunk))) \subseteq ToSet(Chunk)
    BY <1>1, <1>4, Cut
  <2> QED BY <1>3, <2>1
<1>6. cells \in Seq(Cell) /\ Len(cells) = Len(got) + n
  BY <1>2, <1>3, <1>5
<1>7. ToSet(cells) \subseteq ToSet(got) \cup ToSet(Chunk)
  <2> DEFINE a == SubSeq(Chunk, 1, n)
  <2>1. a \in Seq(Cell) /\ Len(a) = n /\ ToSet(a) \subseteq ToSet(Chunk) /\ cells = got \o a
    BY <1>3, <1>5
  <2> HIDE DEF a
  <2>2. \A i \in 1..Len(cells) : \/ i \in 1..Len(got) /\ cells[i] = got[i]
                                 \/ i - Len(got) \in 1..n /\ cells[i] = a[i - Len(got)]
    BY <1>2, <1>4, <1>6, <2>1
  <2>3. /\ ToSet(cells) = {cells[i] : i \in 1..Len(cells)} /\ ToSet(a) = {a[i] : i \in 1..n}
        /\ ToSet(got) = {got[i] : i \in 1..Len(got)}
    <3>1. \A s \in Seq(Cell) : ToSet(s) = {s[i] : i \in 1..Len(s)}
      BY DEF ToSet
    <3> QED BY <1>2, <1>6, <2>1, <3>1
  <2> QED BY <2>1, <2>2, <2>3
<1>8. \A c \in ToSet(cells) : h <= c[1] /\ Taken(c[1])'
  BY <1>1, <1>7
<1>9. ASSUME WellFormed(arrived[h])
      PROVE  Len(cells) = need /\ cells = SubSeq(Cells(h), 3, L)
  <2>1. got = <<>> /\ need = L - 2 /\ rio = SubSeq(Cells(h), 3, L)
    BY <1>h, <1>9 DEF ReaderInv, InStep
  <2>2. L >= 3 /\ L \in Nat /\ Cells(h) \in Seq(Cell) /\ Len(Cells(h)) = L
    BY <1>h, <1>1, <1>9, CellsAre DEF WellFormed
  <2>3. rio \in Seq(Cell) /\ Len(rio) = L - 2 /\ rio # <<>>
    BY <2>1, <2>2
  <2>4. Chunk = rio
    BY <2>3 DEF Chunk
  <2>5. Len(got) = 0 /\ n = L - 2
    BY <1>3, <2>1, <2>2, <2>3, <2>4
  <2>6. cells = SubSeq(rio, 1, Len(rio))
    <3>1. \A s \in Seq(Cell) : <<>> \o s = s
      OBVIOUS
    <3>2. cells = SubSeq(Chunk, 1, n)
      BY <1>3, <1>5, <2>1, <3>1
    <3> QED BY <2>3, <2>4, <2>5, <3>2
  <2>7. cells = rio
    BY <2>3, <2>6
  <2> QED BY <2>1, <2>3, <2>7
<1>10. CASE Len(cells) = need /\ Returned(cells, rest)
  <2>1. PacketRead(cells, rest)
    BY <1>10 DEF Returned, HeaderRead, CodeRead, PacketRead
  <2>2. CASE cells = <<>>
    <3>1. spc' = "poll"
      BY <2>1, <2>2 DEF PacketRead, NextEvent
    <3> QED BY <3>1 DEF InStep, ReadLine
  <2>3. CASE cells # <<>>
    BY <1>h, <1>0, <1>6, <1>8, <1>9, <2>1, <2>3, PacketItem
  <2> QED BY <2>2, <2>3
<1>11. CASE /\ Len(cells) < need
            /\ got' = cells /\ rio' = rest
            /\ UNCHANGED <<spc, need, header, code, item>>
  <2>1. ~WellFormed(arrived[h])
    BY <1>2, <1>6, <1>9, <1>11
  <2>2. header'[1] = h /\ arrived' = arrived /\ spc' = "packet" /\ header[2] = 1 /\ header' = header
    BY <1>h, <1>11 DEF Kept, ReaderInv, InStep
  <2>3. InStep'
    BY <2>1, <2>2 DEF InStep
  <2>4. \A c \in ToSet(rio') \cup ToSet(got') : h <= c[1] /\ Taken(c[1])'
    BY <1>1, <1>5, <1>8, <1>11
  <2>5. PICK k : k = code
    OBVIOUS
  <2>6. code' = k /\ h <= k[1] /\ Taken(k[1])'
    BY <1>h, <1>0, <1>11, <2>5, ReaderKeeps DEF FrontInv, ReadLine, InRead
  <2> QED BY <1>1, <2>2, <2>3, <2>4, <2>6 DEF ReadLine, InRead, Past, Taken
<1> QED BY <1>3, <1>10, <1>11

(* Every step of the reader keeps it in step, and the datagrams in line. *)
LEMMA ReadStep ==
    ASSUME TypeOK, ReaderInv, FrontInv, Poll \/ ReadMore \/ ReadEmpty \/ ReadAgain
    PROVE  ReaderInv' /\ FrontInv'
<1>1. Kept
  BY ReadStepOK
<1>2. socket' = socket \/ (socket # <<>> /\ socket' = Tail(socket))
  BY DEF Poll, ReadMore, ReadEmpty, ReadAgain
<1>3. ItemsSynced' /\ SocketLine'
  BY <1>1, <1>2, ReaderKeeps
<1>4. InStep' /\ ReadLine'
  <2>0. spc' = "poll" => InStep' /\ ReadLine'
    BY DEF InStep, ReadLine
  <2>1. CASE Poll
    BY <2>1 DEF Poll, Ask, InStep, ReadLine
  <2>2. CASE ReadMore
    <3>1. spc \in {"header", "code", "packet"}
      BY <2>2 DEF ReadMore, Reading
    <3> QED BY <1>1, <2>2, <3>1, HeaderStep, CodeStep, PacketStep
  <2>3. CASE ReadEmpty
    <3>1. Returned(got, <<>>) /\ rio = <<>> /\ got \in Seq(Cell)
      BY <2>3 DEF ReadEmpty, TypeOK
    <3>2. CASE HeaderRead(got, <<>>)
      <4>1. got = <<>>
        BY <3>2 DEF HeaderRead, ReaderInv, InStep
      <4> QED BY <2>0, <3>2, <4>1 DEF HeaderRead, NextEvent
    <3>3. CASE CodeRead(got, <<>>)
      <4>1. got = <<>>
        BY <3>3 DEF CodeRead, ReaderInv, InStep
      <4> QED BY <2>0, <3>3, <4>1 DEF CodeRead, NextEvent
    <3>4. CASE PacketRead(got, <<>>)
      <4>1. spc = "packet" /\ header \in Cell
        BY <3>4 DEF PacketRead, TypeOK
      <4>2. \A c \in ToSet(got) : header[1] <= c[1] /\ Taken(c[1])'
        BY <1>1, <1>2, <4>1, ReaderKeeps DEF FrontInv, ReadLine, InRead
      <4>3. ~WellFormed(arrived[header[1]])
        <5>1. SUFFICES ASSUME WellFormed(arrived[header[1]]) PROVE FALSE
          OBVIOUS
        <5>2. PICK h, L : h = header[1] /\ L = Len(arrived[h])
          OBVIOUS
        <5>3. rio = SubSeq(Cells(h), 3, L) /\ h \in 1..Len(arrived)
          BY <4>1, <5>1, <5>2 DEF ReaderInv, InStep, Cell
        <5>4. L >= 3 /\ L \in Nat /\ Cells(h) \in Seq(Cell) /\ Len(Cells(h)) = L
          BY <5>1, <5>2, <5>3, CellsAre DEF WellFormed
        <5>5. rio # <<>>
          BY <5>3, <5>4
        <5> QED BY <3>1, <5>5
      <4>4. CASE got = <<>>
        BY <2>0, <3>4, <4>4 DEF PacketRead, NextEvent
      <4>5. CASE got # <<>>
        BY <1>1, <1>2, <3>1, <3>4, <4>1, <4>2, <4>3, <4>5, PacketItem
      <4> QED BY <4>4, <4>5
    <3> QED BY <3>1, <3>2, <3>3, <3>4 DEF Returned
  <2>4. CASE ReadAgain
    BY <2>0, <2>4 DEF ReadAgain, NextEvent
  <2> QED BY <2>1, <2>2, <2>3, <2>4
<1> QED BY <1>3, <1>4 DEF ReaderInv, FrontInv

(* A datagram that arrives is after all others. *)
LEMMA ArriveFront ==
    ASSUME TypeOK, ReaderInv, FrontInv, NEW dg \in Datagrams, Arrive(dg)
    PROVE  ReaderInv' /\ FrontInv'
<1> DEFINE N == Len(arrived)
<1>1. /\ arrived' = Append(arrived, dg) /\ socket' = Append(socket, Len(arrived'))
      /\ UNCHANGED <<spc, rio, need, got, header, code, item, q, tpc, ti, sent, failed>>
  BY DEF Arrive, tvars
<1>2. arrived \in Seq(Datagrams) /\ N \in Nat /\ socket \in Seq(1..N) /\ Len(socket) \in Nat
  BY DEF TypeOK
<1>3. Len(arrived') = N + 1 /\ \A d \in 1..N : arrived'[d] = arrived[d]
  BY <1>1, <1>2
<1>4. /\ Len(socket') = Len(socket) + 1 /\ socket'[Len(socket) + 1] = N + 1
      /\ \A i \in 1..Len(socket) : socket'[i] = socket[i] /\ socket[i] \in 1..N
  BY <1>1, <1>2, <1>3
<1> HIDE DEF N
<1>5. \A d \in 1..N : Cells(d)' = Cells(d)
  BY <1>3 DEF Cells
<1>6. /\ \A t \in Thread : Mine(t)' = Mine(t)
      /\ \A d : Past(d)' <=> Past(d)
  BY <1>1, SameMine
<1>7. \A it \in Item : it.hdr[1] \in 1..N /\ Sources(it) \subseteq 1..N
  BY SourcesType DEF N
<1>8. \A it \in Item : Synced(it)' <=> Synced(it)
  BY <1>3, <1>5, <1>7 DEF Synced
<1>9. \A d \in 1..N : Taken(d) => Taken(d)'
  <2>1. ASSUME NEW d \in 1..N, Taken(d), NEW i \in 1..Len(socket') PROVE d < socket'[i]
    <3>1. i \in 1..Len(socket) \/ i = Len(socket) + 1
      BY <1>2, <1>4
    <3>2. d < N + 1
      BY <1>2
    <3> QED BY <1>4, <2>1, <3>1, <3>2 DEF Taken
  <2> QED BY <2>1 DEF Taken
<1>10. \A c \in Cell : c[1] \in 1..N
  BY DEF Cell, N
<1>11. ItemsSynced'
  <2>1. \A t \in Thread : \A a \in Mine(t) : a \in Item /\ Ordered(a) /\ Synced(a)
    BY MineType DEF ReaderInv, ItemsSynced
  <2> QED BY <1>6, <1>8, <2>1 DEF ItemsSynced
<1>12. InStep'
  <2>1. CASE spc \in {"code", "packet"}
    <3>1. PICK h : h = header[1]
      OBVIOUS
    <3>2. h \in 1..N /\ header'[1] = h
      BY <1>1, <1>10, <2>1, <3>1 DEF TypeOK
    <3>3. Cells(h)' = Cells(h) /\ arrived'[h] = arrived[h]
      BY <1>3, <1>5, <3>2
    <3> QED BY <1>1, <2>1, <3>1, <3>2, <3>3 DEF ReaderInv, InStep, Cells
  <2>2. CASE spc = "push"
    <3>1. PICK it : it = item
      OBVIOUS
    <3>2. it \in Item /\ item' = it /\ Ordered(it) /\ Synced(it)
      BY <1>1, <2>2, <3>1 DEF TypeOK, ReaderInv, InStep
    <3>3. Synced(it)'
      BY <1>8, <3>2
    <3> QED BY <1>1, <2>2, <3>2, <3>3 DEF InStep, Ordered, Synced, Cells
  <2>3. CASE spc \notin {"code", "packet", "push"}
    BY <1>1, <2>3 DEF ReaderInv, InStep
  <2> QED BY <2>1, <2>2, <2>3
<1>13. SocketLine'
  <2>1. Past(N + 1)
    <3>1. ASSUME NEW t \in Thread, NEW a \in Mine(t), NEW s \in Sources(a) PROVE s < N + 1
      <4>1. s \in 1..N
        BY <1>7, MineType
      <4> QED BY <1>2, <4>1
    <3> QED BY <3>1 DEF Past
  <2>2. ASSUME NEW i \in 1..Len(socket')
        PROVE  /\ i \in 1..Len(socket) \/ (i = Len(socket) + 1 /\ socket'[i] = N + 1)
               /\ Past(socket'[i])
    <3>1. i \in 1..Len(socket) \/ i = Len(socket) + 1
      BY <1>2, <1>4
    <3> QED BY <1>4, <2>1, <3>1 DEF FrontInv, SocketLine
  <2>3. ASSUME NEW i \in 1..Len(socket'), NEW j \in 1..Len(socket'), i < j
        PROVE  socket'[i] < socket'[j]
    <3>1. i \in 1..Len(socket) /\ (j \in 1..Len(socket) \/ j = Len(socket) + 1)
      <4>1. \A m \in Nat : \A x, y \in 1..(m + 1) : x < y => x \in 1..m /\ (y \in 1..m \/ y = m + 1)
        OBVIOUS
      <4>2. i \in 1..(Len(socket) + 1) /\ j \in 1..(Len(socket) + 1)
        BY <1>4
      <4> QED BY <1>2, <2>3, <4>1, <4>2
    <3>2. CASE j \in 1..Len(socket)
      BY <1>4, <2>3, <3>1, <3>2 DEF FrontInv, SocketLine
    <3>3. CASE j = Len(socket) + 1
      <4>1. socket'[i] \in 1..N /\ socket'[j] = N + 1
        BY <1>4, <3>1, <3>3
      <4> QED BY <1>2, <4>1
    <3> QED BY <3>1, <3>2, <3>3
  <2> QED BY <1>6, <2>2, <2>3 DEF SocketLine
<1>14. ReadLine'
  <2>1. CASE spc \in {"code", "packet"}
    <3>1. PICK h, k : h = header[1] /\ k = code
      OBVIOUS
    <3>2. /\ h \in 1..N /\ Past(h)' /\ Taken(h)' /\ header'[1] = h /\ code' = k
      BY <1>1, <1>6, <1>9, <1>10, <2>1, <3>1 DEF TypeOK, FrontInv, ReadLine
    <3>3. \A c \in ToSet(rio) \cup ToSet(got) : c \in Cell /\ h <= c[1] /\ Taken(c[1])
      <4>1. \A s \in Seq(Cell) : \A c \in ToSet(s) : c \in Cell
        BY DEF ToSet
      <4>2. rio \in Seq(Cell) /\ got \in Seq(Cell)
        BY DEF TypeOK
      <4> QED BY <2>1, <3>1, <4>1, <4>2 DEF FrontInv, ReadLine, InRead
    <3>4. \A c \in ToSet(rio') \cup ToSet(got') : h <= c[1] /\ Taken(c[1])'
      BY <1>1, <1>9, <1>10, <3>3
    <3>5. spc = "packet" => h <= k[1] /\ Taken(k[1])'
      BY <1>9, <1>10, <3>1 DEF TypeOK, FrontInv, ReadLine, InRead
    <3> QED BY <1>1, <2>1, <3>2, <3>4, <3>5 DEF ReadLine, InRead, Past, Taken
  <2>2. CASE spc = "push"
    <3>1. PICK it : it = item
      OBVIOUS
    <3>2. it \in Item /\ item' = it /\ Past(it.hdr[1]) /\ \A s \in Sources(it) : Taken(s)
      BY <1>1, <2>2, <3>1 DEF TypeOK, FrontInv, ReadLine
    <3>3. Past(it.hdr[1])' /\ \A s \in Sources(it) : Taken(s)'
      BY <1>6, <1>7, <1>9, <3>2
    <3> QED BY <1>1, <2>2, <3>2, <3>3 DEF ReadLine, Past, Taken
  <2>3. CASE spc \notin {"code", "packet", "push"}
    BY <1>1, <2>3 DEF ReadLine
  <2> QED BY <2>1, <2>2, <2>3
<1> QED BY <1>11, <1>12, <1>13, <1>14 DEF ReaderInv, FrontInv

(* Dealing the item puts it behind all others. *)
LEMMA PushMine ==
    ASSUME TypeOK, Push, NEW k, k = last_thread, NEW x, x = item
    PROVE  /\ k \in Thread /\ x \in Item /\ q[k] \in Seq(Item)
           /\ q'[k] = Append(q[k], x)
           /\ ToSet(q'[k]) = ToSet(q[k]) \cup {x}
           /\ UNCHANGED <<tpc, ti, sent, failed>>
           /\ \A t \in Thread : Done(t)' = Done(t) /\ Hand(t)' = Hand(t)
           /\ Mine(k)' = Mine(k) \cup {x}
           /\ \A t \in Thread \ {k} : q'[t] = q[t] /\ Mine(t)' = Mine(t)
<1>1. UNCHANGED <<tpc, ti, sent, failed>> /\ q' = [q EXCEPT ![k] = Append(@, x)]
  BY DEF Push, tvars
<1>2. /\ q \in [Thread -> Seq(Item)] /\ k \in Thread /\ x \in Item /\ q[k] \in Seq(Item)
  BY DEF TypeOK, Push
<1>3. q'[k] = Append(q[k], x) /\ \A t \in Thread \ {k} : q'[t] = q[t]
  BY <1>1, <1>2
<1>4. ToSet(q'[k]) = ToSet(q[k]) \cup {x}
  BY <1>2, <1>3, SeqSets
<1>5. \A t \in Thread : Done(t)' = Done(t) /\ Hand(t)' = Hand(t)
  BY <1>1 DEF Done, Hand
<1>6. \A t \in Thread \ {k} : Mine(t)' = Mine(t)
  BY <1>3, <1>5 DEF Mine
<1>7. Mine(k)' = Mine(k) \cup {x}
  BY <1>2, <1>4, <1>5 DEF Mine
<1> QED BY <1>1, <1>2, <1>3, <1>4, <1>5, <1>6, <1>7

(* Dealing and handling items keep the line. *)
LEMMA DealFront ==
    ASSUME TypeOK, ReaderInv, FrontInv,
           Push \/ Notify \/ (\E t \in Thread : Worker(t)) \/ UNCHANGED vars
    PROVE  ReaderInv' /\ FrontInv'
<1>1. arrived' = arrived /\ UNCHANGED <<socket, rio, need, got, header, code>>
  BY DEF Push, Notify, Worker, ReadByte, Pop, Send, rvars, vars
<1>2. /\ \A it : Synced(it)' <=> Synced(it)
      /\ \A d : Taken(d)' <=> Taken(d)
      /\ \A d : Cells(d)' = Cells(d)
  BY <1>1 DEF Synced, Taken, Cells
<1>3. CASE Push
  <2>1. PICK k, x : k = last_thread /\ x = item
    OBVIOUS
  <2>2. /\ spc = "push" /\ spc' = "notify" /\ Mine(k)' = Mine(k) \cup {x}
        /\ \A t \in Thread \ {k} : Mine(t)' = Mine(t)
    BY <1>3, <2>1, PushMine DEF Push
  <2>3. Ordered(x) /\ Synced(x) /\ \A s \in Sources(x) : Taken(s)
    BY <2>1, <2>2 DEF ReaderInv, InStep, FrontInv, ReadLine
  <2>4. ItemsSynced'
    BY <1>2, <2>2, <2>3 DEF ReaderInv, ItemsSynced
  <2>5. \A d : Past(d) /\ (\A s \in Sources(x) : s < d) => Past(d)'
    BY <2>2 DEF Past
  <2>6. ASSUME NEW i \in 1..Len(socket) PROVE Past(socket[i])'
    <3>1. PICK d : d = socket[i]
      OBVIOUS
    <3>2. Past(d)'
      BY <2>3, <2>5, <3>1 DEF FrontInv, SocketLine, Taken
    <3> QED BY <1>1, <3>1, <3>2 DEF Past
  <2>7. SocketLine'
    BY <1>1, <2>6 DEF FrontInv, SocketLine, Past
  <2>8. InStep' /\ ReadLine'
    BY <2>2 DEF InStep, ReadLine
  <2> QED BY <2>4, <2>7, <2>8 DEF ReaderInv, FrontInv
<1>4. CASE Notify
  <2>1. UNCHANGED <<q, tpc, ti, sent, failed>> /\ spc' = "poll"
    BY <1>4 DEF Notify, tvars
  <2>2. /\ \A t \in Thread : Mine(t)' = Mine(t)
        /\ \A d : Past(d)' <=> Past(d)
    BY <2>1, SameMine
  <2>3. InStep' /\ ReadLine'
    BY <2>1 DEF InStep, ReadLine
  <2>4. ItemsSynced' /\ SocketLine'
    BY <1>1, <1>2, <2>2 DEF ReaderInv, ItemsSynced, FrontInv, SocketLine
  <2> QED BY <2>3, <2>4 DEF ReaderInv, FrontInv
<1>5. CASE (\E t \in Thread : Worker(t)) \/ UNCHANGED vars
  <2>1. UNCHANGED <<spc, item>> /\ \A u \in Thread : Mine(u)' = Mine(u)
    <3>1. CASE \E t \in Thread : Worker(t)
      BY <3>1, WorkerMine DEF Worker, ReadByte, Pop, Send
    <3>2. CASE UNCHANGED vars
      BY <3>2, SameMine DEF vars, tvars
    <3> QED BY <1>5, <3>1, <3>2
  <2>2. \A d : Past(d)' <=> Past(d)
    BY <2>1 DEF Past
  <2>3. ItemsSynced' /\ SocketLine'
    BY <1>1, <1>2, <2>1, <2>2 DEF ReaderInv, ItemsSynced, FrontInv, SocketLine
  <2>4. InStep'
    BY <1>1, <1>2, <2>1 DEF ReaderInv, InStep, Cells, Synced, Ordered
  <2>5. ReadLine'
    <3>1. PICK x, h, k : x = item /\ h = header[1] /\ k = code
      OBVIOUS
    <3>2. /\ spc \in {"code", "packet"} => /\ Past(h)' /\ Taken(h)'
                                            /\ \A c \in ToSet(rio) \cup ToSet(got) : h <= c[1] /\ Taken(c[1])'
          /\ spc = "packet" => h <= k[1] /\ Taken(k[1])'
          /\ spc = "push" => Past(x.hdr[1])' /\ \A s \in Sources(x) : Taken(s)'
      BY <1>2, <2>2, <3>1 DEF FrontInv, ReadLine, InRead
    <3>3. header'[1] = h /\ code' = k /\ item' = x
      BY <1>1, <2>1, <3>1
    <3> QED BY <1>1, <2>1, <3>2, <3>3 DEF ReadLine, InRead, Past, Taken
  <2> QED BY <2>3, <2>4, <2>5 DEF ReaderInv, FrontInv
<1> QED BY <1>3, <1>4, <1>5

(* Every step keeps the reader in step and the datagrams in line. *)
LEMMA FrontStep ==
    TypeOK /\ ReaderInv /\ FrontInv /\ [Next]_vars => ReaderInv' /\ FrontInv'
<1> SUFFICES ASSUME TypeOK, ReaderInv, FrontInv, [Next]_vars PROVE ReaderInv' /\ FrontInv'
  OBVIOUS
<1>1. CASE Server \/ (\E t \in Thread : Worker(t)) \/ UNCHANGED vars
  BY <1>1, ReadStep, DealFront DEF Server
<1>2. CASE \E dg \in Datagrams : Arrive(dg)
  BY <1>2, ArriveFront
<1> QED BY <1>1, <1>2 DEF Next, PollTimeout

(* A step that touches no worker's items. *)
LEMMA SameOrder ==
    ASSUME OrderInv, UNCHANGED <<q, tpc, ti, sent, failed>>
    PROVE  OrderInv'
<1>1. \A t \in Thread : Done(t)' = Done(t) /\ Hand(t)' = Hand(t) /\ Mine(t)' = Mine(t)
  BY SameMine
<1> QED BY <1>1 DEF OrderInv

(* The item dealt comes after all the worker has. *)
LEMMA PushOrder ==
    ASSUME TypeOK, FrontInv, OrderInv, Push
    PROVE  OrderInv'
<1>1. PICK k, x : k = last_thread /\ x = item
  OBVIOUS
<1>2. /\ k \in Thread /\ x \in Item /\ q[k] \in Seq(Item)
      /\ q'[k] = Append(q[k], x)
      /\ ToSet(q'[k]) = ToSet(q[k]) \cup {x}
      /\ UNCHANGED <<tpc, ti, sent, failed>>
      /\ \A t \in Thread : Done(t)' = Done(t) /\ Hand(t)' = Hand(t)
      /\ Mine(k)' = Mine(k) \cup {x}
      /\ \A t \in Thread \ {k} : q'[t] = q[t] /\ Mine(t)' = Mine(t)
  BY <1>1, PushMine
<1>3. \A t \in Thread : \A a \in Mine(t) : Before(a, x)
  <2>1. Past(x.hdr[1])
    BY <1>1 DEF Push, FrontInv, ReadLine
  <2> QED BY <2>1 DEF Past, Before
<1>4. \A t \in Thread : Done(t) \subseteq Mine(t) /\ Hand(t) \subseteq Mine(t) /\ ToSet(q[t]) \subseteq Mine(t)
  BY DEF Mine
<1>5. Rising(q'[k])
  BY <1>2, <1>3, <1>4, RisingMoves DEF OrderInv
<1>6. \A t \in Thread : /\ Rising(sent'[t]) /\ Rising(failed'[t]) /\ Rising(q'[t])
                        /\ tpc'[t] # "send" => ti'[t] = Nil
  BY <1>2, <1>5 DEF OrderInv
<1>7. \A t \in Thread : \A a \in ToSet(sent'[t]), b \in ToSet(failed'[t]) : Apart(a, b)
  BY <1>2 DEF OrderInv
<1>8. \A t \in Thread : \A a \in Done(t)', b \in Hand(t)' \cup ToSet(q'[t]) : Before(a, b)
  <2>1. \A t \in Thread : \A a \in Done(t), b \in Hand(t) \cup ToSet(q[t]) : Before(a, b)
    BY DEF OrderInv
  <2>2. \A a \in Done(k), b \in Hand(k) \cup (ToSet(q[k]) \cup {x}) : Before(a, b)
    BY <1>2, <1>3, <1>4, <2>1
  <2>3. ASSUME NEW t \in Thread PROVE \A a \in Done(t)', b \in Hand(t)' \cup ToSet(q'[t]) : Before(a, b)
    <3>1. CASE t = k
      BY <1>2, <2>2, <3>1
    <3>2. CASE t # k
      BY <1>2, <2>1, <3>2
    <3> QED BY <3>1, <3>2
  <2> QED BY <2>3
<1>9. \A t \in Thread : \A a \in Hand(t)', b \in ToSet(q'[t]) : Before(a, b)
  BY <1>2, <1>3, <1>4 DEF OrderInv
<1>10. \A t, u \in Thread : t # u => \A a \in Mine(t)', b \in Mine(u)' : Apart(a, b)
  <2>1. ASSUME NEW t \in Thread, NEW u \in Thread, t # u, NEW a \in Mine(t)', NEW b \in Mine(u)'
        PROVE  Apart(a, b)
    <3>1. CASE t = k
      BY <1>2, <1>3, <2>1, <3>1 DEF OrderInv, Apart
    <3>2. CASE u = k
      BY <1>2, <1>3, <2>1, <3>2 DEF OrderInv, Apart
    <3>3. CASE t # k /\ u # k
      BY <1>2, <2>1, <3>3 DEF OrderInv
    <3> QED BY <3>1, <3>2, <3>3
  <2> QED BY <2>1
<1>11. \A t \in Thread :
         /\ Rising(sent'[t]) /\ Rising(failed'[t]) /\ Rising(q'[t])
         /\ (tpc'[t] # "send" => ti'[t] = Nil)
         /\ \A a \in ToSet(sent'[t]), b \in ToSet(failed'[t]) : Apart(a, b)
         /\ \A a \in Done(t)', b \in Hand(t)' \cup ToSet(q'[t]) : Before(a, b)
         /\ \A a \in Hand(t)', b \in ToSet(q'[t]) : Before(a, b)
  <2> TAKE t \in Thread
  <2>1. /\ Rising(sent'[t]) /\ Rising(failed'[t]) /\ Rising(q'[t])
        /\ (tpc'[t] # "send" => ti'[t] = Nil)
    BY <1>6
  <2>2. \A a \in ToSet(sent'[t]), b \in ToSet(failed'[t]) : Apart(a, b)
    BY <1>7
  <2>3. \A a \in Done(t)', b \in Hand(t)' \cup ToSet(q'[t]) : Before(a, b)
    BY <1>8
  <2>4. \A a \in Hand(t)', b \in ToSet(q'[t]) : Before(a, b)
    BY <1>9
  <2> QED BY <2>1, <2>2, <2>3, <2>4
<1> QED BY <1>10, <1>11 DEF OrderInv

(* A worker hands its items over in the order of its queue. *)
LEMMA WorkerOrder ==
    ASSUME TypeOK, OrderInv, NEW t \in Thread, Worker(t)
    PROVE  OrderInv'
<1>t. /\ q \in [Thread -> Seq(Item)] /\ tpc \in [Thread -> {"poll", "pop", "send"}]
      /\ ti \in [Thread -> Item \cup {Nil}] /\ (tpc[t] = "send" => ti[t] \in Item)
      /\ sent \in [Thread -> Seq(Item)] /\ failed \in [Thread -> Seq(Item)]
  BY DEF TypeOK
<1>0. \A u \in Thread : Mine(u)' = Mine(u)
  BY WorkerMine
<1>1. \A u, v \in Thread : u # v => \A a \in Mine(u)', b \in Mine(v)' : Apart(a, b)
  BY <1>0 DEF OrderInv
<1>2. \A u \in Thread \ {t} : /\ q'[u] = q[u] /\ tpc'[u] = tpc[u] /\ ti'[u] = ti[u]
                              /\ sent'[u] = sent[u] /\ failed'[u] = failed[u]
  <2>1. CASE ReadByte(t)
    BY <1>t, <2>1 DEF ReadByte
  <2>2. CASE Pop(t)
    BY <1>t, <2>2 DEF Pop
  <2>3. CASE Send(t)
    BY <1>t, <2>3 DEF Send
  <2> QED BY <2>1, <2>2, <2>3 DEF Worker
<1>3. \A u \in Thread \ {t} : Done(u)' = Done(u) /\ Hand(u)' = Hand(u)
  BY <1>2 DEF Done, Hand
<1> DEFINE Own(u) == /\ Rising(sent'[u]) /\ Rising(failed'[u]) /\ Rising(q'[u])
                     /\ (tpc'[u] # "send" => ti'[u] = Nil)
                     /\ \A a \in ToSet(sent'[u]), b \in ToSet(failed'[u]) : Apart(a, b)
                     /\ \A a \in Done(u)', b \in Hand(u)' \cup ToSet(q'[u]) : Before(a, b)
                     /\ \A a \in Hand(u)', b \in ToSet(q'[u]) : Before(a, b)
<1>4. \A u \in Thread \ {t} : Own(u)
  BY <1>2, <1>3 DEF OrderInv
<1>5. Own(t)
  <2>0. /\ Rising(sent[t]) /\ Rising(failed[t]) /\ Rising(q[t])
        /\ (tpc[t] # "send" => ti[t] = Nil)
        /\ \A a \in ToSet(sent[t]), b \in ToSet(failed[t]) : Apart(a, b)
        /\ \A a \in Done(t), b \in Hand(t) \cup ToSet(q[t]) : Before(a, b)
        /\ \A a \in Hand(t), b \in ToSet(q[t]) : Before(a, b)
    BY DEF OrderInv
  <2>1. CASE ReadByte(t)
    <3>1. UNCHANGED <<q, ti, sent, failed>> /\ tpc[t] = "poll" /\ tpc'[t] = "pop"
      BY <1>t, <2>1 DEF ReadByte
    <3>2. Done(t)' = Done(t) /\ Hand(t)' = {} /\ Hand(t) = {}
      BY <3>1 DEF Done, Hand
    <3> QED BY <2>0, <3>1, <3>2
  <2>2. CASE Pop(t)
    <3>1. /\ UNCHANGED <<sent, failed>> /\ q[t] # <<>> /\ q'[t] = Tail(q[t])
          /\ tpc'[t] = "send" /\ ti'[t] = Head(q[t]) /\ q[t] \in Seq(Item)
      BY <1>t, <2>2 DEF Pop
    <3>2. Done(t)' = Done(t) /\ Hand(t)' = {Head(q[t])}
      BY <3>1 DEF Done, Hand
    <3>3. ToSet(q[t]) = {Head(q[t])} \cup ToSet(Tail(q[t]))
      BY <3>1, SeqSets
    <3>4. Rising(Tail(q[t])) /\ \A b \in ToSet(Tail(q[t])) : Before(Head(q[t]), b)
      BY <2>0, <3>1, RisingMoves
    <3> QED BY <2>0, <3>1, <3>2, <3>3, <3>4
  <2>3. CASE Send(t)
    <3>1. /\ UNCHANGED q /\ tpc[t] = "send" /\ tpc'[t] = "poll" /\ ti'[t] = Nil /\ ti[t] \in Item
          /\ \/ sent'[t] = Append(sent[t], ti[t]) /\ failed'[t] = failed[t]
             \/ failed'[t] = Append(failed[t], ti[t]) /\ sent'[t] = sent[t]
          /\ sent[t] \in Seq(Item) /\ failed[t] \in Seq(Item)
      BY <1>t, <2>3 DEF Send
    <3>2. Hand(t) = {ti[t]} /\ Hand(t)' = {}
      BY <3>1 DEF Hand
    <3>3. \A a \in Done(t) : Before(a, ti[t])
      BY <2>0, <3>2
    <3>4. \A b \in ToSet(q[t]) : Before(ti[t], b)
      BY <2>0, <3>2
    <3>5. CASE sent'[t] = Append(sent[t], ti[t]) /\ failed'[t] = failed[t]
      <4>1. ToSet(sent'[t]) = ToSet(sent[t]) \cup {ti[t]}
        BY <3>1, <3>5, SeqSets
      <4>2. Rising(sent'[t])
        BY <2>0, <3>1, <3>3, <3>5, RisingMoves DEF Done
      <4>3. Done(t)' = Done(t) \cup {ti[t]}
        BY <3>5, <4>1 DEF Done
      <4>4. \A a \in ToSet(sent'[t]), b \in ToSet(failed'[t]) : Apart(a, b)
        BY <2>0, <3>3, <3>5, <4>1 DEF Apart, Done
      <4> QED BY <2>0, <3>1, <3>2, <3>4, <3>5, <4>2, <4>3, <4>4
    <3>6. CASE failed'[t] = Append(failed[t], ti[t]) /\ sent'[t] = sent[t]
      <4>1. ToSet(failed'[t]) = ToSet(failed[t]) \cup {ti[t]}
        BY <3>1, <3>6, SeqSets
      <4>2. Rising(failed'[t])
        BY <2>0, <3>1, <3>3, <3>6, RisingMoves DEF Done
      <4>3. Done(t)' = Done(t) \cup {ti[t]}
        BY <3>6, <4>1 DEF Done
      <4>4. \A a \in ToSet(sent'[t]), b \in ToSet(failed'[t]) : Apart(a, b)
        BY <2>0, <3>3, <3>6, <4>1 DEF Apart, Done
      <4> QED BY <2>0, <3>1, <3>2, <3>4, <3>6, <4>2, <4>3, <4>4
    <3> QED BY <3>1, <3>5, <3>6
  <2> QED BY <2>1, <2>2, <2>3 DEF Worker
<1>6. \A u \in Thread : Own(u)
  BY <1>4, <1>5
<1> QED BY <1>1, <1>6 DEF OrderInv

(* Every step keeps the items in order. *)
LEMMA OrderStep == TypeOK /\ FrontInv /\ OrderInv /\ [Next]_vars => OrderInv'
<1> SUFFICES ASSUME TypeOK, FrontInv, OrderInv, [Next]_vars PROVE OrderInv'
  OBVIOUS
<1>1. CASE Poll \/ ReadMore \/ ReadEmpty \/ ReadAgain \/ Notify \/ UNCHANGED vars
           \/ \E dg \in Datagrams : Arrive(dg)
  <2>1. UNCHANGED <<q, tpc, ti, sent, failed>>
    BY <1>1 DEF Poll, ReadMore, ReadEmpty, ReadAgain, Notify, Arrive, vars, tvars
  <2> QED BY <2>1, SameOrder
<1>2. CASE Push
  BY <1>2, PushOrder
<1>3. CASE \E t \in Thread : Worker(t)
  BY <1>3, WorkerOrder
<1> QED BY <1>1, <1>2, <1>3 DEF Next, Server, PollTimeout

(* A worker's share is counted once wherever it is. *)
LEMMA WorkerDealt ==
    ASSUME TypeOK, NEW t \in Thread, Worker(t)
    PROVE  \A u \in Thread : Dealt(u)' = Dealt(u)
<1>t. /\ q \in [Thread -> Seq(Item)] /\ tpc \in [Thread -> {"poll", "pop", "send"}]
      /\ sent \in [Thread -> Seq(Item)] /\ failed \in [Thread -> Seq(Item)]
      /\ (tpc[t] = "send" => ti[t] \in Item)
  BY DEF TypeOK
<1>0. /\ Len(q[t]) \in Nat /\ Len(sent[t]) \in Nat /\ Len(failed[t]) \in Nat
      /\ q[t] \in Seq(Item) /\ sent[t] \in Seq(Item) /\ failed[t] \in Seq(Item)
  BY <1>t
<1>1. \A u \in Thread \ {t} : Dealt(u)' = Dealt(u)
  <2>1. \A u \in Thread \ {t} : q'[u] = q[u] /\ tpc'[u] = tpc[u] /\ sent'[u] = sent[u] /\ failed'[u] = failed[u]
    <3>1. CASE ReadByte(t)
      BY <1>t, <3>1 DEF ReadByte
    <3>2. CASE Pop(t)
      BY <1>t, <3>2 DEF Pop
    <3>3. CASE Send(t)
      BY <1>t, <3>3 DEF Send
    <3> QED BY <3>1, <3>2, <3>3 DEF Worker
  <2> QED BY <2>1 DEF Dealt
<1>2. CASE ReadByte(t)
  <2>1. UNCHANGED <<q, sent, failed>> /\ tpc[t] = "poll" /\ tpc'[t] = "pop"
    BY <1>t, <1>2 DEF ReadByte
  <2>2. Dealt(t)' = Dealt(t)
    BY <2>1 DEF Dealt
  <2> QED BY <1>1, <2>2
<1>3. CASE Pop(t)
  <2>1. /\ UNCHANGED <<sent, failed>> /\ tpc[t] = "pop" /\ tpc'[t] = "send" /\ q[t] # <<>> /\ q'[t] = Tail(q[t])
    BY <1>t, <1>3 DEF Pop
  <2>2. Len(q'[t]) = Len(q[t]) - 1
    BY <1>0, <2>1
  <2>3. Dealt(t)' = Dealt(t)
    <3>1. Dealt(t) = Len(sent[t]) + Len(failed[t]) + 0 + Len(q[t])
      BY <2>1 DEF Dealt
    <3>2. Dealt(t)' = Len(sent[t]) + Len(failed[t]) + 1 + Len(q'[t])
      BY <2>1 DEF Dealt
    <3>3. PICK a \in Nat, b \in Nat, c \in Nat : a = Len(sent[t]) /\ b = Len(failed[t]) /\ c = Len(q[t])
      BY <1>0
    <3>4. Dealt(t) = a + b + 0 + c /\ Dealt(t)' = a + b + 1 + (c - 1)
      BY <2>2, <3>1, <3>2, <3>3
    <3>5. a + b + 0 + c = a + b + 1 + (c - 1)
      OBVIOUS
    <3> QED BY <3>4, <3>5
  <2> QED BY <1>1, <2>3
<1>4. CASE Send(t)
  <2>1. /\ UNCHANGED q /\ tpc[t] = "send" /\ tpc'[t] = "poll" /\ ti[t] \in Item
        /\ \/ sent'[t] = Append(sent[t], ti[t]) /\ failed'[t] = failed[t]
           \/ failed'[t] = Append(failed[t], ti[t]) /\ sent'[t] = sent[t]
    BY <1>t, <1>4 DEF Send
  <2>2. \/ Len(sent'[t]) = Len(sent[t]) + 1 /\ Len(failed'[t]) = Len(failed[t])
        \/ Len(sent'[t]) = Len(sent[t]) /\ Len(failed'[t]) = Len(failed[t]) + 1
    <3>1. Len(Append(sent[t], ti[t])) = Len(sent[t]) + 1 /\ Len(Append(failed[t], ti[t])) = Len(failed[t]) + 1
      BY <1>0, <2>1
    <3> QED BY <2>1, <3>1
  <2>3. Dealt(t)' = Dealt(t)
    <3>1. Dealt(t) = Len(sent[t]) + Len(failed[t]) + 1 + Len(q[t])
      BY <2>1 DEF Dealt
    <3>2. Dealt(t)' = Len(sent'[t]) + Len(failed'[t]) + 0 + Len(q[t])
      BY <2>1 DEF Dealt
    <3>3. PICK a \in Nat, b \in Nat, c \in Nat : a = Len(sent[t]) /\ b = Len(failed[t]) /\ c = Len(q[t])
      BY <1>0
    <3>4. /\ Dealt(t) = a + b + 1 + c
          /\ Dealt(t)' = (a + 1) + b + 0 + c \/ Dealt(t)' = a + (b + 1) + 0 + c
      BY <2>2, <3>1, <3>2, <3>3
    <3>5. a + b + 1 + c = (a + 1) + b + 0 + c /\ a + b + 1 + c = a + (b + 1) + 0 + c
      OBVIOUS
    <3> QED BY <3>4, <3>5
  <2> QED BY <1>1, <2>3
<1> QED BY <1>2, <1>3, <1>4 DEF Worker

(* The turn goes round: after the last worker a new round begins. *)
LEMMA TurnStep == TypeOK /\ TurnInv /\ [Next]_vars => TurnInv'
<1> SUFFICES ASSUME TypeOK, TurnInv, [Next]_vars PROVE TurnInv'
  OBVIOUS
<1> DEFINE Ahead(t) == IF t < last_thread \/ (spc = "notify" /\ t = last_thread) THEN 1 ELSE 0
<1>0. PICK r \in Nat : \A t \in Thread : Dealt(t) = r + Ahead(t)
  BY DEF TurnInv
<1>1. CASE Poll \/ ReadMore \/ ReadEmpty \/ ReadAgain \/ UNCHANGED vars
           \/ (\E dg \in Datagrams : Arrive(dg))
  <2>1. UNCHANGED <<q, tpc, sent, failed, last_thread>> /\ (spc' = "notify" <=> spc = "notify")
    <3>1. CASE Poll \/ ReadMore \/ ReadEmpty \/ ReadAgain
      BY <3>1, ReadStepOK DEF Kept, tvars
    <3>2. CASE UNCHANGED vars \/ (\E dg \in Datagrams : Arrive(dg))
      BY <3>2 DEF vars, Arrive, tvars
    <3> QED BY <1>1, <3>1, <3>2
  <2>2. \A t \in Thread : Dealt(t)' = Dealt(t) /\ Ahead(t)' = Ahead(t)
    BY <2>1 DEF Dealt
  <2> QED BY <1>0, <2>2 DEF TurnInv
<1>2. CASE \E t \in Thread : Worker(t)
  <2>1. UNCHANGED <<spc, last_thread>> /\ \A u \in Thread : Dealt(u)' = Dealt(u)
    BY <1>2, WorkerDealt DEF Worker, ReadByte, Pop, Send
  <2> QED BY <1>0, <2>1 DEF TurnInv
<1>3. CASE Push
  <2>1. PICK k, x : k = last_thread /\ x = item
    OBVIOUS
  <2>2. /\ k \in Thread /\ x \in Item /\ q[k] \in Seq(Item) /\ q'[k] = Append(q[k], x)
        /\ UNCHANGED <<tpc, ti, sent, failed>>
        /\ \A t \in Thread \ {k} : q'[t] = q[t]
    BY <1>3, <2>1, PushMine
  <2>3. spc = "push" /\ spc' = "notify" /\ last_thread' = k
    BY <1>3, <2>1 DEF Push
  <2>4. Len(q'[k]) = Len(q[k]) + 1 /\ Len(q[k]) \in Nat /\ Len(sent[k]) \in Nat /\ Len(failed[k]) \in Nat
    BY <2>2 DEF TypeOK
  <2>5. Dealt(k)' = Dealt(k) + 1
    <3>1. PICK p \in Nat : p = IF tpc[k] = "send" THEN 1 ELSE 0
      OBVIOUS
    <3>2. Dealt(k) = Len(sent[k]) + Len(failed[k]) + p + Len(q[k])
      BY <3>1 DEF Dealt
    <3>3. Dealt(k)' = Len(sent[k]) + Len(failed[k]) + p + Len(q'[k])
      BY <2>2, <3>1 DEF Dealt
    <3>4. PICK a \in Nat, b \in Nat, c \in Nat : a = Len(sent[k]) /\ b = Len(failed[k]) /\ c = Len(q[k])
      BY <2>4
    <3>5. Dealt(k) = a + b + p + c /\ Dealt(k)' = a + b + p + (c + 1)
      BY <2>4, <3>2, <3>3, <3>4
    <3>6. a + b + p + (c + 1) = (a + b + p + c) + 1
      OBVIOUS
    <3> QED BY <3>5, <3>6
  <2>6. \A t \in Thread \ {k} : Dealt(t)' = Dealt(t)
    BY <2>2 DEF Dealt
  <2>7. k \in Int /\ \A t \in Thread : t \in Int
    BY <2>2 DEF Thread
  <2>8. ASSUME NEW t \in Thread PROVE Dealt(t)' = r + (IF t < k \/ t = k THEN 1 ELSE 0)
    <3>1. CASE t = k
      <4>1. Dealt(t) = r
        BY <1>0, <2>1, <2>3, <2>7, <3>1
      <4> QED BY <2>5, <3>1, <4>1
    <3>2. CASE t # k
      BY <1>0, <2>1, <2>3, <2>6, <2>7, <3>2
    <3> QED BY <3>1, <3>2
  <2> QED BY <2>3, <2>8 DEF TurnInv
<1>4. CASE Notify
  <2>1. UNCHANGED <<q, tpc, sent, failed>> /\ spc = "notify" /\ spc' = "poll"
        /\ last_thread' = (last_thread + 1) % NThreads
    BY <1>4 DEF Notify, tvars
  <2>2. \A t \in Thread : Dealt(t)' = r + (IF t <= last_thread THEN 1 ELSE 0)
    <3>1. \A t \in Thread : Dealt(t)' = Dealt(t) /\ t \in Int
      BY <2>1 DEF Dealt, Thread
    <3>2. last_thread \in Int
      BY DEF TypeOK, Thread
    <3> QED BY <1>0, <2>1, <3>1, <3>2
  <2>3. last_thread \in 0..(NThreads - 1) /\ NThreads \in Nat \ {0}
    BY DEF TypeOK, Thread
  <2>4. CASE last_thread + 1 < NThreads
    <3>1. last_thread' = last_thread + 1
      BY <2>1, <2>3, <2>4
    <3>2. \A t \in Thread : t <= last_thread <=> t < last_thread'
      BY <2>3, <3>1 DEF Thread
    <3> QED BY <2>1, <2>2, <3>2 DEF TurnInv
  <2>5. CASE last_thread + 1 = NThreads
    <3>1. last_thread' = 0
      BY <2>1, <2>3, <2>5
    <3>2. \A t \in Thread : t <= last_thread /\ ~(t < 0)
      BY <2>3, <2>5 DEF Thread
    <3>3. \A t \in Thread : Dealt(t)' = (r + 1) + (IF t < last_thread' THEN 1 ELSE 0)
      BY <2>2, <3>1, <3>2
    <3>4. r + 1 \in Nat /\ spc' # "notify"
      BY <2>1
    <3> QED BY <3>3, <3>4 DEF TurnInv
  <2> QED BY <2>3, <2>4, <2>5
<1> QED BY <1>1, <1>2, <1>3, <1>4 DEF Next, Server, PollTimeout

(* Round robin from the turn. *)
LEMMA TurnBalanced == TypeOK /\ TurnInv => Balanced
<1> SUFFICES ASSUME TypeOK, TurnInv, NEW t \in Thread, NEW u \in Thread
             PROVE  /\ Dealt(t) - Dealt(u) \in {-1, 0, 1}
                    /\ spc # "notify" => Dealt(last_thread) <= Dealt(t)
  BY DEF Balanced
<1>1. PICK r \in Nat : \A v \in Thread :
        Dealt(v) = r + (IF v < last_thread \/ (spc = "notify" /\ v = last_thread) THEN 1 ELSE 0)
  BY DEF TurnInv
<1>2. Dealt(t) \in {r, r + 1} /\ Dealt(u) \in {r, r + 1}
  BY <1>1
<1>3. last_thread \in Thread /\ last_thread \in Int
  BY DEF TypeOK, Thread
<1>4. spc # "notify" => Dealt(last_thread) = r
  BY <1>1, <1>3
<1> QED BY <1>2, <1>4

\* A sequence of items no two of which share a datagram.
Scattered(s) == \A i, j \in 1..Len(s) : i # j => Apart(s[i], s[j])

(* Items in order, one sequence after another. *)
LEMMA JoinOrder ==
    ASSUME NEW T, NEW s \in Seq(T), NEW r \in Seq(T)
    PROVE  /\ s \o r \in Seq(T) /\ ToSet(s \o r) = ToSet(s) \cup ToSet(r)
           /\ Rising(s) /\ Rising(r) /\ (\A a \in ToSet(s), b \in ToSet(r) : Before(a, b))
                => Rising(s \o r)
           /\ Scattered(s) /\ Scattered(r) /\ (\A a \in ToSet(s), b \in ToSet(r) : Apart(a, b))
                => Scattered(s \o r)
<1> DEFINE w == s \o r
<1>0. Len(s) \in Nat /\ Len(r) \in Nat
  OBVIOUS
<1>1. /\ w \in Seq(T) /\ Len(w) = Len(s) + Len(r)
      /\ \A i \in 1..Len(s) : w[i] = s[i]
      /\ \A i \in 1..Len(r) : w[Len(s) + i] = r[i]
  OBVIOUS
<1> HIDE DEF w
<1>2. ASSUME NEW i \in 1..Len(w)
      PROVE  \/ i \in 1..Len(s) /\ w[i] = s[i]
             \/ /\ i - Len(s) \in 1..Len(r) /\ w[i] = r[i - Len(s)] /\ ~(i <= Len(s))
  <2>1. i \in 1..Len(s) \/ (i - Len(s) \in 1..Len(r) /\ i = Len(s) + (i - Len(s)) /\ ~(i <= Len(s)))
    BY <1>0, <1>1
  <2> QED BY <1>1, <2>1
<1>3. \A v \in Seq(T) : ToSet(v) = {v[i] : i \in 1..Len(v)}
  BY DEF ToSet
<1>4. (\A i \in 1..Len(s) : s[i] \in ToSet(s)) /\ (\A i \in 1..Len(r) : r[i] \in ToSet(r))
  BY <1>3
<1>5. ToSet(w) = ToSet(s) \cup ToSet(r)
  <2>1. \A i \in 1..Len(w) : w[i] \in ToSet(s) \cup ToSet(r)
    BY <1>2, <1>4
  <2>2. \A i \in 1..Len(s) : i \in 1..Len(w)
    BY <1>0, <1>1
  <2>3. \A i \in 1..Len(r) : Len(s) + i \in 1..Len(w)
    BY <1>0, <1>1
  <2>4. \A i \in 1..Len(s) : s[i] \in ToSet(w)
    BY <1>1, <1>3, <2>2
  <2>5. \A i \in 1..Len(r) : r[i] \in ToSet(w)
    BY <1>1, <1>3, <2>3
  <2>6. ToSet(w) \subseteq ToSet(s) \cup ToSet(r)
    BY <1>1, <1>3, <2>1
  <2>7. ToSet(s) \subseteq ToSet(w)
    BY <1>3, <2>4
  <2>8. ToSet(r) \subseteq ToSet(w)
    BY <1>3, <2>5
  <2> QED BY <2>6, <2>7, <2>8
<1>6. ASSUME Rising(s), Rising(r), \A a \in ToSet(s), b \in ToSet(r) : Before(a, b),
             NEW i \in 1..Len(w), NEW j \in 1..Len(w), i < j
      PROVE  Before(w[i], w[j])
  <2>1. CASE i \in 1..Len(s) /\ j \in 1..Len(s)
    BY <1>1, <1>6, <2>1 DEF Rising
  <2>2. CASE i \in 1..Len(s) /\ j \notin 1..Len(s)
    BY <1>1, <1>2, <1>4, <1>6, <2>2
  <2>3. CASE i \notin 1..Len(s)
    <3>1. i \in Nat /\ j \in Nat /\ i - Len(s) \in 1..Len(r) /\ w[i] = r[i - Len(s)] /\ ~(i <= Len(s))
      BY <1>1, <1>2, <2>3
    <3>2. j \notin 1..Len(s)
      BY <1>0, <1>6, <3>1
    <3>3. j - Len(s) \in 1..Len(r) /\ w[j] = r[j - Len(s)]
      BY <1>2, <3>2
    <3>4. i - Len(s) < j - Len(s)
      BY <1>0, <1>6, <3>1
    <3> QED BY <1>6, <3>1, <3>3, <3>4 DEF Rising
  <2> QED BY <2>1, <2>2, <2>3
<1>7. ASSUME Scattered(s), Scattered(r),
             \A a \in ToSet(s), b \in ToSet(r) : Apart(a, b),
             NEW i \in 1..Len(w), NEW j \in 1..Len(w), i # j
      PROVE  Apart(w[i], w[j])
  <2>0. \A a, b : Apart(a, b) => Apart(b, a)
    BY DEF Apart
  <2>1. CASE i \in 1..Len(s) /\ j \in 1..Len(s)
    BY <1>1, <1>7, <2>1 DEF Scattered
  <2>2. CASE i \in 1..Len(s) /\ j \notin 1..Len(s)
    BY <1>1, <1>2, <1>4, <1>7, <2>2
  <2>3. CASE i \notin 1..Len(s) /\ j \in 1..Len(s)
    BY <1>1, <1>2, <1>4, <1>7, <2>0, <2>3
  <2>4. CASE i \notin 1..Len(s) /\ j \notin 1..Len(s)
    <3>1. i - Len(s) \in 1..Len(r) /\ w[i] = r[i - Len(s)] /\ j - Len(s) \in 1..Len(r) /\ w[j] = r[j - Len(s)]
      BY <1>2, <2>4
    <3>2. i - Len(s) # j - Len(s)
      BY <1>0, <1>1, <1>7
    <3> QED BY <1>7, <3>1, <3>2 DEF Scattered
  <2> QED BY <2>1, <2>2, <2>3, <2>4
<1>8. Rising(s) /\ Rising(r) /\ (\A a \in ToSet(s), b \in ToSet(r) : Before(a, b)) => Rising(w)
  BY <1>6 DEF Rising
<1>9. Scattered(s) /\ Scattered(r) /\ (\A a \in ToSet(s), b \in ToSet(r) : Apart(a, b)) => Scattered(w)
  BY <1>7 DEF Scattered
<1> QED BY <1>1, <1>5, <1>8, <1>9 DEF w

(* Sequences in order have their items apart. *)
LEMMA RisingApart ==
    ASSUME NEW T, NEW s \in Seq(T), Rising(s)
    PROVE  Scattered(s)
<1> SUFFICES ASSUME NEW i \in 1..Len(s), NEW j \in 1..Len(s), i # j PROVE Apart(s[i], s[j])
  BY DEF Scattered
<1>1. i < j \/ j < i
  OBVIOUS
<1> QED BY <1>1 DEF Rising, Apart

(* What the properties need to know of a worker's hand. *)
LEMMA HandHeld ==
    ASSUME TypeOK, OrderInv, NEW t \in Thread
    PROVE  LET x == IF ti[t] = Nil THEN <<>> ELSE <<ti[t]>> IN
           /\ x \in Seq(Item) /\ Rising(x) /\ ToSet(x) \subseteq Hand(t)
<1>1. tpc[t] # "send" => ti[t] = Nil
  BY DEF OrderInv
<1>2. tpc[t] = "send" => ti[t] \in Item
  BY DEF TypeOK
<1>3. CASE ti[t] = Nil
  <2>1. <<>> \in Seq(Item) /\ Rising(<<>>) /\ ToSet(<<>>) = {}
    BY DEF Rising, ToSet
  <2> QED BY <1>3, <2>1
<1>4. CASE ti[t] # Nil
  <2>1. PICK y : y = ti[t]
    OBVIOUS
  <2>2. y \in Item /\ Hand(t) = {y}
    BY <1>1, <1>2, <1>4, <2>1 DEF Hand
  <2>3. <<y>> \in Seq(Item) /\ Rising(<<y>>) /\ ToSet(<<y>>) = {y}
    BY <2>2 DEF Rising, ToSet
  <2> QED BY <1>4, <2>1, <2>2, <2>3
<1> QED BY <1>3, <1>4

(* Each worker's line is in the order received. *)
LEMMA OrderFIFO == TypeOK /\ OrderInv => FIFOPerWorker
<1> SUFFICES ASSUME TypeOK, OrderInv, NEW t \in Thread
             PROVE  LET line == sent[t] \o (IF ti[t] = Nil THEN <<>> ELSE <<ti[t]>>) \o q[t]
                    IN  \A i, j \in 1..Len(line) : i < j => line[i].hdr[1] < line[j].hdr[1]
  BY DEF FIFOPerWorker
<1> DEFINE x == IF ti[t] = Nil THEN <<>> ELSE <<ti[t]>>
<1>1. x \in Seq(Item) /\ Rising(x) /\ ToSet(x) \subseteq Hand(t)
  BY HandHeld
<1>2. /\ sent[t] \in Seq(Item) /\ q[t] \in Seq(Item) /\ Rising(sent[t]) /\ Rising(q[t])
      /\ \A a \in ToSet(sent[t]), b \in Hand(t) \cup ToSet(q[t]) : Before(a, b)
      /\ \A a \in Hand(t), b \in ToSet(q[t]) : Before(a, b)
  BY DEF TypeOK, OrderInv, Done
<1> HIDE DEF x
<1>3. sent[t] \o x \in Seq(Item) /\ Rising(sent[t] \o x) /\ ToSet(sent[t] \o x) = ToSet(sent[t]) \cup ToSet(x)
  <2>1. \A a \in ToSet(sent[t]), b \in ToSet(x) : Before(a, b)
    BY <1>1, <1>2
  <2> QED BY <1>1, <1>2, <2>1, JoinOrder
<1>4. (sent[t] \o x) \o q[t] \in Seq(Item) /\ Rising((sent[t] \o x) \o q[t])
  <2>1. \A a \in ToSet(sent[t] \o x), b \in ToSet(q[t]) : Before(a, b)
    BY <1>1, <1>2, <1>3
  <2> QED BY <1>2, <1>3, <2>1, JoinOrder
<1>5. PICK line : line = (sent[t] \o x) \o q[t]
  OBVIOUS
<1>6. ASSUME NEW i \in 1..Len(line), NEW j \in 1..Len(line), i < j
      PROVE  line[i].hdr[1] < line[j].hdr[1]
  <2>1. Before(line[i], line[j]) /\ line[i] \in Item
    <3>1. line \in Seq(Item) /\ Rising(line)
      BY <1>4, <1>5
    <3>2. \A s \in Seq(Item) : \A k \in 1..Len(s) : s[k] \in Item
      OBVIOUS
    <3> QED BY <1>6, <3>1, <3>2 DEF Rising
  <2>2. line[i].hdr[1] \in Sources(line[i])
    BY <2>1, SourcesType
  <2> QED BY <2>1, <2>2 DEF Before
<1> QED BY <1>5, <1>6 DEF x

(* Everything a worker holds is apart. *)
LEMMA HeldApart ==
    ASSUME TypeOK, OrderInv, NEW t \in Thread
    PROVE  /\ Held(t) \in Seq(Item) /\ ToSet(Held(t)) \subseteq Mine(t)
           /\ Scattered(Held(t))
<1> DEFINE x == IF ti[t] = Nil THEN <<>> ELSE <<ti[t]>>
<1>0. \A s \in Seq(Item) : Rising(s) => Scattered(s)
  BY RisingApart
<1>1. x \in Seq(Item) /\ Rising(x) /\ ToSet(x) \subseteq Hand(t)
  BY HandHeld
<1>2. /\ sent[t] \in Seq(Item) /\ failed[t] \in Seq(Item) /\ q[t] \in Seq(Item)
      /\ Scattered(sent[t]) /\ Scattered(failed[t]) /\ Scattered(q[t]) /\ Scattered(x)
  <2>1. sent[t] \in Seq(Item) /\ failed[t] \in Seq(Item) /\ q[t] \in Seq(Item)
    BY DEF TypeOK
  <2>2. Rising(sent[t]) /\ Rising(failed[t]) /\ Rising(q[t])
    BY DEF OrderInv
  <2> HIDE DEF x
  <2> QED BY <1>0, <1>1, <2>1, <2>2
<1>3. /\ \A a \in ToSet(sent[t]), b \in ToSet(failed[t]) : Apart(a, b)
      /\ \A a \in ToSet(sent[t]) \cup ToSet(failed[t]), b \in Hand(t) \cup ToSet(q[t]) : Apart(a, b)
      /\ \A a \in ToSet(q[t]), b \in Hand(t) : Apart(a, b)
  BY DEF OrderInv, Done, Apart
<1> HIDE DEF x
<1> DEFINE u == sent[t] \o failed[t]
           v == u \o q[t]
           w == v \o x
<1>4. u \in Seq(Item) /\ ToSet(u) = ToSet(sent[t]) \cup ToSet(failed[t]) /\ Scattered(u)
  BY <1>2, <1>3, JoinOrder
<1> HIDE DEF u
<1>5. v \in Seq(Item) /\ ToSet(v) = ToSet(u) \cup ToSet(q[t]) /\ Scattered(v)
  <2>1. \A a \in ToSet(u), b \in ToSet(q[t]) : Apart(a, b)
    BY <1>3, <1>4
  <2> QED BY <1>2, <1>4, <2>1, JoinOrder
<1> HIDE DEF v
<1>6. w \in Seq(Item) /\ ToSet(w) = ToSet(v) \cup ToSet(x) /\ Scattered(w)
  <2>1. \A a \in ToSet(v), b \in ToSet(x) : Apart(a, b)
    BY <1>1, <1>3, <1>4, <1>5
  <2> QED BY <1>1, <1>2, <1>5, <2>1, JoinOrder
<1>7. Held(t) = w
  BY DEF Held, u, v, x
<1>8. ToSet(w) \subseteq Mine(t)
  BY <1>1, <1>4, <1>5, <1>6 DEF Mine, Done
<1> HIDE DEF w
<1> QED BY <1>6, <1>7, <1>8

(* Items that are apart share no datagram. *)
LEMMA ApartDisjoint ==
    ASSUME TypeOK, NEW a \in Item, NEW b \in Item, Ordered(a), Ordered(b), Apart(a, b)
    PROVE  Sources(a) \cap Sources(b) = {}
<1>1. Sources(a) \subseteq Nat /\ Sources(b) \subseteq Nat /\ a.hdr[1] \in Nat /\ b.hdr[1] \in Nat
  BY SourcesType
<1>2. ASSUME NEW s \in Sources(a), s \in Sources(b) PROVE FALSE
  <2>1. s \in Nat /\ a.hdr[1] <= s /\ b.hdr[1] <= s
    BY <1>1, <1>2 DEF Ordered
  <2>2. s < b.hdr[1] \/ s < a.hdr[1]
    BY <1>2 DEF Apart, Before
  <2> QED BY <1>1, <2>1, <2>2
<1> QED BY <1>2

(* What has been relayed, and is being relayed, shares no datagram. *)
LEMMA OrderNoDouble == TypeOK /\ ReaderInv /\ OrderInv => NoDoubleRelay
<1> SUFFICES ASSUME TypeOK, ReaderInv, OrderInv, NEW t \in Thread, NEW u \in Thread,
                    NEW i \in 1..Len(Held(t)), NEW j \in 1..Len(Held(u)), <<t, i>> # <<u, j>>
             PROVE  Sources(Held(t)[i]) \cap Sources(Held(u)[j]) = {}
  BY DEF NoDoubleRelay
<1>1. /\ Held(t) \in Seq(Item) /\ ToSet(Held(t)) \subseteq Mine(t) /\ Scattered(Held(t))
      /\ Held(u) \in Seq(Item) /\ ToSet(Held(u)) \subseteq Mine(u)
  BY HeldApart
<1>2. \A s \in Seq(Item) : \A k \in 1..Len(s) : s[k] \in Item /\ s[k] \in ToSet(s)
  BY DEF ToSet
<1>3. PICK a, b : a = Held(t)[i] /\ b = Held(u)[j]
  OBVIOUS
<1>4. a \in Item /\ a \in Mine(t) /\ b \in Item /\ b \in Mine(u)
  BY <1>1, <1>2, <1>3
<1>5. Ordered(a) /\ Ordered(b)
  BY <1>4 DEF ReaderInv, ItemsSynced
<1>6. Apart(a, b)
  <2>1. CASE t # u
    BY <1>4, <2>1 DEF OrderInv
  <2>2. CASE t = u
    BY <1>1, <1>3, <2>2 DEF Scattered
  <2> QED BY <2>1, <2>2
<1> QED BY <1>3, <1>4, <1>5, <1>6, ApartDisjoint

(* What workers hold is in step. *)
LEMMA ReaderResync == TypeOK /\ ReaderInv /\ OrderInv => Resync
<1> SUFFICES ASSUME TypeOK, ReaderInv, OrderInv, NEW it \in Items
             PROVE  Synced(it)
  BY DEF Resync, Synced
<1>1. PICK t \in Thread : it \in ToSet(Held(t))
  BY DEF Items
<1>2. it \in Mine(t)
  BY <1>1, HeldApart
<1> QED BY <1>2 DEF ReaderInv, ItemsSynced

(* At first nothing has arrived. *)
LEMMA RelayInit == Init => ReaderInv /\ FrontInv /\ OrderInv /\ TurnInv
<1> SUFFICES ASSUME Init PROVE ReaderInv /\ FrontInv /\ OrderInv /\ TurnInv
  OBVIOUS
<1>1. /\ spc = "poll" /\ socket = <<>> /\ last_thread = 0
      /\ \A t \in Thread : /\ q[t] = <<>> /\ tpc[t] = "poll" /\ ti[t] = Nil
                           /\ sent[t] = <<>> /\ failed[t] = <<>>
  BY DEF Init
<1>2. ToSet(<<>>) = {} /\ Rising(<<>>)
  BY DEF ToSet, Rising
<1>3. \A t \in Thread : Done(t) = {} /\ Hand(t) = {} /\ Mine(t) = {}
  BY <1>1, <1>2 DEF Done, Hand, Mine
<1>4. ReaderInv
  BY <1>1, <1>3 DEF ReaderInv, InStep, ItemsSynced
<1>5. FrontInv
  BY <1>1 DEF FrontInv, SocketLine, ReadLine
<1>6. OrderInv
  BY <1>1, <1>2, <1>3 DEF OrderInv
<1>7. TurnInv
  <2>0. \A t \in Thread : Dealt(t) = Len(<<>>) + Len(<<>>) + 0 + Len(<<>>)
    BY <1>1 DEF Dealt
  <2>1. \A t \in Thread : Dealt(t) = 0 /\ t \in Nat
    <3>1. \A t \in Thread : t \in Nat
      BY DEF Thread
    <3>2. Len(<<>>) = 0 /\ 0 + 0 + 0 + 0 = 0
      OBVIOUS
    <3> QED BY <2>0, <3>1, <3>2
  <2>2. \A t \in Thread : Dealt(t) = 0 + (IF t < last_thread \/ (spc = "notify" /\ t = last_thread) THEN 1 ELSE 0)
    BY <1>1, <2>1
  <2> QED BY <2>2 DEF TurnInv
<1> QED BY <1>4, <1>5, <1>6, <1>7

(* Whatever datagrams the clients send, the reader and the items keep      *)
(* their order.                                                            *)
LEMMA RelayInv == Spec => [](TypeOK /\ ReaderInv /\ FrontInv /\ OrderInv /\ TurnInv)
<1> DEFINE I == TypeOK /\ ReaderInv /\ FrontInv /\ OrderInv /\ TurnInv
<1>1. Init => I
  BY TypeInit, RelayInit
<1>2. I /\ [Next]_vars => I'
  BY TypeStep, FrontStep, OrderStep, TurnStep
<1> QED BY <1>1, <1>2, PTL DEF Spec

(* Round robin deals evenly and each worker keeps the order of its share,  *)
(* for any number of workers and any interleaving of theirs.               *)
THEOREM AlwaysInTurn == Spec => []InTurn
<1>1. TypeOK /\ ReaderInv /\ FrontInv /\ OrderInv /\ TurnInv => InTurn
  BY TurnBalanced, OrderFIFO DEF InTurn
<1> QED BY <1>1, RelayInv, PTL

(* After any malformed datagrams the reader is back in step: each item     *)
(* starts where a datagram starts, and one that starts in a well-formed    *)
(* datagram is that datagram.                                              *)
THEOREM AlwaysResync == Spec => []Resync
<1>1. TypeOK /\ ReaderInv /\ FrontInv /\ OrderInv /\ TurnInv => Resync
  BY ReaderResync
<1> QED BY <1>1, RelayInv, PTL

(* No part of a datagram is relayed twice, by one worker or by two.        *)
THEOREM NeverDoubleRelay == Spec => []NoDoubleRelay
<1>1. TypeOK /\ ReaderInv /\ FrontInv /\ OrderInv /\ TurnInv => NoDoubleRelay
  BY OrderNoDouble
<1> QED BY <1>1, RelayInv, PTL
=============================================================================
