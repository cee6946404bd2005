-------------------------- MODULE NetSenderProofs --------------------------
(***************************************************************************)
(* Network logging, for any number of appenders, servers and connections,  *)
(* any queue and batch size: the check thread never takes the socket in    *)
(* use away from the sending thread, and every entry is in one place.      *)
(***************************************************************************)
EXTENDS NetSender, FiniteSetTheorems, TLAPS

\* Where the two threads and com_closelog can be.
SendPlace == {"none", "top", "sync", "reopen", "send", "unset", "fail", "done"}
CheckPlace == {"sleep", "pass", "look", "clear", "connect", "test"}
ClosePlace == {"open", "wait", "over", "clear", "stop", "join", "stopped", "closed"}

\* The part of TypeOK about the threads.
Types ==
    /\ setup \in Setups /\ inapp \in Seq(App) /\ id \in [App -> 0..MaxConn] /\ run \in {0, 1}
    /\ spc \in SendPlace /\ now \in 0..NSvr /\ pos \in 1..(NSvr + 1) /\ loop \in {0, 1}
    /\ nth \in Nat \ {0} /\ after \in {"none", "sync", "send", "fail"}
    /\ cpc \in CheckPlace /\ cpos \in 1..(NSvr + 1) /\ watched \in BOOLEAN
    /\ kpc \in ClosePlace /\ holder \in {"nobody", "check", "close"}

(* The slots: a connection is in the slot it was made for or in none, so   *)
(* no two slots share one.                                                 *)
Wired ==
    /\ sock \in [Svr -> 0..MaxConn] /\ valid \in [Svr -> BOOLEAN]
    /\ peer \in Seq(Svr) /\ Len(peer) <= MaxConn /\ live \subseteq 1..Len(peer)
    /\ \A j \in Svr : sock[j] # 0 => sock[j] <= Len(peer) /\ peer[sock[j]] = j

(* The sending thread exists from the first open() to the join.            *)
Life ==
    /\ inapp = <<>> <=> spc = "none"
    /\ kpc \in {"stopped", "closed"} => spc = "done"
    /\ spc = "unset" => after # "none"

Open(j) == valid[j] /\ sock[j] \in live

(* The check thread works only on a slot that is not valid, and nobody     *)
(* else makes a slot valid meanwhile; the sending thread's slot is valid   *)
(* and open, also while it closes the one it used before.                  *)
Guarded ==
    /\ cpc \in {"clear", "connect", "test"} => cpos <= NSvr /\ ~valid[cpos]
    /\ spc = "reopen" => pos <= NSvr /\ pos # now /\ Open(pos)
    /\ spc = "send" => now # 0 /\ Open(now)
    /\ spc = "unset" => nth <= NSvr
    /\ spc = "unset" /\ after = "send" => now # 0 /\ nth # now /\ Open(now)

SockInv == Types /\ Wired /\ Life /\ Guarded

\* The counts.
LEMMA Counts == NSvr \in Nat \ {0} /\ NApp \in Nat \ {0} /\ MaxConn \in Nat
                /\ Svr = 1..NSvr /\ Conn = 1..MaxConn /\ MaxBatch \in Nat \ {0}
BY CountsAssumption, BoundsAssumption, BufferAssumption DEF Svr, Conn

(* An open socket is in its own slot. *)
LEMMA SockInvStable == SockInv => SocketStable
<1> SUFFICES ASSUME SockInv PROVE SocketStable
  OBVIOUS
<1>1. ASSUME NEW j \in Svr, Open(j) PROVE peer[sock[j]] = j
  <2>1. sock[j] # 0
    BY <1>1 DEF Open, SockInv, Wired
  <2> QED BY <2>1 DEF SockInv, Wired
<1>2. spc = "reopen" => pos \in Svr
  BY Counts DEF SockInv, Guarded, Types
<1>3. spc = "send" => now \in Svr
  BY Counts DEF SockInv, Guarded, Types
<1> QED BY <1>1, <1>2, <1>3 DEF SocketStable, SockInv, Guarded, Open

(* Connecting makes a new connection, in the slot it is made for. *)
LEMMA ConnectWired ==
    ASSUME Wired, ConnectNone \/ \E j \in Svr : ConnectFirst(j)
    PROVE  Wired'
<1>0. Svr = 1..NSvr /\ MaxConn \in Nat /\ NSvr \in Nat
  BY Counts
<1>t. /\ sock \in [Svr -> 0..MaxConn] /\ valid \in [Svr -> BOOLEAN]
      /\ peer \in Seq(Svr) /\ Len(peer) <= MaxConn /\ live \subseteq 1..Len(peer)
      /\ \A j \in Svr : sock[j] # 0 => sock[j] <= Len(peer) /\ peer[sock[j]] = j
      /\ Len(peer) \in Nat
  BY DEF Wired
<1>1. CASE ConnectNone
  <2>1. /\ sock' = [l \in Svr |-> 0] /\ valid' = valid /\ peer' = peer
        /\ live' = live \ {sock[l] : l \in Svr}
    BY <1>1 DEF ConnectNone
  <2>2. sock' \in [Svr -> 0..MaxConn] /\ \A j \in Svr : sock'[j] = 0
    BY <1>0, <2>1
  <2> QED BY <1>t, <2>1, <2>2 DEF Wired
<1>2. ASSUME NEW j \in Svr, ConnectFirst(j) PROVE Wired'
  <2> DEFINE c == Len(peer) + 1
  <2>1. /\ Len(peer) < MaxConn /\ peer' = Append(peer, j) /\ valid' = [valid EXCEPT ![j] = TRUE]
        /\ live' = (live \ {sock[l] : l \in 1..j}) \cup {Len(peer')}
        /\ sock' = [l \in Svr |-> IF l < j THEN 0
                                  ELSE IF l = j THEN Len(peer') ELSE sock[l]]
    BY <1>2 DEF ConnectFirst
  <2>2. /\ peer' \in Seq(Svr) /\ Len(peer') = c /\ peer'[c] = j /\ c <= MaxConn /\ c \in Nat
        /\ \A k \in 1..Len(peer) : peer'[k] = peer[k]
    BY <1>t, <1>0, <2>1
  <2> HIDE DEF c
  <2>3. valid' \in [Svr -> BOOLEAN]
    BY <1>t, <2>1, Zenon
  <2>4. live' \subseteq 1..Len(peer')
    <3>1. live \subseteq 1..c /\ c \in 1..c
      BY <1>t, <2>2 DEF c
    <3> QED BY <2>1, <2>2, <3>1
  <2>5. \A l \in Svr : sock'[l] = 0 \/ (l = j /\ sock'[l] = c) \/ sock'[l] = sock[l]
    BY <2>1, <2>2
  <2>6. sock' \in [Svr -> 0..MaxConn]
    <3>1. \A l \in Svr : sock'[l] \in 0..MaxConn
      <4>1. c \in 0..MaxConn /\ 0 \in 0..MaxConn
        BY <1>0, <2>2
      <4>2. \A l \in Svr : sock[l] \in 0..MaxConn
        BY <1>t
      <4> QED BY <2>5, <4>1, <4>2
    <3>2. sock' = [l \in Svr |-> sock'[l]]
      BY <2>1
    <3> QED BY <3>1, <3>2
  <2>7. ASSUME NEW l \in Svr, sock'[l] # 0 PROVE sock'[l] <= Len(peer') /\ peer'[sock'[l]] = l
    <3>1. CASE l = j /\ sock'[l] = c
      BY <2>2, <3>1
    <3>2. CASE sock'[l] = sock[l]
      <4>1. sock[l] \in 1..Len(peer) /\ peer[sock[l]] = l
        BY <1>t, <2>7, <3>2
      <4>2. sock[l] <= c
        BY <1>t, <4>1 DEF c
      <4> QED BY <2>2, <3>2, <4>1, <4>2
    <3> QED BY <2>5, <2>7, <3>1, <3>2
  <2> QED BY <2>2, <2>3, <2>4, <2>6, <2>7 DEF Wired
<1> QED BY <1>1, <1>2

(* close_safe() marks one slot and closes its socket only. *)
LEMMA ShutWired ==
    ASSUME Wired, NEW j \in Svr, NEW next, Shut(j, next)
    PROVE  /\ Wired' /\ ~valid'[j] /\ UNCHANGED <<sock, peer>>
           /\ \A l \in Svr : l # j => valid'[l] = valid[l] /\ (Open(l) => Open(l)')
<1>1. /\ live' = live \ {sock[j]} /\ valid' = [valid EXCEPT ![j] = FALSE]
      /\ sock' = sock /\ peer' = peer
  BY DEF Shut
<1>2. /\ valid' \in [Svr -> BOOLEAN] /\ ~valid'[j]
      /\ \A l \in Svr : l # j => valid'[l] = valid[l]
  BY <1>1, Zenon DEF Wired
<1>3. live' \subseteq 1..Len(peer')
  BY <1>1 DEF Wired
<1>4. ASSUME NEW l \in Svr, l # j, Open(l) PROVE Open(l)'
  <2>1. sock[l] \in live /\ sock[l] # 0
    BY <1>4 DEF Open, Wired
  <2>2. sock[l] # sock[j]
    BY <1>4, <2>1 DEF Wired
  <2> QED BY <1>1, <1>2, <1>4, <2>1, <2>2 DEF Open
<1>5. Wired'
  BY <1>1, <1>2, <1>3 DEF Wired
<1> QED BY <1>1, <1>2, <1>4, <1>5

(* Opening, printing and closing the log. *)
LEMMA ProgramSock ==
    ASSUME SockInv, (\E a \in App : open(a) \/ print(a)) \/ WaitClose \/ Closing
    PROVE  SockInv'
<1>0. Svr = 1..NSvr /\ NSvr \in Nat
  BY Counts
<1>1. ASSUME NEW a \in App, open(a), createServer PROVE SockInv'
  <2>1. /\ UNCHANGED <<setup, id, now, pos, loop, nth, after, cpc, cpos, holder, kpc>>
        /\ inapp' = Append(inapp, a) /\ inapp = <<>> /\ watched' = TRUE /\ run' = 1
        /\ spc' = "top" /\ cpc \in {"sleep", "pass"}
        /\ ConnectNone \/ \E j \in Svr : ConnectFirst(j)
    BY <1>1 DEF open, createServer, cvars, Unlocked
  <2>2. Wired'
    BY <2>1, ConnectWired DEF SockInv
  <2>3. inapp' \in Seq(App) /\ inapp' # <<>>
    BY <2>1 DEF SockInv, Types
  <2>4. kpc \notin {"stopped", "closed"}
    BY <1>1 DEF open
  <2>5. watched' \in BOOLEAN
    BY <2>1
  <2>6. Types'
    BY <2>1, <2>3, <2>5 DEF SockInv, Types, SendPlace
  <2>7. Life' /\ Guarded'
    BY <2>1, <2>3, <2>4 DEF Life, Guarded
  <2> QED BY <2>2, <2>6, <2>7 DEF SockInv
<1>2. ASSUME NEW a \in App, open(a), inapp # <<>>, UNCHANGED <<slots, watched, run, spc>>
      PROVE  SockInv'
  <2>1. /\ UNCHANGED <<setup, id, now, pos, loop, nth, after, cpc, cpos, holder, kpc, sock, valid,
                       peer, live, watched, run, spc>>
        /\ inapp' = Append(inapp, a)
    BY <1>2 DEF open, cvars, slots
  <2>3. inapp' \in Seq(App) /\ inapp' # <<>>
    BY <2>1 DEF SockInv, Types
  <2>4. Types' /\ Wired'
    BY <2>1, <2>3 DEF SockInv, Types, Wired
  <2>5. Life' /\ Guarded'
    BY <1>2, <2>1, <2>3 DEF SockInv, Life, Guarded, Open
  <2> QED BY <2>4, <2>5 DEF SockInv
<1>3. ASSUME NEW a \in App, print(a) PROVE SockInv'
  <2>1. UNCHANGED <<setup, id, now, pos, loop, nth, after, cpc, cpos, holder, kpc, sock, valid,
                    peer, live, watched, run, spc, inapp>>
    BY <1>3 DEF print, cvars, slots, svars
  <2> QED BY <2>1 DEF SockInv, Types, Wired, Life, Guarded, Open
<1>4. CASE WaitClose \/ checkOver \/ Over \/ Clear \/ Stop \/ Join
  <2>1. UNCHANGED <<setup, id, now, pos, loop, nth, after, cpc, cpos, sock, valid,
                    peer, live, spc, inapp>>
    BY <1>4 DEF WaitClose, checkOver, Over, Clear, Stop, Join, cvars, slots, svars
  <2>2. kpc' \in ClosePlace /\ (kpc' \in {"stopped", "closed"} => spc = "done")
    BY <1>4 DEF WaitClose, checkOver, Over, Clear, Stop, Join, ClosePlace
  <2>h. holder' \in {"nobody", "check", "close"}
    <3>1. holder' \in {holder, "nobody", "close"}
      BY <1>4 DEF WaitClose, checkOver, Over, Clear, Stop, Join, cvars
    <3> QED BY <3>1 DEF SockInv, Types
  <2>3. run' \in {0, 1} /\ watched' \in BOOLEAN
    <3>1. run' = run \/ run' = 0
      BY <1>4 DEF WaitClose, checkOver, Over, Clear, Stop, Join
    <3>2. watched' = watched \/ watched' = FALSE
      BY <1>4 DEF WaitClose, checkOver, Over, Clear, Stop, Join
    <3> QED BY <3>1, <3>2 DEF SockInv, Types
  <2>4. Types' /\ Wired'
    BY <2>1, <2>2, <2>3, <2>h DEF SockInv, Types, Wired
  <2>5. Life' /\ Guarded'
    BY <2>1, <2>2 DEF SockInv, Life, Guarded, Open
  <2> QED BY <2>4, <2>5 DEF SockInv
<1>5. CASE Destroy
  <2>1. /\ UNCHANGED <<setup, id, now, pos, loop, nth, after, cpc, cpos, holder, peer, spc, inapp,
                       run, watched>>
        /\ kpc = "stopped" /\ kpc' = "closed"
        /\ live' = live \ {sock[j] : j \in Svr}
        /\ sock' = [j \in Svr |-> 0] /\ valid' = [j \in Svr |-> FALSE]
    BY <1>5 DEF Destroy, cvars, svars
  <2>2. spc = "done"
    BY <2>1 DEF SockInv, Life
  <2>3. \A j \in Svr : ~valid'[j] /\ sock'[j] = 0
    BY <2>1
  <2>4. sock' \in [Svr -> 0..MaxConn] /\ live' \subseteq 1..Len(peer)
    <3>1. 0 \in 0..MaxConn /\ live \subseteq 1..Len(peer)
      BY Counts DEF SockInv, Wired
    <3>2. sock' \in [Svr -> 0..MaxConn]
      BY <2>1, <3>1
    <3> QED BY <2>1, <3>1, <3>2
  <2>5. valid' \in [Svr -> BOOLEAN]
    BY <2>1, Zenon
  <2>6. Wired'
    BY <2>1, <2>3, <2>4, <2>5 DEF SockInv, Wired
  <2>7. cpc \in {"clear", "connect", "test"} => cpos <= NSvr /\ cpos \in Svr
    BY <1>0 DEF SockInv, Guarded, Types
  <2>8. Types'
    BY <2>1 DEF SockInv, Types, ClosePlace
  <2>9. Life' /\ Guarded'
    BY <2>1, <2>2, <2>3, <2>7 DEF SockInv, Life, Guarded
  <2> QED BY <2>6, <2>8, <2>9 DEF SockInv
<1>6. ASSUME NEW a \in App, open(a) PROVE SockInv'
  BY <1>1, <1>2, <1>6 DEF open
<1> QED BY <1>3, <1>4, <1>5, <1>6 DEF Closing

(* The check thread works on invalid slots, which the sending thread does  *)
(* not use.                                                                *)
LEMMA CheckerSock == ASSUME SockInv, Checker PROVE SockInv'
<1>0. /\ Svr = 1..NSvr /\ NSvr \in Nat /\ MaxConn \in Nat
  BY Counts
<1>s. /\ UNCHANGED <<setup, id, now, pos, loop, nth, after, kpc, spc, inapp, run, watched>>
  BY DEF Checker, CheckTake, CheckIdle, CheckStart, CheckLook, CheckClear, CheckConnect, CheckTest,
         svars, vars
<1>w. /\ sock \in [Svr -> 0..MaxConn] /\ valid \in [Svr -> BOOLEAN]
      /\ peer \in Seq(Svr) /\ Len(peer) <= MaxConn /\ live \subseteq 1..Len(peer)
      /\ \A j \in Svr : sock[j] # 0 => sock[j] <= Len(peer) /\ peer[sock[j]] = j
      /\ Len(peer) \in Nat
  BY DEF SockInv, Wired
<1>u. /\ spc = "reopen" => pos \in Svr
      /\ spc = "send" => now \in Svr
      /\ spc = "unset" /\ after = "send" => now \in Svr
  BY <1>0 DEF SockInv, Guarded, Types
<1>h. holder' \in {"nobody", "check", "close"}
  <2>1. holder' \in {holder, "nobody", "check"}
    BY DEF Checker, CheckTake, CheckIdle, CheckStart, CheckLook, PassEnds, CheckClear, CheckConnect,
           CheckTest, cvars, vars
  <2> QED BY <2>1 DEF SockInv, Types
<1>1. ASSUME cpc' \in CheckPlace, cpos' \in 1..(NSvr + 1), Wired',
             cpc' \in {"clear", "connect", "test"} => cpos' <= NSvr /\ ~valid'[cpos'],
             \A l \in Svr : Open(l) => Open(l)'
      PROVE  SockInv'
  <2>1. Types' /\ Life'
    BY <1>1, <1>s, <1>h DEF SockInv, Types, Life
  <2>2. Guarded'
    BY <1>1, <1>s, <1>u DEF SockInv, Guarded
  <2> QED BY <1>1, <2>1, <2>2 DEF SockInv
<1>2. CASE CheckTake \/ CheckIdle \/ CheckStart
  <2>1. UNCHANGED <<sock, valid, peer, live>>
    BY <1>2 DEF CheckTake, CheckIdle, CheckStart, slots, vars
  <2>2. cpc' \in {"look", "pass", "sleep"} /\ cpos' \in 1..(NSvr + 1)
    BY <1>0, <1>2 DEF CheckTake, CheckIdle, CheckStart, vars, cvars, SockInv, Types
  <2>3. Wired' /\ \A l \in Svr : Open(l) => Open(l)'
    BY <2>1 DEF SockInv, Wired, Open
  <2> QED BY <1>1, <2>2, <2>3 DEF CheckPlace
<1>3. CASE CheckLook
  <2>0. cpos \in 1..(NSvr + 1)
    BY DEF SockInv, Types
  <2>1. CASE cpos > NSvr \/ valid[cpos]
    <3>1. UNCHANGED <<sock, valid, peer, live>> /\ cpc' = "sleep" /\ cpos' = 1
      BY <1>3, <2>1, Zenon DEF CheckLook, PassEnds
    <3>2. Wired' /\ \A l \in Svr : Open(l) => Open(l)'
      BY <3>1 DEF SockInv, Wired, Open
    <3> QED BY <1>0, <1>1, <3>1, <3>2 DEF CheckPlace
  <2>2. CASE ~(cpos > NSvr \/ valid[cpos])
    <3>1. UNCHANGED <<sock, valid, peer, cpos>> /\ cpc' = "clear" /\ live' = live \ {sock[cpos]}
      BY <1>3, <2>2, Zenon DEF CheckLook
    <3>2. cpos \in Svr /\ cpos <= NSvr /\ ~valid[cpos]
      BY <1>0, <2>0, <2>2
    <3>3. Wired'
      BY <3>1, <1>w DEF Wired
    <3>4. ASSUME NEW l \in Svr, Open(l) PROVE Open(l)'
      <4>1. sock[l] \in live /\ sock[l] # 0 /\ l # cpos
        BY <1>w, <3>2, <3>4 DEF Open
      <4>2. sock[l] # sock[cpos]
        BY <1>w, <3>2, <4>1
      <4> QED BY <3>1, <3>4, <4>1, <4>2 DEF Open
    <3> QED BY <1>1, <2>0, <3>1, <3>2, <3>3, <3>4 DEF CheckPlace
  <2> QED BY <2>1, <2>2
<1>4. CASE CheckClear \/ CheckConnect
  <2>1. cpos \in Svr /\ cpos <= NSvr /\ ~valid[cpos] /\ cpos \in 1..(NSvr + 1)
    BY <1>0, <1>4 DEF SockInv, Types, Guarded, CheckClear, CheckConnect
  <2>2. UNCHANGED <<valid, cpos>> /\ cpc' \in {"connect", "test"}
    BY <1>4 DEF CheckClear, CheckConnect
  <2>3. CASE sock' = [sock EXCEPT ![cpos] = 0] /\ UNCHANGED <<peer, live>>
    <3>1. /\ sock' \in [Svr -> 0..MaxConn] /\ sock'[cpos] = 0
          /\ \A l \in Svr : l # cpos => sock'[l] = sock[l]
      BY <1>0, <1>w, <2>1, <2>3
    <3>2. Wired'
      BY <1>w, <2>2, <2>3, <3>1 DEF Wired
    <3>3. \A l \in Svr : Open(l) => Open(l)'
      BY <2>1, <2>2, <2>3, <3>1 DEF Open
    <3> QED BY <1>1, <2>1, <2>2, <3>2, <3>3 DEF CheckPlace
  <2>4. CASE /\ Len(peer) < MaxConn
             /\ peer' = Append(peer, cpos) /\ live' = live \cup {Len(peer')}
             /\ sock' = [sock EXCEPT ![cpos] = Len(peer')]
    <3> DEFINE c == Len(peer) + 1
    <3>1. /\ peer' \in Seq(Svr) /\ Len(peer') = c /\ peer'[c] = cpos /\ c \in 0..MaxConn
          /\ \A k \in 1..Len(peer) : peer'[k] = peer[k]
      BY <1>0, <1>w, <2>1, <2>4
    <3>2. live \subseteq 1..c /\ c \in 1..c /\ 1..Len(peer) \subseteq 1..c /\ c <= MaxConn
      BY <1>0, <1>w, <2>4
    <3> HIDE DEF c
    <3>3. /\ sock' \in [Svr -> 0..MaxConn] /\ sock'[cpos] = c
          /\ \A l \in Svr : l # cpos => sock'[l] = sock[l]
      BY <1>w, <2>1, <2>4, <3>1
    <3>4. live' \subseteq 1..Len(peer') /\ live \subseteq live'
      BY <2>4, <3>1, <3>2
    <3>5. ASSUME NEW l \in Svr, sock'[l] # 0 PROVE sock'[l] <= Len(peer') /\ peer'[sock'[l]] = l
      <4>1. CASE l = cpos
        BY <3>1, <3>2, <3>3, <4>1
      <4>2. CASE l # cpos
        <5>1. sock'[l] = sock[l] /\ sock[l] \in 1..Len(peer) /\ peer[sock[l]] = l
          BY <1>w, <3>3, <3>5, <4>2
        <5>2. sock[l] \in 1..c
          BY <3>2, <5>1
        <5> QED BY <3>1, <5>1, <5>2
      <4> QED BY <4>1, <4>2
    <3>6. Wired'
      BY <1>w, <2>2, <3>1, <3>2, <3>3, <3>4, <3>5 DEF Wired
    <3>7. \A l \in Svr : Open(l) => Open(l)'
      BY <2>1, <2>2, <3>3, <3>4 DEF Open
    <3> QED BY <1>1, <2>1, <2>2, <3>6, <3>7 DEF CheckPlace
  <2> QED BY <1>4, <2>3, <2>4 DEF CheckClear, CheckConnect
<1>5. CASE CheckTest
  <2>0. cpos \in Svr /\ cpos <= NSvr /\ cpos \in 1..(NSvr + 1)
    BY <1>0, <1>5 DEF SockInv, Types, Guarded, CheckTest
  <2>1. CASE sock[cpos] > 0
    <3>1. /\ UNCHANGED <<sock, peer, live>> /\ cpc' = "sleep" /\ cpos' = 1
          /\ valid' = [valid EXCEPT ![cpos] = TRUE]
      BY <1>5, <2>1 DEF CheckTest, PassEnds
    <3>2. /\ valid' \in [Svr -> BOOLEAN] /\ valid'[cpos]
          /\ \A l \in Svr : valid[l] => valid'[l]
      BY <1>w, <2>0, <3>1, Zenon
    <3>3. Wired'
      BY <1>w, <3>1, <3>2 DEF Wired
    <3>4. \A l \in Svr : Open(l) => Open(l)'
      BY <3>1, <3>2 DEF Open
    <3> QED BY <1>0, <1>1, <3>1, <3>3, <3>4 DEF CheckPlace
  <2>2. CASE ~(sock[cpos] > 0)
    <3>1. UNCHANGED <<sock, peer, live, valid>> /\ cpc' = "look" /\ cpos' = cpos + 1
      BY <1>5, <2>2 DEF CheckTest
    <3>2. Wired' /\ \A l \in Svr : Open(l) => Open(l)'
      BY <3>1 DEF SockInv, Wired, Open
    <3>3. cpos' \in 1..(NSvr + 1)
      BY <1>0, <2>0, <3>1
    <3> QED BY <1>1, <3>1, <3>2, <3>3 DEF CheckPlace
  <2> QED BY <2>1, <2>2
<1> QED BY <1>2, <1>3, <1>4, <1>5 DEF Checker

(* What a step of the sending thread has to keep. *)
LEMMA SenderKeeps ==
    ASSUME SockInv, UNCHANGED <<setup, inapp, run, cpc, cpos, holder, watched, kpc>>,
           spc \notin {"none", "done"}, spc' \in SendPlace \ {"none"},
           now' \in 0..NSvr, pos' \in 1..(NSvr + 1), loop' \in {0, 1}, nth' \in Nat \ {0},
           after' \in {"none", "sync", "send", "fail"}, id' \in [App -> 0..MaxConn],
           spc' = "unset" => after' # "none" /\ nth' <= NSvr,
           Wired', Unlocked \/ \A l \in Svr : valid'[l] => valid[l],
           spc' = "reopen" => pos' <= NSvr /\ pos' # now' /\ Open(pos)',
           spc' = "send" => now' # 0 /\ Open(now)',
           spc' = "unset" /\ after' = "send" => now' # 0 /\ nth' # now' /\ Open(now)'
    PROVE  SockInv'
<1>1. Types'
  BY DEF SockInv, Types
<1>2. Life'
  BY DEF SockInv, Life
<1>3. cpc \in {"clear", "connect", "test"} => cpos <= NSvr /\ ~valid'[cpos]
  <2> SUFFICES ASSUME cpc \in {"clear", "connect", "test"}
               PROVE  cpos <= NSvr /\ ~valid'[cpos]
    OBVIOUS
  <2>1. cpos \in Svr /\ cpos <= NSvr /\ ~valid[cpos]
    BY Counts DEF SockInv, Types, Guarded
  <2>2. \A l \in Svr : valid'[l] => valid[l]
    BY DEF Unlocked
  <2> QED BY <2>1, <2>2
<1>4. Guarded'
  BY <1>3 DEF Guarded
<1> QED BY <1>1, <1>2, <1>4 DEF SockInv

(* A step that closes a slot: the next one it is about to use is another. *)
LEMMA ShutKeeps ==
    ASSUME SockInv, UNCHANGED <<setup, inapp, run, cpc, cpos, holder, watched, kpc, loop, id>>,
           spc \notin {"none", "done"}, NEW j \in Svr, NEW next \in {"sync", "send", "fail"},
           Shut(j, next), now' \in 0..NSvr, pos' \in 1..(NSvr + 1),
           next = "send" => now' # 0 /\ now' # j /\ Open(now')
    PROVE  SockInv'
<1>1. /\ Wired' /\ ~valid'[j] /\ UNCHANGED <<sock, peer>>
      /\ \A l \in Svr : l # j => valid'[l] = valid[l] /\ (Open(l) => Open(l)')
  BY ShutWired DEF SockInv
<1>2. nth' = j /\ spc' = "unset" /\ after' = next
  BY DEF Shut
<1>3. \A l \in Svr : valid'[l] => valid[l]
  BY <1>1
<1>4. j <= NSvr /\ j \in Nat \ {0} /\ loop' \in {0, 1} /\ id' \in [App -> 0..MaxConn]
  BY Counts DEF SockInv, Types
<1>5. next = "send" => Open(now)'
  <2> SUFFICES ASSUME next = "send" PROVE valid'[now'] /\ sock'[now'] \in live'
    BY DEF Open
  <2>1. now' \in Svr /\ now' # j /\ Open(now')
    BY Counts
  <2>2. \A l \in Svr : l # j /\ Open(l) => valid'[l] /\ sock'[l] \in live'
    BY <1>1 DEF Open
  <2> QED BY <2>1, <2>2
<1> QED BY <1>1, <1>2, <1>3, <1>4, <1>5, SenderKeeps DEF SendPlace

(* The steps of the sending thread. *)
LEMMA SenderSock == ASSUME SockInv, Sender PROVE SockInv'
<1>0. Svr = 1..NSvr /\ NSvr \in Nat /\ MaxConn \in Nat
  BY Counts
<1>t. /\ now \in 0..NSvr /\ pos \in 1..(NSvr + 1) /\ loop \in {0, 1} /\ nth \in Nat \ {0}
      /\ after \in {"none", "sync", "send", "fail"} /\ id \in [App -> 0..MaxConn]
      /\ inapp \in Seq(App)
  BY DEF SockInv, Types
<1>s. UNCHANGED <<setup, inapp, run, cpc, cpos, holder, watched, kpc>>
  BY DEF Sender, Leave, Idle, PopBacks, Unset, Skip, SameServer, OtherServer, Reopen, Switch,
         TryAlive, GiveUp, SendData, Fail, cvars, vars
<1>n. spc \notin {"none", "done"}
  BY DEF Sender, Leave, Idle, PopBacks, Unset, Skip, SameServer, OtherServer, Reopen, Switch,
         TryAlive, GiveUp, SendData, Fail
<1>q. ASSUME UNCHANGED <<sock, valid, peer, live>>
      PROVE  Wired' /\ (\A l \in Svr : valid'[l] => valid[l]) /\ (Open(pos') <=> Open(pos)')
                    /\ (Open(now') <=> Open(now)')
  BY <1>q DEF SockInv, Wired, Open
<1>1. CASE Leave \/ PopBacks \/ Skip \/ GiveUp \/ Fail
  <2>1. UNCHANGED <<sock, valid, peer, live, nth, after, id>> /\ spc' \in {"done", "sync", "fail", "top"}
    BY <1>1 DEF Leave, PopBacks, Skip, GiveUp, Fail, slots
  <2>2. now' \in 0..NSvr /\ loop' \in {0, 1}
    BY <1>0, <1>1, <1>t DEF Leave, PopBacks, Skip, GiveUp, Fail
  <2>3. pos' \in 1..(NSvr + 1)
    BY <1>0, <1>1, <1>t DEF Leave, PopBacks, Skip, GiveUp, Fail
  <2> QED BY <1>s, <1>n, <1>q, <1>t, <2>1, <2>2, <2>3, SenderKeeps DEF SendPlace
<1>2. CASE Idle
  BY <1>2 DEF Idle, vars, slots, svars, cvars, SockInv, Types, Wired, Life, Guarded, Open
<1>3. CASE Unset
  <2>1. /\ spc = "unset" /\ sock' = [sock EXCEPT ![nth] = 0] /\ spc' = after /\ after' = "none"
        /\ nth' = 1 /\ UNCHANGED <<valid, peer, live, now, pos, loop, id>>
    BY <1>3 DEF Unset
  <2>2. after \in {"sync", "send", "fail"} /\ nth \in Svr
    BY <1>0, <1>t, <2>1 DEF SockInv, Life, Guarded
  <2>3. /\ sock' \in [Svr -> 0..MaxConn] /\ sock'[nth] = 0
        /\ \A l \in Svr : l # nth => sock'[l] = sock[l]
    BY <1>0, <2>1, <2>2 DEF SockInv, Wired
  <2>4. Wired'
    BY <2>1, <2>3 DEF SockInv, Wired
  <2>5. spc' = "send" => now' # 0 /\ Open(now)'
    <3> SUFFICES ASSUME after = "send" PROVE now # 0 /\ valid'[now'] /\ sock'[now'] \in live'
      BY <2>1 DEF Open
    <3>1. now # 0 /\ nth # now /\ Open(now) /\ now \in Svr
      BY <1>0, <1>t, <2>1 DEF SockInv, Guarded
    <3> QED BY <2>1, <2>3, <3>1 DEF Open
  <2> QED BY <1>s, <1>n, <1>t, <2>1, <2>2, <2>4, <2>5, SenderKeeps DEF SendPlace
<1>4. CASE SameServer \/ OtherServer
  <2>1. pos \in Svr /\ valid[pos] /\ pos + 1 \in 1..(NSvr + 1) /\ 0 \in 0..NSvr
    BY <1>0, <1>t, <1>4 DEF SameServer, OtherServer
  <2>2. CASE /\ CanWrite(sock[pos]) /\ spc' = "send" /\ pos = now
             /\ UNCHANGED <<slots, now, pos, nth, after, id, loop>>
    <3>1. Open(now) /\ now # 0
      BY <1>0, <2>1, <2>2 DEF CanWrite, Open
    <3>2. UNCHANGED <<sock, valid, peer, live>>
      BY <2>2 DEF slots
    <3>3. Open(now)'
      BY <2>2, <3>1, <3>2 DEF Open
    <3> QED BY <1>q, <1>s, <1>n, <1>t, <2>2, <3>1, <3>2, <3>3, SenderKeeps DEF SendPlace
  <2>3. CASE /\ CanWrite(sock[pos]) /\ spc' = "reopen" /\ nth' = 1 /\ pos # now
             /\ UNCHANGED <<slots, pos, after, now, id, loop>>
    <3>1. Open(pos) /\ pos <= NSvr
      BY <1>0, <2>1, <2>3 DEF CanWrite, Open
    <3>2. UNCHANGED <<sock, valid, peer, live>>
      BY <2>3 DEF slots
    <3>3. Open(pos)'
      BY <2>3, <3>1, <3>2 DEF Open
    <3>4. nth' \in Nat \ {0}
      BY <2>3
    <3> QED BY <1>q, <1>s, <1>n, <1>t, <2>3, <3>1, <3>2, <3>3, <3>4, SenderKeeps DEF SendPlace
  <2>4. CASE Shut(pos, "sync") /\ now' \in {0, now} /\ pos' = pos + 1 /\ UNCHANGED <<id, loop>>
    BY <1>s, <1>n, <1>t, <2>1, <2>4, ShutKeeps
  <2> QED BY <1>4, <2>2, <2>3, <2>4 DEF SameServer, OtherServer
<1>5. CASE Reopen
  <2>1. pos \in Svr /\ pos + 1 \in 1..(NSvr + 1) /\ pos # now /\ Open(pos) /\ pos <= NSvr
        /\ spc = "reopen"
    BY <1>0, <1>t, <1>5 DEF Reopen, SockInv, Guarded
  <2>2. CASE /\ id' = [id EXCEPT ![inapp[nth]] = sock[pos]] /\ nth' = nth + 1
             /\ UNCHANGED <<slots, spc, after, pos, now, loop>>
    <3>1. id' \in [App -> 0..MaxConn]
      <4>1. sock[pos] \in 0..MaxConn
        BY <2>1 DEF SockInv, Wired
      <4> QED BY <1>t, <2>2, <4>1
    <3>2. UNCHANGED <<sock, valid, peer, live>>
      BY <2>2 DEF slots
    <3>3. Open(pos)' /\ nth' \in Nat \ {0}
      BY <1>t, <2>1, <2>2, <3>2 DEF Open
    <3> QED BY <1>q, <1>s, <1>n, <1>t, <2>1, <2>2, <3>1, <3>2, <3>3, SenderKeeps DEF SendPlace
  <2>3. CASE Shut(pos, "sync") /\ pos' = pos + 1 /\ UNCHANGED <<id, now, loop>>
    BY <1>s, <1>n, <1>t, <2>1, <2>3, ShutKeeps
  <2> QED BY <1>5, <2>2, <2>3 DEF Reopen
<1>6. CASE Switch
  <2>1. /\ spc = "reopen" /\ now' = pos /\ UNCHANGED <<id, pos, loop>>
        /\ pos \in Svr /\ pos \in 0..NSvr /\ pos # now /\ pos # 0 /\ Open(pos)
    BY <1>0, <1>t, <1>6 DEF Switch, SockInv, Guarded
  <2>2. CASE now # 0 /\ Shut(now, "send")
    <3>1. now \in Svr
      BY <1>0, <1>t, <2>2
    <3> QED BY <1>s, <1>n, <1>t, <2>1, <2>2, <3>1, ShutKeeps
  <2>3. CASE now = 0 /\ spc' = "send" /\ nth' = 1 /\ UNCHANGED <<slots, after>>
    <3>1. UNCHANGED <<sock, valid, peer, live>>
      BY <2>3 DEF slots
    <3>2. Open(now)' /\ nth' \in Nat \ {0} /\ now' # 0
      BY <2>1, <2>3, <3>1 DEF Open
    <3> QED BY <1>q, <1>s, <1>n, <1>t, <2>1, <2>3, <3>1, <3>2, SenderKeeps DEF SendPlace
  <2> QED BY <1>6, <2>2, <2>3 DEF Switch
<1>7. CASE TryAlive
  <2>1. /\ now' = 0 /\ pos' = 1 /\ loop' = 1 /\ UNCHANGED <<id, nth, after>>
        /\ spc' \in {"sync", "fail"} /\ Unlocked /\ 0 \in 0..NSvr /\ 1 \in 1..(NSvr + 1)
    BY <1>0, <1>7 DEF TryAlive
  <2>2. Wired'
    <3>1. CASE UNCHANGED slots
      BY <1>q, <3>1 DEF slots
    <3>2. CASE ConnectNone \/ \E j \in Svr : ConnectFirst(j)
      BY <3>2, ConnectWired DEF SockInv
    <3> QED BY <1>7, <3>1, <3>2 DEF TryAlive
  <2> QED BY <1>s, <1>n, <1>t, <2>1, <2>2, SenderKeeps DEF SendPlace
<1>8. CASE SendData
  <2>1. UNCHANGED <<id, pos, loop>> /\ now \in Svr /\ 0 \in 0..NSvr
    BY <1>0, <1>t, <1>8 DEF SendData, SockInv, Guarded
  <2>2. CASE spc' = "top" /\ UNCHANGED <<slots, now, nth, after>>
    <3>1. UNCHANGED <<sock, valid, peer, live>>
      BY <2>2 DEF slots
    <3> QED BY <1>q, <1>s, <1>n, <1>t, <2>1, <2>2, <3>1, SenderKeeps DEF SendPlace
  <2>3. CASE Shut(now, "fail") /\ now' = 0
    BY <1>s, <1>n, <1>t, <2>1, <2>3, ShutKeeps
  <2> QED BY <1>8, <2>2, <2>3 DEF SendData
<1> QED BY <1>1, <1>2, <1>3, <1>4, <1>5, <1>6, <1>7, <1>8 DEF Sender

(* Every step keeps the sockets. *)
LEMMA NextSock == SockInv /\ [Next]_vars => SockInv'
<1> SUFFICES ASSUME SockInv, [Next]_vars PROVE SockInv'
  OBVIOUS
<1>1. CASE UNCHANGED vars
  BY <1>1 DEF vars, slots, svars, cvars, SockInv, Types, Wired, Life, Guarded, Open
<1> QED BY <1>1, ProgramSock, SenderSock, CheckerSock DEF Next

(* At first nothing is connected and no thread runs. *)
LEMMA SockInit == Init => SockInv
<1> SUFFICES ASSUME Init PROVE SockInv
  OBVIOUS
<1>0. 0 \in 0..MaxConn /\ 0 \in 0..NSvr /\ 1 \in 1..(NSvr + 1)
  BY Counts
<1>1. Types
  <2>1. watched \in BOOLEAN /\ inapp \in Seq(App) /\ id \in [App -> 0..MaxConn]
    <3>1. watched \in BOOLEAN
      BY DEF Init
    <3>2. inapp \in Seq(App)
      BY DEF Init
    <3>3. id \in [App -> 0..MaxConn]
      BY <1>0 DEF Init
    <3> QED BY <3>1, <3>2, <3>3
  <2> QED BY <1>0, <2>1 DEF Init, Types, SendPlace, CheckPlace, ClosePlace
<1>2. Wired
  <2>1. valid \in [Svr -> BOOLEAN]
    BY Zenon DEF Init
  <2>2. sock \in [Svr -> 0..MaxConn] /\ \A j \in Svr : sock[j] = 0
    BY <1>0 DEF Init
  <2>3. peer \in Seq(Svr) /\ Len(peer) = 0 /\ live = {}
    BY DEF Init
  <2> QED BY <2>1, <2>2, <2>3, Counts DEF Wired
<1>3. Life /\ Guarded
  BY DEF Init, Life, Guarded
<1> QED BY <1>1, <1>2, <1>3 DEF SockInv

(* In every interleaving of the sending thread, which closes sockets       *)
(* without _lock, and the check thread, which reconnects with it, the      *)
(* socket the sender asks for handles or writes to is valid, open and its  *)
(* own, with any number of servers and connections.                        *)
THEOREM SocketAlwaysStable == Spec => []SocketStable
<1>1. Init => SockInv
  BY SockInit
<1>2. SockInv /\ [Next]_vars => SockInv'
  BY NextSock
<1>3. SockInv => SocketStable
  BY SockInvStable
<1> QED BY <1>1, <1>2, <1>3, PTL DEF Spec
-----------------------------------------------------------------------------
(* The entries N are split into those queued, in the batch, sent, in a     *)
(* backup file and dropped.                                                *)
Placed(Q, B, S, K, D, N) ==
    /\ N = Q \cup B \cup S \cup K \cup D
    /\ Q \cap (B \cup S \cup K \cup D) = {} /\ B \cap (S \cup K \cup D) = {}
    /\ S \cap (K \cup D) = {} /\ K \cap D = {}

\* The sending thread has a batch in its hands.
Busy == {"sync", "reopen", "send", "unset", "fail"}

(* Every entry has one place; each is queued once; an idle thread has no   *)
(* batch, so that a new batch overwrites nothing.                          *)
EntryInv ==
    /\ entries \in Seq(App)
    /\ queue \in Seq(Nat \ {0}) /\ Len(queue) <= QueueSize
    /\ \A i, j \in 1..Len(queue) : queue[i] = queue[j] => i = j
    /\ batch \in Seq([entry : Nat, size : Nat]) /\ Len(batch) <= MaxBatch
    /\ spc \notin Busy => batch = <<>>
    /\ Placed(QueuedNow, InBatch, Sent, BackedUp, dropped, 1..Len(entries))
    /\ kpc # "closed" => \A e \in dropped : entries[e] \notin Backed

(* One place is what EachOnce counts. *)
LEMMA PlacedOnce == EntryInv => EachOnce
<1> SUFFICES ASSUME EntryInv PROVE EachOnce
  OBVIOUS
<1>1. kpc # "closed" => \A e \in dropped : entries[e] \notin Backed
  BY DEF EntryInv
<1>2. ASSUME NEW e \in 1..Len(entries)
      PROVE  Cardinality({place \in {"queue", "batch", "sent", "backup", "dropped"} :
                e \in CASE place = "queue" -> QueuedNow [] place = "batch" -> InBatch
                        [] place = "sent" -> Sent [] place = "backup" -> BackedUp
                        [] OTHER -> dropped}) = 1
  <2> DEFINE In(place) == CASE place = "queue" -> QueuedNow [] place = "batch" -> InBatch
                            [] place = "sent" -> Sent [] place = "backup" -> BackedUp
                            [] OTHER -> dropped
             P == {place \in {"queue", "batch", "sent", "backup", "dropped"} : e \in In(place)}
  <2>1. /\ In("queue") = QueuedNow /\ In("batch") = InBatch /\ In("sent") = Sent
        /\ In("backup") = BackedUp /\ In("dropped") = dropped
    OBVIOUS
  <2>2. /\ e \in QueuedNow \cup InBatch \cup Sent \cup BackedUp \cup dropped
        /\ QueuedNow \cap (InBatch \cup Sent \cup BackedUp \cup dropped) = {}
        /\ InBatch \cap (Sent \cup BackedUp \cup dropped) = {}
        /\ Sent \cap (BackedUp \cup dropped) = {} /\ BackedUp \cap dropped = {}
    BY <1>2 DEF EntryInv, Placed
  <2> HIDE DEF In
  <2>3. \E x \in {"queue", "batch", "sent", "backup", "dropped"} : P = {x}
    <3>1. CASE e \in QueuedNow
      <4>1. P = {"queue"}
        BY <2>1, <2>2, <3>1
      <4> QED BY <4>1
    <3>2. CASE e \in InBatch
      <4>1. P = {"batch"}
        BY <2>1, <2>2, <3>2
      <4> QED BY <4>1
    <3>3. CASE e \in Sent
      <4>1. P = {"sent"}
        BY <2>1, <2>2, <3>3
      <4> QED BY <4>1
    <3>4. CASE e \in BackedUp
      <4>1. P = {"backup"}
        BY <2>1, <2>2, <3>4
      <4> QED BY <4>1
    <3>5. CASE e \in dropped
      <4>1. P = {"dropped"}
        BY <2>1, <2>2, <3>5
      <4> QED BY <4>1
    <3> QED BY <2>2, <3>1, <3>2, <3>3, <3>4, <3>5
  <2> HIDE DEF P
  <2>4. Cardinality(P) = 1
    BY <2>3, FS_Singleton
  <2> QED BY <2>4 DEF P, In
<1> QED BY <1>1, <1>2 DEF EachOnce

(* The rest of TypeOK. *)
LEMMA PlacedType == SockInv /\ EntryInv => EntriesPlaced
<1> SUFFICES ASSUME SockInv, EntryInv PROVE EntriesPlaced
  OBVIOUS
<1>1. dropped \subseteq Nat
  BY DEF EntryInv, Placed
<1>2. TypeOK
  BY <1>1 DEF TypeOK, SockInv, Types, Wired, EntryInv, SendPlace, CheckPlace, ClosePlace
<1> QED BY <1>2, PlacedOnce DEF EntriesPlaced

(* A sequence without repetition, cut in two. *)
LEMMA CutQueue ==
    ASSUME NEW S, NEW w \in Seq(S), NEW r \in Nat, r <= Len(w),
           \A i, j \in 1..Len(w) : w[i] = w[j] => i = j
    PROVE  LET a == SubSeq(w, 1, r)
               b == SubSeq(w, r + 1, Len(w))
           IN  /\ a \in Seq(S) /\ b \in Seq(S) /\ Len(a) = r /\ Len(b) = Len(w) - r
               /\ ToSet(w) = ToSet(a) \cup ToSet(b) /\ ToSet(a) \cap ToSet(b) = {}
               /\ \A i, j \in 1..Len(a) : a[i] = a[j] => i = j
               /\ \A i, j \in 1..Len(b) : b[i] = b[j] => i = j
<1> DEFINE a == SubSeq(w, 1, r)
           b == SubSeq(w, r + 1, Len(w))
<1>0. Len(w) \in Nat
  OBVIOUS
<1>1. a \in Seq(S) /\ Len(a) = r /\ \A i \in 1..r : a[i] = w[i]
  BY <1>0
<1>2. b \in Seq(S) /\ Len(b) = Len(w) - r /\ \A i \in 1..(Len(w) - r) : b[i] = w[r + i]
  BY <1>0
<1> HIDE DEF a, b
<1>3. /\ ToSet(w) = {w[i] : i \in 1..Len(w)} /\ ToSet(a) = {w[i] : i \in 1..r}
      /\ ToSet(b) = {w[r + i] : i \in 1..(Len(w) - r)}
  <2>1. ToSet(w) = {w[i] : i \in 1..Len(w)}
    BY <1>0 DEF ToSet
  <2>2. ToSet(a) = {a[i] : i \in 1..r}
    BY <1>1 DEF ToSet
  <2>3. ToSet(b) = {b[i] : i \in 1..(Len(w) - r)}
    BY <1>2 DEF ToSet
  <2> QED BY <1>1, <1>2, <2>1, <2>2, <2>3
<1>4. ToSet(w) = ToSet(a) \cup ToSet(b)
  <2>1. ASSUME NEW i \in 1..Len(w) PROVE w[i] \in ToSet(a) \cup ToSet(b)
    <3>1. CASE i <= r
      BY <1>3, <3>1
    <3>2. CASE i > r
      <4>1. i - r \in 1..(Len(w) - r) /\ r + (i - r) = i
        BY <1>0, <3>2
      <4> QED BY <1>3, <4>1
    <3> QED BY <3>1, <3>2
  <2>2. ASSUME NEW i \in 1..(Len(w) - r) PROVE r + i \in 1..Len(w)
    BY <1>0
  <2>3. ASSUME NEW i \in 1..r PROVE i \in 1..Len(w)
    BY <1>0
  <2> QED BY <1>3, <2>1, <2>2, <2>3
<1>5. ToSet(a) \cap ToSet(b) = {}
  <2>1. ASSUME NEW i \in 1..r, NEW j \in 1..(Len(w) - r) PROVE w[i] # w[r + j]
    <3>1. i \in 1..Len(w) /\ r + j \in 1..Len(w) /\ i # r + j
      BY <1>0
    <3> QED BY <3>1
  <2> QED BY <1>3, <2>1
<1>6. \A i, j \in 1..Len(a) : a[i] = a[j] => i = j
  BY <1>0, <1>1
<1>7. ASSUME NEW i \in 1..Len(b), NEW j \in 1..Len(b), b[i] = b[j] PROVE i = j
  <2>1. r + i \in 1..Len(w) /\ r + j \in 1..Len(w) /\ w[r + i] = w[r + j]
    BY <1>0, <1>2, <1>7
  <2>2. r + i = r + j
    BY <2>1
  <2> QED BY <1>2, <2>2
<1> QED BY <1>1, <1>2, <1>4, <1>5, <1>6, <1>7 DEF a, b

(* What sorting makes of it: the same entries, each once. *)
LEMMA SortedSame ==
    ASSUME NEW S, NEW b \in Seq(S), \A i, j \in 1..Len(b) : b[i] = b[j] => i = j,
           NEW s \in SetToSeqs(ToSet(b))
    PROVE  s \in [1..Len(b) -> ToSet(b)] /\ {s[k] : k \in 1..Len(b)} = ToSet(b)
<1> DEFINE T == ToSet(b)
           n == Len(b)
           f == [i \in 1..n |-> b[i]]
<1>1. n \in Nat /\ IsFiniteSet(1..n) /\ Cardinality(1..n) = n
  <2>1. n \in Nat
    OBVIOUS
  <2>2. IsFiniteSet(1..n) /\ Cardinality(1..n) = IF 1 > n THEN 0 ELSE n - 1 + 1
    BY <2>1, FS_Interval
  <2> HIDE DEF n
  <2> QED BY <2>1, <2>2
<1>2. T = {b[i] : i \in 1..n}
  BY DEF ToSet
<1>3. f \in Surjection(1..n, T) /\ f \in Injection(1..n, T)
  <2> HIDE DEF T
  <2>1. f \in [1..n -> T] /\ DOMAIN f = 1..n
    BY <1>2
  <2>2. \A t \in T : \E i \in 1..n : f[i] = t
    BY <1>2
  <2>3. \A i, j \in 1..n : f[i] = f[j] => i = j
    OBVIOUS
  <2> HIDE DEF f
  <2> QED BY <2>1, <2>2, <2>3 DEF Surjection, Injection, IsInjective
<1>4. IsFiniteSet(T) /\ Cardinality(T) = n
  <2> HIDE DEF f, T, n
  <2>1. /\ IsFiniteSet(T) /\ (Cardinality(T) = Cardinality(1..n) <=> f \in Injection(1..n, T))
    BY <1>1, <1>3, FS_Surjection
  <2> QED BY <1>1, <1>3, <2>1
<1>5. s \in [1..n -> T] /\ \A i, j \in 1..n : i # j => s[i] # s[j]
  BY <1>4 DEF SetToSeqs
<1> HIDE DEF f, T, n
<1>6. s \in Injection(1..n, T)
  BY <1>5 DEF Injection, IsInjective
<1>7. s \in Surjection(1..n, T)
  BY <1>1, <1>4, <1>6, FS_Injection
<1>8. \A t \in T : \E i \in 1..n : s[i] = t
  BY <1>7 DEF Surjection
<1>9. {s[k] : k \in 1..n} = T
  BY <1>5, <1>8
<1> QED BY <1>5, <1>9 DEF T, n

(* The ways entries move. *)
LEMMA PlacedMoves ==
    ASSUME NEW Q, NEW B, NEW S, NEW K, NEW D, NEW N, Placed(Q, B, S, K, D, N)
    PROVE  /\ \A e : e \notin N => /\ Placed(Q \cup {e}, B, S, K, D, N \cup {e})
                                   /\ Placed(Q, B, S, K \cup {e}, D, N \cup {e})
                                   /\ Placed(Q, B, S, K, D \cup {e}, N \cup {e})
           /\ Placed(Q, {}, S \cup B, K, D, N)
           /\ Placed({}, B, S, K, D \cup Q, N)
<1>1. ASSUME NEW e, e \notin N
      PROVE  /\ Placed(Q \cup {e}, B, S, K, D, N \cup {e})
             /\ Placed(Q, B, S, K \cup {e}, D, N \cup {e})
             /\ Placed(Q, B, S, K, D \cup {e}, N \cup {e})
  BY <1>1 DEF Placed
<1>2. Placed(Q, {}, S \cup B, K, D, N)
  BY DEF Placed
<1>3. Placed({}, B, S, K, D \cup Q, N)
  BY DEF Placed
<1> QED BY <1>1, <1>2, <1>3

(* A part of the queue becomes the batch; a batch is divided between the   *)
(* backup files and the dropped.                                           *)
LEMMA PlacedSplits ==
    ASSUME NEW Q, NEW B, NEW S, NEW K, NEW D, NEW N, Placed(Q, B, S, K, D, N),
           NEW X, NEW Y, X \cap Y = {}
    PROVE  /\ Q = X \cup Y /\ B = {} => Placed(X, Y, S, K, D, N)
           /\ B = X \cup Y => Placed(Q, {}, S, K \cup X, D \cup Y, N)
BY DEF Placed

(* A step that leaves the entries where they are. *)
LEMMA SameEntries ==
    ASSUME EntryInv, UNCHANGED <<setup, entries, queue, batch, sent, backup, dropped>>,
           spc' \notin Busy => batch = <<>>, kpc = "closed" => kpc' = "closed"
    PROVE  EntryInv'
BY DEF EntryInv, QueueSize, QueuedNow, InBatch, Sent, BackedUp

(* print() adds one entry, in the queue if there is room and otherwise     *)
(* behind the backup appender.                                             *)
LEMMA PrintEntries ==
    ASSUME SockInv, EntryInv, NEW a \in App, print(a)
    PROVE  EntryInv'
<1> DEFINE e == Len(entries) + 1
<1>1. /\ entries' = Append(entries, a) /\ kpc # "closed"
      /\ UNCHANGED <<setup, spc, batch, sent, kpc>>
  BY DEF print, svars
<1>2. /\ entries \in Seq(App) /\ entries' \in Seq(App) /\ Len(entries') = e /\ entries'[e] = a
      /\ \A i \in 1..Len(entries) : entries'[i] = entries[i]
      /\ Len(entries) \in Nat /\ e \in Nat \ {0}
  BY <1>1 DEF EntryInv
<1>3. 1..Len(entries') = (1..Len(entries)) \cup {e} /\ e \notin 1..Len(entries)
  BY <1>2
<1> HIDE DEF e
<1>4. /\ Placed(QueuedNow, InBatch, Sent, BackedUp, dropped, 1..Len(entries))
      /\ InBatch' = InBatch /\ Sent' = Sent
      /\ \A d \in dropped : d \in 1..Len(entries) /\ entries[d] \notin Backed
  BY <1>1 DEF EntryInv, InBatch, Sent, Placed
<1>5. \A d \in dropped : entries'[d] \notin Backed
  BY <1>2, <1>4
<1>6. CASE Len(queue) < QueueSize
  <2>1. queue' = <<e>> \o queue /\ UNCHANGED <<backup, dropped>>
    BY <1>2, <1>6 DEF print, Queue
  <2>2. queue \in Seq(Nat \ {0}) /\ Len(queue) \in Nat /\ QueueSize \in Nat
    BY SetupAssumption DEF EntryInv, SockInv, Types, QueueSize
  <2>3. /\ queue' \in Seq(Nat \ {0}) /\ Len(queue') = Len(queue) + 1 /\ queue'[1] = e
        /\ \A i \in 1..Len(queue) : queue'[i + 1] = queue[i]
        /\ \A i \in 2..Len(queue') : queue'[i] = queue[i - 1] /\ i - 1 \in 1..Len(queue)
    BY <1>2, <2>1, <2>2
  <2>4. ToSet(queue) = {queue[i] : i \in 1..Len(queue)} /\ ToSet(queue') = {queue'[i] : i \in 1..Len(queue')}
    <3>1. \A t \in Seq(Nat \ {0}) : ToSet(t) = {t[i] : i \in 1..Len(t)}
      BY DEF ToSet
    <3>2. queue' \in Seq(Nat \ {0})
      BY <2>3
    <3>3. ToSet(queue) = {queue[i] : i \in 1..Len(queue)}
      BY <2>2, <3>1
    <3>4. ToSet(queue') = {queue'[i] : i \in 1..Len(queue')}
      BY <3>1, <3>2
    <3> QED BY <3>3, <3>4
  <2>5. ToSet(queue') = ToSet(queue) \cup {e}
    <3>1. ASSUME NEW i \in 1..Len(queue') PROVE queue'[i] \in ToSet(queue) \cup {e}
      <4>1. CASE i = 1
        BY <2>3, <4>1
      <4>2. CASE i # 1
        <5>1. i \in 2..Len(queue')
          BY <2>2, <2>3, <4>2
        <5> QED BY <2>3, <2>4, <5>1
      <4> QED BY <4>1, <4>2
    <3>2. ASSUME NEW i \in 1..Len(queue) PROVE queue[i] \in ToSet(queue')
      <4>1. i + 1 \in 1..Len(queue')
        BY <2>2, <2>3
      <4> QED BY <2>3, <2>4, <4>1
    <3>3. e \in ToSet(queue')
      <4>1. 1 \in 1..Len(queue')
        BY <2>2, <2>3
      <4> QED BY <2>3, <2>4, <4>1
    <3> QED BY <2>4, <3>1, <3>2, <3>3
  <2>6. ASSUME NEW i \in 1..Len(queue'), NEW j \in 1..Len(queue'), queue'[i] = queue'[j]
        PROVE  i = j
    <3>1. \A k \in 1..Len(queue) : queue[k] # e
      BY <1>3, <1>4, <2>4 DEF Placed, QueuedNow
    <3>2. i = 1 \/ i \in 2..Len(queue')
      BY <2>2, <2>3
    <3>3. j = 1 \/ j \in 2..Len(queue')
      BY <2>2, <2>3
    <3>4. CASE i = 1 \/ j = 1
      BY <2>3, <2>6, <3>1, <3>2, <3>3, <3>4
    <3>5. CASE i \in 2..Len(queue') /\ j \in 2..Len(queue')
      <4>1. queue'[i] = queue[i - 1] /\ i - 1 \in 1..Len(queue)
        BY <2>3, <3>5
      <4>2. queue'[j] = queue[j - 1] /\ j - 1 \in 1..Len(queue)
        BY <2>3, <3>5
      <4>3. \A k, l \in 1..Len(queue) : queue[k] = queue[l] => k = l
        BY DEF EntryInv
      <4>4. queue[i - 1] = queue[j - 1]
        BY <2>6, <4>1, <4>2
      <4>5. i - 1 = j - 1
        BY <4>1, <4>2, <4>3, <4>4
      <4>6. i \in Nat /\ j \in Nat
        BY <2>2, <2>3
      <4> QED BY <4>5, <4>6
    <3> QED BY <3>2, <3>3, <3>4, <3>5
  <2>7. Placed(QueuedNow', InBatch', Sent', BackedUp', dropped', 1..Len(entries'))
    <3>1. QueuedNow' = QueuedNow \cup {e} /\ BackedUp' = BackedUp /\ dropped' = dropped
      BY <2>1, <2>5 DEF QueuedNow, BackedUp
    <3>2. Placed(QueuedNow \cup {e}, InBatch, Sent, BackedUp, dropped, (1..Len(entries)) \cup {e})
      BY <1>3, <1>4, PlacedMoves
    <3> QED BY <1>3, <1>4, <3>1, <3>2
  <2>8. Len(queue') <= QueueSize' /\ \A d \in dropped' : entries'[d] \notin Backed
    <3>1. QueueSize' = QueueSize
      BY <1>1 DEF QueueSize
    <3>2. Len(queue') <= QueueSize
      BY <1>6, <2>2, <2>3
    <3>3. \A d \in dropped' : entries'[d] \notin Backed
      BY <1>5, <2>1
    <3> QED BY <3>1, <3>2, <3>3
  <2> QED BY <1>1, <1>2, <2>3, <2>6, <2>7, <2>8 DEF EntryInv
<1>7. CASE ~(Len(queue) < QueueSize)
  <2> DEFINE items == {[entry |-> e, size |-> 1]}
             kept == {b \in items : entries'[b.entry] \in Backed}
  <2>1. queue' = queue /\ backup' = backup \cup kept /\ dropped' = dropped \cup {b.entry : b \in items \ kept}
    BY <1>2, <1>7 DEF print, BackUp
  <2>2. Placed(QueuedNow', InBatch', Sent', BackedUp', dropped', 1..Len(entries'))
        /\ \A d \in dropped' : entries'[d] \notin Backed
    <3>0. {b.entry : b \in items} = {e} /\ QueuedNow' = QueuedNow
      BY <2>1 DEF QueuedNow
    <3>1. CASE a \in Backed
      <4>1. kept = items /\ items \ kept = {}
        BY <1>2, <3>1
      <4> HIDE DEF items, kept
      <4>2. BackedUp' = BackedUp \cup {e} /\ dropped' = dropped /\ QueuedNow' = QueuedNow
        <5>1. backup' = backup \cup items
          BY <2>1, <4>1
        <5>2. {b.entry : b \in backup \cup items} = {b.entry : b \in backup} \cup {b.entry : b \in items}
          OBVIOUS
        <5>3. BackedUp' = BackedUp \cup {e}
          BY <3>0, <5>1, <5>2 DEF BackedUp
        <5>4. dropped' = dropped
          BY <2>1, <4>1
        <5> QED BY <3>0, <5>3, <5>4
      <4>3. Placed(QueuedNow, InBatch, Sent, BackedUp \cup {e}, dropped, (1..Len(entries)) \cup {e})
        BY <1>3, <1>4, PlacedMoves
      <4> QED BY <1>3, <1>4, <1>5, <4>2, <4>3
    <3>2. CASE a \notin Backed
      <4>1. kept = {} /\ items \ kept = items
        BY <1>2, <3>2
      <4> HIDE DEF items, kept
      <4>2. BackedUp' = BackedUp /\ dropped' = dropped \cup {e} /\ QueuedNow' = QueuedNow
        <5>1. backup' = backup
          BY <2>1, <4>1
        <5>2. BackedUp' = BackedUp
          BY <5>1 DEF BackedUp
        <5>3. dropped' = dropped \cup {e}
          BY <2>1, <3>0, <4>1
        <5> QED BY <3>0, <5>2, <5>3
      <4>3. Placed(QueuedNow, InBatch, Sent, BackedUp, dropped \cup {e}, (1..Len(entries)) \cup {e})
        BY <1>3, <1>4, PlacedMoves
      <4> QED BY <1>2, <1>3, <1>4, <1>5, <3>2, <4>2, <4>3
    <3> QED BY <3>1, <3>2
  <2> HIDE DEF kept, items
  <2> QED BY <1>1, <1>2, <2>1, <2>2 DEF EntryInv, QueueSize
<1> QED BY <1>6, <1>7

(* A batch is the oldest part of the queue. *)
LEMMA PopEntries ==
    ASSUME SockInv, EntryInv, PopBacks
    PROVE  EntryInv'
<1> DEFINE n == IF MaxBatch < Len(queue) THEN MaxBatch ELSE Len(queue)
           r == Len(queue) - n
           old == SubSeq(queue, r + 1, Len(queue))
           new == SubSeq(queue, 1, r)
<1>1. /\ UNCHANGED <<setup, entries, sent, backup, dropped, kpc>> /\ spc' = "sync"
      /\ batch = <<>> /\ queue \in Seq(Nat \ {0}) /\ Len(queue) <= QueueSize
      /\ \A i, j \in 1..Len(queue) : queue[i] = queue[j] => i = j
  BY DEF PopBacks, history, EntryInv, Busy
<1>2. PICK s \in Sorted(old) : batch' = [k \in 1..n |-> [entry |-> s[k], size |-> 1]] /\ queue' = new
  BY DEF PopBacks
<1>3. /\ Len(queue) \in Nat /\ n \in Nat /\ n <= MaxBatch /\ r \in Nat /\ r <= Len(queue)
      /\ Len(queue) - r = n /\ QueueSize \in Nat
  <2>1. Len(queue) \in Nat /\ MaxBatch \in Nat /\ QueueSize \in Nat
    BY <1>1, Counts, SetupAssumption DEF SockInv, Types, QueueSize
  <2> QED BY <2>1
<1> HIDE DEF n, r
<1>4. /\ new \in Seq(Nat \ {0}) /\ old \in Seq(Nat \ {0}) /\ Len(new) = r /\ Len(old) = Len(queue) - r
      /\ ToSet(queue) = ToSet(new) \cup ToSet(old) /\ ToSet(new) \cap ToSet(old) = {}
      /\ \A i, j \in 1..Len(new) : new[i] = new[j] => i = j
      /\ \A i, j \in 1..Len(old) : old[i] = old[j] => i = j
  BY <1>1, <1>3, CutQueue
<1> HIDE DEF old, new
<1>5. s \in [1..n -> ToSet(old)] /\ {s[k] : k \in 1..n} = ToSet(old)
  <2>1. s \in SetToSeqs(ToSet(old))
    BY DEF Sorted
  <2>2. s \in [1..Len(old) -> ToSet(old)] /\ {s[k] : k \in 1..Len(old)} = ToSet(old)
    BY <1>4, <2>1, SortedSame
  <2>3. Len(old) = n
    BY <1>3, <1>4
  <2> QED BY <2>2, <2>3
<1>6. /\ batch' \in Seq([entry : Nat, size : Nat]) /\ Len(batch') = n
      /\ ToSet(batch') = {[entry |-> s[k], size |-> 1] : k \in 1..n}
  <2>1. \A k \in 1..n : s[k] \in Nat
    <3>1. ToSet(old) \subseteq Nat
      BY <1>4 DEF ToSet
    <3> QED BY <1>5, <3>1
  <2>2. batch' \in Seq([entry : Nat, size : Nat]) /\ Len(batch') = n
    BY <1>2, <1>3, <2>1
  <2>3. ToSet(batch') = {batch'[k] : k \in 1..n}
    BY <1>2 DEF ToSet
  <2> QED BY <1>2, <2>2, <2>3
<1>7. InBatch' = ToSet(old) /\ QueuedNow' = ToSet(new) /\ QueuedNow = ToSet(queue) /\ InBatch = {}
  <2>1. InBatch' = {s[k] : k \in 1..n}
    <3>1. InBatch' = {b.entry : b \in {[entry |-> s[k], size |-> 1] : k \in 1..n}}
      BY <1>6 DEF InBatch
    <3>2. \A k \in 1..n : [entry |-> s[k], size |-> 1].entry = s[k]
      OBVIOUS
    <3>3. \A k \in 1..n : s[k] \in InBatch'
      BY <3>1, <3>2
    <3>4. \A x \in InBatch' : \E k \in 1..n : x = s[k]
      BY <3>1, <3>2
    <3> QED BY <3>3, <3>4
  <2>2. InBatch = {}
    BY <1>1 DEF InBatch, ToSet
  <2> QED BY <1>2, <1>5, <2>1, <2>2 DEF QueuedNow
<1>8. Placed(QueuedNow', InBatch', Sent', BackedUp', dropped', 1..Len(entries'))
  <2>1. /\ Placed(ToSet(queue), {}, Sent, BackedUp, dropped, 1..Len(entries))
        /\ Sent' = Sent /\ BackedUp' = BackedUp /\ dropped' = dropped /\ entries' = entries
    BY <1>1, <1>7 DEF EntryInv, Sent, BackedUp
  <2>2. Placed(ToSet(new), ToSet(old), Sent, BackedUp, dropped, 1..Len(entries))
    BY <1>4, <2>1, PlacedSplits
  <2> QED BY <1>7, <2>1, <2>2
<1>9. Len(queue') <= QueueSize'
  BY <1>1, <1>2, <1>3, <1>4 DEF QueueSize
<1> QED BY <1>1, <1>2, <1>3, <1>4, <1>6, <1>8, <1>9 DEF EntryInv, Busy

(* The fail label divides the batch between the backup files and the       *)
(* entries that have none.                                                 *)
LEMMA FailEntries ==
    ASSUME SockInv, EntryInv, Fail
    PROVE  EntryInv'
<1> DEFINE items == ToSet(batch)
           kept == {b \in items : entries[b.entry] \in Backed}
           X == {b.entry : b \in kept}
           Y == {b.entry : b \in items \ kept}
<1>1. /\ UNCHANGED <<setup, entries, queue, sent, kpc>> /\ batch' = <<>> /\ spc = "fail" /\ kpc # "closed"
  BY DEF Fail, SockInv, Life
<1>2. backup' = backup \cup kept /\ dropped' = dropped \cup Y
  BY <1>1 DEF Fail, BackUp
<1>3. InBatch = X \cup Y
  BY DEF InBatch
<1>4. (\A x \in X : entries[x] \in Backed) /\ (\A y \in Y : entries[y] \notin Backed) /\ X \cap Y = {}
  OBVIOUS
<1>5. BackedUp' = BackedUp \cup X
  BY <1>2 DEF BackedUp
<1> HIDE DEF kept, X, Y, items
<1>6. InBatch' = {} /\ QueuedNow' = QueuedNow /\ Sent' = Sent
  BY <1>1 DEF InBatch, QueuedNow, Sent, ToSet
<1>7. Placed(QueuedNow, {}, Sent, BackedUp \cup X, dropped \cup Y, 1..Len(entries))
  <2>1. Placed(QueuedNow, InBatch, Sent, BackedUp, dropped, 1..Len(entries))
    BY DEF EntryInv
  <2> QED BY <1>3, <1>4, <2>1, PlacedSplits
<1>8. Placed(QueuedNow', InBatch', Sent', BackedUp', dropped', 1..Len(entries'))
  BY <1>1, <1>2, <1>5, <1>6, <1>7
<1>9. \A d \in dropped' : entries'[d] \notin Backed
  BY <1>1, <1>2, <1>4 DEF EntryInv
<1>10. batch' \in Seq([entry : Nat, size : Nat]) /\ Len(batch') <= MaxBatch
  BY <1>1, Counts
<1> QED BY <1>1, <1>8, <1>9, <1>10 DEF EntryInv, QueueSize

(* Grouping changes sizes and no entry. *)
LEMMA GroupedSame ==
    ASSUME batch \in Seq([entry : Nat, size : Nat])
    PROVE  /\ Grouped \in Seq([entry : Nat, size : Nat]) /\ Len(Grouped) = Len(batch)
           /\ {b.entry : b \in ToSet(Grouped)} = InBatch
<1> DEFINE same(x) == {y \in 1..Len(batch) : entries[batch[y].entry] = entries[batch[x].entry]}
<1>1. Len(batch) \in Nat /\ DOMAIN Grouped = 1..Len(batch) /\ DOMAIN batch = 1..Len(batch)
  BY DEF Grouped
<1>2. ASSUME NEW x \in 1..Len(batch)
      PROVE  Grouped[x] \in [entry : Nat, size : Nat] /\ Grouped[x].entry = batch[x].entry
  <2>1. Cardinality(same(x)) \in Nat
    <3>1. IsFiniteSet(1..Len(batch))
      BY <1>1, FS_Interval
    <3>2. same(x) \subseteq 1..Len(batch)
      OBVIOUS
    <3> QED BY <3>1, <3>2, FS_Subset, FS_CardinalityType
  <2>2. batch[x] \in [entry : Nat, size : Nat]
    <3>1. \A R : \A t \in Seq(R) : \A k \in 1..Len(t) : t[k] \in R
      OBVIOUS
    <3> QED BY <3>1
  <2>3. Grouped[x] = IF \A y \in same(x) : x <= y
                     THEN [batch[x] EXCEPT !.size = Cardinality(same(x))] ELSE batch[x]
    BY DEF Grouped
  <2> HIDE DEF same
  <2> QED BY <2>1, <2>2, <2>3
<1>3. Grouped = [x \in 1..Len(batch) |-> Grouped[x]]
  BY DEF Grouped
<1> HIDE DEF same
<1>4. Grouped \in Seq([entry : Nat, size : Nat]) /\ Len(Grouped) = Len(batch)
  <2> DEFINE G == Grouped
  <2>1. G = [x \in 1..Len(batch) |-> G[x]] /\ \A x \in 1..Len(batch) : G[x] \in [entry : Nat, size : Nat]
    BY <1>2, <1>3
  <2> HIDE DEF G
  <2>2. G \in Seq([entry : Nat, size : Nat]) /\ Len(G) = Len(batch)
    BY <1>1, <2>1
  <2> QED BY <2>2 DEF G
<1>5. ToSet(Grouped) = {Grouped[x] : x \in 1..Len(batch)} /\ ToSet(batch) = {batch[x] : x \in 1..Len(batch)}
  BY <1>1 DEF ToSet
<1>6. {b.entry : b \in ToSet(Grouped)} = {batch[x].entry : x \in 1..Len(batch)}
  <2>1. \A x \in 1..Len(batch) : Grouped[x].entry = batch[x].entry
    BY <1>2
  <2>2. {b.entry : b \in ToSet(Grouped)} = {Grouped[x].entry : x \in 1..Len(batch)}
    BY <1>5
  <2> QED BY <2>1, <2>2
<1>7. InBatch = {batch[x].entry : x \in 1..Len(batch)}
  BY <1>5 DEF InBatch
<1> QED BY <1>4, <1>6, <1>7

(* A batch goes out whole, or stays the sending thread's. *)
LEMMA SendEntries ==
    ASSUME SockInv, EntryInv, SendData
    PROVE  EntryInv'
<1>1. UNCHANGED <<setup, entries, queue, kpc, backup, dropped>> /\ spc = "send"
  BY DEF SendData
<1>2. QueuedNow' = QueuedNow /\ BackedUp' = BackedUp
  BY <1>1 DEF QueuedNow, BackedUp
<1>3. Placed(QueuedNow, InBatch, Sent, BackedUp, dropped, 1..Len(entries))
  BY DEF EntryInv
<1>4. CASE /\ batch' = <<>>
           /\ sent' = sent \cup
                {[entry |-> b.entry, handle |-> id[entries[b.entry]]] : b \in ToSet(batch)}
  <2> DEFINE out == {[entry |-> b.entry, handle |-> id[entries[b.entry]]] : b \in ToSet(batch)}
  <2>1. {s.entry : s \in out} = InBatch
    <3> DEFINE O == {s.entry : s \in out}
    <3>1. \A b \in ToSet(batch) : b.entry \in O
      <4>1. ASSUME NEW b \in ToSet(batch) PROVE b.entry \in O
        <5>1. [entry |-> b.entry, handle |-> id[entries[b.entry]]] \in out
          OBVIOUS
        <5> QED BY <5>1
      <4> QED BY <4>1
    <3>2. \A x \in O : \E b \in ToSet(batch) : x = b.entry
      OBVIOUS
    <3> QED BY <3>1, <3>2 DEF InBatch
  <2>2. sent' = sent \cup out
    BY <1>4
  <2> HIDE DEF out
  <2>3. Sent' = Sent \cup InBatch
    <3>1. {s.entry : s \in sent \cup out} = {s.entry : s \in sent} \cup {s.entry : s \in out}
      OBVIOUS
    <3> QED BY <2>1, <2>2, <3>1 DEF Sent
  <2>4. InBatch' = {}
    BY <1>4 DEF InBatch, ToSet
  <2>5. Placed(QueuedNow, {}, Sent \cup InBatch, BackedUp, dropped, 1..Len(entries))
    BY <1>3, PlacedMoves
  <2>6. Placed(QueuedNow', InBatch', Sent', BackedUp', dropped', 1..Len(entries'))
    BY <1>1, <1>2, <2>3, <2>4, <2>5
  <2>7. batch' \in Seq([entry : Nat, size : Nat]) /\ Len(batch') <= MaxBatch
    BY <1>4, Counts
  <2> QED BY <1>1, <1>4, <2>6, <2>7 DEF EntryInv, QueueSize
<1>5. CASE batch' = Grouped /\ sent' = sent /\ spc' = "unset"
  <2>1. /\ Grouped \in Seq([entry : Nat, size : Nat]) /\ Len(Grouped) = Len(batch)
        /\ {b.entry : b \in ToSet(Grouped)} = InBatch
    BY GroupedSame DEF EntryInv
  <2>2. InBatch' = InBatch /\ Sent' = Sent
    BY <1>5, <2>1 DEF InBatch, Sent
  <2>3. batch' \in Seq([entry : Nat, size : Nat]) /\ Len(batch') <= MaxBatch
    BY <1>5, <2>1 DEF EntryInv
  <2> QED BY <1>1, <1>2, <1>3, <1>5, <2>2, <2>3 DEF EntryInv, QueueSize, Busy
<1> QED BY <1>4, <1>5 DEF SendData, Shut

(* ~SendSvr() frees what is queued. *)
LEMMA DestroyEntries ==
    ASSUME SockInv, EntryInv, Destroy
    PROVE  EntryInv'
<1>1. /\ UNCHANGED <<setup, entries, batch, sent, backup>> /\ queue' = <<>>
      /\ dropped' = dropped \cup ToSet(queue) /\ kpc' = "closed" /\ spc' = spc
  BY DEF Destroy, svars
<1>2. QueuedNow' = {} /\ InBatch' = InBatch /\ Sent' = Sent /\ BackedUp' = BackedUp
  BY <1>1 DEF QueuedNow, InBatch, Sent, BackedUp, ToSet
<1>3. Placed({}, InBatch, Sent, BackedUp, dropped \cup QueuedNow, 1..Len(entries))
  BY PlacedMoves DEF EntryInv
<1>4. Placed(QueuedNow', InBatch', Sent', BackedUp', dropped', 1..Len(entries'))
  BY <1>1, <1>2, <1>3 DEF QueuedNow
<1>5. queue' \in Seq(Nat \ {0}) /\ Len(queue') = 0 /\ Len(queue') <= QueueSize'
  <2>1. QueueSize' \in Nat
    BY <1>1, SetupAssumption DEF SockInv, Types, QueueSize
  <2> QED BY <1>1, <2>1
<1>6. \A i, j \in 1..Len(queue') : queue'[i] = queue'[j] => i = j
  BY <1>5
<1> QED BY <1>1, <1>4, <1>5, <1>6 DEF EntryInv

(* Every other step leaves the entries where they are. *)
LEMMA OtherEntries ==
    ASSUME SockInv, EntryInv,
           \/ \E a \in App : open(a)
           \/ Leave \/ Idle \/ Unset \/ Skip \/ SameServer \/ OtherServer \/ Reopen \/ Switch
           \/ TryAlive \/ GiveUp \/ Checker \/ WaitClose \/ checkOver \/ Over \/ Clear
           \/ Stop \/ Join
    PROVE  EntryInv'
<1>0. (spc \notin Busy => batch = <<>>) /\ (inapp = <<>> => spc = "none") /\ (spc = "unset" => after # "none")
      /\ after \in {"none", "sync", "send", "fail"}
  BY DEF SockInv, EntryInv, Life, Types
<1>1. ASSUME NEW a \in App, open(a) PROVE EntryInv'
  <2>1. UNCHANGED <<setup, entries, queue, batch, sent, backup, dropped, kpc>>
    BY <1>1 DEF open, history
  <2>2. spc' \notin Busy => batch = <<>>
    BY <1>0, <1>1 DEF open, createServer, Busy
  <2> QED BY <2>1, <2>2, SameEntries
<1>2. CASE Leave \/ Idle
  <2>1. UNCHANGED <<setup, entries, queue, batch, sent, backup, dropped, kpc>>
    BY <1>2 DEF Leave, Idle, history, svars, vars
  <2>2. spc' \notin Busy => batch = <<>>
    BY <1>0, <1>2 DEF Leave, Idle, Busy
  <2> QED BY <2>1, <2>2, SameEntries
<1>3. CASE Unset \/ Skip \/ SameServer \/ OtherServer \/ Reopen \/ Switch \/ TryAlive \/ GiveUp
  <2>1. UNCHANGED <<setup, entries, queue, batch, sent, backup, dropped, kpc>>
    BY <1>3 DEF Unset, Skip, SameServer, OtherServer, Reopen, Switch, TryAlive, GiveUp, history
  <2>2. spc' \in Busy
    BY <1>0, <1>3 DEF Unset, Skip, SameServer, OtherServer, Reopen, Switch, TryAlive, GiveUp, Shut, Busy
  <2> QED BY <2>1, <2>2, SameEntries
<1>4. CASE Checker
  <2>1. UNCHANGED <<setup, entries, queue, batch, sent, backup, dropped, kpc, spc>>
    BY <1>4 DEF Checker, CheckTake, CheckIdle, CheckStart, CheckLook, CheckClear, CheckConnect,
                CheckTest, history, svars, vars
  <2> QED BY <1>0, <2>1, SameEntries
<1>5. CASE WaitClose \/ checkOver \/ Over \/ Clear \/ Stop \/ Join
  <2>1. UNCHANGED <<setup, entries, queue, batch, sent, backup, dropped, spc>> /\ kpc # "closed"
    BY <1>5 DEF WaitClose, checkOver, Over, Clear, Stop, Join, history, svars
  <2> QED BY <1>0, <2>1, SameEntries
<1> QED BY <1>1, <1>2, <1>3, <1>4, <1>5

(* Every step keeps each entry in one place. *)
LEMMA NextEntries == SockInv /\ EntryInv /\ [Next]_vars => EntryInv'
<1> SUFFICES ASSUME SockInv, EntryInv, [Next]_vars PROVE EntryInv'
  OBVIOUS
<1>1. CASE UNCHANGED vars
  <2>1. UNCHANGED <<setup, entries, queue, batch, sent, backup, dropped, kpc, spc>>
    BY <1>1 DEF vars, history, svars
  <2>2. spc \notin Busy => batch = <<>>
    BY DEF EntryInv
  <2> QED BY <2>1, <2>2, SameEntries
<1>2. CASE \E a \in App : print(a)
  BY <1>2, PrintEntries
<1>3. CASE PopBacks
  BY <1>3, PopEntries
<1>4. CASE Fail
  BY <1>4, FailEntries
<1>5. CASE SendData
  BY <1>5, SendEntries
<1>6. CASE Destroy
  BY <1>6, DestroyEntries
<1>7. CASE \/ \E a \in App : open(a)
           \/ Leave \/ Idle \/ Unset \/ Skip \/ SameServer \/ OtherServer \/ Reopen \/ Switch
           \/ TryAlive \/ GiveUp \/ Checker \/ WaitClose \/ checkOver \/ Over \/ Clear
           \/ Stop \/ Join
  BY <1>7, OtherEntries
<1> QED BY <1>1, <1>2, <1>3, <1>4, <1>5, <1>6, <1>7 DEF Next, Sender, Closing

(* Nothing was printed yet. *)
LEMMA EntryInit == Init => EntryInv
<1> SUFFICES ASSUME Init PROVE EntryInv
  OBVIOUS
<1>1. /\ entries = <<>> /\ queue = <<>> /\ batch = <<>> /\ sent = {} /\ backup = {} /\ dropped = {}
      /\ setup \in Setups
  BY DEF Init
<1>2. QueuedNow = {} /\ InBatch = {} /\ Sent = {} /\ BackedUp = {} /\ 1..Len(entries) = {}
  BY <1>1 DEF QueuedNow, InBatch, Sent, BackedUp, ToSet
<1>3. Placed(QueuedNow, InBatch, Sent, BackedUp, dropped, 1..Len(entries))
  BY <1>1, <1>2 DEF Placed
<1>4. QueueSize \in Nat /\ MaxBatch \in Nat
  BY <1>1, SetupAssumption, Counts DEF QueueSize
<1> QED BY <1>1, <1>3, <1>4 DEF EntryInv

(* Whatever the servers, the sockets and the two threads do, every entry   *)
(* that print() accepted is in one place: queued, in the batch, sent, in a *)
(* backup file or freed; and before the destructor only an entry without a *)
(* backup appender is freed unwritten.                                     *)
THEOREM EntriesAlwaysPlaced == Spec => []EntriesPlaced
<1>1. Init => SockInv /\ EntryInv
  BY SockInit, EntryInit
<1>2. SockInv /\ EntryInv /\ [Next]_vars => (SockInv /\ EntryInv)'
  BY NextSock, NextEntries
<1>3. SockInv /\ EntryInv => EntriesPlaced
  BY PlacedType
<1> QED BY <1>1, <1>2, <1>3, PTL DEF Spec
=============================================================================
