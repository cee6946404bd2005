---------------------------- MODULE NameMgProofs ----------------------------
(***************************************************************************)
(* For any number of threads, names and buckets, with and without memory:  *)
(* a get() that takes no lock misses nothing that was registered before it *)
(* began; racing calls of getInstance() and getAppender() all end with one *)
(* living object in one tree; and between calls the registry owns exactly  *)
(* the objects that live.                                                  *)
(***************************************************************************)
EXTENDS NameMg, FiniteSetTheorems, WellFoundedInduction, TLAPS

USE NameAssumption, TypesAssumption, ThreadAssumption, SetupAssumption

\* The node that set() has filled and not yet linked; those of a bucket that are.
Pend == IF lock = None THEN {} ELSE {Len(node)}
In(b) == {i \in DOMAIN node \ Pend : Bucket[node[i].key] = b}

\* Object o is registered as n; somewhere.
Reg(n, o) == \E i \in DOMAIN node \ Pend : node[i].key = n /\ node[i].value = o
Registered(o) == \E i \in DOMAIN node \ Pend : node[i].value = o

(* The frames of a thread: each category waits for its father.             *)
Stacks ==
    \A t \in Thread :
        /\ pc[t] = "idle" <=> stk[t] = <<>>
        /\ \A i \in 1..(Len(stk[t]) - 1) :
              stk[t][i] \in Category /\ Father[stk[t][i]] = stk[t][i + 1]
        /\ pc[t] # "idle" /\ stk[t][1] \in Appender => flock = t

(* The holder of _lock is the thread with a node to link.                  *)
Locks ==
    /\ \A t \in Thread : pc[t] = "link" <=> lock = t
    /\ \A t \in Thread : pc[t] = "link" =>
          /\ node # <<>>
          /\ node[Len(node)] = [key |-> Want(t), value |-> new[t], next |-> 0]

BaseInv == TypeOK /\ Stacks /\ Locks

(* Every node but that one is linked, in the order of the numbers.         *)
Keys == \A i, j \in DOMAIN node : node[i].key = node[j].key => i = j
Firsts ==
    \A b \in Buckets :
        /\ first[b] = 0 => In(b) = {}
        /\ first[b] # 0 => first[b] \in In(b) /\ \A j \in In(b) : first[b] <= j
Follows(i, k, S) ==
    /\ k = 0 => \A j \in S : j <= i
    /\ k # 0 => k \in S /\ i < k /\ \A j \in S : i < j => k <= j
Nexts == \A b \in Buckets : \A i \in In(b) : Follows(i, node[i].next, In(b))
Fronts ==
    \A t \in Thread, b \in Buckets : pc[t] = "link" /\ b = Bucket[Want(t)] =>
        /\ front[t] = 0 => In(b) = {}
        /\ front[t] # 0 => front[t] \in In(b) /\ \A j \in In(b) : j <= front[t]
ChainInv == Keys /\ Firsts /\ Nexts /\ Fronts

(* A thread that walks has not passed the node it would have found when it *)
(* began.                                                                  *)
Walking(t) == pc[t] \in {"walk", "rewalk"}
WalkInv ==
    \A t \in Thread, b \in Buckets : Walking(t) /\ b = Bucket[Want(t)] =>
        /\ ptr[t] # 0 => ptr[t] \in In(b)
        /\ known[t] # 0 => ptr[t] # 0 /\ \E k \in In(b) : node[k].key = Want(t) /\ ptr[t] <= k

(* An object that a thread has created and not yet put into the registry   *)
(* is known to nobody else.                                                *)
Private ==
    \A t \in Thread : pc[t] = "set" =>
        /\ new[t] # 0 /\ obj[new[t]].live
        /\ \A i \in DOMAIN node : node[i].value # new[t]
        /\ \A x \in handed : x[2] # new[t]
        /\ \A u \in Thread : pc[u] = "set" /\ u # t => new[u] # new[t]

(* Objects in the registry live, each under one name; fathers are there.   *)
Shared ==
    /\ \A i \in DOMAIN node : obj[node[i].value].live
    /\ \A i, j \in DOMAIN node : node[i].value = node[j].value => i = j
    /\ \A i \in DOMAIN obj : obj[i].father # 0 => Registered(obj[i].father)
    /\ \A t \in Thread : pnt[t] # 0 => Registered(pnt[t])
    /\ \A x \in handed : /\ obj[x[2]].live
                         /\ Reg(x[1], x[2]) \/ (x[1] \in Appender /\ setup.oom)

(* The father of a category is the one its name says.                      *)
Fathered(n, f) == n \in Category => IF Father[n] = Root THEN f = 0 ELSE Reg(Father[n], f)
Tree ==
    /\ \A i \in DOMAIN node : Fathered(node[i].key, obj[node[i].value].father)
    /\ \A t \in Thread :
          /\ pc[t] \in {"idle", "get", "walk"} => pnt[t] = 0
          /\ pc[t] = "new" => Fathered(Want(t), pnt[t])
          /\ pc[t] = "set" => Fathered(Want(t), obj[new[t]].father)

(* Nobody else registers an appender whose name a thread has looked up     *)
(* under the factory's lock.                                               *)
Absent(n) == \A i \in DOMAIN node : node[i].key # n
Factory ==
    \A t \in Thread : pc[t] # "idle" /\ Want(t) \in Appender =>
        /\ Walking(t) /\ known[t] = 0 => Absent(Want(t))
        /\ pc[t] \in {"new", "set"} => Absent(Want(t))
        /\ pc[t] \notin {"reget", "rewalk"}

ObjInv == Private /\ Shared /\ Tree /\ Factory

(* What lives is in the registry or in the hands of its creator. *)
Kept ==
    ~setup.oom => \A o \in DOMAIN obj : obj[o].live =>
        \/ \E i \in DOMAIN node : node[i].value = o
        \/ \E t \in Thread : pc[t] = "set" /\ new[t] = o

NInv == BaseInv /\ ChainInv /\ WalkInv /\ ObjInv /\ Kept
-----------------------------------------------------------------------------
(* Where a thread is in its calls. *)
Place == {"idle", "get", "walk", "reget", "rewalk", "new", "set", "link"}

\* Nothing that belongs to a thread other than t changes.
Others(t) ==
    \A u \in Thread : u # t =>
        /\ pc'[u] = pc[u] /\ stk'[u] = stk[u] /\ ptr'[u] = ptr[u] /\ new'[u] = new[u]
        /\ pnt'[u] = pnt[u] /\ front'[u] = front[u] /\ known'[u] = known[u]

(* One element of a sequence replaced. *)
LEMMA SeqExcept ==
    ASSUME NEW S, NEW s \in Seq(S), NEW k \in DOMAIN s, NEW x \in S
    PROVE  LET r == [s EXCEPT ![k] = x] IN
           /\ r \in Seq(S) /\ Len(r) = Len(s) /\ DOMAIN r = DOMAIN s
           /\ r[k] = x /\ \A i \in DOMAIN s : i # k => r[i] = s[i]
OBVIOUS

(* One element more. *)
LEMMA SeqAppend ==
    ASSUME NEW S, NEW s \in Seq(S), NEW x \in S
    PROVE  LET r == Append(s, x) IN
           /\ r \in Seq(S) /\ Len(r) = Len(s) + 1 /\ Len(s) \in Nat
           /\ DOMAIN r = DOMAIN s \cup {Len(s) + 1} /\ Len(s) + 1 \notin DOMAIN s
           /\ r[Len(s) + 1] = x /\ \A i \in DOMAIN s : r[i] = s[i]
OBVIOUS

(* A sequence over a larger set. *)
LEMMA SeqMono ==
    ASSUME NEW P, NEW Q, P \subseteq Q, NEW s \in Seq(P)
    PROVE  s \in Seq(Q)
OBVIOUS

(* A set of numbers has a least one, and if it is bounded a greatest.      *)
LEMMA LeastNat ==
    ASSUME NEW T, T \subseteq Nat, T # {}
    PROVE  \E x \in T : \A y \in T : x <= y
<1> DEFINE R == {ss \in Nat \X Nat : ss[1] < ss[2]}
<1>1. OpToRel(<,Nat) = R
  BY Zenon DEF OpToRel
<1>2. \A x, y \in Nat : <<y, x>> \in R <=> y < x
  OBVIOUS
<1>3. IsWellFoundedOn(R, Nat)
  BY <1>1, NatLessThanWellFounded
<1> HIDE DEF R
<1>4. PICK x \in T : \A y \in T : ~(<<y, x>> \in R)
  BY <1>3, WFMin
<1>5. \A y \in T : x \in Nat /\ y \in Nat /\ ~(y < x)
  BY <1>2, <1>4
<1> QED BY <1>5

LEMMA GreatestNat ==
    ASSUME NEW n \in Nat, NEW T, T \subseteq 0..n, T # {}
    PROVE  \E x \in T : \A y \in T : y <= x
<1>1. PICK D : D = {n - x : x \in T}
  OBVIOUS
<1>2. D \subseteq Nat /\ D # {}
  <2>1. \A x \in T : n - x \in Nat
    OBVIOUS
  <2>2. PICK z \in T : TRUE
    OBVIOUS
  <2>3. n - z \in D
    BY <1>1
  <2> QED BY <1>1, <2>1, <2>3
<1>3. PICK d \in D : \A e \in D : d <= e
  BY <1>2, LeastNat
<1>4. PICK x \in T : d = n - x
  BY <1>1, <1>3
<1>5. ASSUME NEW y \in T PROVE y <= x
  <2>1. n - y \in D
    BY <1>1
  <2>2. n - x <= n - y
    BY <1>3, <1>4, <2>1
  <2>3. x \in Nat /\ y \in Nat
    OBVIOUS
  <2> QED BY <2>2, <2>3
<1> QED BY <1>5

(* Nobody is no thread. *)
LEMMA Nobody == None \notin Thread
BY DEF None, Root

(* The lengths and what the records hold. *)
LEMMA Lens ==
    ASSUME TypeOK
    PROVE  /\ Len(obj) \in Nat /\ DOMAIN obj = 1..Len(obj)
           /\ Len(node) \in Nat /\ DOMAIN node = 1..Len(node)
           /\ \A i \in DOMAIN node : /\ node[i].key \in Name /\ node[i].value \in 1..Len(obj)
                                    /\ node[i].next \in 0..Len(node)
                                    /\ node[i] \in [key : Name, value : 1..Len(obj), next : 0..Len(node)]
           /\ \A i \in DOMAIN obj : /\ obj[i].name \in Name /\ obj[i].father \in 0..Len(obj)
                                   /\ obj[i].live \in BOOLEAN
                                   /\ obj[i] \in [name : Name, father : 0..Len(obj), live : BOOLEAN]
<1>1. \A S : \A s \in Seq(S) : Len(s) \in Nat /\ DOMAIN s = 1..Len(s) /\ \A i \in 1..Len(s) : s[i] \in S
  OBVIOUS
<1>2. PICK N : N = [key : Name, value : 1..Len(obj), next : 0..Len(node)]
  OBVIOUS
<1>3. PICK O : O = [name : Name, father : 0..Len(obj), live : BOOLEAN]
  OBVIOUS
<1>4. node \in Seq(N) /\ obj \in Seq(O)
  BY <1>2, <1>3 DEF TypeOK
<1>5. /\ Len(obj) \in Nat /\ DOMAIN obj = 1..Len(obj)
      /\ Len(node) \in Nat /\ DOMAIN node = 1..Len(node)
      /\ \A i \in DOMAIN node : node[i] \in N
      /\ \A i \in DOMAIN obj : obj[i] \in O
  BY <1>1, <1>4
<1> QED BY <1>2, <1>3, <1>5

(* A thread inside a call has a name to look for. *)
LEMMA Wanted ==
    ASSUME TypeOK, Stacks, NEW t \in Thread, pc[t] # "idle"
    PROVE  /\ stk[t] \in Seq(Name) /\ Len(stk[t]) \in Nat \ {0}
           /\ Want(t) = stk[t][Len(stk[t])] /\ Want(t) \in Name
           /\ Bucket[Want(t)] \in Buckets
<1>1. stk[t] \in Seq(Name) /\ stk[t] # <<>>
  BY DEF TypeOK, Stacks
<1>2. Len(stk[t]) \in Nat \ {0} /\ Want(t) = stk[t][Len(stk[t])]
  BY <1>1 DEF Want, Last
<1>3. Want(t) \in Name
  BY <1>1, <1>2
<1> QED BY <1>1, <1>2, <1>3 DEF Buckets

(* Only a category waits below another frame, so the lowest frame of an    *)
(* appender or a log state is the only one.                                *)
LEMMA Alone ==
    ASSUME TypeOK, Stacks, NEW t \in Thread, pc[t] # "idle",
           Want(t) \notin Category \/ stk[t][1] \notin Category
    PROVE  Len(stk[t]) = 1 /\ stk[t][1] = Want(t)
<1>1. /\ stk[t] \in Seq(Name) /\ Len(stk[t]) \in Nat \ {0} /\ Want(t) = stk[t][Len(stk[t])]
  BY Wanted
<1>2. \A i \in 1..(Len(stk[t]) - 1) : stk[t][i] \in Category /\ Father[stk[t][i]] = stk[t][i + 1]
  BY DEF Stacks
<1>3. ASSUME Len(stk[t]) > 1 PROVE FALSE
  <2>1. 1 \in 1..(Len(stk[t]) - 1) /\ Len(stk[t]) - 1 \in 1..(Len(stk[t]) - 1)
    BY <1>1, <1>3
  <2>2. stk[t][1] \in Category
    BY <1>2, <2>1
  <2>3. PICK k : k = Len(stk[t]) - 1
    OBVIOUS
  <2>4. k \in 1..(Len(stk[t]) - 1) /\ k + 1 = Len(stk[t])
    BY <1>1, <2>1, <2>3
  <2>5. stk[t][k] \in Category /\ Father[stk[t][k]] = Want(t)
    BY <1>1, <1>2, <2>4
  <2>6. Want(t) \in Category \cup {Root} /\ Want(t) \in Name
    BY <2>5, Wanted
  <2> QED BY <2>2, <2>6
<1>4. Len(stk[t]) = 1
  <2>1. Len(stk[t]) \in Nat \ {0} /\ ~(Len(stk[t]) > 1)
    BY <1>1, <1>3
  <2>2. \A m \in Nat \ {0} : ~(m > 1) => m = 1
    OBVIOUS
  <2> QED BY <2>1, <2>2
<1> QED BY <1>1, <1>4

(* What the end of the top frame does. *)
LEMMA Returns ==
    ASSUME TypeOK, Stacks, NEW t \in Thread, pc[t] # "idle", NEW o \in 0..Len(obj), Return(t, o)
    PROVE  /\ Others(t)
           /\ pc' \in [Thread -> Place] /\ pc'[t] \in {"idle", "new"}
           /\ stk' \in [Thread -> Seq(Name)]
           /\ ptr' \in [Thread -> 0..Len(node)] /\ front' \in [Thread -> 0..Len(node)]
           /\ new' \in [Thread -> 0..Len(obj)] /\ pnt' \in [Thread -> 0..Len(obj)]
           /\ known' \in [Thread -> 0..Len(obj)] /\ handed' \subseteq Name \X (1..Len(obj))
           /\ flock' \in Thread \cup {None}
           /\ Stacks'
           /\ pc'[t] = "idle" => pnt'[t] = 0
           /\ pc'[t] = "new" => /\ o # 0 /\ pnt'[t] = o /\ Want(t) \in Category
                                /\ Want(t)' \in Category /\ Father[Want(t)'] = Want(t)
           /\ handed' = handed \/ (o # 0 /\ handed' = handed \cup {<<Want(t), o>>})
<1>0. Len(obj) \in Nat /\ Len(node) \in Nat
  BY Lens
<1>1. /\ stk[t] \in Seq(Name) /\ Len(stk[t]) \in Nat \ {0} /\ Want(t) = stk[t][Len(stk[t])]
      /\ Want(t) \in Name
  BY Wanted
<1>2. \A i \in 1..(Len(stk[t]) - 1) : stk[t][i] \in Category /\ Father[stk[t][i]] = stk[t][i + 1]
  BY DEF Stacks
<1>3. CASE Len(stk[t]) > 1 /\ o # 0
  <2>1. /\ stk' = [stk EXCEPT ![t] = Front(stk[t])] /\ pnt' = [pnt EXCEPT ![t] = o]
        /\ pc' = [pc EXCEPT ![t] = "new"] /\ UNCHANGED <<handed, flock, ptr, new, front, known>>
    BY <1>3 DEF Return, Goto, locals
  <2>2. PICK f : f = Front(stk[t])
    OBVIOUS
  <2>3. f \in Seq(Name) /\ Len(f) = Len(stk[t]) - 1 /\ \A i \in 1..Len(f) : f[i] = stk[t][i]
    BY <1>1, <1>3, <2>2 DEF Front
  <2>4. stk' = [stk EXCEPT ![t] = f] /\ stk'[t] = f /\ stk' \in [Thread -> Seq(Name)]
    BY <2>1, <2>2, <2>3 DEF TypeOK
  <2>5. Want(t)' = stk[t][Len(stk[t]) - 1]
    BY <1>1, <1>3, <2>3, <2>4 DEF Want, Last
  <2>6. Want(t)' \in Category /\ Father[Want(t)'] = Want(t)
    <3>1. PICK k : k = Len(stk[t]) - 1
      OBVIOUS
    <3>2. k \in 1..(Len(stk[t]) - 1) /\ k + 1 = Len(stk[t])
      BY <1>1, <1>3, <3>1
    <3> QED BY <1>1, <1>2, <2>5, <3>1, <3>2
  <2>7. Want(t) \in Category
    BY <1>1, <2>6
  <2>8. Stacks'
    <3> SUFFICES ASSUME NEW u \in Thread
                 PROVE  /\ pc'[u] = "idle" <=> stk'[u] = <<>>
                        /\ \A i \in 1..(Len(stk'[u]) - 1) :
                              stk'[u][i] \in Category /\ Father[stk'[u][i]] = stk'[u][i + 1]
                        /\ pc'[u] # "idle" /\ stk'[u][1] \in Appender => flock' = u
      BY DEF Stacks
    <3>1. CASE u = t
      <4>1. pc'[t] = "new"
        BY <2>1 DEF TypeOK
      <4>2. f # <<>> /\ stk[t][1] \in Category /\ f[1] = stk[t][1]
        BY <1>1, <1>2, <1>3, <2>3
      <4>3. ASSUME NEW i \in 1..(Len(f) - 1)
            PROVE  f[i] \in Category /\ Father[f[i]] = f[i + 1]
        <5>1. i \in 1..(Len(stk[t]) - 1) /\ i \in 1..Len(f) /\ i + 1 \in 1..Len(f)
          BY <1>1, <2>3
        <5> QED BY <1>2, <2>3, <5>1
      <4>4. stk'[u] = f /\ pc'[u] = "new"
        BY <2>4, <3>1, <4>1
      <4>5. f[1] \notin Appender
        BY <4>2
      <4> QED BY <4>2, <4>3, <4>4, <4>5
    <3>2. CASE u # t
      <4>1. stk'[u] = stk[u] /\ pc'[u] = pc[u] /\ flock' = flock
        BY <3>2, <2>1, <2>4 DEF TypeOK
      <4> QED BY <4>1 DEF Stacks
    <3> QED BY <3>1, <3>2
  <2>9. Others(t)
    BY <2>1, <2>4 DEF TypeOK, Others
  <2>10. pc' \in [Thread -> Place] /\ pc'[t] = "new" /\ pnt' \in [Thread -> 0..Len(obj)] /\ pnt'[t] = o
    BY <2>1 DEF TypeOK, Place
  <2>11. /\ ptr' \in [Thread -> 0..Len(node)] /\ front' \in [Thread -> 0..Len(node)]
         /\ new' \in [Thread -> 0..Len(obj)] /\ known' \in [Thread -> 0..Len(obj)]
         /\ handed' \subseteq Name \X (1..Len(obj)) /\ flock' \in Thread \cup {None}
    BY <2>1 DEF TypeOK
  <2> QED BY <1>3, <2>1, <2>4, <2>6, <2>7, <2>8, <2>9, <2>10, <2>11
<1>4. CASE ~(Len(stk[t]) > 1 /\ o # 0)
  <2>1. /\ stk' = [stk EXCEPT ![t] = <<>>] /\ pnt' = [pnt EXCEPT ![t] = 0]
        /\ pc' = [pc EXCEPT ![t] = "idle"]
        /\ handed' = IF o = 0 THEN handed ELSE handed \cup {<<stk[t][1], o>>}
        /\ flock' = IF flock = t THEN None ELSE flock
        /\ ptr' = [ptr EXCEPT ![t] = 0] /\ new' = [new EXCEPT ![t] = 0]
        /\ front' = [front EXCEPT ![t] = 0] /\ known' = [known EXCEPT ![t] = 0]
    BY <1>4 DEF Return, Goto
  <2>2. o # 0 => stk[t][1] = Want(t)
    BY <1>1, <1>4
  <2>3. Stacks'
    <3> SUFFICES ASSUME NEW u \in Thread
                 PROVE  /\ pc'[u] = "idle" <=> stk'[u] = <<>>
                        /\ \A i \in 1..(Len(stk'[u]) - 1) :
                              stk'[u][i] \in Category /\ Father[stk'[u][i]] = stk'[u][i + 1]
                        /\ pc'[u] # "idle" /\ stk'[u][1] \in Appender => flock' = u
      BY DEF Stacks
    <3>1. CASE u = t
      BY <2>1, <3>1 DEF TypeOK
    <3>2. CASE u # t
      <4>1. stk'[u] = stk[u] /\ pc'[u] = pc[u] /\ (flock = u => flock' = u)
        BY <2>1, <3>2 DEF TypeOK
      <4> QED BY <4>1 DEF Stacks
    <3> QED BY <3>1, <3>2
  <2>4. handed' \subseteq Name \X (1..Len(obj))
    <3>1. o # 0 => <<Want(t), o>> \in Name \X (1..Len(obj))
      BY <1>0, <1>1
    <3> QED BY <2>1, <2>2, <3>1 DEF TypeOK
  <2>5. Others(t)
    BY <2>1 DEF TypeOK, Others
  <2>6. pc' \in [Thread -> Place] /\ pc'[t] = "idle" /\ pnt' \in [Thread -> 0..Len(obj)] /\ pnt'[t] = 0
    BY <1>0, <2>1 DEF TypeOK, Place
  <2>7. /\ ptr' \in [Thread -> 0..Len(node)] /\ front' \in [Thread -> 0..Len(node)]
        /\ new' \in [Thread -> 0..Len(obj)] /\ known' \in [Thread -> 0..Len(obj)]
        /\ flock' \in Thread \cup {None} /\ stk' \in [Thread -> Seq(Name)]
    BY <1>0, <2>1 DEF TypeOK
  <2> QED BY <2>1, <2>2, <2>3, <2>4, <2>5, <2>6, <2>7
<1> QED BY <1>3, <1>4

(* A step that neither takes nor gives back _lock. *)
LEMMA LocksFrame ==
    ASSUME TypeOK, Locks, NEW t \in Thread, Others(t), UNCHANGED <<node, lock>>,
           pc[t] # "link", pc'[t] # "link"
    PROVE  Locks'
<1>1. \A u \in Thread : u # t => pc'[u] = pc[u] /\ stk'[u] = stk[u] /\ new'[u] = new[u]
  BY DEF Others
<1>2. lock # t
  BY DEF Locks
<1>3. \A u \in Thread : pc'[u] = "link" <=> lock' = u
  BY <1>1, <1>2 DEF Locks
<1>4. \A u \in Thread : pc'[u] = "link" => u # t /\ Want(u)' = Want(u)
  BY <1>1 DEF Want
<1> QED BY <1>1, <1>3, <1>4 DEF Locks

(* The frames when a thread begins a call for one name. *)
LEMMA StacksFrame ==
    ASSUME TypeOK, Stacks, NEW t \in Thread, \A u \in Thread : u # t => pc'[u] = pc[u] /\ stk'[u] = stk[u],
           \A u \in Thread : u # t /\ flock = u => flock' = u,
           pc'[t] # "idle",
           \/ stk'[t] = stk[t] /\ pc[t] # "idle" /\ (flock = t => flock' = t)
           \/ \E n \in Name : stk'[t] = <<n>> /\ (n \in Appender => flock' = t)
    PROVE  Stacks'
<1> SUFFICES ASSUME NEW u \in Thread
             PROVE  /\ pc'[u] = "idle" <=> stk'[u] = <<>>
                    /\ \A i \in 1..(Len(stk'[u]) - 1) :
                          stk'[u][i] \in Category /\ Father[stk'[u][i]] = stk'[u][i + 1]
                    /\ pc'[u] # "idle" /\ stk'[u][1] \in Appender => flock' = u
  BY DEF Stacks
<1>1. CASE u # t
  <2>1. stk'[u] = stk[u] /\ pc'[u] = pc[u] /\ (flock = u => flock' = u)
    BY <1>1
  <2> QED BY <2>1 DEF Stacks
<1>2. CASE u = t /\ stk'[t] = stk[t] /\ pc[t] # "idle" /\ (flock = t => flock' = t)
  BY <1>2 DEF Stacks
<1>3. ASSUME u = t, NEW n \in Name, stk'[t] = <<n>>, n \in Appender => flock' = t
      PROVE  /\ pc'[u] = "idle" <=> stk'[u] = <<>>
             /\ \A i \in 1..(Len(stk'[u]) - 1) :
                   stk'[u][i] \in Category /\ Father[stk'[u][i]] = stk'[u][i + 1]
             /\ pc'[u] # "idle" /\ stk'[u][1] \in Appender => flock' = u
  <2>1. Len(<<n>>) = 1 /\ <<n>> # <<>> /\ <<n>>[1] = n
    OBVIOUS
  <2>2. stk'[u] = <<n>> /\ (n \in Appender => flock' = u)
    BY <1>3
  <2>3. 1..(1 - 1) = {}
    OBVIOUS
  <2> QED BY <1>3, <2>1, <2>2, <2>3
<1> QED BY <1>1, <1>2, <1>3

(* The beginning of a call. *)
LEMMA BeginBase ==
    ASSUME BaseInv, NEW t \in Thread, NEW n \in Name,
           \/ n \in Category /\ getInstance(t, n)
           \/ n \in Appender /\ getAppender(t, n)
           \/ n \in LogStat /\ createLogStat(t, n)
    PROVE  BaseInv' /\ Others(t) /\ pc[t] = "idle" /\ pc'[t] \in {"get", "new"} /\ Want(t)' = n
           /\ (n \in Appender => flock = None /\ flock' = t /\ pc'[t] = "get")
           /\ (n \in Category => pc'[t] = "get")
           /\ UNCHANGED <<setup, first, node, obj, lock, pnt, new, handed>>
<1>0. TypeOK /\ Stacks /\ Locks
  BY DEF BaseInv
<1>1. /\ pc[t] = "idle" /\ stk' = [stk EXCEPT ![t] = <<n>>]
      /\ UNCHANGED <<setup, first, node, spare, obj, lock, ptr, new, front, known, pnt, handed>>
      /\ flock' = flock \/ (flock = None /\ flock' = t)
      /\ n \in Appender => flock = None /\ flock' = t
      /\ \E p \in {"get", "new"} : pc' = [pc EXCEPT ![t] = p] /\ (n \notin LogStat => p = "get")
  BY DEF getInstance, getAppender, createLogStat, Begin, Goto, table, locals
<1>2. PICK p \in {"get", "new"} : pc' = [pc EXCEPT ![t] = p] /\ (n \notin LogStat => p = "get")
  BY <1>1
<1>3. pc' \in [Thread -> Place] /\ pc'[t] = p /\ p # "link" /\ p # "idle"
  BY <1>0, <1>2 DEF TypeOK, Place
<1>4. stk' \in [Thread -> Seq(Name)] /\ stk'[t] = <<n>>
  BY <1>0, <1>1 DEF TypeOK
<1>5. Others(t)
  BY <1>0, <1>1, <1>2 DEF TypeOK, Others
<1>6. TypeOK'
  BY <1>0, <1>1, <1>3, <1>4 DEF TypeOK, Place
<1>7. Stacks'
  <2>1. \A u \in Thread : u # t => pc'[u] = pc[u] /\ stk'[u] = stk[u]
    BY <1>5 DEF Others
  <2>2. \A u \in Thread : u # t /\ flock = u => flock' = u
    BY <1>1, Nobody
  <2> QED BY <1>0, <1>1, <1>3, <1>4, <2>1, <2>2, StacksFrame
<1>8. Locks'
  BY <1>0, <1>1, <1>3, <1>5, LocksFrame
<1>9. Want(t)' = n
  BY <1>4 DEF Want, Last
<1> QED BY <1>1, <1>2, <1>3, <1>5, <1>6, <1>7, <1>8, <1>9 DEF BaseInv

(* Get and Walk. *)
LEMMA WalkBase ==
    ASSUME BaseInv, NEW t \in Thread, Get(t) \/ Walk(t), Value(Want(t)) \in 0..Len(obj)
    PROVE  BaseInv' /\ Others(t) /\ UNCHANGED <<setup, first, node, obj, lock, flock, stk, new, pnt, handed>>
           /\ pc[t] \in {"get", "reget", "walk", "rewalk"} /\ Walking(t)'
           /\ (pc[t] \in {"get", "walk"} <=> pc'[t] = "walk")
<1>0. TypeOK /\ Stacks /\ Locks
  BY DEF BaseInv
<1>1. pc[t] # "idle" /\ pc[t] # "link" /\ pc[t] \in Place
  BY <1>0 DEF Get, Walk, TypeOK, Place
<1>2. /\ UNCHANGED <<setup, first, node, spare, obj, lock, flock, stk, new, pnt, front, calls, handed>>
      /\ \E i : ptr' = [ptr EXCEPT ![t] = i] /\ i \in 0..Len(node)
      /\ \E i : known' = [known EXCEPT ![t] = i] /\ i \in 0..Len(obj)
      /\ \E p \in {"walk", "rewalk"} : pc' = [pc EXCEPT ![t] = p]
                                       /\ (pc[t] \in {"get", "walk"} <=> p = "walk")
  <2>1. CASE Get(t)
    <3>1. first[Bucket[Want(t)]] \in 0..Len(node)
      BY <1>0, <1>1, Wanted DEF TypeOK
    <3>2. pc[t] \in {"get", "reget"}
      BY <2>1 DEF Get
    <3>3. PICK p : p = IF pc[t] = "get" THEN "walk" ELSE "rewalk"
      OBVIOUS
    <3>4. p \in {"walk", "rewalk"} /\ (pc[t] \in {"get", "walk"} <=> p = "walk")
      BY <3>2, <3>3
    <3>5. pc' = [pc EXCEPT ![t] = p]
      BY <2>1, <3>3 DEF Get, Goto
    <3> QED BY <2>1, <3>1, <3>4, <3>5 DEF Get, table
  <2>2. CASE Walk(t)
    <3>1. ptr[t] \in 1..Len(node) /\ Len(node) \in Nat
      <4>1. ptr[t] \in 0..Len(node) /\ ptr[t] # 0
        BY <1>0, <2>2 DEF Walk, TypeOK
      <4>2. Len(node) \in Nat
        BY <1>0, Lens
      <4> QED BY <4>1, <4>2
    <3>2. node[ptr[t]].next \in 0..Len(node)
      BY <1>0, <3>1, Lens
    <3>3. pc' = [pc EXCEPT ![t] = pc[t]] /\ known' = [known EXCEPT ![t] = known[t]]
          /\ known[t] \in 0..Len(obj)
      BY <1>0, <2>2 DEF Walk, TypeOK
    <3> QED BY <2>2, <3>2, <3>3 DEF Walk, table
  <2> QED BY <2>1, <2>2
<1>3. PICK p \in {"walk", "rewalk"} : pc' = [pc EXCEPT ![t] = p] /\ (pc[t] \in {"get", "walk"} <=> p = "walk")
  BY <1>2
<1>4. pc' \in [Thread -> Place] /\ pc'[t] = p /\ p # "link" /\ p # "idle"
  BY <1>0, <1>3 DEF TypeOK, Place
<1>5. ptr' \in [Thread -> 0..Len(node)] /\ known' \in [Thread -> 0..Len(obj)]
  <2>1. PICK i : ptr' = [ptr EXCEPT ![t] = i] /\ i \in 0..Len(node)
    BY <1>2
  <2>2. PICK k : known' = [known EXCEPT ![t] = k] /\ k \in 0..Len(obj)
    BY <1>2
  <2>3. ptr \in [Thread -> 0..Len(node)] /\ known \in [Thread -> 0..Len(obj)]
    BY <1>0 DEF TypeOK
  <2> QED BY <2>1, <2>2, <2>3
<1>6. Others(t)
  BY <1>0, <1>2, <1>3 DEF TypeOK, Others
<1>7. TypeOK'
  BY <1>0, <1>2, <1>4, <1>5 DEF TypeOK, Place
<1>8. Stacks'
  <2>1. \A u \in Thread : u # t => pc'[u] = pc[u] /\ stk'[u] = stk[u]
    BY <1>6 DEF Others
  <2>2. \A u \in Thread : u # t /\ flock = u => flock' = u
    BY <1>2
  <2>3. stk'[t] = stk[t] /\ pc[t] # "idle" /\ (flock = t => flock' = t)
    BY <1>1, <1>2
  <2> QED BY <1>0, <1>4, <2>1, <2>2, <2>3, StacksFrame
<1>9. Locks'
  BY <1>0, <1>1, <1>2, <1>4, <1>6, LocksFrame
<1>10. pc[t] \in {"get", "reget", "walk", "rewalk"}
  BY DEF Get, Walk
<1> QED BY <1>2, <1>3, <1>4, <1>6, <1>7, <1>8, <1>9, <1>10 DEF BaseInv, Walking

(* Deleting an object changes nothing else. *)
Killed(k) ==
    /\ Len(obj') = Len(obj)
    /\ obj' \in Seq([name : Name, father : 0..Len(obj), live : BOOLEAN])
    /\ \A i \in DOMAIN obj : obj'[i].name = obj[i].name /\ obj'[i].father = obj[i].father
    /\ \A i \in DOMAIN obj : i # k => obj'[i].live = obj[i].live
    /\ ~obj'[k].live

LEMMA Kill ==
    ASSUME TypeOK, NEW k \in DOMAIN obj, obj' = [obj EXCEPT ![k].live = FALSE]
    PROVE  Killed(k)
<1>1. PICK O : O = [name : Name, father : 0..Len(obj), live : BOOLEAN]
  OBVIOUS
<1>2. obj \in Seq(O)
  BY <1>1 DEF TypeOK
<1>3. PICK x : x = [obj[k] EXCEPT !.live = FALSE]
  OBVIOUS
<1>4. obj[k] \in O
  BY <1>2
<1>5. x \in O /\ x.name = obj[k].name /\ x.father = obj[k].father /\ x.live = FALSE
  BY <1>1, <1>3, <1>4
<1>6. obj' = [obj EXCEPT ![k] = x]
  BY <1>3
<1>7. obj' \in Seq(O) /\ Len(obj') = Len(obj) /\ obj'[k] = x /\ \A i \in DOMAIN obj : i # k => obj'[i] = obj[i]
  <2>1. PICK r : r = [obj EXCEPT ![k] = x]
    OBVIOUS
  <2>2. x \in O
    BY <1>5
  <2>3. r \in Seq(O) /\ Len(r) = Len(obj) /\ r[k] = x /\ \A i \in DOMAIN obj : i # k => r[i] = obj[i]
    BY <1>2, <2>1, <2>2, SeqExcept
  <2> QED BY <1>6, <2>1, <2>3
<1> QED BY <1>1, <1>5, <1>7 DEF Killed

(* The end of a frame that leaves the table alone. *)
LEMMA EndBase ==
    ASSUME BaseInv, NEW t \in Thread, pc[t] \notin {"idle", "link"}, NEW o \in 0..Len(obj), Return(t, o),
           UNCHANGED <<setup, first, node, spare, lock>>,
           obj' = obj \/ \E k \in DOMAIN obj : Killed(k)
    PROVE  BaseInv'
<1>0. TypeOK /\ Stacks /\ Locks
  BY DEF BaseInv
<1>1. Len(obj') = Len(obj) /\ obj' \in Seq([name : Name, father : 0..Len(obj), live : BOOLEAN])
  <2>1. CASE obj' = obj
    BY <1>0, <2>1 DEF TypeOK
  <2>2. ASSUME NEW k \in DOMAIN obj, Killed(k)
        PROVE  Len(obj') = Len(obj) /\ obj' \in Seq([name : Name, father : 0..Len(obj), live : BOOLEAN])
    BY <2>2 DEF Killed
  <2> QED BY <2>1, <2>2
<1>2. /\ Others(t)
      /\ pc' \in [Thread -> Place] /\ pc'[t] \in {"idle", "new"}
      /\ stk' \in [Thread -> Seq(Name)]
      /\ ptr' \in [Thread -> 0..Len(node)] /\ front' \in [Thread -> 0..Len(node)]
      /\ new' \in [Thread -> 0..Len(obj)] /\ pnt' \in [Thread -> 0..Len(obj)]
      /\ known' \in [Thread -> 0..Len(obj)] /\ handed' \subseteq Name \X (1..Len(obj))
      /\ flock' \in Thread \cup {None}
      /\ Stacks'
  BY <1>0, Returns
<1>3. TypeOK'
  <2>1. Len(node') = Len(node)
    OBVIOUS
  <2>2. /\ node' \in Seq([key : Name, value : 1..Len(obj'), next : 0..Len(node')])
        /\ first' \in [Buckets -> 0..Len(node')] /\ spare' \in 0..BlockSize
        /\ setup' \in Setups /\ lock' \in Thread \cup {None}
    BY <1>0, <1>1 DEF TypeOK
  <2> QED BY <1>1, <1>2, <2>1, <2>2 DEF TypeOK, Place
<1>4. Locks'
  <2>1. pc'[t] # "link"
    BY <1>2
  <2> QED BY <1>0, <1>2, <2>1, LocksFrame
<1> QED BY <1>2, <1>3, <1>4 DEF BaseInv

(* A hit. *)
LEMMA HitBase ==
    ASSUME BaseInv, NEW t \in Thread, Hit(t)
    PROVE  /\ BaseInv' /\ pc[t] \in {"walk", "rewalk"} /\ ptr[t] \in DOMAIN node /\ ptr[t] # 0
           /\ node[ptr[t]].key = Want(t)
           /\ node[ptr[t]].value \in 1..Len(obj) /\ node[ptr[t]].value \in 0..Len(obj)
           /\ Return(t, node[ptr[t]].value) /\ UNCHANGED <<setup, first, node, spare, obj, lock>>
<1>0. TypeOK
  BY DEF BaseInv
<1>1. /\ pc[t] \in {"walk", "rewalk"} /\ ptr[t] # 0 /\ node[ptr[t]].key = Want(t)
      /\ Return(t, node[ptr[t]].value) /\ UNCHANGED <<setup, first, node, spare, obj, lock>>
  BY DEF Hit, table
<1>2. ptr[t] \in 0..Len(node)
  BY <1>0 DEF TypeOK
<1>3. Len(node) \in Nat /\ DOMAIN node = 1..Len(node) /\ Len(obj) \in Nat
  BY <1>0, Lens
<1>4. ptr[t] \in DOMAIN node
  BY <1>1, <1>2, <1>3
<1>5. node[ptr[t]].value \in 1..Len(obj)
  BY <1>0, <1>4, Lens
<1>6. node[ptr[t]].value \in 0..Len(obj)
  BY <1>3, <1>5
<1>7. BaseInv'
  BY <1>1, <1>6, EndBase
<1> QED BY <1>1, <1>4, <1>5, <1>6, <1>7

(* A miss that ends the call, or goes up to the father, or on to New. *)
LEMMA MissBase ==
    ASSUME BaseInv, NEW t \in Thread, Miss(t)
    PROVE  /\ BaseInv' /\ UNCHANGED <<setup, first, node, spare, obj, lock>> /\ ptr[t] = 0
           /\ \/ pc[t] = "rewalk" /\ Return(t, 0)
              \/ /\ pc[t] = "walk" /\ Others(t) /\ UNCHANGED <<ptr, new, front, known, pnt, handed, flock>>
                 /\ \/ /\ pc'[t] = "get" /\ Want(t) \in Category /\ Father[Want(t)] # Root
                       /\ Want(t)' = Father[Want(t)] /\ Want(t)' \in Category
                    \/ /\ pc'[t] = "new" /\ (Want(t) \in Category => Father[Want(t)] = Root)
                       /\ stk' = stk /\ Want(t)' = Want(t)
<1>0. TypeOK /\ Stacks /\ Locks
  BY DEF BaseInv
<1>1. ptr[t] = 0 /\ UNCHANGED <<setup, first, node, spare, obj, lock, calls>> /\ pc[t] \in {"walk", "rewalk"}
  BY DEF Miss, table
<1>2. Len(obj) \in Nat /\ 0 \in 0..Len(obj)
  <2>1. Len(obj) \in Nat
    BY <1>0, Lens
  <2> QED BY <2>1
<1>3. CASE pc[t] = "rewalk" /\ Return(t, 0)
  <2>1. BaseInv'
    BY <1>1, <1>2, <1>3, EndBase
  <2> QED BY <1>1, <1>3, <2>1
<1>4. CASE /\ pc[t] = "walk" /\ UNCHANGED <<locals, pnt, handed, flock>>
           /\ Want(t) \in Category /\ Father[Want(t)] # Root
           /\ stk' = [stk EXCEPT ![t] = Append(@, Father[Want(t)])] /\ Goto(t, "get")
  <2>1. PICK f : f = Father[Want(t)]
    OBVIOUS
  <2>2. f \in Category /\ f \in Name
    BY <1>4, <2>1 DEF Name
  <2>3. /\ stk[t] \in Seq(Name) /\ Len(stk[t]) \in Nat \ {0} /\ Want(t) = stk[t][Len(stk[t])]
    BY <1>0, <1>1, Wanted
  <2>4. PICK g : g = Append(stk[t], f)
    OBVIOUS
  <2>5. /\ g \in Seq(Name) /\ Len(g) = Len(stk[t]) + 1 /\ g[Len(g)] = f
        /\ \A i \in 1..Len(stk[t]) : g[i] = stk[t][i]
    BY <2>2, <2>3, <2>4
  <2>6. stk' = [stk EXCEPT ![t] = g] /\ stk'[t] = g /\ stk' \in [Thread -> Seq(Name)]
    BY <1>0, <1>4, <2>1, <2>4, <2>5 DEF TypeOK
  <2>7. Want(t)' = f
    BY <2>5, <2>6 DEF Want, Last
  <2>8. pc' = [pc EXCEPT ![t] = "get"] /\ pc' \in [Thread -> Place] /\ pc'[t] = "get"
        /\ UNCHANGED <<ptr, new, front, known, pnt, handed, flock>>
    BY <1>0, <1>4 DEF TypeOK, Place, Goto, locals
  <2>9. Others(t)
    BY <1>0, <2>6, <2>8 DEF TypeOK, Others
  <2>10. TypeOK'
    BY <1>0, <1>1, <2>6, <2>8 DEF TypeOK, Place
  <2>11. Stacks'
    <3> SUFFICES ASSUME NEW u \in Thread
                 PROVE  /\ pc'[u] = "idle" <=> stk'[u] = <<>>
                        /\ \A i \in 1..(Len(stk'[u]) - 1) :
                              stk'[u][i] \in Category /\ Father[stk'[u][i]] = stk'[u][i + 1]
                        /\ pc'[u] # "idle" /\ stk'[u][1] \in Appender => flock' = u
      BY DEF Stacks
    <3>1. CASE u # t
      <4>1. stk'[u] = stk[u] /\ pc'[u] = pc[u] /\ flock' = flock
        BY <2>8, <2>9, <3>1 DEF Others
      <4> QED BY <1>0, <4>1 DEF Stacks
    <3>2. CASE u = t
      <4>1. g # <<>> /\ g[1] = stk[t][1]
        BY <2>3, <2>5
      <4>2. ASSUME NEW i \in 1..(Len(g) - 1)
            PROVE  g[i] \in Category /\ Father[g[i]] = g[i + 1]
        <5>1. i \in 1..Len(stk[t]) /\ g[i] = stk[t][i]
          BY <2>3, <2>5
        <5>2. CASE i = Len(stk[t])
          BY <1>4, <2>1, <2>3, <2>5, <5>1, <5>2
        <5>3. CASE i # Len(stk[t])
          <6>1. i \in 1..(Len(stk[t]) - 1) /\ i + 1 \in 1..Len(stk[t])
            BY <2>3, <5>1, <5>3
          <6>2. stk[t][i] \in Category /\ Father[stk[t][i]] = stk[t][i + 1]
            BY <1>0, <6>1 DEF Stacks
          <6>3. g[i + 1] = stk[t][i + 1]
            BY <2>5, <6>1
          <6> QED BY <5>1, <6>2, <6>3
        <5> QED BY <5>2, <5>3
      <4>3. g[1] \in Appender => flock' = t
        BY <1>0, <1>4, <2>8, <4>1 DEF Stacks
      <4>4. stk'[u] = g /\ pc'[u] = "get"
        BY <2>6, <2>8, <3>2
      <4> QED BY <3>2, <4>1, <4>2, <4>3, <4>4
    <3> QED BY <3>1, <3>2
  <2>12. Locks'
    BY <1>0, <1>1, <1>4, <2>8, <2>9, LocksFrame
  <2> QED BY <1>1, <1>4, <2>1, <2>2, <2>7, <2>8, <2>9, <2>10, <2>11, <2>12 DEF BaseInv
<1>5. CASE /\ pc[t] = "walk" /\ UNCHANGED <<locals, pnt, handed, flock>>
           /\ ~(Want(t) \in Category /\ Father[Want(t)] # Root)
           /\ Goto(t, "new") /\ UNCHANGED stk
  <2>1. pc' = [pc EXCEPT ![t] = "new"] /\ pc' \in [Thread -> Place] /\ pc'[t] = "new"
        /\ UNCHANGED <<ptr, new, front, known, pnt, handed, flock>>
    BY <1>0, <1>5 DEF TypeOK, Place, Goto, locals
  <2>2. Others(t)
    BY <1>0, <1>5, <2>1 DEF TypeOK, Others
  <2>3. TypeOK'
    BY <1>0, <1>1, <1>5, <2>1 DEF TypeOK, Place
  <2>4. Stacks'
    <3>1. \A u \in Thread : u # t => pc'[u] = pc[u] /\ stk'[u] = stk[u]
      BY <2>2 DEF Others
    <3>2. stk'[t] = stk[t] /\ pc[t] # "idle" /\ flock' = flock
      BY <1>5, <2>1
    <3> QED BY <1>0, <2>1, <3>1, <3>2, StacksFrame
  <2>5. Locks'
    BY <1>0, <1>1, <1>5, <2>1, <2>2, LocksFrame
  <2>6. Want(t)' = Want(t)
    BY <1>5 DEF Want
  <2> QED BY <1>1, <1>5, <2>1, <2>2, <2>3, <2>4, <2>5, <2>6 DEF BaseInv
<1> QED BY <1>3, <1>4, <1>5 DEF Miss

(* A new object. *)
LEMMA NewBase ==
    ASSUME BaseInv, NEW t \in Thread, New(t)
    PROVE  /\ BaseInv' /\ Others(t) /\ pc[t] = "new" /\ pc'[t] = "set"
           /\ UNCHANGED <<setup, first, node, lock, flock, stk, pnt, handed>> /\ Want(t)' = Want(t)
           /\ Len(obj) \in Nat /\ new'[t] = Len(obj) + 1 /\ Len(obj') = Len(obj) + 1
           /\ obj'[Len(obj) + 1] = [name |-> Want(t), father |-> pnt[t], live |-> TRUE]
           /\ \A i \in DOMAIN obj : obj'[i] = obj[i]
           /\ DOMAIN obj' = DOMAIN obj \cup {Len(obj) + 1}
<1>0. TypeOK /\ Stacks /\ Locks
  BY DEF BaseInv
<1>1. /\ pc[t] = "new" /\ obj' = Append(obj, [name |-> Want(t), father |-> pnt[t], live |-> TRUE])
      /\ new' = [new EXCEPT ![t] = Len(obj')] /\ pc' = [pc EXCEPT ![t] = "set"]
      /\ UNCHANGED <<setup, first, node, spare, lock, flock, stk, ptr, pnt, front, known, handed>>
  BY DEF New, Goto, table
<1>2. Want(t) \in Name /\ pnt[t] \in 0..Len(obj) /\ Len(obj) \in Nat
  BY <1>0, <1>1, Wanted, Lens DEF TypeOK
<1>3. 0..Len(obj) \subseteq 0..(Len(obj) + 1) /\ 1..Len(obj) \subseteq 1..(Len(obj) + 1)
      /\ Len(obj) + 1 \in 0..(Len(obj) + 1)
  BY <1>2
<1>4. PICK O : O = [name : Name, father : 0..(Len(obj) + 1), live : BOOLEAN]
  OBVIOUS
<1>5. PICK x : x = [name |-> Want(t), father |-> pnt[t], live |-> TRUE]
  OBVIOUS
<1>6. x \in O
  BY <1>2, <1>3, <1>4, <1>5
<1>7. obj \in Seq(O)
  <2>1. PICK P : P = [name : Name, father : 0..Len(obj), live : BOOLEAN]
    OBVIOUS
  <2>2. obj \in Seq(P)
    BY <1>0, <2>1 DEF TypeOK
  <2>3. P \subseteq O
    BY <1>3, <1>4, <2>1
  <2> QED BY <2>2, <2>3, SeqMono
<1>8. /\ obj' \in Seq(O) /\ Len(obj') = Len(obj) + 1 /\ obj'[Len(obj) + 1] = x
      /\ \A i \in DOMAIN obj : obj'[i] = obj[i]
      /\ DOMAIN obj' = DOMAIN obj \cup {Len(obj) + 1}
  <2>1. PICK r : r = Append(obj, x)
    OBVIOUS
  <2>2. /\ r \in Seq(O) /\ Len(r) = Len(obj) + 1 /\ r[Len(obj) + 1] = x
        /\ \A i \in DOMAIN obj : r[i] = obj[i]
        /\ DOMAIN r = DOMAIN obj \cup {Len(obj) + 1}
    BY <1>6, <1>7, <2>1, SeqAppend
  <2> QED BY <1>1, <1>5, <2>1, <2>2
<1>9. node \in Seq([key : Name, value : 1..(Len(obj) + 1), next : 0..Len(node)])
  <2>1. PICK P : P = [key : Name, value : 1..Len(obj), next : 0..Len(node)]
    OBVIOUS
  <2>2. PICK Q : Q = [key : Name, value : 1..(Len(obj) + 1), next : 0..Len(node)]
    OBVIOUS
  <2>3. node \in Seq(P)
    BY <1>0, <2>1 DEF TypeOK
  <2>4. P \subseteq Q
    BY <1>3, <2>1, <2>2
  <2>5. node \in Seq(Q)
    BY <2>3, <2>4, SeqMono
  <2> QED BY <2>2, <2>5
<1>10. pc' \in [Thread -> Place] /\ pc'[t] = "set"
  BY <1>0, <1>1 DEF TypeOK, Place
<1>11. new' \in [Thread -> 0..(Len(obj) + 1)] /\ new'[t] = Len(obj) + 1
  <2>1. new' = [new EXCEPT ![t] = Len(obj) + 1] /\ new \in [Thread -> 0..Len(obj)]
    BY <1>0, <1>1, <1>8 DEF TypeOK
  <2>2. new \in [Thread -> 0..(Len(obj) + 1)]
    BY <1>3, <2>1
  <2> QED BY <1>3, <2>1, <2>2
<1>12. /\ pnt \in [Thread -> 0..(Len(obj) + 1)] /\ known \in [Thread -> 0..(Len(obj) + 1)]
       /\ handed \subseteq Name \X (1..(Len(obj) + 1))
  <2>1. /\ pnt \in [Thread -> 0..Len(obj)] /\ known \in [Thread -> 0..Len(obj)]
        /\ handed \subseteq Name \X (1..Len(obj))
    BY <1>0 DEF TypeOK
  <2> QED BY <1>3, <2>1
<1>13. Others(t)
  BY <1>0, <1>1 DEF TypeOK, Others
<1>14. TypeOK'
  BY <1>0, <1>1, <1>4, <1>8, <1>9, <1>10, <1>11, <1>12 DEF TypeOK, Place
<1>15. Stacks'
  <2>1. \A u \in Thread : u # t => pc'[u] = pc[u] /\ stk'[u] = stk[u]
    BY <1>13 DEF Others
  <2>2. stk'[t] = stk[t] /\ pc[t] # "idle" /\ flock' = flock
    BY <1>1
  <2> QED BY <1>0, <1>10, <2>1, <2>2, StacksFrame
<1>16. Locks'
  BY <1>0, <1>1, <1>10, <1>13, LocksFrame
<1>17. Want(t)' = Want(t)
  BY <1>1 DEF Want
<1> QED BY <1>1, <1>2, <1>5, <1>8, <1>10, <1>11, <1>13, <1>14, <1>15, <1>16, <1>17 DEF BaseInv

(* The three ways in which set() or the open before it can fail. *)
LEMMA FailBase ==
    ASSUME BaseInv, NEW t \in Thread, SyncidFails(t) \/ SetFails(t), new[t] # 0
    PROVE  /\ BaseInv' /\ UNCHANGED <<setup, first, node, lock>>
           /\ pc[t] = "set" /\ Want(t) \in Name /\ new[t] \in DOMAIN obj /\ new[t] \in 1..Len(obj)
           /\ \/ Killed(new[t]) /\ Want(t) \in Appender /\ 0 \in 0..Len(obj) /\ Return(t, 0)
              \/ /\ Killed(new[t]) /\ Want(t) \in Category /\ pc'[t] = "reget" /\ Others(t)
                 /\ UNCHANGED <<stk, ptr, new, front, known, pnt, handed, flock>>
              \/ /\ Want(t) \in Appender /\ obj' = obj /\ new[t] \in 0..Len(obj)
                 /\ Return(t, new[t]) /\ (Value(Want(t)) # 0 \/ setup.oom)
              \/ /\ Want(t) \in LogStat /\ obj' = obj /\ Others(t) /\ Want(t)' \in LogStat
                 /\ UNCHANGED <<pc, ptr, new, front, known, pnt, handed, flock>>
<1>0. TypeOK /\ Stacks /\ Locks
  BY DEF BaseInv
<1>1. /\ pc[t] = "set" /\ UNCHANGED <<setup, first, node, spare, lock>>
  BY DEF SyncidFails, SetFails, table
<1>2. Len(obj) \in Nat /\ DOMAIN obj = 1..Len(obj) /\ Want(t) \in Name
  BY <1>0, <1>1, Lens, Wanted
<1>3. new[t] \in 0..Len(obj)
  BY <1>0 DEF TypeOK
<1>4. new[t] \in DOMAIN obj /\ new[t] \in 1..Len(obj) /\ 0 \in 0..Len(obj)
  BY <1>2, <1>3
<1>5. CASE SyncidFails(t)
  <2>1. Killed(new[t]) /\ Want(t) \in Appender /\ Return(t, 0)
    BY <1>0, <1>4, <1>5, Kill DEF SyncidFails
  <2>2. BaseInv'
    BY <1>1, <1>4, <2>1, EndBase
  <2> QED BY <1>1, <1>2, <1>4, <2>1, <2>2
<1>6. CASE /\ Want(t) \in Category /\ obj' = [obj EXCEPT ![new[t]].live = FALSE]
           /\ Goto(t, "reget") /\ UNCHANGED <<stk, locals, pnt, handed, flock>>
  <2>1. Killed(new[t])
    BY <1>0, <1>4, <1>6, Kill
  <2>2. pc' = [pc EXCEPT ![t] = "reget"] /\ pc' \in [Thread -> Place] /\ pc'[t] = "reget"
        /\ UNCHANGED <<stk, ptr, new, front, known, pnt, handed, flock>>
    BY <1>0, <1>6 DEF TypeOK, Place, Goto, locals
  <2>3. Others(t)
    BY <1>0, <2>2 DEF TypeOK, Others
  <2>4. TypeOK'
    BY <1>0, <1>1, <2>1, <2>2 DEF TypeOK, Place, Killed
  <2>5. Stacks'
    <3>1. \A u \in Thread : u # t => pc'[u] = pc[u] /\ stk'[u] = stk[u]
      BY <2>3 DEF Others
    <3>2. stk'[t] = stk[t] /\ pc[t] # "idle" /\ flock' = flock
      BY <1>1, <2>2
    <3> QED BY <1>0, <2>2, <3>1, <3>2, StacksFrame
  <2>6. Locks'
    BY <1>0, <1>1, <2>2, <2>3, LocksFrame
  <2> QED BY <1>1, <1>2, <1>4, <1>6, <2>1, <2>2, <2>3, <2>4, <2>5, <2>6 DEF BaseInv
<1>7. CASE /\ Want(t) \in Appender /\ Return(t, new[t]) /\ UNCHANGED obj
           /\ Value(Want(t)) # 0 \/ NoSpace
  <2>1. BaseInv'
    BY <1>1, <1>3, <1>7, EndBase
  <2>2. Value(Want(t)) # 0 \/ setup.oom
    BY <1>7 DEF NoSpace
  <2> QED BY <1>1, <1>2, <1>3, <1>4, <1>7, <2>1, <2>2
<1>8. CASE /\ Want(t) \in LogStat /\ \E n \in LogStat \ {Want(t)} : stk' = [stk EXCEPT ![t] = <<n>>]
           /\ UNCHANGED <<obj, pc, locals, pnt, handed, flock>>
  <2>1. PICK n \in LogStat : stk' = [stk EXCEPT ![t] = <<n>>]
    BY <1>8
  <2>2. n \in Name /\ n \notin Appender
    BY DEF Name
  <2>3. stk' \in [Thread -> Seq(Name)] /\ stk'[t] = <<n>> /\ <<n>> \in Seq(Name)
    BY <1>0, <2>1, <2>2 DEF TypeOK
  <2>4. Want(t)' = n
    BY <2>3 DEF Want, Last
  <2>5. UNCHANGED <<obj, pc, ptr, new, front, known, pnt, handed, flock>>
    BY <1>8 DEF locals
  <2>6. Others(t)
    BY <1>0, <2>1, <2>5 DEF TypeOK, Others
  <2>7. TypeOK'
    BY <1>0, <1>1, <2>3, <2>5 DEF TypeOK
  <2>8. Stacks'
    <3>1. \A u \in Thread : u # t => pc'[u] = pc[u] /\ stk'[u] = stk[u]
      BY <2>6 DEF Others
    <3>2. pc'[t] # "idle" /\ flock' = flock
      BY <1>1, <2>5
    <3> QED BY <1>0, <2>2, <2>3, <3>1, <3>2, StacksFrame
  <2>9. Locks'
    BY <1>0, <1>1, <2>5, <2>6, LocksFrame
  <2> QED BY <1>1, <1>2, <1>4, <1>8, <2>4, <2>5, <2>6, <2>7, <2>8, <2>9 DEF BaseInv
<1> QED BY <1>5, <1>6, <1>7, <1>8 DEF SetFails
-----------------------------------------------------------------------------
(* The chains.  The linked nodes of a bucket are all its nodes but the one *)
(* being added.                                                            *)
LEMMA LinkedIs ==
    ASSUME TypeOK, Firsts, Nexts, NEW n \in Name
    PROVE  Linked(n) = In(Bucket[n])
<1> DEFINE b == Bucket[n]
<1>1. Len(node) \in Nat /\ DOMAIN node = 1..Len(node)
  BY Lens
<1>2. b \in Buckets
  BY DEF Buckets
<1>3. /\ first[b] = 0 => In(b) = {}
      /\ first[b] # 0 => first[b] \in In(b) /\ \A j \in In(b) : first[b] <= j
  BY <1>2 DEF Firsts
<1>4. In(b) \subseteq DOMAIN node /\ \A i \in In(b) : Follows(i, node[i].next, In(b))
  BY <1>2 DEF In, Nexts
<1>5. Closed(b, In(b))
  BY <1>3, <1>4 DEF Closed, Follows
<1> HIDE DEF b
<1>6. ASSUME NEW S \in SUBSET DOMAIN node, Closed(b, S) PROVE In(b) \subseteq S
  <2> SUFFICES ASSUME In(b) \ S # {} PROVE FALSE
    OBVIOUS
  <2>1. In(b) \ S \subseteq Nat
    BY <1>1, <1>4
  <2>2. PICK x \in In(b) \ S : \A y \in In(b) \ S : x <= y
    BY <2>1, LeastNat
  <2>3. first[b] # 0 /\ first[b] \in In(b) /\ first[b] \in S /\ first[b] <= x
    BY <1>3, <1>6, <2>2 DEF Closed
  <2>4. x \in Nat /\ first[b] \in Nat /\ first[b] # x
    BY <1>1, <1>4, <2>2, <2>3
  <2>5. first[b] < x
    BY <2>3, <2>4
  <2>6. PICK P : P = {j \in In(b) : j < x}
    OBVIOUS
  <2>7. P # {} /\ P \subseteq 0..x
    BY <1>1, <1>4, <2>3, <2>4, <2>5, <2>6
  <2>8. PICK p \in P : \A y \in P : y <= p
    BY <2>4, <2>7, GreatestNat
  <2>9. p \in In(b) /\ p < x /\ p \in Nat
    BY <1>1, <1>4, <2>6, <2>8
  <2>10. p \in S
    BY <2>2, <2>4, <2>9
  <2>11. Follows(p, node[p].next, In(b)) /\ node[p].next \in 0..Len(node)
    BY <1>4, <2>9, Lens
  <2>12. node[p].next # 0
    BY <2>2, <2>4, <2>9, <2>11 DEF Follows
  <2>13. node[p].next \in In(b) /\ p < node[p].next /\ node[p].next <= x
    BY <2>2, <2>9, <2>11, <2>12 DEF Follows
  <2>14. node[p].next \in S
    BY <1>6, <2>10, <2>12 DEF Closed
  <2>15. node[p].next \in Nat
    BY <1>1, <1>4, <2>13
  <2>16. node[p].next < x
    BY <2>2, <2>4, <2>13, <2>14, <2>15
  <2>17. node[p].next <= p
    BY <2>6, <2>8, <2>13, <2>16
  <2> QED BY <2>9, <2>13, <2>15, <2>17
<1> QED BY <1>4, <1>5, <1>6 DEF Linked, b

(* What set() finds. *)
LEMMA ValueIs ==
    ASSUME TypeOK, Keys, Firsts, Nexts, NEW n \in Name
    PROVE  /\ Value(n) \in 0..Len(obj)
           /\ Value(n) # 0 => Reg(n, Value(n))
           /\ \A o : Reg(n, o) => Value(n) = o /\ o # 0
<1>1. Len(obj) \in Nat /\ \A i \in DOMAIN node : node[i].value \in 1..Len(obj)
  BY Lens
<1>2. PICK H : H = {i \in Linked(n) : node[i].key = n}
  OBVIOUS
<1>3. Value(n) = IF H = {} THEN 0 ELSE node[Min(H)].value
  BY <1>2 DEF Value
<1>4. H = {i \in DOMAIN node \ Pend : node[i].key = n}
  BY <1>2, LinkedIs DEF In
<1>5. CASE H = {}
  <2>1. \A o : ~Reg(n, o)
    BY <1>4, <1>5 DEF Reg
  <2>2. Value(n) = 0
    BY <1>3, <1>5
  <2> QED BY <1>1, <2>1, <2>2
<1>6. CASE H # {}
  <2>1. PICK i \in H : TRUE
    BY <1>6
  <2>2. i \in DOMAIN node \ Pend /\ node[i].key = n
    BY <1>4, <2>1
  <2>3. H = {i}
    BY <1>4, <2>2 DEF Keys
  <2>4. i \in Nat
    BY <2>2, Lens
  <2>5. Min(H) = i
    BY <2>3, <2>4 DEF Min
  <2>6. Value(n) = node[i].value
    BY <1>3, <1>6, <2>5
  <2>7. Reg(n, Value(n))
    BY <2>2, <2>6 DEF Reg
  <2>8. \A o : Reg(n, o) => o = node[i].value
    BY <2>2 DEF Reg, Keys
  <2>9. node[i].value \in 1..Len(obj)
    BY <1>1, <2>2
  <2> QED BY <1>1, <2>6, <2>7, <2>8, <2>9
<1> QED BY <1>5, <1>6

(* The node set() appends to. *)
LEMMA EndIs ==
    ASSUME TypeOK, Firsts, Nexts, NEW n \in Name
    PROVE  /\ End(n) \in 0..Len(node)
           /\ End(n) = 0 => In(Bucket[n]) = {}
           /\ End(n) # 0 => End(n) \in In(Bucket[n]) /\ \A j \in In(Bucket[n]) : j <= End(n)
<1> DEFINE L == Linked(n)
<1>1. Len(node) \in Nat /\ DOMAIN node = 1..Len(node)
  BY Lens
<1>2. L = In(Bucket[n])
  BY LinkedIs
<1>3. L \subseteq DOMAIN node /\ \A i \in L : Follows(i, node[i].next, L)
  <2>1. In(Bucket[n]) \subseteq DOMAIN node
        /\ \A i \in In(Bucket[n]) : Follows(i, node[i].next, In(Bucket[n]))
    <3>1. Bucket[n] \in Buckets
      BY DEF Buckets
    <3> QED BY <3>1 DEF In, Nexts
  <2> HIDE DEF L
  <2> QED BY <1>2, <2>1
<1>4. End(n) = IF L = {} THEN 0 ELSE CHOOSE i \in L : node[i].next = 0
  BY DEF End
<1> HIDE DEF L
<1>5. CASE L = {}
  BY <1>1, <1>2, <1>4, <1>5
<1>6. CASE L # {}
  <2>1. L \subseteq 0..Len(node)
    BY <1>1, <1>3
  <2>2. PICK g \in L : \A y \in L : y <= g
    BY <1>1, <1>6, <2>1, GreatestNat
  <2>3. node[g].next = 0
    <3>1. node[g].next # 0 => node[g].next \in L /\ g < node[g].next
      BY <1>3, <2>2 DEF Follows
    <3>2. \A k \in L : g \in Nat /\ k \in Nat /\ k <= g
      BY <1>1, <1>3, <2>2
    <3>3. \A k \in L : ~(g < k)
      BY <3>2
    <3> QED BY <3>1, <3>3
  <2>4. PICK e : e = CHOOSE i \in L : node[i].next = 0
    OBVIOUS
  <2>5. e \in L /\ node[e].next = 0
    BY <2>2, <2>3, <2>4
  <2>6. \A j \in L : j <= e
    BY <1>3, <2>5 DEF Follows
  <2>7. End(n) = e /\ e # 0 /\ e \in 0..Len(node)
    BY <1>1, <1>3, <1>4, <1>6, <2>4, <2>5
  <2> QED BY <1>2, <2>5, <2>6, <2>7
<1> QED BY <1>5, <1>6

(* set() takes a node and fills it: the linked nodes stay what they were.  *)
LEMMA SetNewBase ==
    ASSUME BaseInv, ChainInv, NEW t \in Thread, SetNew(t), new[t] # 0
    PROVE  /\ BaseInv' /\ Others(t) /\ pc[t] = "set" /\ pc'[t] = "link"
           /\ UNCHANGED <<setup, first, obj, flock, stk, ptr, new, pnt, known, handed>>
           /\ lock = None /\ lock' = t /\ Absent(Want(t)) /\ Want(t) \in Name /\ Want(t)' = Want(t)
           /\ Len(node) \in Nat /\ DOMAIN node' = DOMAIN node \cup {Len(node) + 1}
           /\ Len(node') = Len(node) + 1
           /\ node'[Len(node) + 1] = [key |-> Want(t), value |-> new[t], next |-> 0]
           /\ \A i \in DOMAIN node : node'[i] = node[i]
           /\ DOMAIN node \ Pend = DOMAIN node /\ DOMAIN node' \ Pend' = DOMAIN node
           /\ front'[t] = End(Want(t))
<1>0. TypeOK /\ Stacks /\ Locks /\ Keys /\ Firsts /\ Nexts
  BY DEF BaseInv, ChainInv
<1>1. /\ pc[t] = "set" /\ lock = None /\ Value(Want(t)) = 0 /\ lock' = t
      /\ node' = Append(node, [key |-> Want(t), value |-> new[t], next |-> 0])
      /\ front' = [front EXCEPT ![t] = End(Want(t))] /\ pc' = [pc EXCEPT ![t] = "link"]
      /\ spare' = (IF spare = 0 THEN BlockSize ELSE spare) - 1
      /\ UNCHANGED <<setup, first, obj, flock, stk, ptr, new, pnt, known, handed>>
  BY DEF SetNew, Goto, Space
<1>2. Want(t) \in Name /\ Want(t)' = Want(t)
  BY <1>0, <1>1, Wanted DEF Want
<1>3. Len(node) \in Nat /\ DOMAIN node = 1..Len(node) /\ Len(obj) \in Nat
  BY <1>0, Lens
<1>4. new[t] \in 1..Len(obj)
  BY <1>0, <1>3 DEF TypeOK
<1>5. End(Want(t)) \in 0..Len(node)
  BY <1>0, <1>2, EndIs
<1>6. PICK m : m = Len(node) + 1
  OBVIOUS
<1>7. 0..Len(node) \subseteq 0..m /\ 0 \in 0..m /\ m \in Nat
  BY <1>3, <1>6
<1>8. PICK Q : Q = [key : Name, value : 1..Len(obj), next : 0..m]
  OBVIOUS
<1>9. PICK x : x = [key |-> Want(t), value |-> new[t], next |-> 0]
  OBVIOUS
<1>10. x \in Q
  BY <1>2, <1>4, <1>7, <1>8, <1>9
<1>11. node \in Seq(Q)
  <2>1. PICK P : P = [key : Name, value : 1..Len(obj), next : 0..Len(node)]
    OBVIOUS
  <2>2. node \in Seq(P)
    BY <1>0, <2>1 DEF TypeOK
  <2>3. P \subseteq Q
    BY <1>7, <1>8, <2>1
  <2> QED BY <2>2, <2>3, SeqMono
<1>12. /\ node' \in Seq(Q) /\ Len(node') = m /\ node'[m] = x
       /\ \A i \in DOMAIN node : node'[i] = node[i]
       /\ DOMAIN node' = DOMAIN node \cup {m} /\ m \notin DOMAIN node
  <2>1. PICK r : r = Append(node, x)
    OBVIOUS
  <2>2. /\ r \in Seq(Q) /\ Len(r) = m /\ r[m] = x
        /\ \A i \in DOMAIN node : r[i] = node[i]
        /\ DOMAIN r = DOMAIN node \cup {m} /\ m \notin DOMAIN node
    BY <1>6, <1>10, <1>11, <2>1, SeqAppend
  <2> QED BY <1>1, <1>9, <2>1, <2>2
<1>13. pc' \in [Thread -> Place] /\ pc'[t] = "link"
  BY <1>0, <1>1 DEF TypeOK, Place
<1>14. /\ first' \in [Buckets -> 0..m] /\ ptr' \in [Thread -> 0..m] /\ front' \in [Thread -> 0..m]
       /\ front'[t] = End(Want(t))
  <2>1. first \in [Buckets -> 0..Len(node)] /\ ptr \in [Thread -> 0..Len(node)]
        /\ front \in [Thread -> 0..Len(node)]
    BY <1>0 DEF TypeOK
  <2>2. first \in [Buckets -> 0..m] /\ ptr \in [Thread -> 0..m] /\ front \in [Thread -> 0..m]
    BY <1>7, <2>1
  <2>3. End(Want(t)) \in 0..m
    BY <1>5, <1>7
  <2> QED BY <1>1, <2>2, <2>3
<1>15. spare' \in 0..BlockSize
  <2>1. spare \in 0..BlockSize /\ BlockSize \in Nat \ {0}
    BY <1>0 DEF TypeOK
  <2> QED BY <1>1, <2>1
<1>16. Others(t)
  BY <1>0, <1>1 DEF TypeOK, Others
<1>17. TypeOK'
  <2>1. /\ setup' \in Setups /\ lock' \in Thread \cup {None} /\ flock' \in Thread \cup {None}
        /\ obj' \in Seq([name : Name, father : 0..Len(obj'), live : BOOLEAN])
        /\ stk' \in [Thread -> Seq(Name)]
        /\ new' \in [Thread -> 0..Len(obj')] /\ pnt' \in [Thread -> 0..Len(obj')]
        /\ known' \in [Thread -> 0..Len(obj')] /\ handed' \subseteq Name \X (1..Len(obj'))
    BY <1>0, <1>1 DEF TypeOK
  <2> QED BY <1>1, <1>8, <1>12, <1>13, <1>14, <1>15, <2>1 DEF TypeOK, Place
<1>18. Stacks'
  <2>1. \A u \in Thread : u # t => pc'[u] = pc[u] /\ stk'[u] = stk[u]
    BY <1>16 DEF Others
  <2>2. stk'[t] = stk[t] /\ pc[t] # "idle" /\ flock' = flock
    BY <1>1
  <2> QED BY <1>0, <1>13, <2>1, <2>2, StacksFrame
<1>19. Locks'
  <2>1. \A u \in Thread : u # t => pc'[u] = pc[u] /\ pc[u] # "link"
    BY <1>0, <1>1, <1>16, Nobody DEF Others, Locks
  <2>2. \A u \in Thread : pc'[u] = "link" <=> lock' = u
    BY <1>1, <1>13, <2>1
  <2>3. node' # <<>> /\ node'[Len(node')] = [key |-> Want(t)', value |-> new'[t], next |-> 0]
    <3>1. node'[Len(node')] = x /\ new'[t] = new[t] /\ Len(node') # 0
      BY <1>1, <1>3, <1>6, <1>12
    <3>2. node' # <<>>
      BY <3>1
    <3> QED BY <1>2, <1>9, <3>1, <3>2
  <2> QED BY <2>1, <2>2, <2>3 DEF Locks
<1>20. Pend = {} /\ Pend' = {m}
  BY <1>1, <1>12, Nobody DEF Pend
<1>21. DOMAIN node \ Pend = DOMAIN node /\ DOMAIN node' \ Pend' = DOMAIN node
  BY <1>12, <1>20
<1>22. Absent(Want(t))
  <2> SUFFICES ASSUME NEW i \in DOMAIN node, node[i].key = Want(t) PROVE FALSE
    BY DEF Absent
  <2>1. Reg(Want(t), node[i].value)
    BY <1>21 DEF Reg
  <2> QED BY <1>0, <1>1, <1>2, <2>1, ValueIs
<1> QED BY <1>1, <1>2, <1>3, <1>6, <1>9, <1>12, <1>13, <1>14, <1>16, <1>17, <1>18, <1>19, <1>21, <1>22 DEF BaseInv

(* The chains meanwhile. *)
LEMMA SetNewChain ==
    ASSUME BaseInv, ChainInv, NEW t \in Thread, SetNew(t), new[t] # 0
    PROVE  ChainInv' /\ \A b \in Buckets : In(b)' = In(b)
<1>0. TypeOK /\ Stacks /\ Locks /\ Keys /\ Firsts /\ Nexts /\ Fronts
  BY DEF BaseInv, ChainInv
<1>1. PICK m : m = Len(node) + 1
  OBVIOUS
<1>2. /\ Others(t) /\ pc'[t] = "link" /\ lock = None /\ first' = first
      /\ Absent(Want(t)) /\ Want(t) \in Name /\ Want(t)' = Want(t)
      /\ DOMAIN node' = DOMAIN node \cup {m}
      /\ node'[m] = [key |-> Want(t), value |-> new[t], next |-> 0]
      /\ \A i \in DOMAIN node : node'[i] = node[i]
      /\ DOMAIN node \ Pend = DOMAIN node /\ DOMAIN node' \ Pend' = DOMAIN node
      /\ front'[t] = End(Want(t))
  BY <1>1, SetNewBase
<1>3. ASSUME NEW b PROVE In(b)' = In(b)
  BY <1>2 DEF In
<1>4. Keys'
  <2> SUFFICES ASSUME NEW i \in DOMAIN node', NEW j \in DOMAIN node', node'[i].key = node'[j].key
               PROVE  i = j
    BY DEF Keys
  <2>1. node'[m].key = Want(t)
    BY <1>2
  <2>2. \A k \in DOMAIN node : node'[k].key = node[k].key /\ node[k].key # Want(t)
    BY <1>2 DEF Absent
  <2>3. CASE i \in DOMAIN node /\ j \in DOMAIN node
    BY <1>0, <2>2, <2>3 DEF Keys
  <2>4. CASE i = m \/ j = m
    BY <1>2, <2>1, <2>2, <2>4
  <2> QED BY <1>2, <2>3, <2>4
<1>5. Firsts'
  BY <1>0, <1>2, <1>3 DEF Firsts
<1>6. Nexts'
  <2> SUFFICES ASSUME NEW b \in Buckets, NEW i \in In(b)'
               PROVE  Follows(i, node[i].next, In(b))'
    BY DEF Nexts
  <2>1. In(b)' = In(b) /\ i \in In(b)
    BY <1>3
  <2>2. node'[i] = node[i]
    BY <1>2, <2>1 DEF In
  <2>3. Follows(i, node[i].next, In(b))
    BY <1>0, <2>1 DEF Nexts
  <2> QED BY <2>1, <2>2, <2>3 DEF Follows
<1>7. Fronts'
  <2>1. \A u \in Thread : u # t => pc'[u] # "link"
    BY <1>0, <1>2, Nobody DEF Others, Locks
  <2>2. PICK c : c = Bucket[Want(t)]
    OBVIOUS
  <2>3. /\ front'[t] = 0 => In(c) = {}
        /\ front'[t] # 0 => front'[t] \in In(c) /\ \A j \in In(c) : j <= front'[t]
    BY <1>0, <1>2, <2>2, EndIs
  <2>4. In(c)' = In(c) /\ Bucket[Want(t)'] = c
    BY <1>2, <1>3, <2>2
  <2> QED BY <2>1, <2>3, <2>4 DEF Fronts
<1> QED BY <1>3, <1>4, <1>5, <1>6, <1>7 DEF ChainInv

(* set() links the node and gives back the lock. *)
LEMMA SetLinkBase ==
    ASSUME BaseInv, ChainInv, NEW t \in Thread, SetLink(t)
    PROVE  /\ BaseInv' /\ pc[t] = "link" /\ UNCHANGED <<setup, obj>>
           /\ new[t] \in 1..Len(obj) /\ new[t] \in 0..Len(obj) /\ Return(t, new[t])
           /\ Want(t) \in Name
           /\ Len(node) \in Nat /\ DOMAIN node' = DOMAIN node /\ Len(node) \in DOMAIN node
           /\ node[Len(node)] = [key |-> Want(t), value |-> new[t], next |-> 0]
           /\ \A i \in DOMAIN node : node'[i].key = node[i].key /\ node'[i].value = node[i].value
           /\ DOMAIN node \ Pend = DOMAIN node \ {Len(node)} /\ DOMAIN node' \ Pend' = DOMAIN node
           /\ \A i \in DOMAIN node : i # front[t] => node'[i].next = node[i].next
           /\ \/ front[t] = 0 /\ first' = [first EXCEPT ![Bucket[Want(t)]] = Len(node)]
              \/ front[t] # 0 /\ first' = first /\ node'[front[t]].next = Len(node)
<1>0. TypeOK /\ Stacks /\ Locks /\ Keys /\ Firsts /\ Nexts /\ Fronts
  BY DEF BaseInv, ChainInv
<1>1. /\ pc[t] = "link" /\ lock' = None /\ Return(t, new[t]) /\ UNCHANGED <<setup, spare, obj>>
      /\ \/ /\ front[t] = 0 /\ first' = [first EXCEPT ![Bucket[Want(t)]] = Len(node)] /\ node' = node
         \/ /\ front[t] # 0 /\ node' = [node EXCEPT ![front[t]].next = Len(node)] /\ first' = first
  BY DEF SetLink
<1>2. Want(t) \in Name /\ Bucket[Want(t)] \in Buckets
  BY <1>0, <1>1, Wanted
<1>3. Len(node) \in Nat /\ DOMAIN node = 1..Len(node) /\ Len(obj) \in Nat
  BY <1>0, Lens
<1>4. lock = t /\ node # <<>> /\ node[Len(node)] = [key |-> Want(t), value |-> new[t], next |-> 0]
  BY <1>0, <1>1 DEF Locks
<1>5. Len(node) \in DOMAIN node
  <2>1. Len(node) # 0
    <3>1. \A S : \A s \in Seq(S) : s # <<>> => Len(s) # 0
      OBVIOUS
    <3> QED BY <1>0, <1>4, <3>1 DEF TypeOK
  <2> QED BY <1>3, <2>1
<1>6. new[t] \in 1..Len(obj) /\ new[t] \in 0..Len(obj)
  <2>1. node[Len(node)].value \in 1..Len(obj)
    BY <1>0, <1>5, Lens
  <2>2. node[Len(node)].value = new[t]
    BY <1>4
  <2> QED BY <1>3, <2>1, <2>2
<1>7. PICK Q : Q = [key : Name, value : 1..Len(obj), next : 0..Len(node)]
  OBVIOUS
<1>8. node \in Seq(Q)
  BY <1>0, <1>7 DEF TypeOK
<1>9. front[t] # 0 => front[t] \in DOMAIN node
  BY <1>0, <1>1, <1>2 DEF Fronts, In
<1>10. /\ node' \in Seq(Q) /\ Len(node') = Len(node) /\ DOMAIN node' = DOMAIN node
       /\ \A i \in DOMAIN node : node'[i].key = node[i].key /\ node'[i].value = node[i].value
       /\ \A i \in DOMAIN node : i # front[t] => node'[i].next = node[i].next
       /\ front[t] # 0 => node'[front[t]].next = Len(node)
  <2>1. CASE front[t] = 0 /\ node' = node
    BY <1>8, <2>1
  <2>2. CASE front[t] # 0 /\ node' = [node EXCEPT ![front[t]].next = Len(node)]
    <3>1. PICK f : f = front[t]
      OBVIOUS
    <3>2. PICK x : x = [node[f] EXCEPT !.next = Len(node)]
      OBVIOUS
    <3>3. f \in DOMAIN node /\ node[f] \in Q /\ Len(node) \in 0..Len(node)
      BY <1>3, <1>8, <1>9, <2>2, <3>1
    <3>4. x \in Q /\ x.key = node[f].key /\ x.value = node[f].value /\ x.next = Len(node)
      BY <1>7, <3>2, <3>3
    <3>5. PICK r : r = [node EXCEPT ![f] = x]
      OBVIOUS
    <3>6. x \in Q /\ f \in DOMAIN node
      BY <3>3, <3>4
    <3>7. /\ r \in Seq(Q) /\ Len(r) = Len(node) /\ DOMAIN r = DOMAIN node
          /\ r[f] = x /\ \A i \in DOMAIN node : i # f => r[i] = node[i]
      BY <1>8, <3>5, <3>6, SeqExcept
    <3>8. node' = r
      BY <2>2, <3>1, <3>2, <3>5
    <3> QED BY <3>1, <3>4, <3>7, <3>8
  <2> QED BY <1>1, <2>1, <2>2
<1>11. /\ Others(t)
       /\ pc' \in [Thread -> Place] /\ pc'[t] \in {"idle", "new"}
       /\ stk' \in [Thread -> Seq(Name)]
       /\ ptr' \in [Thread -> 0..Len(node)] /\ front' \in [Thread -> 0..Len(node)]
       /\ new' \in [Thread -> 0..Len(obj)] /\ pnt' \in [Thread -> 0..Len(obj)]
       /\ known' \in [Thread -> 0..Len(obj)] /\ handed' \subseteq Name \X (1..Len(obj))
       /\ flock' \in Thread \cup {None}
       /\ Stacks'
  <2>1. pc[t] # "idle"
    BY <1>1
  <2> QED BY <1>0, <1>1, <1>6, <2>1, Returns
<1>12. first' \in [Buckets -> 0..Len(node)]
  <2>1. first \in [Buckets -> 0..Len(node)] /\ Len(node) \in 0..Len(node)
    BY <1>0, <1>3 DEF TypeOK
  <2> QED BY <1>1, <1>2, <2>1
<1>13. TypeOK'
  <2>1. /\ setup' \in Setups /\ lock' \in Thread \cup {None} /\ spare' \in 0..BlockSize
        /\ obj' \in Seq([name : Name, father : 0..Len(obj'), live : BOOLEAN])
    BY <1>0, <1>1 DEF TypeOK
  <2> QED BY <1>1, <1>7, <1>10, <1>11, <1>12, <2>1 DEF TypeOK, Place
<1>14. Locks'
  <2>1. \A u \in Thread : pc'[u] # "link" /\ lock' # u
    BY <1>0, <1>1, <1>4, <1>11, Nobody DEF Locks, Others
  <2> QED BY <2>1 DEF Locks
<1>15. Pend = {Len(node)} /\ Pend' = {}
  BY <1>1, <1>4, Nobody DEF Pend
<1> QED BY <1>1, <1>2, <1>3, <1>4, <1>5, <1>6, <1>10, <1>11, <1>13, <1>14, <1>15 DEF BaseInv

(* Afterwards the chain of its bucket ends with it. *)
LEMMA SetLinkChain ==
    ASSUME BaseInv, ChainInv, NEW t \in Thread, SetLink(t)
    PROVE  /\ ChainInv'
           /\ \A b \in Buckets : In(b)' = IF b = Bucket[Want(t)] THEN In(b) \cup {Len(node)} ELSE In(b)
<1>0. TypeOK /\ Stacks /\ Locks /\ Keys /\ Firsts /\ Nexts /\ Fronts /\ TypeOK' /\ Locks'
  BY SetLinkBase DEF BaseInv, ChainInv
<1>1. PICK m : m = Len(node)
  OBVIOUS
<1>2. PICK c : c = Bucket[Want(t)]
  OBVIOUS
<1>3. PICK f : f = front[t]
  OBVIOUS
<1>4. /\ pc[t] = "link" /\ Want(t) \in Name
      /\ m \in Nat /\ DOMAIN node' = DOMAIN node /\ m \in DOMAIN node
      /\ node[m] = [key |-> Want(t), value |-> new[t], next |-> 0]
      /\ \A i \in DOMAIN node : node'[i].key = node[i].key
      /\ DOMAIN node \ Pend = DOMAIN node \ {m} /\ DOMAIN node' \ Pend' = DOMAIN node
      /\ \A i \in DOMAIN node : i # f => node'[i].next = node[i].next
      /\ \/ f = 0 /\ first' = [first EXCEPT ![c] = m]
         \/ f # 0 /\ first' = first /\ node'[f].next = m
  BY <1>1, <1>2, <1>3, SetLinkBase
<1>5. DOMAIN node = 1..m /\ c \in Buckets
  BY <1>0, <1>1, <1>2, <1>4, Lens DEF Buckets
<1>6. /\ f = 0 => In(c) = {}
      /\ f # 0 => f \in In(c) /\ \A j \in In(c) : j <= f
  BY <1>0, <1>2, <1>3, <1>4, <1>5 DEF Fronts
<1>7. ASSUME NEW b \in Buckets
      PROVE  /\ In(b)' = (IF b = c THEN In(b) \cup {m} ELSE In(b))
             /\ m \notin In(b) /\ In(b) \subseteq 1..m
  <2>1. In(b) = {i \in DOMAIN node \ {m} : Bucket[node[i].key] = b}
    BY <1>4 DEF In
  <2>2. In(b)' = {i \in DOMAIN node : Bucket[node[i].key] = b}
    BY <1>4 DEF In
  <2>3. Bucket[node[m].key] = c
    BY <1>2, <1>4
  <2> HIDE DEF In
  <2> QED BY <1>4, <1>5, <2>1, <2>2, <2>3
<1>8. \A b \in Buckets : \A i \in In(b) : i < m /\ i \in Nat
  <2> SUFFICES ASSUME NEW b \in Buckets, NEW i \in In(b) PROVE i < m /\ i \in Nat
    OBVIOUS
  <2>1. i \in 1..m /\ i # m
    BY <1>7
  <2> QED BY <1>4, <2>1
<1>9. Keys'
  BY <1>0, <1>4 DEF Keys
<1>10. Firsts'
  <2> SUFFICES ASSUME NEW b \in Buckets
               PROVE  /\ first'[b] = 0 => In(b)' = {}
                      /\ first'[b] # 0 => first'[b] \in In(b)' /\ \A j \in In(b)' : first'[b] <= j
    BY DEF Firsts
  <2>1. /\ first[b] = 0 => In(b) = {}
        /\ first[b] # 0 => first[b] \in In(b) /\ \A j \in In(b) : first[b] <= j
    BY <1>0 DEF Firsts
  <2>2. first \in [Buckets -> 0..Len(node)]
    BY <1>0 DEF TypeOK
  <2>3. CASE b # c
    <3>1. first'[b] = first[b] /\ In(b)' = In(b)
      BY <1>4, <1>5, <1>7, <2>2, <2>3
    <3> QED BY <2>1, <3>1
  <2>4. CASE b = c /\ f = 0
    <3>1. first'[b] = m /\ In(b)' = {m} /\ m # 0
      BY <1>4, <1>5, <1>6, <1>7, <2>2, <2>4
    <3> QED BY <1>4, <3>1
  <2>5. CASE b = c /\ f # 0
    <3>1. first'[b] = first[b] /\ In(b)' = In(b) \cup {m}
      BY <1>4, <1>7, <2>5
    <3>2. first[b] # 0 /\ first[b] \in In(b)
      BY <1>6, <2>1, <2>5
    <3>3. first[b] < m /\ first[b] \in Nat
      BY <1>8, <3>2
    <3> QED BY <1>4, <2>1, <3>1, <3>2, <3>3
  <2> QED BY <2>3, <2>4, <2>5
<1>11. Nexts'
  <2> SUFFICES ASSUME NEW b \in Buckets, NEW i \in In(b)'
               PROVE  Follows(i, node[i].next, In(b))'
    BY DEF Nexts
  <2>1. CASE b # c
    <3>1. In(b)' = In(b) /\ i \in In(b)
      BY <1>7, <2>1
    <3>2. i # f \/ f = 0
      BY <1>2, <1>4, <1>6, <2>1, <3>1 DEF In
    <3>3. i # f /\ node'[i].next = node[i].next
      BY <1>4, <1>5, <1>7, <3>1, <3>2
    <3>4. Follows(i, node[i].next, In(b))
      BY <1>0, <3>1 DEF Nexts
    <3> QED BY <3>1, <3>3, <3>4 DEF Follows
  <2>2. CASE b = c /\ i = m
    <3>1. m # f /\ node'[m].next = 0
      <4>1. m # 0
        BY <1>4, <1>5
      <4>2. m \notin In(c)
        BY <1>5, <1>7
      <4>3. m # f
        BY <1>6, <4>1, <4>2
      <4> QED BY <1>4, <4>3
    <3>2. In(b)' = In(b) \cup {m}
      BY <1>7, <2>2
    <3>3. \A j \in In(b)' : j <= m
      BY <1>4, <1>8, <3>2
    <3> QED BY <2>2, <3>1, <3>3 DEF Follows
  <2>3. CASE b = c /\ i # m /\ i = f
    <3>1. In(b)' = In(b) \cup {m} /\ i \in In(b)
      BY <1>7, <2>3
    <3>2. i < m /\ i \in Nat /\ f # 0 /\ node'[i].next = m
      <4>1. i < m /\ i \in Nat /\ i \in 1..m
        BY <1>7, <1>8, <3>1
      <4>2. f # 0
        BY <1>4, <2>3, <4>1
      <4> QED BY <1>4, <2>3, <4>1, <4>2
    <3>3. \A j \in In(b)' : i < j => m <= j
      <4>1. \A j \in In(b) : j <= f /\ j \in Nat
        BY <1>6, <1>8, <2>3, <3>2
      <4> QED BY <1>4, <2>3, <3>1, <3>2, <4>1
    <3> QED BY <1>4, <3>1, <3>2, <3>3 DEF Follows
  <2>4. CASE b = c /\ i # m /\ i # f
    <3>1. In(b)' = In(b) \cup {m} /\ i \in In(b)
      BY <1>7, <2>4
    <3>2. i < m /\ i \in Nat /\ node'[i].next = node[i].next /\ node[i].next \in 0..m
      BY <1>0, <1>1, <1>4, <1>5, <1>7, <1>8, <2>4, <3>1, Lens
    <3>3. Follows(i, node[i].next, In(b))
      BY <1>0, <3>1 DEF Nexts
    <3>4. f # 0 /\ f \in In(b) /\ i <= f
      BY <1>6, <2>4, <3>1
    <3>5. f \in Nat /\ f < m
      BY <1>8, <3>4
    <3>6. i < f
      BY <2>4, <3>2, <3>4, <3>5
    <3>7. node[i].next # 0
      BY <3>2, <3>3, <3>4, <3>5, <3>6 DEF Follows
    <3>8. node[i].next \in In(b) /\ i < node[i].next /\ \A j \in In(b) : i < j => node[i].next <= j
      BY <3>3, <3>7 DEF Follows
    <3>9. node[i].next <= m
      BY <1>4, <1>8, <3>8
    <3> QED BY <3>1, <3>2, <3>7, <3>8, <3>9 DEF Follows
  <2> QED BY <2>1, <2>2, <2>3, <2>4
<1>12. Fronts'
  <2>1. \A u \in Thread : pc'[u] # "link"
    <3>1. lock' = None
      BY DEF SetLink
    <3> QED BY <1>0, <3>1, Nobody DEF Locks
  <2> QED BY <2>1 DEF Fronts
<1> QED BY <1>1, <1>2, <1>7, <1>9, <1>10, <1>11, <1>12 DEF ChainInv

(* A step that leaves the table alone leaves the chains. *)
LEMMA ChainFrame ==
    ASSUME BaseInv, ChainInv, NEW t \in Thread, Others(t), UNCHANGED <<first, node, lock>>,
           pc'[t] # "link"
    PROVE  ChainInv' /\ \A b \in Buckets : In(b)' = In(b)
<1>1. ASSUME NEW b PROVE In(b)' = In(b)
  BY DEF In, Pend
<1>2. Keys' /\ Firsts'
  BY <1>1 DEF ChainInv, Keys, Firsts
<1>3. Nexts'
  BY <1>1 DEF ChainInv, Nexts, Follows
<1>4. Fronts'
  <2>1. \A u \in Thread : pc'[u] = "link" =>
            u # t /\ pc[u] = "link" /\ front'[u] = front[u] /\ Want(u)' = Want(u)
    BY DEF Others, Want
  <2> QED BY <1>1, <2>1 DEF ChainInv, Fronts
<1> QED BY <1>1, <1>2, <1>3, <1>4 DEF ChainInv
-----------------------------------------------------------------------------
(* The walkers.  Linking disturbs none, since it only adds behind the last *)
(* node.                                                                   *)
LEMMA WalkFrame ==
    ASSUME WalkInv, NEW t \in Thread, Others(t), ~Walking(t)',
           \A b \in Buckets : In(b) \subseteq In(b)',
           \A i \in DOMAIN node : node'[i].key = node[i].key
    PROVE  WalkInv'
<1> SUFFICES ASSUME NEW u \in Thread, NEW b \in Buckets, Walking(u)', b = Bucket[Want(u)']
             PROVE  /\ ptr'[u] # 0 => ptr'[u] \in In(b)'
                    /\ known'[u] # 0 =>
                          ptr'[u] # 0 /\ \E k \in In(b)' : node'[k].key = Want(u)' /\ ptr'[u] <= k
  BY DEF WalkInv
<1>1. u # t
  OBVIOUS
<1>2. /\ pc'[u] = pc[u] /\ ptr'[u] = ptr[u] /\ known'[u] = known[u] /\ Want(u)' = Want(u)
  BY <1>1 DEF Others, Want
<1>3. Walking(u) /\ b = Bucket[Want(u)]
  BY <1>2 DEF Walking
<1>4. /\ ptr[u] # 0 => ptr[u] \in In(b)
      /\ known[u] # 0 => ptr[u] # 0 /\ \E k \in In(b) : node[k].key = Want(u) /\ ptr[u] <= k
  BY <1>3 DEF WalkInv
<1>5. \A k \in In(b) : k \in In(b)' /\ node'[k].key = node[k].key
  BY DEF In
<1> HIDE DEF In
<1> QED BY <1>2, <1>4, <1>5

(* A look into the bucket, or at the next node. *)
LEMMA WalkStep ==
    ASSUME BaseInv, ChainInv, WalkInv, NEW t \in Thread, Get(t) \/ Walk(t)
    PROVE  BaseInv' /\ ChainInv' /\ WalkInv'
<1>0. TypeOK /\ Stacks /\ Locks /\ Keys /\ Firsts /\ Nexts
  BY DEF BaseInv, ChainInv
<1>1. pc[t] # "idle" /\ (pc[t] = "idle" \/ Want(t) \in Name)
  BY <1>0, Wanted DEF Get, Walk
<1>2. Want(t) \in Name /\ Bucket[Want(t)] \in Buckets
  BY <1>0, <1>1, Wanted
<1>3. Value(Want(t)) \in 0..Len(obj)
  BY <1>0, <1>2, ValueIs
<1>4. /\ BaseInv' /\ Others(t) /\ UNCHANGED <<setup, first, node, obj, lock, flock, stk, new, pnt, handed>>
      /\ Walking(t)'
  BY <1>3, WalkBase
<1>5. ChainInv' /\ \A b \in Buckets : In(b)' = In(b)
  <2>1. pc'[t] # "link"
    BY <1>4 DEF Walking
  <2> QED BY <1>4, <2>1, ChainFrame
<1>6. PICK c \in Buckets : c = Bucket[Want(t)]
  BY <1>2
<1>7. Len(node) \in Nat /\ In(c) \subseteq 1..Len(node)
  BY <1>0, Lens DEF In
<1>8. /\ ptr'[t] # 0 => ptr'[t] \in In(c)
      /\ known'[t] # 0 => ptr'[t] # 0 /\ \E k \in In(c) : node[k].key = Want(t) /\ ptr'[t] <= k
  <2>1. CASE Get(t)
    <3>1. ptr'[t] = first[c] /\ known'[t] = Value(Want(t))
      BY <1>0, <1>6, <2>1 DEF Get, TypeOK
    <3>2. /\ first[c] = 0 => In(c) = {}
          /\ first[c] # 0 => first[c] \in In(c) /\ \A j \in In(c) : first[c] <= j
      BY <1>0 DEF Firsts
    <3>3. ASSUME Value(Want(t)) # 0 PROVE \E k \in In(c) : node[k].key = Want(t)
      <4>1. Reg(Want(t), Value(Want(t)))
        BY <1>0, <1>2, <3>3, ValueIs
      <4> QED BY <1>6, <4>1 DEF Reg, In
    <3> HIDE DEF In
    <3> QED BY <3>1, <3>2, <3>3
  <2>2. CASE Walk(t)
    <3>1. /\ Walking(t) /\ ptr[t] # 0 /\ node[ptr[t]].key # Want(t)
          /\ ptr'[t] = node[ptr[t]].next /\ known'[t] = known[t]
      BY <1>0, <2>2 DEF Walk, Walking, TypeOK
    <3>2. PICK p : p = ptr[t]
      OBVIOUS
    <3>3. p \in In(c) /\ (known[t] # 0 => \E k \in In(c) : node[k].key = Want(t) /\ p <= k)
      BY <1>6, <3>1, <3>2 DEF WalkInv
    <3>4. Follows(p, node[p].next, In(c))
      BY <1>0, <3>3 DEF Nexts
    <3>5. ASSUME NEW k \in In(c), node[k].key = Want(t), p <= k
          PROVE  node[p].next # 0 /\ node[p].next <= k
      <4>1. p # k
        BY <3>1, <3>2, <3>5
      <4>2. p \in Nat /\ k \in Nat /\ p < k
        BY <1>7, <3>3, <3>5, <4>1
      <4>3. node[p].next # 0
        BY <3>4, <4>2 DEF Follows
      <4> QED BY <3>4, <4>2, <4>3 DEF Follows
    <3>6. node[p].next # 0 => node[p].next \in In(c)
      BY <3>4 DEF Follows
    <3> HIDE DEF In
    <3> QED BY <3>1, <3>2, <3>3, <3>5, <3>6
  <2> QED BY <2>1, <2>2
<1>9. WalkInv'
  <2> SUFFICES ASSUME NEW u \in Thread, NEW b \in Buckets, Walking(u)', b = Bucket[Want(u)']
               PROVE  /\ ptr'[u] # 0 => ptr'[u] \in In(b)'
                      /\ known'[u] # 0 =>
                            ptr'[u] # 0 /\ \E k \in In(b)' : node'[k].key = Want(u)' /\ ptr'[u] <= k
    BY DEF WalkInv
  <2>1. Want(u)' = Want(u) /\ In(b)' = In(b) /\ node' = node
    BY <1>4, <1>5 DEF Want
  <2>2. CASE u = t
    BY <1>6, <1>8, <2>1, <2>2
  <2>3. CASE u # t
    <3>1. pc'[u] = pc[u] /\ ptr'[u] = ptr[u] /\ known'[u] = known[u]
      BY <1>4, <2>3 DEF Others
    <3>2. Walking(u) /\ b = Bucket[Want(u)]
      BY <2>1, <3>1 DEF Walking
    <3> QED BY <2>1, <3>1, <3>2 DEF WalkInv
  <2> QED BY <2>2, <2>3
<1> QED BY <1>4, <1>5, <1>9
-----------------------------------------------------------------------------
(* The objects. *)

(* What is registered is a node's value. *)
LEMMA RegValue ==
    \A n, o : Reg(n, o) => Registered(o) /\ \E i \in DOMAIN node : node[i].key = n /\ node[i].value = o
BY DEF Reg, Registered

(* The table unchanged. *)
LEMMA RegFrame ==
    ASSUME UNCHANGED <<node, lock>>
    PROVE  /\ \A n, o : Reg(n, o)' <=> Reg(n, o)
           /\ \A o : Registered(o)' <=> Registered(o)
BY DEF Reg, Registered, Pend

(* While a thread looks for an appender under the factory's lock, the node *)
(* being added is not the one it looks for.                                *)
LEMMA OtherAppender ==
    ASSUME BaseInv, NEW t \in Thread, pc[t] # "idle", Want(t) \in Appender,
           NEW u \in Thread, u # t, pc[u] # "idle"
    PROVE  Want(u) # Want(t)
<1>0. TypeOK /\ Stacks
  BY DEF BaseInv
<1>1. \A r \in Thread : pc[r] # "idle" /\ Want(r) \in Appender => flock = r
  <2> SUFFICES ASSUME NEW r \in Thread, pc[r] # "idle", Want(r) \in Appender PROVE flock = r
    OBVIOUS
  <2>1. Want(r) \notin Category
    OBVIOUS
  <2>2. stk[r][1] = Want(r)
    BY <1>0, <2>1, Alone
  <2> QED BY <1>0, <2>2 DEF Stacks
<1> QED BY <1>1

(* A name that get() does not find and nobody else can be adding.          *)
LEMMA NotThere ==
    ASSUME BaseInv, Keys, Firsts, Nexts, NEW t \in Thread, pc[t] \notin {"idle", "link"},
           Want(t) \in Appender, Value(Want(t)) = 0
    PROVE  Absent(Want(t))
<1>0. TypeOK /\ Stacks /\ Locks
  BY DEF BaseInv
<1>1. Want(t) \in Name
  BY DEF Name
<1> SUFFICES ASSUME NEW i \in DOMAIN node, node[i].key = Want(t) PROVE FALSE
  BY DEF Absent
<1>2. i \in Pend
  <2>1. i \notin Pend => Reg(Want(t), node[i].value)
    BY DEF Reg
  <2> QED BY <1>0, <1>1, <2>1, ValueIs
<1>3. lock # None /\ i = Len(node)
  BY <1>2 DEF Pend
<1>4. lock \in Thread /\ pc[lock] = "link"
  BY <1>0, <1>3 DEF TypeOK, Locks
<1>5. node[i].key = Want(lock)
  BY <1>0, <1>3, <1>4 DEF Locks
<1>6. lock # t /\ pc[lock] # "idle"
  BY <1>4
<1>7. Want(lock) # Want(t)
  BY <1>4, <1>6, OtherAppender
<1> QED BY <1>5, <1>7

(* Deleting one's own object, if anything, leaves the others' and those in  *)
(* the registry alone.                                                     *)
LEMMA Spared ==
    ASSUME TypeOK, Private, Shared, NEW t \in Thread,
           obj' = obj \/ (pc[t] = "set" /\ new[t] \in DOMAIN obj /\ Killed(new[t]))
    PROVE  /\ \A i \in DOMAIN node : node[i].value \in DOMAIN obj
           /\ \A x \in handed : x[2] \in DOMAIN obj
           /\ \A u \in Thread : new[u] # 0 => new[u] \in DOMAIN obj
           /\ DOMAIN obj' = DOMAIN obj
           /\ \A i \in DOMAIN obj : obj'[i].father = obj[i].father
           /\ \A i \in DOMAIN node : obj'[node[i].value].live
           /\ \A x \in handed : obj'[x[2]].live
           /\ \A u \in Thread : u # t /\ pc[u] = "set" => obj'[new[u]].live
<1>3. /\ \A i \in DOMAIN node : node[i].value \in DOMAIN obj
      /\ \A x \in handed : x[2] \in DOMAIN obj
      /\ \A u \in Thread : new[u] # 0 => new[u] \in DOMAIN obj
      /\ DOMAIN obj' = DOMAIN obj
  <2>1. Len(obj) \in Nat /\ DOMAIN obj = 1..Len(obj) /\ \A i \in DOMAIN node : node[i].value \in 1..Len(obj)
    BY Lens
  <2>2. \A x \in handed : x[2] \in 1..Len(obj)
    BY DEF TypeOK
  <2>3. \A u \in Thread : new[u] \in 0..Len(obj)
    BY DEF TypeOK
  <2>4. \A u \in Thread : new[u] # 0 => new[u] \in 1..Len(obj)
    BY <2>1, <2>3
  <2>5. DOMAIN obj' = DOMAIN obj
    BY <2>1 DEF Killed
  <2> QED BY <2>1, <2>2, <2>4, <2>5
<1>4. \A i \in DOMAIN obj : obj'[i].father = obj[i].father
  BY DEF Killed
<1>5. /\ \A i \in DOMAIN node : obj'[node[i].value].live
      /\ \A x \in handed : obj'[x[2]].live
      /\ \A u \in Thread : u # t /\ pc[u] = "set" => obj'[new[u]].live
  <2>1. CASE obj' = obj
    BY <2>1 DEF Private, Shared
  <2>2. CASE pc[t] = "set" /\ Killed(new[t])
    <3>1. /\ \A i \in DOMAIN node : node[i].value # new[t]
          /\ \A x \in handed : x[2] # new[t]
          /\ \A u \in Thread : u # t /\ pc[u] = "set" => new[u] # new[t] /\ new[u] # 0
      BY <2>2 DEF Private
    <3>2. \A i \in DOMAIN obj : i # new[t] => obj'[i].live = obj[i].live
      BY <2>2 DEF Killed
    <3>3. /\ \A i \in DOMAIN node : obj[node[i].value].live
          /\ \A x \in handed : obj[x[2]].live
          /\ \A u \in Thread : u # t /\ pc[u] = "set" => obj[new[u]].live
      BY DEF Private, Shared
    <3> QED BY <1>3, <3>1, <3>2, <3>3
  <2> QED BY <2>1, <2>2
<1> QED BY <1>3, <1>4, <1>5

(* The end of a frame with an object that is registered, or with one that  *)
(* had no room there, or without one.                                      *)
LEMMA ReturnObj ==
    ASSUME BaseInv, ObjInv, NEW t \in Thread, pc[t] # "idle", NEW o \in 0..Len(obj), Return(t, o),
           setup' = setup,
           \A n, x : Reg(n, x) => Reg(n, x)',
           DOMAIN node' = DOMAIN node,
           \A i \in DOMAIN node : node'[i].key = node[i].key /\ node'[i].value = node[i].value,
           NEW w, w = Want(t), o # 0 => Reg(w, o)' \/ (w \in Appender /\ setup.oom),
           o # 0 => obj[o].live /\ \A u \in Thread : pc[u] = "set" /\ u # t => new[u] # o,
           obj' = obj \/ (pc[t] = "set" /\ new[t] \in DOMAIN obj /\ Killed(new[t]) /\ o = 0)
    PROVE  ObjInv'
<1>0. TypeOK /\ Stacks /\ Private /\ Shared /\ Tree /\ Factory
  BY DEF BaseInv, ObjInv
<1>1. /\ Others(t) /\ pc'[t] \in {"idle", "new"}
      /\ pc'[t] = "idle" => pnt'[t] = 0
      /\ pc'[t] = "new" => /\ o # 0 /\ pnt'[t] = o /\ Want(t) \in Category
                           /\ Want(t)' \in Category /\ Father[Want(t)'] = Want(t)
      /\ handed' = handed \/ (o # 0 /\ handed' = handed \cup {<<Want(t), o>>})
  BY <1>0, Returns
<1>2. \A u \in Thread : u # t => /\ pc'[u] = pc[u] /\ new'[u] = new[u] /\ pnt'[u] = pnt[u]
                                 /\ known'[u] = known[u] /\ Want(u)' = Want(u)
  BY <1>1 DEF Others, Want
<1>3. /\ \A i \in DOMAIN node : node[i].value \in DOMAIN obj
      /\ \A x \in handed : x[2] \in DOMAIN obj
      /\ \A u \in Thread : new[u] # 0 => new[u] \in DOMAIN obj
      /\ DOMAIN obj' = DOMAIN obj
  BY <1>0, Spared
<1>4. \A i \in DOMAIN obj : obj'[i].father = obj[i].father
  BY <1>0, Spared
<1>5. /\ \A i \in DOMAIN node : obj'[node[i].value].live
      /\ \A x \in handed : obj'[x[2]].live
      /\ \A u \in Thread : u # t /\ pc[u] = "set" => obj'[new[u]].live
  BY <1>0, Spared
<1>6. \A x : Registered(x) => Registered(x)'
  <2> SUFFICES ASSUME NEW x, Registered(x) PROVE Registered(x)'
    OBVIOUS
  <2>1. PICK i \in DOMAIN node \ Pend : node[i].value = x
    BY DEF Registered
  <2>2. Reg(node[i].key, x)
    BY <2>1 DEF Reg
  <2>3. PICK n : n = node[i].key
    OBVIOUS
  <2>4. Reg(n, x)'
    BY <2>2, <2>3
  <2> QED BY <2>4 DEF Reg, Registered
<1>7. \A u \in Thread : pc'[u] = "set" => u # t /\ pc[u] = "set" /\ new'[u] = new[u]
  BY <1>1, <1>2
<1>8. Private'
  <2>1. \A u \in Thread : pc'[u] = "set" => new'[u] # 0 /\ obj'[new'[u]].live
    BY <1>0, <1>5, <1>7 DEF Private
  <2>2. \A u \in Thread : pc'[u] = "set" => \A i \in DOMAIN node' : node'[i].value # new'[u]
    BY <1>0, <1>7 DEF Private
  <2>3. \A u \in Thread : pc'[u] = "set" => \A x \in handed' : x[2] # new'[u]
    BY <1>0, <1>1, <1>7 DEF Private
  <2>4. \A u, r \in Thread : pc'[u] = "set" /\ pc'[r] = "set" /\ r # u => new'[r] # new'[u]
    BY <1>0, <1>7 DEF Private
  <2> QED BY <2>1, <2>2, <2>3, <2>4 DEF Private
<1>9. Shared'
  <2>1. \A i \in DOMAIN node' : obj'[node'[i].value].live
    BY <1>5
  <2>2. \A i, j \in DOMAIN node' : node'[i].value = node'[j].value => i = j
    BY <1>0 DEF Shared
  <2>3. \A i \in DOMAIN obj' : obj'[i].father # 0 => Registered(obj[i].father)'
    <3> SUFFICES ASSUME NEW i \in DOMAIN obj', obj'[i].father # 0 PROVE Registered(obj[i].father)'
      OBVIOUS
    <3>1. PICK f : f = obj[i].father
      OBVIOUS
    <3>2. i \in DOMAIN obj /\ obj'[i].father = f
      BY <1>3, <1>4, <3>1
    <3>3. Registered(f)'
      BY <1>0, <1>6, <3>1, <3>2 DEF Shared
    <3> QED BY <3>2, <3>3 DEF Registered
  <2>4. \A u \in Thread : pnt'[u] # 0 => Registered(pnt[u])'
    <3> SUFFICES ASSUME NEW u \in Thread, pnt'[u] # 0 PROVE Registered(pnt[u])'
      OBVIOUS
    <3>1. PICK f : f = pnt'[u]
      OBVIOUS
    <3>2. CASE u # t
      <4>1. pnt[u] = f /\ f # 0
        BY <1>2, <3>1, <3>2
      <4>2. Registered(f)'
        BY <1>0, <1>6, <4>1 DEF Shared
      <4> QED BY <3>1, <4>2 DEF Registered
    <3>3. CASE u = t
      <4>1. pc'[t] = "new" /\ f = o /\ o # 0 /\ Want(t) \in Category
        BY <1>1, <3>1, <3>3
      <4>2. Reg(w, o)'
        BY <4>1
      <4>3. Registered(f)'
        BY <4>1, <4>2 DEF Reg, Registered
      <4> QED BY <3>1, <4>3 DEF Registered
    <3> QED BY <3>2, <3>3
  <2>5. \A x \in handed' : obj'[x[2]].live /\ (Reg(x[1], x[2])' \/ (x[1] \in Appender /\ setup'.oom))
    <3>1. \A x \in handed : obj'[x[2]].live /\ (Reg(x[1], x[2])' \/ (x[1] \in Appender /\ setup'.oom))
      BY <1>0, <1>5 DEF Shared
    <3>2. o # 0 => obj'[o].live
      <4>1. o # 0 => obj' = obj
        OBVIOUS
      <4> QED BY <4>1
    <3>4. o # 0 => Reg(w, o)' \/ (w \in Appender /\ setup'.oom)
      OBVIOUS
    <3>5. PICK y : y = <<w, o>>
      OBVIOUS
    <3>6. y[1] = w /\ y[2] = o
      BY <3>5
    <3>7. handed' = handed \/ (o # 0 /\ handed' = handed \cup {y})
      BY <1>1, <3>5
    <3> QED BY <3>1, <3>2, <3>4, <3>6, <3>7
  <2> QED BY <2>1, <2>2, <2>3, <2>4, <2>5 DEF Shared
<1>10. ASSUME NEW n, NEW f, Fathered(n, f) PROVE Fathered(n, f)'
  BY <1>10 DEF Fathered
<1>11. Tree'
  <2>1. \A i \in DOMAIN node' : Fathered(node[i].key, obj[node[i].value].father)'
    <3> SUFFICES ASSUME NEW i \in DOMAIN node PROVE Fathered(node[i].key, obj[node[i].value].father)'
      OBVIOUS
    <3>1. PICK n : n = node[i].key
      OBVIOUS
    <3>2. PICK f : f = obj[node[i].value].father
      OBVIOUS
    <3>3. Fathered(n, f)'
      BY <1>0, <1>10, <3>1, <3>2 DEF Tree
    <3>4. node'[i].key = n /\ obj'[node'[i].value].father = f
      BY <1>3, <1>4, <3>1, <3>2
    <3> QED BY <3>3, <3>4 DEF Fathered, Reg
  <2>2. \A u \in Thread : u # t =>
          /\ pc'[u] \in {"idle", "get", "walk"} => pnt'[u] = 0
          /\ pc'[u] = "new" => Fathered(Want(u), pnt[u])'
          /\ pc'[u] = "set" => Fathered(Want(u), obj[new[u]].father)'
    <3> SUFFICES ASSUME NEW u \in Thread, u # t
                 PROVE  /\ pc'[u] \in {"idle", "get", "walk"} => pnt'[u] = 0
                        /\ pc'[u] = "new" => Fathered(Want(u), pnt[u])'
                        /\ pc'[u] = "set" => Fathered(Want(u), obj[new[u]].father)'
      OBVIOUS
    <3>1. /\ pc'[u] = pc[u] /\ new'[u] = new[u] /\ pnt'[u] = pnt[u] /\ Want(u)' = Want(u)
      BY <1>2
    <3>2. PICK n : n = Want(u)
      OBVIOUS
    <3>3. PICK f : f = pnt[u]
      OBVIOUS
    <3>4. PICK g : g = obj[new[u]].father
      OBVIOUS
    <3>5. pc[u] = "new" => Fathered(n, f)'
      BY <1>0, <1>10, <3>2, <3>3 DEF Tree
    <3>6. pc[u] = "set" => Fathered(n, g)' /\ obj'[new[u]].father = g
      <4>1. pc[u] = "set" => Fathered(n, g) /\ new[u] # 0
        BY <1>0, <3>2, <3>4 DEF Tree, Private
      <4> QED BY <1>3, <1>4, <1>10, <3>4, <4>1
    <3>7. pc'[u] \in {"idle", "get", "walk"} => pnt'[u] = 0
      BY <1>0, <3>1 DEF Tree
    <3> QED BY <3>1, <3>2, <3>3, <3>5, <3>6, <3>7 DEF Fathered, Reg
  <2>3. pc'[t] = "new" => Fathered(Want(t), pnt[t])'
    <3> SUFFICES ASSUME pc'[t] = "new" PROVE Fathered(Want(t), pnt[t])'
      OBVIOUS
    <3>2. Reg(w, o)' /\ pnt'[t] = o /\ Father[Want(t)'] = w /\ w \in Category /\ Want(t)' \in Category
      BY <1>1
    <3>3. w # Root
      BY <3>2 DEF Name
    <3>4. PICK v : v = Want(t)'
      OBVIOUS
    <3>5. Fathered(v, o)'
      BY <3>2, <3>3, <3>4 DEF Fathered
    <3> QED BY <3>2, <3>4, <3>5 DEF Fathered, Reg
  <2> QED BY <1>1, <2>1, <2>2, <2>3 DEF Tree
<1>12. Factory'
  <2> SUFFICES ASSUME NEW u \in Thread, pc'[u] # "idle", Want(u)' \in Appender
               PROVE  /\ Walking(u)' /\ known'[u] = 0 => Absent(Want(u))'
                      /\ pc'[u] \in {"new", "set"} => Absent(Want(u))'
                      /\ pc'[u] \notin {"reget", "rewalk"}
    BY DEF Factory
  <2>1. u # t
    BY <1>1
  <2>2. pc'[u] = pc[u] /\ known'[u] = known[u] /\ Want(u)' = Want(u)
    BY <1>2, <2>1
  <2>3. PICK v : v = Want(u)
    OBVIOUS
  <2>4. /\ Walking(u) /\ known[u] = 0 => Absent(v)
        /\ pc[u] \in {"new", "set"} => Absent(v)
        /\ pc[u] \notin {"reget", "rewalk"}
    BY <1>0, <2>2, <2>3 DEF Factory
  <2>5. Absent(v) => Absent(v)'
    BY DEF Absent
  <2>6. Walking(u)' = Walking(u)
    BY <2>2 DEF Walking
  <2>7. Absent(v)' => Absent(Want(u))'
    BY <2>2, <2>3 DEF Absent
  <2> QED BY <2>2, <2>4, <2>5, <2>6, <2>7
<1> QED BY <1>8, <1>9, <1>11, <1>12 DEF ObjInv

(* A step that returns nothing and creates nothing: at most it deletes the *)
(* object that set() refused.                                              *)
LEMMA StillObj ==
    ASSUME BaseInv, ObjInv, NEW t \in Thread, Others(t),
           UNCHANGED <<setup, node, lock, handed, pnt, new>>,
           \/ obj' = obj /\ (pc'[t] = "set" => pc[t] = "set")
           \/ pc[t] = "set" /\ new[t] \in DOMAIN obj /\ Killed(new[t]) /\ pc'[t] # "set",
           NEW w, w = Want(t)',
           pc'[t] \in {"idle", "get", "walk"} => pnt[t] = 0,
           pc'[t] = "new" => Fathered(w, pnt[t]),
           pc'[t] = "set" => Fathered(w, obj[new[t]].father),
           pc'[t] # "idle" /\ w \in Appender =>
              /\ Walking(t)' /\ known'[t] = 0 => Absent(w)
              /\ pc'[t] \in {"new", "set"} => Absent(w)
              /\ pc'[t] \notin {"reget", "rewalk"}
    PROVE  ObjInv'
<1>0. TypeOK /\ Stacks /\ Private /\ Shared /\ Tree /\ Factory
  BY DEF BaseInv, ObjInv
<1>2. \A u \in Thread : u # t => /\ pc'[u] = pc[u] /\ known'[u] = known[u] /\ Want(u)' = Want(u)
  BY DEF Others, Want
<1>3. /\ \A i \in DOMAIN node : node[i].value \in DOMAIN obj
      /\ \A x \in handed : x[2] \in DOMAIN obj
      /\ \A u \in Thread : new[u] # 0 => new[u] \in DOMAIN obj
      /\ DOMAIN obj' = DOMAIN obj
      /\ \A i \in DOMAIN obj : obj'[i].father = obj[i].father
  BY <1>0, Spared
<1>4. /\ \A i \in DOMAIN node : obj'[node[i].value].live
      /\ \A x \in handed : obj'[x[2]].live
      /\ \A u \in Thread : u # t /\ pc[u] = "set" => obj'[new[u]].live
  BY <1>0, Spared
<1>5. /\ \A n, o : Reg(n, o)' <=> Reg(n, o)
      /\ \A o : Registered(o)' <=> Registered(o)
  BY RegFrame
<1>6. \A u \in Thread : pc'[u] = "set" => pc[u] = "set" /\ obj'[new[u]].live
  <2>1. pc'[t] = "set" => pc[t] = "set" /\ obj' = obj
    OBVIOUS
  <2> QED BY <1>0, <1>2, <1>4, <2>1 DEF Private
<1>7. Private'
  BY <1>0, <1>6 DEF Private
<1>8. Shared'
  <2>1. \A i \in DOMAIN node' : obj'[node'[i].value].live
    BY <1>4
  <2>2. \A i, j \in DOMAIN node' : node'[i].value = node'[j].value => i = j
    BY <1>0 DEF Shared
  <2>3. \A i \in DOMAIN obj' : obj'[i].father # 0 => Registered(obj[i].father)'
    <3> SUFFICES ASSUME NEW i \in DOMAIN obj', obj'[i].father # 0 PROVE Registered(obj[i].father)'
      OBVIOUS
    <3>1. PICK f : f = obj[i].father
      OBVIOUS
    <3>2. i \in DOMAIN obj /\ obj'[i].father = f
      BY <1>3, <3>1
    <3>3. Registered(f)'
      BY <1>0, <1>5, <3>1, <3>2 DEF Shared
    <3> QED BY <3>2, <3>3 DEF Registered
  <2>4. \A u \in Thread : pnt'[u] # 0 => Registered(pnt[u])'
    <3> SUFFICES ASSUME NEW u \in Thread, pnt'[u] # 0 PROVE Registered(pnt[u])'
      OBVIOUS
    <3>1. PICK f : f = pnt[u]
      OBVIOUS
    <3>2. Registered(f)'
      BY <1>0, <1>5, <3>1 DEF Shared
    <3> QED BY <3>1, <3>2 DEF Registered
  <2>5. \A x \in handed' : obj'[x[2]].live /\ (Reg(x[1], x[2])' \/ (x[1] \in Appender /\ setup'.oom))
    BY <1>0, <1>4, <1>5 DEF Shared
  <2> QED BY <2>1, <2>2, <2>3, <2>4, <2>5 DEF Shared
<1>9. \A n, f : Fathered(n, f) => Fathered(n, f)'
  BY <1>5 DEF Fathered
<1>10. Tree'
  <2>1. \A i \in DOMAIN node' : Fathered(node[i].key, obj[node[i].value].father)'
    <3> SUFFICES ASSUME NEW i \in DOMAIN node PROVE Fathered(node[i].key, obj[node[i].value].father)'
      OBVIOUS
    <3>1. PICK n : n = node[i].key
      OBVIOUS
    <3>2. PICK f : f = obj[node[i].value].father
      OBVIOUS
    <3>3. Fathered(n, f)'
      BY <1>0, <1>9, <3>1, <3>2 DEF Tree
    <3>4. node'[i].key = n /\ obj'[node'[i].value].father = f
      BY <1>3, <3>1, <3>2
    <3> QED BY <3>3, <3>4 DEF Fathered, Reg
  <2>2. ASSUME NEW u \in Thread
        PROVE  /\ pc'[u] \in {"idle", "get", "walk"} => pnt'[u] = 0
               /\ pc'[u] = "new" => Fathered(Want(u), pnt[u])'
               /\ pc'[u] = "set" => Fathered(Want(u), obj[new[u]].father)'
    <3>1. PICK n : n = Want(u)'
      OBVIOUS
    <3>2. PICK f : f = pnt[u]
      OBVIOUS
    <3>3. PICK g : g = obj[new[u]].father
      OBVIOUS
    <3>4. /\ pc'[u] \in {"idle", "get", "walk"} => pnt[u] = 0
          /\ pc'[u] = "new" => Fathered(n, f)
          /\ pc'[u] = "set" => Fathered(n, g)
      <4>1. CASE u = t
        BY <3>1, <3>2, <3>3, <4>1
      <4>2. CASE u # t
        BY <1>0, <1>2, <3>1, <3>2, <3>3, <4>2 DEF Tree
      <4> QED BY <4>1, <4>2
    <3>5. pc'[u] = "set" => obj'[new'[u]].father = g
      <4>1. pc'[u] = "set" => new[u] # 0
        BY <1>0, <1>6 DEF Private
      <4> QED BY <1>3, <3>3, <4>1
    <3>6. /\ pc'[u] = "new" => Fathered(n, f)'
          /\ pc'[u] = "set" => Fathered(n, g)'
      BY <1>9, <3>4
    <3>7. pc'[u] = "new" => Fathered(Want(u), pnt[u])'
      BY <3>1, <3>2, <3>6 DEF Fathered, Reg
    <3>8. pc'[u] = "set" => Fathered(Want(u), obj[new[u]].father)'
      BY <3>1, <3>3, <3>5, <3>6 DEF Fathered, Reg
    <3> QED BY <3>4, <3>7, <3>8
  <2> QED BY <2>1, <2>2 DEF Tree
<1>11. Factory'
  <2> SUFFICES ASSUME NEW u \in Thread, pc'[u] # "idle", Want(u)' \in Appender
               PROVE  /\ Walking(u)' /\ known'[u] = 0 => Absent(Want(u))'
                      /\ pc'[u] \in {"new", "set"} => Absent(Want(u))'
                      /\ pc'[u] \notin {"reget", "rewalk"}
    BY DEF Factory
  <2>1. PICK v : v = Want(u)'
    OBVIOUS
  <2>2. /\ Walking(u)' /\ known'[u] = 0 => Absent(v)
        /\ pc'[u] \in {"new", "set"} => Absent(v)
        /\ pc'[u] \notin {"reget", "rewalk"}
    <3>1. CASE u = t
      BY <2>1, <3>1
    <3>2. CASE u # t
      <4>1. pc'[u] = pc[u] /\ known'[u] = known[u] /\ Want(u) = v /\ Walking(u)' = Walking(u)
        BY <1>2, <2>1, <3>2 DEF Walking
      <4> QED BY <1>0, <2>1, <4>1 DEF Factory
    <3> QED BY <3>1, <3>2
  <2>3. Absent(v) => Absent(Want(u))'
    BY <2>1 DEF Absent
  <2> QED BY <2>2, <2>3
<1> QED BY <1>7, <1>8, <1>10, <1>11 DEF ObjInv

(* A new object, known to its creator only. *)
LEMMA NewObj ==
    ASSUME BaseInv, ObjInv, NEW t \in Thread, New(t)
    PROVE  ObjInv'
<1>0. TypeOK /\ Stacks /\ Private /\ Shared /\ Tree /\ Factory
  BY DEF BaseInv, ObjInv
<1>1. PICK m : m = Len(obj) + 1
  OBVIOUS
<1>2. PICK w : w = Want(t)
  OBVIOUS
<1>3. /\ Others(t) /\ pc[t] = "new" /\ pc'[t] = "set"
      /\ UNCHANGED <<setup, node, lock, pnt, handed>> /\ Want(t)' = w
      /\ new'[t] = m /\ obj'[m] = [name |-> w, father |-> pnt[t], live |-> TRUE]
      /\ \A i \in DOMAIN obj : obj'[i] = obj[i]
      /\ DOMAIN obj' = DOMAIN obj \cup {m}
  BY <1>1, <1>2, NewBase
<1>4. /\ \A i \in DOMAIN node : node[i].value \in DOMAIN obj
      /\ \A x \in handed : x[2] \in DOMAIN obj
      /\ \A u \in Thread : new[u] # 0 => new[u] \in DOMAIN obj
      /\ m # 0 /\ m \notin DOMAIN obj
  <2>1. Len(obj) \in Nat /\ DOMAIN obj = 1..Len(obj) /\ \A i \in DOMAIN node : node[i].value \in 1..Len(obj)
    BY <1>0, Lens
  <2>2. \A x \in handed : x[2] \in 1..Len(obj)
    BY <1>0 DEF TypeOK
  <2>3. \A u \in Thread : new[u] \in 0..Len(obj)
    BY <1>0 DEF TypeOK
  <2>4. \A u \in Thread : new[u] # 0 => new[u] \in 1..Len(obj)
    BY <2>1, <2>3
  <2>5. m # 0 /\ m \notin 1..Len(obj)
    BY <1>1, <2>1
  <2> QED BY <2>1, <2>2, <2>4, <2>5
<1>5. \A u \in Thread : u # t => /\ pc'[u] = pc[u] /\ known'[u] = known[u] /\ new'[u] = new[u]
                                 /\ Want(u)' = Want(u)
  BY <1>3 DEF Others, Want
<1>6. /\ \A n, o : Reg(n, o)' <=> Reg(n, o)
      /\ \A o : Registered(o)' <=> Registered(o)
  BY <1>3, RegFrame
<1>7. obj'[m].father = pnt[t] /\ obj'[m].live
  BY <1>3
<1>8. Private'
  <2>1. \A u \in Thread : pc'[u] = "set" => new'[u] # 0 /\ obj'[new'[u]].live
    BY <1>0, <1>3, <1>4, <1>5, <1>7 DEF Private
  <2>2. \A u \in Thread : pc'[u] = "set" => \A i \in DOMAIN node' : node'[i].value # new'[u]
    BY <1>0, <1>3, <1>4, <1>5 DEF Private
  <2>3. \A u \in Thread : pc'[u] = "set" => \A x \in handed' : x[2] # new'[u]
    BY <1>0, <1>3, <1>4, <1>5 DEF Private
  <2>4. \A u \in Thread : u # t /\ pc[u] = "set" => new[u] # m
    BY <1>0, <1>4 DEF Private
  <2>5. \A u, r \in Thread : pc'[u] = "set" /\ pc'[r] = "set" /\ r # u => new'[r] # new'[u]
    BY <1>0, <1>3, <1>5, <2>4 DEF Private
  <2> QED BY <2>1, <2>2, <2>3, <2>5 DEF Private
<1>9. Shared'
  <2>1. \A i \in DOMAIN node' : obj'[node'[i].value].live
    BY <1>0, <1>3, <1>4 DEF Shared
  <2>2. \A i, j \in DOMAIN node' : node'[i].value = node'[j].value => i = j
    BY <1>0, <1>3 DEF Shared
  <2>3. \A i \in DOMAIN obj' : obj'[i].father # 0 => Registered(obj[i].father)'
    <3> SUFFICES ASSUME NEW i \in DOMAIN obj', obj'[i].father # 0 PROVE Registered(obj[i].father)'
      OBVIOUS
    <3>1. PICK f : f = obj'[i].father
      OBVIOUS
    <3>2. Registered(f)'
      <4>1. CASE i = m
        BY <1>0, <1>6, <1>7, <3>1, <4>1 DEF Shared
      <4>2. CASE i \in DOMAIN obj
        BY <1>0, <1>3, <1>6, <3>1, <4>2 DEF Shared
      <4> QED BY <1>3, <4>1, <4>2
    <3> QED BY <3>1, <3>2 DEF Registered
  <2>4. \A u \in Thread : pnt'[u] # 0 => Registered(pnt[u])'
    <3> SUFFICES ASSUME NEW u \in Thread, pnt'[u] # 0 PROVE Registered(pnt[u])'
      OBVIOUS
    <3>1. PICK f : f = pnt[u]
      OBVIOUS
    <3>2. Registered(f)'
      BY <1>0, <1>3, <1>6, <3>1 DEF Shared
    <3> QED BY <1>3, <3>1, <3>2 DEF Registered
  <2>5. \A x \in handed' : obj'[x[2]].live /\ (Reg(x[1], x[2])' \/ (x[1] \in Appender /\ setup'.oom))
    BY <1>0, <1>3, <1>4, <1>6 DEF Shared
  <2> QED BY <2>1, <2>2, <2>3, <2>4, <2>5 DEF Shared
<1>10. \A n, f : Fathered(n, f) => Fathered(n, f)'
  BY <1>6 DEF Fathered
<1>11. Tree'
  <2>1. \A i \in DOMAIN node' : Fathered(node[i].key, obj[node[i].value].father)'
    <3> SUFFICES ASSUME NEW i \in DOMAIN node PROVE Fathered(node[i].key, obj[node[i].value].father)'
      BY <1>3
    <3>1. PICK n : n = node[i].key
      OBVIOUS
    <3>2. PICK f : f = obj[node[i].value].father
      OBVIOUS
    <3>3. Fathered(n, f)'
      BY <1>0, <1>10, <3>1, <3>2 DEF Tree
    <3>4. node'[i].key = n /\ obj'[node'[i].value].father = f
      BY <1>3, <1>4, <3>1, <3>2
    <3> QED BY <3>3, <3>4 DEF Fathered, Reg
  <2>2. ASSUME NEW u \in Thread, u # t
        PROVE  /\ pc'[u] \in {"idle", "get", "walk"} => pnt'[u] = 0
               /\ pc'[u] = "new" => Fathered(Want(u), pnt[u])'
               /\ pc'[u] = "set" => Fathered(Want(u), obj[new[u]].father)'
    <3>1. PICK n : n = Want(u)
      OBVIOUS
    <3>2. PICK f : f = pnt[u]
      OBVIOUS
    <3>3. PICK g : g = obj[new[u]].father
      OBVIOUS
    <3>4. /\ pc'[u] \in {"idle", "get", "walk"} => pnt[u] = 0
          /\ pc'[u] = "new" => Fathered(n, f)
          /\ pc'[u] = "set" => Fathered(n, g)
      BY <1>0, <1>5, <2>2, <3>1, <3>2, <3>3 DEF Tree
    <3>5. pc'[u] = "set" => obj'[new'[u]].father = g
      <4>1. pc'[u] = "set" => new[u] \in DOMAIN obj /\ new'[u] = new[u]
        BY <1>0, <1>4, <1>5, <2>2 DEF Private
      <4> QED BY <1>3, <3>3, <4>1
    <3>6. /\ pc'[u] = "new" => Fathered(n, f)'
          /\ pc'[u] = "set" => Fathered(n, g)'
      BY <1>10, <3>4
    <3>7. Want(u)' = n /\ pnt'[u] = f
      BY <1>3, <1>5, <2>2, <3>1, <3>2
    <3>8. pc'[u] = "new" => Fathered(Want(u), pnt[u])'
      BY <3>6, <3>7 DEF Fathered, Reg
    <3>9. pc'[u] = "set" => Fathered(Want(u), obj[new[u]].father)'
      BY <3>5, <3>6, <3>7 DEF Fathered, Reg
    <3>10. pnt'[u] = pnt[u]
      BY <1>3
    <3> QED BY <3>4, <3>8, <3>9, <3>10
  <2>3. Fathered(Want(t), obj[new[t]].father)'
    <3>1. PICK f : f = pnt[t]
      OBVIOUS
    <3>2. Fathered(w, f)
      BY <1>0, <1>2, <1>3, <3>1 DEF Tree
    <3>3. Fathered(w, f)'
      BY <1>10, <3>2
    <3>4. Want(t)' = w /\ obj'[new'[t]].father = f
      BY <1>3, <1>7, <3>1
    <3> QED BY <3>3, <3>4 DEF Fathered, Reg
  <2> QED BY <1>3, <2>1, <2>2, <2>3 DEF Tree
<1>12. Factory'
  <2> SUFFICES ASSUME NEW u \in Thread, pc'[u] # "idle", Want(u)' \in Appender
               PROVE  /\ Walking(u)' /\ known'[u] = 0 => Absent(Want(u))'
                      /\ pc'[u] \in {"new", "set"} => Absent(Want(u))'
                      /\ pc'[u] \notin {"reget", "rewalk"}
    BY DEF Factory
  <2>1. PICK v : v = Want(u)'
    OBVIOUS
  <2>2. /\ Walking(u)' /\ known'[u] = 0 => Absent(v)
        /\ pc'[u] \in {"new", "set"} => Absent(v)
        /\ pc'[u] \notin {"reget", "rewalk"}
    <3>1. CASE u = t
      <4>1. Want(t) = v /\ ~Walking(t)'
        BY <1>2, <1>3, <2>1, <3>1 DEF Walking
      <4> QED BY <1>0, <1>3, <2>1, <3>1, <4>1 DEF Factory
    <3>2. CASE u # t
      <4>1. pc'[u] = pc[u] /\ known'[u] = known[u] /\ Want(u) = v /\ Walking(u)' = Walking(u)
        BY <1>5, <2>1, <3>2 DEF Walking
      <4> QED BY <1>0, <2>1, <4>1 DEF Factory
    <3> QED BY <3>1, <3>2
  <2>3. Absent(v) => Absent(Want(u))'
    BY <1>3, <2>1 DEF Absent
  <2> QED BY <2>2, <2>3
<1> QED BY <1>8, <1>9, <1>11, <1>12 DEF ObjInv

(* The object of the thread that set() serves goes into the table. *)
LEMMA SetNewObj ==
    ASSUME BaseInv, ChainInv, ObjInv, NEW t \in Thread, SetNew(t), new[t] # 0
    PROVE  ObjInv'
<1>0. TypeOK /\ Stacks /\ Private /\ Shared /\ Tree /\ Factory
  BY DEF BaseInv, ObjInv
<1>1. PICK m : m = Len(node) + 1
  OBVIOUS
<1>2. PICK w : w = Want(t)
  OBVIOUS
<1>3a. node'[m] = [key |-> w, value |-> new[t], next |-> 0]
  BY <1>1, <1>2, SetNewBase
<1>3b. node'[m].key = w /\ node'[m].value = new[t]
  BY <1>3a
<1>3. /\ Others(t) /\ pc[t] = "set" /\ pc'[t] = "link"
      /\ UNCHANGED <<setup, obj, new, pnt, known, handed>> /\ Want(t)' = w
      /\ DOMAIN node' = DOMAIN node \cup {m}
      /\ node'[m].key = w /\ node'[m].value = new[t]
      /\ \A i \in DOMAIN node : node'[i] = node[i]
      /\ DOMAIN node \ Pend = DOMAIN node /\ DOMAIN node' \ Pend' = DOMAIN node
  BY <1>1, <1>2, <1>3b, SetNewBase
<1>4. \A u \in Thread : u # t => pc'[u] = pc[u] /\ Want(u)' = Want(u)
  BY <1>3 DEF Others, Want
<1>5. /\ \A n, o : Reg(n, o)' <=> Reg(n, o)
      /\ \A o : Registered(o)' <=> Registered(o)
  BY <1>3 DEF Reg, Registered
<1>6. obj[new[t]].live /\ \A i \in DOMAIN node : node[i].value # new[t]
  BY <1>0, <1>3 DEF Private
<1>7. Private'
  <2>1. \A u \in Thread : pc'[u] = "set" => u # t /\ pc[u] = "set" /\ new[u] # new[t]
    BY <1>0, <1>3, <1>4 DEF Private
  <2>2. \A u \in Thread : pc'[u] = "set" => \A i \in DOMAIN node' : node'[i].value # new'[u]
    BY <1>0, <1>3, <2>1 DEF Private
  <2> QED BY <1>0, <1>3, <2>1, <2>2 DEF Private
<1>8. Shared'
  <2>1. \A i \in DOMAIN node' : obj'[node'[i].value].live
    BY <1>0, <1>3, <1>6 DEF Shared
  <2>2. \A i, j \in DOMAIN node' : node'[i].value = node'[j].value => i = j
    BY <1>0, <1>3, <1>6 DEF Shared
  <2>3. \A i \in DOMAIN obj' : obj'[i].father # 0 => Registered(obj[i].father)'
    <3> SUFFICES ASSUME NEW i \in DOMAIN obj', obj'[i].father # 0 PROVE Registered(obj[i].father)'
      OBVIOUS
    <3>1. PICK f : f = obj[i].father
      OBVIOUS
    <3>2. Registered(f)'
      BY <1>0, <1>3, <1>5, <3>1 DEF Shared
    <3> QED BY <1>3, <3>1, <3>2 DEF Registered
  <2>4. \A u \in Thread : pnt'[u] # 0 => Registered(pnt[u])'
    <3> SUFFICES ASSUME NEW u \in Thread, pnt'[u] # 0 PROVE Registered(pnt[u])'
      OBVIOUS
    <3>1. PICK f : f = pnt[u]
      OBVIOUS
    <3>2. Registered(f)'
      BY <1>0, <1>3, <1>5, <3>1 DEF Shared
    <3> QED BY <1>3, <3>1, <3>2 DEF Registered
  <2>5. \A x \in handed' : obj'[x[2]].live /\ (Reg(x[1], x[2])' \/ (x[1] \in Appender /\ setup'.oom))
    BY <1>0, <1>3, <1>5 DEF Shared
  <2> QED BY <2>1, <2>2, <2>3, <2>4, <2>5 DEF Shared
<1>9. \A n, f : Fathered(n, f) => Fathered(n, f)'
  BY <1>5 DEF Fathered
<1>10. Tree'
  <2>1. \A i \in DOMAIN node' : Fathered(node[i].key, obj[node[i].value].father)'
    <3> SUFFICES ASSUME NEW i \in DOMAIN node' PROVE Fathered(node[i].key, obj[node[i].value].father)'
      OBVIOUS
    <3>1. PICK n : n = node'[i].key
      OBVIOUS
    <3>2. PICK f : f = obj[node'[i].value].father
      OBVIOUS
    <3>3. Fathered(n, f)
      <4>1. CASE i = m
        BY <1>0, <1>2, <1>3, <3>1, <3>2, <4>1 DEF Tree
      <4>2. CASE i \in DOMAIN node
        BY <1>0, <1>3, <3>1, <3>2, <4>2 DEF Tree
      <4> QED BY <1>3, <4>1, <4>2
    <3>4. Fathered(n, f)' /\ obj' = obj
      BY <1>3, <1>9, <3>3
    <3> QED BY <3>1, <3>2, <3>4 DEF Fathered, Reg
  <2>2. ASSUME NEW u \in Thread, u # t
        PROVE  /\ pc'[u] \in {"idle", "get", "walk"} => pnt'[u] = 0
               /\ pc'[u] = "new" => Fathered(Want(u), pnt[u])'
               /\ pc'[u] = "set" => Fathered(Want(u), obj[new[u]].father)'
    <3>1. PICK n : n = Want(u)
      OBVIOUS
    <3>2. PICK f : f = pnt[u]
      OBVIOUS
    <3>3. PICK g : g = obj[new[u]].father
      OBVIOUS
    <3>4. /\ pc'[u] \in {"idle", "get", "walk"} => pnt[u] = 0
          /\ pc'[u] = "new" => Fathered(n, f)
          /\ pc'[u] = "set" => Fathered(n, g)
      BY <1>0, <1>4, <2>2, <3>1, <3>2, <3>3 DEF Tree
    <3>5. obj'[new'[u]].father = g /\ Want(u)' = n /\ pnt'[u] = f
      BY <1>3, <1>4, <2>2, <3>1, <3>2, <3>3
    <3>6. /\ pc'[u] = "new" => Fathered(n, f)'
          /\ pc'[u] = "set" => Fathered(n, g)'
      BY <1>9, <3>4
    <3>7. pc'[u] = "new" => Fathered(Want(u), pnt[u])'
      BY <3>5, <3>6 DEF Fathered, Reg
    <3>8. pc'[u] = "set" => Fathered(Want(u), obj[new[u]].father)'
      BY <3>5, <3>6 DEF Fathered, Reg
    <3> QED BY <3>2, <3>4, <3>5, <3>7, <3>8
  <2> QED BY <1>3, <2>1, <2>2 DEF Tree
<1>11. Factory'
  <2> SUFFICES ASSUME NEW u \in Thread, pc'[u] # "idle", Want(u)' \in Appender
               PROVE  /\ Walking(u)' /\ known'[u] = 0 => Absent(Want(u))'
                      /\ pc'[u] \in {"new", "set"} => Absent(Want(u))'
                      /\ pc'[u] \notin {"reget", "rewalk"}
    BY DEF Factory
  <2>1. CASE u = t
    BY <1>3, <2>1 DEF Walking
  <2>2. CASE u # t
    <3>1. PICK v : v = Want(u)'
      OBVIOUS
    <3>2. pc'[u] = pc[u] /\ known'[u] = known[u] /\ Want(u) = v /\ Walking(u)' = Walking(u)
      BY <1>3, <1>4, <2>2, <3>1 DEF Walking
    <3>3. /\ Walking(u)' /\ known'[u] = 0 => Absent(v)
          /\ pc'[u] \in {"new", "set"} => Absent(v)
          /\ pc'[u] \notin {"reget", "rewalk"}
      BY <1>0, <3>1, <3>2 DEF Factory
    <3>4. w # v
      BY <1>2, <1>3, <2>2, <3>1, <3>2, OtherAppender
    <3>5. Absent(v) => Absent(v)'
      BY <1>3, <3>4 DEF Absent
    <3>6. Absent(v)' => Absent(Want(u))'
      BY <3>1 DEF Absent
    <3> QED BY <3>3, <3>5, <3>6
  <2> QED BY <2>1, <2>2
<1> QED BY <1>7, <1>8, <1>10, <1>11 DEF ObjInv

(* The linked node's object is found from now on. *)
LEMMA SetLinkObj ==
    ASSUME BaseInv, ChainInv, ObjInv, NEW t \in Thread, SetLink(t)
    PROVE  ObjInv'
<1>0. TypeOK /\ Stacks /\ Private /\ Shared
  BY DEF BaseInv, ObjInv
<1>1. PICK m : m = Len(node)
  OBVIOUS
<1>2. PICK w : w = Want(t)
  OBVIOUS
<1>3. /\ pc[t] = "link" /\ UNCHANGED <<setup, obj>> /\ new[t] \in 0..Len(obj) /\ Return(t, new[t])
      /\ DOMAIN node' = DOMAIN node /\ m \in DOMAIN node
      /\ node[m] = [key |-> w, value |-> new[t], next |-> 0]
      /\ \A i \in DOMAIN node : node'[i].key = node[i].key /\ node'[i].value = node[i].value
      /\ DOMAIN node \ Pend = DOMAIN node \ {m} /\ DOMAIN node' \ Pend' = DOMAIN node
  BY <1>1, <1>2, SetLinkBase
<1>4. node[m].key = w /\ node[m].value = new[t]
  BY <1>3
<1>5. PICK o : o = new[t]
  OBVIOUS
<1>6. Reg(w, o)'
  BY <1>3, <1>4, <1>5 DEF Reg
<1>7. \A n, x : Reg(n, x) => Reg(n, x)'
  BY <1>3 DEF Reg
<1>8. obj[o].live
  BY <1>0, <1>3, <1>4, <1>5 DEF Shared
<1>9. \A u \in Thread : pc[u] = "set" /\ u # t => new[u] # o
  BY <1>0, <1>3, <1>4, <1>5 DEF Private
<1>10. o \in 0..Len(obj) /\ Return(t, o) /\ pc[t] # "idle" /\ obj' = obj /\ setup' = setup
  BY <1>3, <1>5
<1> QED BY <1>2, <1>3, <1>6, <1>7, <1>8, <1>9, <1>10, ReturnObj

(* What lives stays in the registry or in somebody's hands. *)
LEMMA KeptFrame ==
    ASSUME Kept, NEW t \in Thread, Others(t), setup' = setup,
           \A i \in DOMAIN node : \E j \in DOMAIN node' : node'[j].value = node[i].value,
           \A o \in DOMAIN obj' : obj'[o].live =>
              \/ o \in DOMAIN obj /\ obj[o].live /\ ~(pc[t] = "set" /\ new[t] = o)
              \/ pc'[t] = "set" /\ new'[t] = o
              \/ \E i \in DOMAIN node' : node'[i].value = o
    PROVE  Kept'
<1> SUFFICES ASSUME ~setup.oom, NEW o \in DOMAIN obj', obj'[o].live
             PROVE  \/ \E i \in DOMAIN node' : node'[i].value = o
                    \/ \E u \in Thread : pc'[u] = "set" /\ new'[u] = o
  BY DEF Kept
<1>1. CASE o \in DOMAIN obj /\ obj[o].live /\ ~(pc[t] = "set" /\ new[t] = o)
  <2>1. CASE \E i \in DOMAIN node : node[i].value = o
    BY <2>1
  <2>2. ASSUME NEW u \in Thread, pc[u] = "set" /\ new[u] = o
        PROVE  pc'[u] = "set" /\ new'[u] = o
    BY <1>1, <2>2 DEF Others
  <2> QED BY <1>1, <2>1, <2>2 DEF Kept
<1> QED BY <1>1

(* Nothing happens. *)
LEMMA Stutter ==
    ASSUME NInv, UNCHANGED vars
    PROVE  NInv'
<1>1. UNCHANGED <<setup, first, node, spare, obj, lock, flock, pc, stk, ptr, new, pnt, front, known, handed>>
  BY DEF vars
<1>2. BaseInv'
  <2>1. TypeOK'
    BY <1>1 DEF NInv, BaseInv, TypeOK
  <2>2. Stacks'
    BY <1>1 DEF NInv, BaseInv, Stacks
  <2>3. Locks'
    BY <1>1 DEF NInv, BaseInv, Locks, Want
  <2> QED BY <2>1, <2>2, <2>3 DEF BaseInv
<1>3. ChainInv'
  BY <1>1 DEF NInv, ChainInv, Keys, Firsts, Nexts, Follows, Fronts, In, Pend, Want
<1>4. WalkInv'
  BY <1>1 DEF NInv, WalkInv, Walking, In, Pend, Want
<1>5. ObjInv'
  <2>1. Private'
    BY <1>1 DEF NInv, ObjInv, Private
  <2>2. Shared'
    BY <1>1 DEF NInv, ObjInv, Shared, Registered, Reg, Pend
  <2>3. Tree'
    BY <1>1 DEF NInv, ObjInv, Tree, Fathered, Reg, Pend, Want
  <2>4. Factory'
    BY <1>1 DEF NInv, ObjInv, Factory, Absent, Walking, Want
  <2> QED BY <2>1, <2>2, <2>3, <2>4 DEF ObjInv
<1>6. Kept'
  BY <1>1 DEF NInv, Kept
<1> QED BY <1>2, <1>3, <1>4, <1>5, <1>6 DEF NInv

(* A call begins. *)
LEMMA BeginStep ==
    ASSUME NInv, NEW t \in Thread, NEW n \in Name,
           \/ n \in Category /\ getInstance(t, n)
           \/ n \in Appender /\ getAppender(t, n)
           \/ n \in LogStat /\ createLogStat(t, n)
    PROVE  NInv'
<1>0. BaseInv /\ ChainInv /\ WalkInv /\ ObjInv /\ Kept /\ Tree
  BY DEF NInv, ObjInv
<1>1. /\ BaseInv' /\ Others(t) /\ pc[t] = "idle" /\ pc'[t] \in {"get", "new"} /\ Want(t)' = n
      /\ (n \in Appender => pc'[t] = "get") /\ (n \in Category => pc'[t] = "get")
      /\ UNCHANGED <<setup, first, node, obj, lock, pnt, new, handed>>
  BY <1>0, BeginBase
<1>2. ChainInv' /\ \A b \in Buckets : In(b)' = In(b)
  BY <1>0, <1>1, ChainFrame
<1>3. WalkInv'
  BY <1>0, <1>1, <1>2, WalkFrame DEF Walking
<1>4. ObjInv'
  <2>1. pnt[t] = 0
    BY <1>0, <1>1 DEF Tree
  <2>2. pc'[t] = "new" => Fathered(n, pnt[t])
    BY <1>1 DEF Fathered
  <2>3. ~Walking(t)' /\ pc'[t] \notin {"set", "reget", "rewalk"}
    BY <1>1 DEF Walking
  <2>4. n \in Appender => pc'[t] \notin {"new", "set"}
    BY <1>1
  <2> QED BY <1>0, <1>1, <2>1, <2>2, <2>3, <2>4, StillObj
<1>5. Kept'
  <2>1. \A o \in DOMAIN obj' : obj'[o].live => o \in DOMAIN obj /\ obj[o].live /\ ~(pc[t] = "set" /\ new[t] = o)
    BY <1>1
  <2>2. \A i \in DOMAIN node : \E j \in DOMAIN node' : node'[j].value = node[i].value
    BY <1>1
  <2> QED BY <1>0, <1>1, <2>1, <2>2, KeptFrame
<1> QED BY <1>1, <1>2, <1>3, <1>4, <1>5 DEF NInv

(* A look into the table. *)
LEMMA LookStep ==
    ASSUME NInv, NEW t \in Thread, Get(t) \/ Walk(t)
    PROVE  NInv'
<1>0. BaseInv /\ ChainInv /\ WalkInv /\ ObjInv /\ Kept /\ Tree /\ Factory /\ TypeOK /\ Stacks
      /\ Keys /\ Firsts /\ Nexts
  BY DEF NInv, ObjInv, BaseInv, ChainInv
<1>1. BaseInv' /\ ChainInv' /\ WalkInv'
  BY <1>0, WalkStep
<1>2. PICK w : w = Want(t)
  OBVIOUS
<1>3. pc[t] \notin {"idle", "link"}
  BY DEF Get, Walk
<1>4. w \in Name
  BY <1>0, <1>2, <1>3, Wanted
<1>5. Value(w) \in 0..Len(obj)
  BY <1>0, <1>4, ValueIs
<1>6. /\ Others(t) /\ UNCHANGED <<setup, first, node, obj, lock, flock, stk, new, pnt, handed>>
      /\ pc[t] \in {"get", "reget", "walk", "rewalk"} /\ Walking(t)'
      /\ (pc[t] \in {"get", "walk"} <=> pc'[t] = "walk")
  BY <1>0, <1>2, <1>5, WalkBase
<1>7. Want(t)' = w /\ pc'[t] \in {"walk", "rewalk"}
  BY <1>2, <1>6 DEF Want, Walking
<1>8. ASSUME w \in Appender
      PROVE  /\ Walking(t)' /\ known'[t] = 0 => Absent(w)
             /\ pc'[t] \in {"new", "set"} => Absent(w)
             /\ pc'[t] \notin {"reget", "rewalk"}
  <2>1. pc[t] \notin {"reget", "rewalk"}
    BY <1>0, <1>2, <1>3, <1>8 DEF Factory
  <2>2. pc'[t] = "walk"
    BY <1>6, <2>1
  <2>3. CASE Get(t)
    <3>1. known'[t] = Value(w)
      BY <1>0, <1>2, <2>3 DEF Get, TypeOK
    <3>2. Value(w) = 0 => Absent(w)
      BY <1>0, <1>2, <1>3, <1>8, NotThere
    <3> QED BY <2>2, <3>1, <3>2
  <2>4. CASE Walk(t)
    <3>1. known' = known /\ Walking(t)
      BY <2>4 DEF Walk, Walking
    <3> QED BY <1>0, <1>2, <1>3, <1>8, <2>2, <3>1 DEF Factory
  <2> QED BY <2>3, <2>4
<1>9. pc'[t] \in {"idle", "get", "walk"} => pnt[t] = 0
  <2>1. pc'[t] = "walk" => pc[t] \in {"get", "walk"}
    BY <1>6
  <2> QED BY <1>0, <1>7, <2>1 DEF Tree
<1>10. ObjInv'
  <2>1. pc'[t] \notin {"new", "set"}
    BY <1>7
  <2> QED BY <1>0, <1>6, <1>7, <1>8, <1>9, <2>1, StillObj
<1>11. Kept'
  <2>1. \A o \in DOMAIN obj' : obj'[o].live => o \in DOMAIN obj /\ obj[o].live /\ ~(pc[t] = "set" /\ new[t] = o)
    BY <1>6
  <2>2. \A i \in DOMAIN node : \E j \in DOMAIN node' : node'[j].value = node[i].value
    BY <1>6
  <2> QED BY <1>0, <1>6, <2>1, <2>2, KeptFrame
<1> QED BY <1>1, <1>10, <1>11 DEF NInv

(* A hit hands out what is registered. *)
LEMMA HitStep ==
    ASSUME NInv, NEW t \in Thread, Hit(t)
    PROVE  NInv'
<1>0. BaseInv /\ ChainInv /\ WalkInv /\ ObjInv /\ Kept /\ Private /\ Shared /\ TypeOK /\ Stacks
  BY DEF NInv, ObjInv, BaseInv
<1>1. PICK w : w = Want(t)
  OBVIOUS
<1>2. PICK k : k = ptr[t]
  OBVIOUS
<1>3. PICK o : o = node[k].value
  OBVIOUS
<1>4. /\ BaseInv' /\ pc[t] \in {"walk", "rewalk"} /\ k \in DOMAIN node /\ k # 0 /\ node[k].key = w
      /\ o \in 1..Len(obj) /\ o \in 0..Len(obj)
      /\ Return(t, o) /\ UNCHANGED <<setup, first, node, spare, obj, lock>>
  BY <1>0, <1>1, <1>2, <1>3, HitBase
<1>5. /\ Others(t) /\ pc'[t] \in {"idle", "new"}
  BY <1>0, <1>4, Returns
<1>6. ChainInv' /\ \A b \in Buckets : In(b)' = In(b)
  BY <1>0, <1>4, <1>5, ChainFrame
<1>7. WalkInv'
  BY <1>0, <1>4, <1>5, <1>6, WalkFrame DEF Walking
<1>8. Reg(w, o)
  <2>1. PICK b : b = Bucket[w]
    OBVIOUS
  <2>2. b \in Buckets
    BY <1>0, <1>1, <1>4, <2>1, Wanted
  <2>3. k \in In(b)
    BY <1>0, <1>1, <1>2, <1>4, <2>1, <2>2 DEF WalkInv, Walking
  <2> QED BY <1>3, <1>4, <2>3 DEF In, Reg
<1>9. \A n, x : Reg(n, x)' <=> Reg(n, x)
  BY <1>4, RegFrame
<1>10. obj[o].live /\ \A u \in Thread : pc[u] = "set" /\ u # t => new[u] # o
  BY <1>0, <1>3, <1>4 DEF Shared, Private
<1>11. ObjInv'
  <2>1. DOMAIN node' = DOMAIN node
        /\ \A i \in DOMAIN node : node'[i].key = node[i].key /\ node'[i].value = node[i].value
    BY <1>4
  <2>2. pc[t] # "idle" /\ obj' = obj /\ setup' = setup
    BY <1>4
  <2> QED BY <1>0, <1>1, <1>4, <1>8, <1>9, <1>10, <2>1, <2>2, ReturnObj
<1>12. Kept'
  <2>1. \A x \in DOMAIN obj' : obj'[x].live => x \in DOMAIN obj /\ obj[x].live /\ ~(pc[t] = "set" /\ new[t] = x)
    BY <1>4
  <2>2. \A i \in DOMAIN node : \E j \in DOMAIN node' : node'[j].value = node[i].value
    BY <1>4
  <2> QED BY <1>0, <1>4, <1>5, <2>1, <2>2, KeptFrame
<1> QED BY <1>4, <1>6, <1>7, <1>11, <1>12 DEF NInv

(* A miss: on to the father or to a new object, or without one. *)
LEMMA MissStep ==
    ASSUME NInv, NEW t \in Thread, Miss(t)
    PROVE  NInv'
<1>0. BaseInv /\ ChainInv /\ WalkInv /\ ObjInv /\ Kept /\ Tree /\ Factory /\ TypeOK /\ Stacks
  BY DEF NInv, ObjInv, BaseInv
<1>1. PICK w : w = Want(t)
  OBVIOUS
<1>2. /\ BaseInv' /\ UNCHANGED <<setup, first, node, spare, obj, lock>> /\ ptr[t] = 0
      /\ \/ pc[t] = "rewalk" /\ Return(t, 0)
         \/ /\ pc[t] = "walk" /\ Others(t) /\ UNCHANGED <<new, known, pnt, handed>>
            /\ \/ /\ pc'[t] = "get" /\ Want(t)' \in Category
               \/ /\ pc'[t] = "new" /\ (w \in Category => Father[w] = Root) /\ Want(t)' = w
  BY <1>0, <1>1, MissBase
<1>3. \A n, x : Reg(n, x)' <=> Reg(n, x)
  BY <1>2, RegFrame
<1>4. Others(t) /\ pc'[t] \in {"idle", "new", "get"}
  <2>1. 0 \in 0..Len(obj)
    BY <1>0, Lens
  <2>2. CASE pc[t] = "rewalk" /\ Return(t, 0)
    BY <1>0, <2>1, <2>2, Returns
  <2> QED BY <1>2, <2>2
<1>5. ChainInv' /\ \A b \in Buckets : In(b)' = In(b)
  BY <1>0, <1>2, <1>4, ChainFrame
<1>6. WalkInv'
  BY <1>0, <1>2, <1>4, <1>5, WalkFrame DEF Walking
<1>7. ObjInv'
  <2>1. CASE pc[t] = "rewalk" /\ Return(t, 0)
    <3>1. 0 \in 0..Len(obj)
      BY <1>0, Lens
    <3>2. DOMAIN node' = DOMAIN node
          /\ \A i \in DOMAIN node : node'[i].key = node[i].key /\ node'[i].value = node[i].value
      BY <1>2
    <3> QED BY <1>0, <1>1, <1>2, <1>3, <2>1, <3>1, <3>2, ReturnObj
  <2>2. CASE /\ pc[t] = "walk" /\ UNCHANGED <<new, known, pnt, handed>>
             /\ pc'[t] = "get" /\ Want(t)' \in Category
    <3>1. pnt[t] = 0
      BY <1>0, <2>2 DEF Tree
    <3>2. Want(t)' \notin Appender
      BY <2>2
    <3>3. PICK v : v = Want(t)'
      OBVIOUS
    <3>4. obj' = obj /\ UNCHANGED <<setup, node, lock, handed, pnt, new>> /\ pc'[t] # "set" /\ pc'[t] # "new"
      BY <1>2, <2>2
    <3> QED BY <1>0, <1>4, <2>2, <3>1, <3>2, <3>3, <3>4, StillObj
  <2>3. CASE /\ pc[t] = "walk" /\ UNCHANGED <<new, known, pnt, handed>>
             /\ pc'[t] = "new" /\ (w \in Category => Father[w] = Root) /\ Want(t)' = w
    <3>1. pnt[t] = 0
      BY <1>0, <2>3 DEF Tree
    <3>2. Fathered(w, pnt[t])
      BY <2>3, <3>1 DEF Fathered
    <3>3. known[t] = 0
      <4>1. Bucket[w] \in Buckets
        BY <1>0, <1>1, <2>3, Wanted
      <4> QED BY <1>0, <1>1, <1>2, <2>3, <4>1 DEF WalkInv, Walking
    <3>4. w \in Appender => Absent(w)
      BY <1>0, <1>1, <2>3, <3>3 DEF Factory, Walking
    <3>5. /\ obj' = obj /\ UNCHANGED <<setup, node, lock, handed, pnt, new>>
          /\ pc'[t] \notin {"set", "idle", "get", "walk", "reget", "rewalk"} /\ ~Walking(t)'
      BY <1>2, <2>3 DEF Walking
    <3> QED BY <1>0, <1>4, <2>3, <3>2, <3>4, <3>5, StillObj
  <2> QED BY <1>2, <2>1, <2>2, <2>3
<1>8. Kept'
  <2>1. \A x \in DOMAIN obj' : obj'[x].live => x \in DOMAIN obj /\ obj[x].live /\ ~(pc[t] = "set" /\ new[t] = x)
    BY <1>2
  <2>2. \A i \in DOMAIN node : \E j \in DOMAIN node' : node'[j].value = node[i].value
    BY <1>2
  <2> QED BY <1>0, <1>2, <1>4, <2>1, <2>2, KeptFrame
<1> QED BY <1>2, <1>5, <1>6, <1>7, <1>8 DEF NInv

(* A new object. *)
LEMMA NewStep ==
    ASSUME NInv, NEW t \in Thread, New(t)
    PROVE  NInv'
<1>0. BaseInv /\ ChainInv /\ WalkInv /\ ObjInv /\ Kept
  BY DEF NInv
<1>1. /\ BaseInv' /\ Others(t) /\ pc[t] = "new" /\ pc'[t] = "set"
      /\ UNCHANGED <<setup, first, node, lock>> /\ new'[t] = Len(obj) + 1
      /\ \A i \in DOMAIN obj : obj'[i] = obj[i]
      /\ DOMAIN obj' = DOMAIN obj \cup {Len(obj) + 1}
  BY <1>0, NewBase
<1>2. ChainInv' /\ \A b \in Buckets : In(b)' = In(b)
  BY <1>0, <1>1, ChainFrame
<1>3. WalkInv'
  BY <1>0, <1>1, <1>2, WalkFrame DEF Walking
<1>4. ObjInv'
  BY <1>0, NewObj
<1>5. Kept'
  <2>1. \A x \in DOMAIN obj' : obj'[x].live =>
          \/ x \in DOMAIN obj /\ obj[x].live /\ ~(pc[t] = "set" /\ new[t] = x)
          \/ pc'[t] = "set" /\ new'[t] = x
    BY <1>1
  <2>2. \A i \in DOMAIN node : \E j \in DOMAIN node' : node'[j].value = node[i].value
    BY <1>1
  <2> QED BY <1>0, <1>1, <2>1, <2>2, KeptFrame
<1> QED BY <1>1, <1>2, <1>3, <1>4, <1>5 DEF NInv

(* A node for it. *)
LEMMA SetNewStep ==
    ASSUME NInv, NEW t \in Thread, SetNew(t)
    PROVE  NInv'
<1>0. BaseInv /\ ChainInv /\ WalkInv /\ ObjInv /\ Kept /\ Private
  BY DEF NInv, ObjInv
<1>1. new[t] # 0
  BY <1>0 DEF SetNew, Private
<1>2. PICK m : m = Len(node) + 1
  OBVIOUS
<1>3. /\ BaseInv' /\ Others(t) /\ pc[t] = "set" /\ pc'[t] = "link" /\ UNCHANGED <<setup, obj>>
      /\ DOMAIN node' = DOMAIN node \cup {m} /\ \A i \in DOMAIN node : node'[i] = node[i]
      /\ \E k : node'[m] = [key |-> k, value |-> new[t], next |-> 0]
  BY <1>0, <1>1, <1>2, SetNewBase
<1>4. ChainInv' /\ \A b \in Buckets : In(b)' = In(b)
  BY <1>0, <1>1, SetNewChain
<1>5. WalkInv'
  BY <1>0, <1>3, <1>4, WalkFrame DEF Walking
<1>6. ObjInv'
  BY <1>0, <1>1, SetNewObj
<1>7. Kept'
  <2>1. node'[m].value = new[t] /\ m \in DOMAIN node'
    BY <1>3
  <2>2. \A x \in DOMAIN obj' : obj'[x].live =>
          \/ x \in DOMAIN obj /\ obj[x].live /\ ~(pc[t] = "set" /\ new[t] = x)
          \/ \E i \in DOMAIN node' : node'[i].value = x
    BY <1>3, <2>1
  <2>3. \A i \in DOMAIN node : \E j \in DOMAIN node' : node'[j].value = node[i].value
    BY <1>3
  <2> QED BY <1>0, <1>3, <2>2, <2>3, KeptFrame
<1> QED BY <1>3, <1>4, <1>5, <1>6, <1>7 DEF NInv

(* The node linked. *)
LEMMA SetLinkStep ==
    ASSUME NInv, NEW t \in Thread, SetLink(t)
    PROVE  NInv'
<1>0. BaseInv /\ ChainInv /\ WalkInv /\ ObjInv /\ Kept /\ TypeOK /\ Stacks
  BY DEF NInv, BaseInv
<1>1. PICK o : o = new[t]
  OBVIOUS
<1>2. /\ BaseInv' /\ pc[t] = "link" /\ UNCHANGED <<setup, obj>> /\ o \in 0..Len(obj) /\ Return(t, o)
      /\ DOMAIN node' = DOMAIN node
      /\ \A i \in DOMAIN node : node'[i].key = node[i].key /\ node'[i].value = node[i].value
  BY <1>0, <1>1, SetLinkBase
<1>3. Others(t) /\ pc'[t] \in {"idle", "new"}
  BY <1>0, <1>2, Returns
<1>4. /\ ChainInv'
      /\ \A b \in Buckets : In(b)' = IF b = Bucket[Want(t)] THEN In(b) \cup {Len(node)} ELSE In(b)
  BY <1>0, SetLinkChain
<1>5. \A b \in Buckets : In(b) \subseteq In(b)'
  BY <1>4
<1>6. WalkInv'
  BY <1>0, <1>2, <1>3, <1>5, WalkFrame DEF Walking
<1>7. ObjInv'
  BY <1>0, SetLinkObj
<1>8. Kept'
  <2>1. \A x \in DOMAIN obj' : obj'[x].live => x \in DOMAIN obj /\ obj[x].live /\ ~(pc[t] = "set" /\ new[t] = x)
    BY <1>2
  <2>2. \A i \in DOMAIN node : \E j \in DOMAIN node' : node'[j].value = node[i].value
    BY <1>2
  <2> QED BY <1>0, <1>2, <1>3, <2>1, <2>2, KeptFrame
<1> QED BY <1>2, <1>4, <1>6, <1>7, <1>8 DEF NInv

(* set() refuses, or the file of an appender does not open. *)
LEMMA FailStep ==
    ASSUME NInv, NEW t \in Thread, SyncidFails(t) \/ SetFails(t)
    PROVE  NInv'
<1>0. /\ BaseInv /\ ChainInv /\ WalkInv /\ ObjInv /\ Kept /\ Private /\ Tree /\ Factory /\ TypeOK /\ Stacks
      /\ Keys /\ Firsts /\ Nexts
  BY DEF NInv, ObjInv, BaseInv, ChainInv
<1>1. pc[t] = "set"
  BY DEF SyncidFails, SetFails
<1>2. /\ new[t] # 0 /\ obj[new[t]].live
      /\ \A u \in Thread : pc[u] = "set" /\ u # t => new[u] # new[t]
  BY <1>0, <1>1 DEF Private
<1>3. PICK w : w = Want(t)
  OBVIOUS
<1>4. PICK o : o = new[t]
  OBVIOUS
<1>5. /\ BaseInv' /\ UNCHANGED <<setup, first, node, lock>>
      /\ w \in Name /\ o \in DOMAIN obj /\ o \in 1..Len(obj)
      /\ \/ Killed(o) /\ w \in Appender /\ 0 \in 0..Len(obj) /\ Return(t, 0)
         \/ /\ Killed(o) /\ w \in Category /\ pc'[t] = "reget" /\ Others(t)
            /\ UNCHANGED <<stk, new, known, pnt, handed>>
         \/ /\ w \in Appender /\ obj' = obj /\ o \in 0..Len(obj)
            /\ Return(t, o) /\ (Value(w) # 0 \/ setup.oom)
         \/ /\ w \in LogStat /\ obj' = obj /\ Others(t) /\ Want(t)' \in LogStat
            /\ UNCHANGED <<pc, new, known, pnt, handed>>
  BY <1>0, <1>2, <1>3, <1>4, FailBase
<1>6. \A n, x : Reg(n, x)' <=> Reg(n, x)
  BY <1>5, RegFrame
<1>7. DOMAIN node' = DOMAIN node
      /\ \A i \in DOMAIN node : node'[i].key = node[i].key /\ node'[i].value = node[i].value
  BY <1>5
<1>8. \A i \in DOMAIN node : \E j \in DOMAIN node' : node'[j].value = node[i].value
  BY <1>5
<1>9. Others(t) /\ pc'[t] \notin {"link", "walk", "rewalk"}
  <2>1. ASSUME NEW x \in 0..Len(obj), Return(t, x)
        PROVE  Others(t) /\ pc'[t] \in {"idle", "new"}
    BY <1>0, <1>1, <2>1, Returns
  <2>2. Return(t, 0) /\ 0 \in 0..Len(obj) => Others(t) /\ pc'[t] \in {"idle", "new"}
    BY <2>1
  <2>3. Return(t, o) /\ o \in 0..Len(obj) => Others(t) /\ pc'[t] \in {"idle", "new"}
    BY <2>1
  <2> QED BY <1>1, <1>5, <2>2, <2>3
<1>10. ChainInv' /\ \A b \in Buckets : In(b)' = In(b)
  BY <1>0, <1>5, <1>9, ChainFrame
<1>11. WalkInv'
  BY <1>0, <1>7, <1>9, <1>10, WalkFrame DEF Walking
<1>12. Killed(o) => \A x \in DOMAIN obj' : obj'[x].live => x \in DOMAIN obj /\ obj[x].live /\ x # o
  <2>1. \A s \in Seq([name : Name, father : 0..Len(obj), live : BOOLEAN]) : DOMAIN s = 1..Len(s)
    OBVIOUS
  <2>2. Killed(o) => DOMAIN obj' = DOMAIN obj
    BY <1>0, <2>1, Lens DEF Killed
  <2> QED BY <2>2 DEF Killed
<1>13. CASE Killed(o) /\ w \in Appender /\ 0 \in 0..Len(obj) /\ Return(t, 0)
  <2>1. ObjInv'
    BY <1>0, <1>1, <1>3, <1>4, <1>5, <1>6, <1>7, <1>13, ReturnObj
  <2>2. Kept'
    BY <1>0, <1>4, <1>5, <1>8, <1>9, <1>12, <1>13, KeptFrame
  <2> QED BY <1>5, <1>10, <1>11, <2>1, <2>2 DEF NInv
<1>14. CASE /\ Killed(o) /\ w \in Category /\ pc'[t] = "reget"
            /\ UNCHANGED <<stk, new, known, pnt, handed>>
  <2>1. Want(t)' = w /\ w \notin Appender /\ ~Walking(t)'
    BY <1>3, <1>14 DEF Want, Walking
  <2>2. ObjInv'
    BY <1>0, <1>1, <1>4, <1>5, <1>9, <1>14, <2>1, StillObj
  <2>3. Kept'
    BY <1>0, <1>4, <1>5, <1>8, <1>9, <1>12, <1>14, KeptFrame
  <2> QED BY <1>5, <1>10, <1>11, <2>2, <2>3 DEF NInv
<1>15. CASE /\ w \in Appender /\ obj' = obj /\ o \in 0..Len(obj) /\ Return(t, o)
            /\ (Value(w) # 0 \/ setup.oom)
  <2>1. Absent(w)
    BY <1>0, <1>1, <1>3, <1>15 DEF Factory
  <2>2. Value(w) = 0
    <3>1. ~Reg(w, Value(w))
      BY <2>1 DEF Absent, Reg
    <3> QED BY <1>0, <1>5, <3>1, ValueIs
  <2>3. setup.oom
    BY <1>15, <2>2
  <2>4. ObjInv'
    BY <1>0, <1>1, <1>2, <1>3, <1>4, <1>5, <1>6, <1>7, <1>15, <2>3, ReturnObj
  <2>5. Kept'
    BY <1>5, <2>3 DEF Kept
  <2> QED BY <1>5, <1>10, <1>11, <2>4, <2>5 DEF NInv
<1>16. CASE /\ w \in LogStat /\ obj' = obj /\ Want(t)' \in LogStat
            /\ UNCHANGED <<pc, new, known, pnt, handed>>
  <2>1. PICK v : v = Want(t)'
    OBVIOUS
  <2>2. v \notin Appender /\ v \notin Category
    BY <1>16, <2>1
  <2>3. Fathered(v, obj[new[t]].father) /\ pc'[t] = "set" /\ ~Walking(t)'
    BY <1>1, <1>16, <2>2 DEF Fathered, Walking
  <2>4. ObjInv'
    BY <1>0, <1>1, <1>5, <1>9, <1>16, <2>1, <2>2, <2>3, StillObj
  <2>5. \A x \in DOMAIN obj' : obj'[x].live =>
          \/ x \in DOMAIN obj /\ obj[x].live /\ ~(pc[t] = "set" /\ new[t] = x)
          \/ pc'[t] = "set" /\ new'[t] = x
    BY <1>16
  <2>6. Kept'
    BY <1>0, <1>5, <1>8, <1>9, <2>5, KeptFrame
  <2> QED BY <1>5, <1>10, <1>11, <2>4, <2>6 DEF NInv
<1> QED BY <1>5, <1>13, <1>14, <1>15, <1>16
-----------------------------------------------------------------------------
(* The beginning. *)
LEMMA InitInv == Init => NInv
<1> SUFFICES ASSUME Init PROVE NInv
  OBVIOUS
<1>1. /\ setup \in Setups /\ node = <<>> /\ obj = <<>> /\ lock = None /\ handed = {}
      /\ first = [b \in Buckets |-> 0] /\ \A t \in Thread : pc[t] = "idle" /\ pnt[t] = 0 /\ stk[t] = <<>>
  BY DEF Init
<1>2. DOMAIN node = {} /\ DOMAIN obj = {} /\ Len(node) = 0 /\ Len(obj) = 0
  BY <1>1
<1>3. BaseInv
  <2>1. TypeOK
    <3>1. \A S : <<>> \in Seq(S)
      OBVIOUS
    <3>2. spare \in 0..BlockSize
      BY DEF Init
    <3>3. 0 \in 0..Len(node) /\ 0 \in 0..Len(obj)
      BY <1>2
    <3>4. first \in [Buckets -> 0..Len(node)]
      BY <1>1, <3>3
    <3>5. /\ ptr \in [Thread -> 0..Len(node)] /\ front \in [Thread -> 0..Len(node)]
          /\ new \in [Thread -> 0..Len(obj)] /\ pnt \in [Thread -> 0..Len(obj)]
          /\ known \in [Thread -> 0..Len(obj)]
      BY <3>3 DEF Init
    <3>6. stk \in [Thread -> Seq(Name)]
      BY <3>1 DEF Init
    <3>7. pc \in [Thread -> {"idle", "get", "walk", "reget", "rewalk", "new", "set", "link"}]
      BY DEF Init
    <3>8. lock = None /\ flock = None
      BY DEF Init
    <3>9. node \in Seq([key : Name, value : 1..Len(obj), next : 0..Len(node)])
      BY <1>1, <3>1
    <3>10. obj \in Seq([name : Name, father : 0..Len(obj), live : BOOLEAN])
      BY <1>1, <3>1
    <3> QED BY <1>1, <3>2, <3>4, <3>5, <3>6, <3>7, <3>8, <3>9, <3>10 DEF TypeOK
  <2>2. Stacks
    <3>1. \A i : i \notin 1..(Len(<<>>) - 1)
      OBVIOUS
    <3> QED BY <1>1, <3>1 DEF Stacks
  <2>3. Locks
    BY <1>1, Nobody DEF Locks
  <2> QED BY <2>1, <2>2, <2>3 DEF BaseInv
<1>4. \A b : In(b) = {}
  BY <1>2 DEF In
<1>5. ChainInv
  BY <1>1, <1>2, <1>4 DEF ChainInv, Keys, Firsts, Nexts, Fronts
<1>6. WalkInv
  BY <1>1 DEF WalkInv, Walking
<1>7. ObjInv
  BY <1>1, <1>2 DEF ObjInv, Private, Shared, Tree, Factory
<1>8. Kept
  BY <1>2 DEF Kept
<1> QED BY <1>3, <1>5, <1>6, <1>7, <1>8 DEF NInv

(* Every step of every thread preserves the invariant. *)
LEMMA NextInv == NInv /\ [Next]_vars => NInv'
<1> SUFFICES ASSUME NInv, [Next]_vars PROVE NInv'
  OBVIOUS
<1>1. CASE UNCHANGED vars
  BY <1>1, Stutter
<1>2. ASSUME NEW t \in Thread, Step(t) PROVE NInv'
  BY <1>2, LookStep, HitStep, MissStep, NewStep, FailStep, SetNewStep, SetLinkStep DEF Step
<1>3. ASSUME NEW t \in Thread, NEW n \in Category, getInstance(t, n) PROVE NInv'
  <2>1. n \in Name
    BY DEF Name
  <2> QED BY <1>3, <2>1, BeginStep
<1>4. ASSUME NEW t \in Thread, NEW n \in Appender, getAppender(t, n) PROVE NInv'
  <2>1. n \in Name
    BY DEF Name
  <2> QED BY <1>4, <2>1, BeginStep
<1>5. ASSUME NEW t \in Thread, NEW n \in LogStat, createLogStat(t, n) PROVE NInv'
  <2>1. n \in Name
    BY DEF Name
  <2> QED BY <1>5, <2>1, BeginStep
<1> QED BY <1>1, <1>2, <1>3, <1>4, <1>5 DEF Next

(* The inductive invariant. *)
LEMMA NInvAlways == Spec => []NInv
<1> QED BY InitInv, NextInv, PTL DEF Spec

(* hash_map::get() takes no lock, and whatever writers link while it walks *)
(* it finds what was registered when it began: nodes are only added behind *)
(* the last one of a chain, and a walk has not passed the node it is for.  *)
THEOREM NeverMisses == Spec => []NoMiss
<1>1. NInv => NoMiss
  <2> SUFFICES ASSUME NInv, NEW t \in Thread, pc[t] \in {"walk", "rewalk"}, ptr[t] = 0
               PROVE  known[t] = 0
    BY DEF NoMiss
  <2>1. TypeOK /\ Stacks /\ WalkInv
    BY DEF NInv, BaseInv
  <2>2. Bucket[Want(t)] \in Buckets
    BY <2>1, Wanted
  <2> QED BY <2>1, <2>2 DEF WalkInv, Walking
<1> QED BY <1>1, NInvAlways, PTL

(* Whoever races in Category::getInstance() and in the factory, all get    *)
(* one object of a name, it lives, and every registered category hangs     *)
(* below the registered object of its father's name.                       *)
THEOREM InstancesAlwaysSound == Spec => []Instances
<1>1. NInv => Instances
  <2> SUFFICES ASSUME NInv PROVE Instances
    OBVIOUS
  <2>1. TypeOK /\ Shared /\ Tree /\ Keys /\ Firsts /\ Nexts
    BY DEF NInv, BaseInv, ChainInv, ObjInv
  <2>2. ASSUME NEW n \in Name, NEW o, Reg(n, o) PROVE Value(n) = o /\ o # 0
    BY <2>1, <2>2, ValueIs
  <2>3. OneInstance
    <3> SUFFICES ASSUME NEW x \in handed, NEW y \in handed, x[1] = y[1],
                        x[1] \in Category \/ (x[1] \in Appender /\ ~setup.oom)
                 PROVE  x[2] = y[2]
      BY DEF OneInstance
    <3>1. ~(x[1] \in Appender /\ setup.oom)
      OBVIOUS
    <3>2. Reg(x[1], x[2]) /\ Reg(y[1], y[2])
      BY <2>1, <3>1 DEF Shared
    <3>3. x[1] \in Name
      BY DEF Name
    <3> QED BY <2>2, <3>2, <3>3
  <2>4. NoDangling
    <3>1. \A i \in DOMAIN obj : obj[i].father # 0 => obj[obj[i].father].live
      <4> SUFFICES ASSUME NEW i \in DOMAIN obj, obj[i].father # 0 PROVE obj[obj[i].father].live
        OBVIOUS
      <4>1. PICK k \in DOMAIN node \ Pend : node[k].value = obj[i].father
        BY <2>1 DEF Shared, Registered
      <4> QED BY <2>1, <4>1 DEF Shared
    <3> QED BY <2>1, <3>1 DEF NoDangling, Shared
  <2>5. RealFather
    <3> SUFFICES ASSUME NEW n \in Category, Value(n) # 0
                 PROVE  obj[Value(n)].father = IF Father[n] = Root THEN 0 ELSE Value(Father[n])
      BY DEF RealFather
    <3>1. n \in Name /\ (Father[n] # Root => Father[n] \in Name)
      BY DEF Name
    <3>2. Reg(n, Value(n))
      BY <2>1, <3>1, ValueIs
    <3>3. PICK i \in DOMAIN node \ Pend : node[i].key = n /\ node[i].value = Value(n)
      BY <3>2 DEF Reg
    <3>4. PICK f : f = obj[Value(n)].father
      OBVIOUS
    <3>5. Fathered(n, f)
      BY <2>1, <3>3, <3>4 DEF Tree
    <3>6. CASE Father[n] = Root
      BY <3>4, <3>5, <3>6 DEF Fathered
    <3>7. CASE Father[n] # Root
      <4>1. Reg(Father[n], f)
        BY <3>5, <3>7 DEF Fathered
      <4>2. Value(Father[n]) = f
        BY <2>2, <3>1, <3>7, <4>1
      <4> QED BY <3>4, <3>7, <4>2
    <3> QED BY <3>6, <3>7
  <2> QED BY <2>1, <2>3, <2>4, <2>5 DEF Instances
<1> QED BY <1>1, NInvAlways, PTL

(* Between calls, while there is memory, the registry holds exactly the    *)
(* objects that live, each in one node: what losers of a race created is   *)
(* gone, and NameMg::destroy() frees every object and none twice.          *)
THEOREM AlwaysOwned == Spec => []Owned
<1>1. NInv => Owned
  <2> SUFFICES ASSUME NInv, \A t \in Thread : pc[t] = "idle", ~setup.oom
               PROVE  /\ {Value(n) : n \in Name} \ {0} = {i \in DOMAIN obj : obj[i].live}
                      /\ Len(node) = Cardinality({i \in DOMAIN obj : obj[i].live})
    BY DEF Owned
  <2>1. TypeOK /\ Locks /\ Shared /\ Keys /\ Firsts /\ Nexts /\ Kept
    BY DEF NInv, BaseInv, ChainInv, ObjInv
  <2>2. lock = None /\ Pend = {}
    BY <2>1 DEF TypeOK, Locks, Pend
  <2>3. PICK L : L = {i \in DOMAIN obj : obj[i].live}
    OBVIOUS
  <2>4. /\ Len(node) \in Nat /\ DOMAIN node = 1..Len(node) /\ DOMAIN obj = 1..Len(obj)
        /\ \A i \in DOMAIN node : node[i].key \in Name /\ node[i].value \in 1..Len(obj)
    BY <2>1, Lens
  <2>5. \A i \in DOMAIN node : node[i].value \in L
    BY <2>1, <2>3, <2>4 DEF Shared
  <2>6. \A o \in L : \E i \in DOMAIN node : node[i].value = o
    BY <2>1, <2>3 DEF Kept
  <2>7. {Value(n) : n \in Name} \ {0} = L
    <3>1. ASSUME NEW n \in Name, Value(n) # 0 PROVE Value(n) \in L
      <4>1. Reg(n, Value(n))
        BY <2>1, <3>1, ValueIs
      <4> QED BY <2>5, <4>1 DEF Reg
    <3>2. ASSUME NEW o \in L PROVE o # 0 /\ \E n \in Name : Value(n) = o
      <4>1. PICK i \in DOMAIN node : node[i].value = o
        BY <2>6
      <4>2. Reg(node[i].key, o) /\ node[i].key \in Name
        BY <2>2, <2>4, <4>1 DEF Reg
      <4> QED BY <2>1, <4>2, ValueIs
    <3> QED BY <3>1, <3>2
  <2>8. Cardinality(L) = Len(node)
    <3>1. PICK f : f = [i \in 1..Len(node) |-> node[i].value]
      OBVIOUS
    <3>2. f \in [1..Len(node) -> L]
      BY <2>4, <2>5, <3>1
    <3>3. \A a, b \in 1..Len(node) : f[a] = f[b] => a = b
      BY <2>1, <2>4, <3>1 DEF Shared
    <3>4. \A o \in L : \E i \in 1..Len(node) : f[i] = o
      BY <2>4, <2>6, <3>1
    <3>5. f \in Bijection(1..Len(node), L)
      BY <3>2, <3>3, <3>4 DEF Bijection, Injection, Surjection, IsInjective
    <3>6. ExistsBijection(1..Len(node), L)
      BY <3>5 DEF ExistsBijection
    <3> QED BY <2>4, <3>6, FS_CountingElements
  <2> QED BY <2>3, <2>7, <2>8
<1> QED BY <1>1, NInvAlways, PTL
=============================================================================
