------------------------------- MODULE NameMg -------------------------------
(***************************************************************************)
(* The registry of comlog's objects: a hash table that many threads read   *)
(* without a lock while one links a node at a time under NameMg::_lock,    *)
(* and the ways objects get into it: Category::getInstance() creates the   *)
(* father first and races with others for the name; AppenderFactory works  *)
(* under a lock of its own; LogStat::createLogStat() makes up names until  *)
(* one is free.  Stores are seen by readers in program order.              *)
(***************************************************************************)
EXTENDS Integers, Sequences, FiniteSets, SequencesExt

CONSTANTS Thread,
          Category, Appender, LogStat,  \* the names, by the type of object
          Father,       \* getFather(): the name of a category's father, or Root
          Bucket,       \* getHashKey()
          BlockSize,    \* nodes allocated at a time
          Setups        \* see SetupAssumption

Root == ""
Name == Category \cup Appender \cup LogStat

(* calls: bound.  oom: memory for a block of nodes may run out.            *)
ASSUME SetupAssumption == \A s \in Setups : s.calls \in Nat /\ s.oom \in BOOLEAN
ASSUME NameAssumption ==
    /\ Father \in [Category -> Category \cup {Root}] /\ Root \notin Name
    /\ Bucket \in [Name -> Nat] /\ BlockSize \in Nat \ {0}
\* The key of an object is its type and its name.
ASSUME TypesAssumption ==
    /\ Category \cap Appender = {} /\ Category \cap LogStat = {} /\ Appender \cap LogStat = {}
ASSUME ThreadAssumption == Root \notin Thread

VARIABLES
    setup,        \* the member of Setups this run is in
    first, node,  \* m_bucket[].first and the nodes in use, 0 for NULL
    spare,        \* m_free_num
    obj,          \* the objects created: their name, father and whether they live
    lock, flock,  \* holders of NameMg::_lock and the factory's getLock
    pc, stk,      \* where each thread is; the names of its getInstance() frames
    ptr,          \* the node it looks at
    new,          \* the object it has created, or found
    pnt,          \* the father for the next one
    front,        \* the last node of the chain it appends to
    calls,
    known,        \* history: the object registered when its get() began
    handed        \* history: the objects given to callers

vars == <<setup, first, node, spare, obj, lock, flock, pc, stk, ptr, new, pnt, front, calls,
          known, handed>>
table == <<first, node, spare>>
locals == <<ptr, new, front, known>>

None == ""
Buckets == {Bucket[n] : n \in Name}

Init ==
    /\ setup \in Setups
    /\ first = [b \in Buckets |-> 0] /\ node = <<>> /\ spare = BlockSize
    /\ obj = <<>> /\ lock = None /\ flock = None
    /\ pc = [t \in Thread |-> "idle"] /\ stk = [t \in Thread |-> <<>>]
    /\ ptr = [t \in Thread |-> 0] /\ new = [t \in Thread |-> 0]
    /\ pnt = [t \in Thread |-> 0] /\ front = [t \in Thread |-> 0]
    /\ calls = 0 /\ known = [t \in Thread |-> 0] /\ handed = {}

Goto(t, where) == pc' = [pc EXCEPT ![t] = where]
Want(t) == Last(stk[t])

(* The nodes that a walk from the bucket of n meets: the least set with    *)
(* the first of them and the next of each.                                 *)
Closed(b, S) ==
    /\ first[b] # 0 => first[b] \in S
    /\ \A i \in S : node[i].next # 0 => node[i].next \in S
Linked(n) ==
    {i \in DOMAIN node : \A S \in SUBSET DOMAIN node : Closed(Bucket[n], S) => i \in S}

(* The object registered as n, 0 for none.  Nodes are linked in the order  *)
(* in which they were taken, so the walk meets the lowest number first.    *)
Value(n) ==
    LET hits == {i \in Linked(n) : node[i].key = n}
    IN  IF hits = {} THEN 0 ELSE node[Min(hits)].value

\* The last node of the walk, 0 for none.
End(n) == IF Linked(n) = {} THEN 0 ELSE CHOOSE i \in Linked(n) : node[i].next = 0
-----------------------------------------------------------------------------
(* The calls.  Two threads never use one appender name at the same time:   *)
(* AppenderFactory::getAppender() holds its lock for the whole call.       *)
Begin(t, n) ==
    /\ pc[t] = "idle" /\ calls < setup.calls
    /\ calls' = calls + 1
    /\ stk' = [stk EXCEPT ![t] = <<n>>]

getInstance(t, n) ==
    /\ Begin(t, n)
    /\ Goto(t, "get")
    /\ UNCHANGED <<setup, table, obj, lock, flock, locals, pnt, handed>>

getAppender(t, n) ==
    /\ flock = None
    /\ Begin(t, n)
    /\ flock' = t /\ Goto(t, "get")
    /\ UNCHANGED <<setup, table, obj, lock, locals, pnt, handed>>

(* createLogStat() does not look first.  Its names come from the clock,    *)
(* which does not run out of new ones.                                     *)
createLogStat(t, n) ==
    /\ LET busy == {r \in Thread : pc[r] # "idle" /\ stk[r][1] \in LogStat}
           used == {m \in LogStat : Value(m) # 0}
       IN  Cardinality(busy) + Cardinality(used) < Cardinality(LogStat)
    /\ Begin(t, n)
    /\ Goto(t, "new")
    /\ UNCHANGED <<setup, table, obj, lock, flock, locals, pnt, handed>>

(* The end of the top frame with object o, 0 for NULL.  A getInstance()    *)
(* below goes on with o as the father, or gives up without one.            *)
Return(t, o) ==
    LET fails == o = 0 IN
    /\ IF Len(stk[t]) > 1 /\ ~fails
       THEN /\ stk' = [stk EXCEPT ![t] = Front(@)]
            /\ pnt' = [pnt EXCEPT ![t] = o]
            /\ Goto(t, "new")
            /\ UNCHANGED <<handed, flock, locals>>
       ELSE /\ stk' = [stk EXCEPT ![t] = <<>>]
            /\ handed' = IF fails THEN handed ELSE handed \cup {<<stk[t][1], o>>}
            /\ flock' = IF flock = t THEN None ELSE flock
            /\ ptr' = [ptr EXCEPT ![t] = 0] /\ new' = [new EXCEPT ![t] = 0]
            /\ front' = [front EXCEPT ![t] = 0] /\ known' = [known EXCEPT ![t] = 0]
            /\ pnt' = [pnt EXCEPT ![t] = 0]
            /\ Goto(t, "idle")
-----------------------------------------------------------------------------
(* hash_map::get() without a lock: the bucket, then node after node.       *)
Get(t) ==
    /\ pc[t] \in {"get", "reget"}
    /\ ptr' = [ptr EXCEPT ![t] = first[Bucket[Want(t)]]]
    /\ known' = [known EXCEPT ![t] = Value(Want(t))]
    /\ Goto(t, IF pc[t] = "get" THEN "walk" ELSE "rewalk")
    /\ UNCHANGED <<setup, table, obj, lock, flock, stk, new, pnt, front, calls, handed>>

Walk(t) ==
    /\ pc[t] \in {"walk", "rewalk"} /\ ptr[t] # 0 /\ node[ptr[t]].key # Want(t)
    /\ ptr' = [ptr EXCEPT ![t] = node[@].next]
    /\ UNCHANGED <<setup, table, obj, lock, flock, pc, stk, new, pnt, front, calls, known, handed>>

Hit(t) ==
    /\ pc[t] \in {"walk", "rewalk"} /\ ptr[t] # 0 /\ node[ptr[t]].key = Want(t)
    /\ Return(t, node[ptr[t]].value)
    /\ UNCHANGED <<setup, table, obj, lock, calls>>

(* Not there: a category's father comes first; the second look of          *)
(* getInstance() gives NULL to the caller.                                 *)
Miss(t) ==
    /\ pc[t] \in {"walk", "rewalk"} /\ ptr[t] = 0
    /\ \/ pc[t] = "rewalk" /\ Return(t, 0)
       \/ /\ pc[t] = "walk" /\ UNCHANGED <<locals, pnt, handed, flock>>
          /\ IF Want(t) \in Category /\ Father[Want(t)] # Root
             THEN stk' = [stk EXCEPT ![t] = Append(@, Father[Want(t)])] /\ Goto(t, "get")
             ELSE Goto(t, "new") /\ UNCHANGED stk
    /\ UNCHANGED <<setup, table, obj, lock, calls>>

(* new Category(pnt), new FileAppender, new LogStat. *)
New(t) ==
    /\ pc[t] = "new"
    /\ obj' = Append(obj, [name |-> Want(t), father |-> pnt[t], live |-> TRUE])
    /\ new' = [new EXCEPT ![t] = Len(obj')]
    /\ Goto(t, "set")
    /\ UNCHANGED <<setup, table, lock, flock, stk, ptr, pnt, front, calls, known, handed>>

\* FileAppender::syncid() cannot open the file: the appender is deleted.
SyncidFails(t) ==
    /\ pc[t] = "set" /\ Want(t) \in Appender
    /\ obj' = [obj EXCEPT ![new[t]].live = FALSE]
    /\ Return(t, 0)
    /\ UNCHANGED <<setup, table, lock, calls>>
-----------------------------------------------------------------------------
\* getNodeSpace(): a node of the current block, or of a new one.
NoSpace == spare = 0 /\ setup.oom
Space == spare' = (IF spare = 0 THEN BlockSize ELSE spare) - 1

(* NameMg::set(), under _lock: the whole chain is searched, a node is      *)
(* taken and filled ...                                                    *)
SetNew(t) ==
    /\ pc[t] = "set" /\ lock = None /\ Value(Want(t)) = 0
    /\ Space /\ lock' = t
    /\ node' = Append(node, [key |-> Want(t), value |-> new[t], next |-> 0])
    /\ front' = [front EXCEPT ![t] = End(Want(t))]
    /\ Goto(t, "link")
    /\ UNCHANGED <<setup, first, obj, flock, stk, ptr, new, pnt, calls, known, handed>>

\* Mutant: the node is linked behind the first one of its bucket.
SetLinkSecond(t) ==
    /\ pc[t] = "link"
    /\ IF front[t] = 0
       THEN first' = [first EXCEPT ![Bucket[Want(t)]] = Len(node)] /\ UNCHANGED node
       ELSE node' = [node EXCEPT ![first[Bucket[Want(t)]]].next = Len(node)] /\ UNCHANGED first
    /\ lock' = None
    /\ Return(t, new[t])
    /\ UNCHANGED <<setup, spare, obj, calls>>

\* ... and linked behind the last one, which ends the call.
SetLink(t) ==
    /\ pc[t] = "link"
    /\ IF front[t] = 0
       THEN first' = [first EXCEPT ![Bucket[Want(t)]] = Len(node)] /\ UNCHANGED node
       ELSE node' = [node EXCEPT ![front[t]].next = Len(node)] /\ UNCHANGED first
    /\ lock' = None
    /\ Return(t, new[t])
    /\ UNCHANGED <<setup, spare, obj, calls>>

\* Mutant: the loser of the race keeps its own object.
SetFailsKeeps(t) ==
    /\ pc[t] = "set" /\ lock = None
    /\ Value(Want(t)) # 0 \/ NoSpace
    /\ Return(t, new[t])
    /\ UNCHANGED <<setup, table, obj, lock, calls>>

\* Mutant: the loser deletes its object and returns it.
SetFailsDeleted(t) ==
    /\ pc[t] = "set" /\ lock = None
    /\ Value(Want(t)) # 0 \/ NoSpace
    /\ obj' = [obj EXCEPT ![new[t]].live = FALSE]
    /\ Return(t, new[t])
    /\ UNCHANGED <<setup, table, lock, calls>>

\* Mutant: createLogStat() makes up its name once.
SetFailsSameName(t) ==
    /\ pc[t] = "set" /\ lock = None
    /\ Value(Want(t)) # 0 \/ NoSpace
    /\ Want(t) \in LogStat
    /\ UNCHANGED vars

(* HASH_VAL_EXIST or HASH_ACLLOMEM_ERROR: getInstance() deletes its object *)
(* and looks again; the factory hands its own out all the same;            *)
(* createLogStat() tries another name.                                     *)
SetFails(t) ==
    /\ pc[t] = "set" /\ lock = None
    /\ Value(Want(t)) # 0 \/ NoSpace
    /\ \/ /\ Want(t) \in Category
          /\ obj' = [obj EXCEPT ![new[t]].live = FALSE] /\ Goto(t, "reget")
          /\ UNCHANGED <<stk, locals, pnt, handed, flock>>
       \/ Want(t) \in Appender /\ Return(t, new[t]) /\ UNCHANGED obj
       \/ /\ Want(t) \in LogStat
          /\ \E n \in LogStat \ {Want(t)} : stk' = [stk EXCEPT ![t] = <<n>>]
          /\ UNCHANGED <<obj, pc, locals, pnt, handed, flock>>
    /\ UNCHANGED <<setup, table, lock, calls>>

Step(t) ==
    \/ Get(t) \/ Walk(t) \/ Hit(t) \/ Miss(t) \/ New(t) \/ SyncidFails(t)
    \/ SetNew(t) \/ SetLink(t) \/ SetFails(t)

Next ==
    \E t \in Thread :
        \/ Step(t)
        \/ \E n \in Category : getInstance(t, n)
        \/ \E n \in Appender : getAppender(t, n)
        \/ \E n \in LogStat : createLogStat(t, n)

Spec == Init /\ [][Next]_vars

\* A thread inside a call is scheduled, and gets the lock when it is free.
FairSpec == Spec /\ \A t \in Thread : WF_vars(Step(t))
-----------------------------------------------------------------------------
TypeOK ==
    /\ setup \in Setups /\ lock \in Thread \cup {None} /\ flock \in Thread \cup {None}
    /\ first \in [Buckets -> 0..Len(node)] /\ spare \in 0..BlockSize
    /\ node \in Seq([key : Name, value : 1..Len(obj), next : 0..Len(node)])
    /\ obj \in Seq([name : Name, father : 0..Len(obj), live : BOOLEAN])
    /\ pc \in [Thread -> {"idle", "get", "walk", "reget", "rewalk", "new", "set", "link"}]
    /\ stk \in [Thread -> Seq(Name)]
    /\ ptr \in [Thread -> 0..Len(node)] /\ front \in [Thread -> 0..Len(node)]
    /\ new \in [Thread -> 0..Len(obj)] /\ pnt \in [Thread -> 0..Len(obj)]
    /\ known \in [Thread -> 0..Len(obj)] /\ handed \subseteq Name \X (1..Len(obj))

(* A get() that walks without a lock never misses an object that was       *)
(* registered before it began, wherever writers link meanwhile; so the     *)
(* second look after HASH_VAL_EXIST does find the winner's object.         *)
NoMiss ==
    \A t \in Thread : pc[t] \in {"walk", "rewalk"} /\ ptr[t] = 0 => known[t] = 0

(* Every caller gets the same category of a name, and the same appender    *)
(* unless the registry ran out of memory.                                  *)
OneInstance ==
    \A x, y \in handed :
        x[1] = y[1] /\ (x[1] \in Category \/ (x[1] \in Appender /\ ~setup.oom)) => x[2] = y[2]

(* No caller holds a deleted object, and no object a deleted father,       *)
(* although losers of the race delete theirs.                              *)
NoDangling ==
    /\ \A x \in handed : obj[x[2]].live
    /\ \A i \in DOMAIN obj : obj[i].live /\ obj[i].father # 0 => obj[obj[i].father].live

(* The father of a category that others can find is the object registered  *)
(* under the father's name: no branch of the tree is created twice.        *)
RealFather ==
    \A n \in Category :
        Value(n) # 0 => obj[Value(n)].father = IF Father[n] = Root THEN 0 ELSE Value(Father[n])

(* Whoever races for a name in getInstance() and getAppender(), all get    *)
(* one living object in one tree.                                          *)
Instances == TypeOK /\ OneInstance /\ NoDangling /\ RealFather

(* Once no call is under way, the registry holds exactly the objects that  *)
(* live, each once: NameMg::destroy() frees them all and none twice.       *)
Owned ==
    (\A t \in Thread : pc[t] = "idle") /\ ~setup.oom =>
        /\ {Value(n) : n \in Name} \ {0} = {i \in DOMAIN obj : obj[i].live}
        /\ Len(node) = Cardinality({i \in DOMAIN obj : obj[i].live})

(* Every call returns, createLogStat() with its made-up names included,    *)
(* while there is memory.                                                  *)
CallReturns == ~setup.oom => \A t \in Thread : pc[t] # "idle" ~> pc[t] = "idle"
=============================================================================
