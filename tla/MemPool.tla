------------------------------ MODULE MemPool ------------------------------
(***************************************************************************)
(* The memory pool of comlog (comempool/mempool.cpp): a FixMem per size,   *)
(* each a list of blocks that are cut into cells and a list of returned    *)
(* cells, and a list of big pieces that come from malloc().  Sizes are in  *)
(* units of sizeof(int); the header that holds the size is one unit.  The  *)
(* users of the pool call it under the lock of their queue.                *)
(***************************************************************************)
EXTENDS Integers, Sequences, FiniteSets, SequencesExt

CONSTANTS MinMem, MaxMem,     \* _minmem, _maxmem
          RateNum, RateDen,   \* _rate
          Request,            \* sizes that are asked for
          MaxBlock,           \* bound: blocks of all FixMems
          MaxBig              \* bound: big pieces

ASSUME PoolAssumption ==
    /\ MinMem \in Nat \ {0} /\ MaxMem \in Nat /\ MinMem < MaxMem
    /\ RateDen \in Nat \ {0} /\ RateNum \in Nat /\ RateNum > RateDen
    /\ MinMem * RateNum >= (MinMem + 1) * RateDen
    /\ Request \subseteq Nat /\ MaxBlock \in Nat /\ MaxBig \in Nat

DEFLEVEL == 11

\* mem after i rounds of the loops in create() and getidx().
Grown[i \in 0..DEFLEVEL] == IF i = 0 THEN MinMem ELSE (Grown[i - 1] * RateNum) \div RateDen

(* create(): the levels whose cells are not larger than MaxMem. *)
Level == {i \in 0..(DEFLEVEL - 1) : Grown[i] <= MaxMem}
Largest == CHOOSE i \in Level : \A j \in Level : j <= i
bsize(l) == Grown[l] + 1
bnum(l) == MaxMem \div Grown[l]
AllocMem == bsize(Largest)

\* getidx(): the first level whose cells hold rsize units.
getidx(rsize) ==
    CHOOSE i \in 0..DEFLEVEL : rsize <= Grown[i] + 1 /\ \A j \in 0..(i - 1) : rsize > Grown[j] + 1

VARIABLES
    fix,       \* the FixMems: used, the cells cut off each block, oldest first
               \* (each block's next is the one made before it); now, the
               \* block being cut, 0 for NULL; free, the returned cells; nowb
    biglist, bigs,  \* the list of big pieces, and how many there ever were
    held,      \* history: what the users hold, with the size in the header
    broken     \* dlist_walk() has freed a piece twice

poolVars == <<fix, biglist, bigs, held, broken>>

Fresh == [used |-> <<>>, now |-> 0, free |-> <<>>, nowb |-> 0]

PoolInit ==
    /\ fix = [l \in Level |-> Fresh] /\ biglist = <<>> /\ bigs = 0
    /\ held = {} /\ broken = FALSE

(* FixMem::alloc() takes a cell of the current block, of the block after   *)
(* it (there is one only after a reset), a returned cell, or of a new      *)
(* block, in this order.                                                   *)
Cell(l, b, k) == [level |-> l, block |-> b, place |-> k]
Hold(cell, rsize) == held' = held \cup {[cell |-> cell, rsize |-> rsize]}

CutFrom(l, b, rsize) ==
    /\ fix' = [fix EXCEPT ![l].used[b] = @ + 1, ![l].now = b, ![l].nowb = @ + 1]
    /\ Hold(Cell(l, b, fix[l].used[b] + 1), rsize)

Current(l) == fix[l].now # 0 /\ fix[l].used[fix[l].now] < bnum(l)
Following(l) == fix[l].now > 1 /\ fix[l].used[fix[l].now - 1] # bnum(l)

AllocCut(l, rsize) ==
    \/ Current(l) /\ CutFrom(l, fix[l].now, rsize)
    \/ ~Current(l) /\ Following(l) /\ CutFrom(l, fix[l].now - 1, rsize)

\* Mutant: the returned cell is handed out and stays in the list.
AllocFreeKeeps(l, rsize) ==
    /\ fix[l].now # 0 /\ ~Current(l) /\ ~Following(l) /\ fix[l].free # <<>>
    /\ fix' = [fix EXCEPT ![l].nowb = @ + 1]
    /\ Hold(Head(fix[l].free), rsize)

AllocFree(l, rsize) ==
    /\ fix[l].now # 0 /\ ~Current(l) /\ ~Following(l) /\ fix[l].free # <<>>
    /\ fix' = [fix EXCEPT ![l].free = Tail(@), ![l].nowb = @ + 1]
    /\ Hold(Head(fix[l].free), rsize)

Blocks == UNION {{l} \X DOMAIN fix[l].used : l \in Level}

AllocBlock(l, rsize) ==
    /\ fix[l].now = 0 \/ (~Current(l) /\ ~Following(l) /\ fix[l].free = <<>>)
    /\ LET b == Len(fix[l].used) + 1
       IN  /\ Cardinality(Blocks) < MaxBlock
           /\ fix' = [fix EXCEPT ![l].used = Append(@, 1), ![l].now = b, ![l].nowb = @ + 1]
           /\ Hold(Cell(l, b, 1), rsize)

AllocBig(rsize) ==
    /\ rsize > AllocMem /\ bigs < MaxBig
    /\ bigs' = bigs + 1
    /\ biglist' = <<bigs'>> \o biglist
    /\ Hold(Cell(-1, bigs', 0), rsize)
    /\ UNCHANGED <<fix, broken>>

alloc(size) ==
    LET rsize == size + 1 IN
    \/ AllocBig(rsize)
    \/ /\ rsize <= AllocMem
       /\ LET l == getidx(rsize)
          IN  AllocCut(l, rsize) \/ AllocFree(l, rsize) \/ AllocBlock(l, rsize)
       /\ UNCHANGED <<biglist, bigs, broken>>

(* dealloc() finds the level, or the list of big pieces, by the header. *)
dealloc(h) ==
    /\ held' = held \ {h}
    /\ \/ /\ h.rsize > AllocMem
          /\ \E i \in DOMAIN biglist : biglist[i] = h.cell.block /\ biglist' = RemoveAt(biglist, i)
          /\ UNCHANGED fix
       \/ /\ h.rsize <= AllocMem
          /\ LET l == getidx(h.rsize)
             IN  fix' = [fix EXCEPT ![l].free = <<h.cell>> \o @, ![l].nowb = @ - 1]
          /\ UNCHANGED biglist
    /\ UNCHANGED <<bigs, broken>>

\* Mutant: _now stays where it is.
FixResetStays(f) ==
    [f EXCEPT !.free = <<>>, !.nowb = 0, !.used = [b \in DOMAIN f.used |-> 0]]

\* FixMem::reset() goes back to the newest block and keeps them all.
FixReset(f) ==
    [f EXCEPT !.now = Len(f.used), !.free = <<>>, !.nowb = 0,
              !.used = [b \in DOMAIN f.used |-> 0]]

(* MemPool::reset().  dlist_walk() frees the first piece once for every    *)
(* piece in the list: with two of them what follows is undefined.          *)
reset ==
    /\ fix' = [l \in Level |-> FixReset(fix[l])]
    /\ broken' = (Len(biglist) > 1)
    /\ biglist' = <<>> /\ held' = {}
    /\ UNCHANGED bigs

PoolNext ==
    /\ ~broken
    /\ \/ \E size \in Request : alloc(size)
       \/ \E h \in held : dealloc(h)
       \/ reset

PoolSpec == PoolInit /\ [][PoolNext]_poolVars
-----------------------------------------------------------------------------
HeldOf(l) == {h.cell : h \in {x \in held : x.cell.level = l}}
CutOf(l) == UNION {{Cell(l, b, k) : k \in 1..fix[l].used[b]} : b \in DOMAIN fix[l].used}

(* Every cell cut off a block, and no other, is with one user or once in   *)
(* the list of returned cells: none is handed out twice, none is lost, and *)
(* _nowb counts those in use.  The same goes for the big pieces.           *)
Accounted ==
    ~broken =>
        /\ \A l \in Level :
              /\ HeldOf(l) \cup ToSet(fix[l].free) = CutOf(l)
              /\ Cardinality(HeldOf(l)) + Len(fix[l].free) = Cardinality(CutOf(l))
              /\ Cardinality(HeldOf(l)) = fix[l].nowb
        /\ {c.block : c \in HeldOf(-1)} = ToSet(biglist)

(* A cell is as large as what was asked for, with its header: create() and *)
(* getidx() agree on the levels, also where the rate does not divide.      *)
Fits == \A h \in held : h.cell.level \in Level => h.rsize <= bsize(h.cell.level)

(* alloc() never hands out a cell that is in use, lost or too small.       *)
PoolSound == Accounted /\ Fits

(* A pool asks for another block only when every cell of the blocks it has *)
(* is in use, also after resets.                                           *)
GrowsWhenFull ==
    [][\A l \in Level :
          Len(fix'[l].used) > Len(fix[l].used) =>
              Cardinality(HeldOf(l)) = Len(fix[l].used) * bnum(l)]_poolVars
=============================================================================
