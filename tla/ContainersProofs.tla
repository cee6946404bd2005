------------------------- MODULE ContainersProofs -------------------------
(***************************************************************************)
(* The sequential containers of the code.  For every pool whose levels     *)
(* grow: no cell is handed out twice, lost or too small, and a pool takes  *)
(* another block only when all its cells are in use.  For every capacity   *)
(* of at least 2 and every set of values: the ring of XQueue keeps its     *)
(* shape, never hands out an unwritten slot, and implements the bounded    *)
(* double-ended queue of module Deque.  For every size and every set of    *)
(* bytes: no copy leaves the ring of ul_circle, the free length it tells   *)
(* is there, and it implements the bounded byte queue of module ByteQueue. *)
(***************************************************************************)
EXTENDS XQueue, UlCircle, MemPool, FiniteSetTheorems, WellFoundedInduction, TLAPS

-----------------------------------------------------------------------------
(* The inductive invariant of the pool.  Cells are those of one size; H is *)
(* what the users hold of them and f the FixMem.  A FixMem cuts a block    *)
(* only when the blocks made after it are full; those before it are all    *)
(* full, or all untouched since the last reset.                            *)
Cells(X, l) == {h.cell : h \in {x \in X : x.cell.level = l}}
CutOff(l, used) == UNION {{Cell(l, b, k) : k \in 1..used[b]} : b \in DOMAIN used}

Rounds(used, now, n) ==
    /\ now <= Len(used) /\ (now = 0 => used = <<>>)
    /\ \A b \in DOMAIN used : used[b] <= n /\ (b > now => used[b] = n)
    /\ \/ \A b \in DOMAIN used : b < now => used[b] = n
       \/ \A b \in DOMAIN used : b < now => used[b] = 0

Once(s) == \A i, j \in DOMAIN s : s[i] = s[j] => i = j

PoolCell == [level : Level \cup {-1}, block : Nat, place : Nat]

LevelOK(l, f, H) ==
    /\ f \in [used : Seq(Nat), now : Nat, free : Seq(PoolCell), nowb : Nat]
    /\ Rounds(f.used, f.now, bnum(l)) /\ Once(f.free)
    /\ H \cup ToSet(f.free) = CutOff(l, f.used) /\ H \cap ToSet(f.free) = {}
    /\ IsFiniteSet(H) /\ f.nowb = Cardinality(H)

Placed(h, most) ==
    /\ h \in [cell : PoolCell, rsize : Nat]
    /\ IF h.rsize > AllocMem THEN \E b \in 1..most : h.cell = Cell(-1, b, 0)
                             ELSE h.cell.level = getidx(h.rsize)

BigOK(list, most, X) ==
    /\ list \in Seq(1..most) /\ most \in Nat /\ Once(list)
    /\ {c.block : c \in Cells(X, -1)} = ToSet(list)

HeldOK(X, most) ==
    /\ \A h \in X : Placed(h, most)
    /\ \A g, h \in X : g.cell = h.cell => g = h

PoolInv ==
    /\ fix = [l \in Level |-> fix[l]]
    /\ \A l \in Level : LevelOK(l, fix[l], Cells(held, l))
    /\ BigOK(biglist, bigs, held) /\ HeldOK(held, bigs)

(* The next level is not smaller. *)
LEMMA Grows ==
    ASSUME NEW g \in Nat
    PROVE  (g * RateNum) \div RateDen \in Nat /\ g <= (g * RateNum) \div RateDen
<1> USE PoolAssumption
<1>1. PICK p : p = g * RateNum
  OBVIOUS
<1>2. p \in Nat
  BY <1>1
<1>3. PICK q : q = p \div RateDen
  OBVIOUS
<1>4. q \in Nat /\ p < RateDen * q + RateDen
  BY <1>2, <1>3
<1>5. ASSUME q < g PROVE FALSE
  <2>1. q + 1 <= g /\ q + 1 \in Nat
    BY <1>4, <1>5
  <2>2. \A a, b, d \in Nat : a <= b => d * a <= d * b
    OBVIOUS
  <2>3. RateDen * (q + 1) <= RateDen * g
    BY <2>1, <2>2
  <2>4. \A a, b, d \in Nat : a <= b => d * a <= d * b
    OBVIOUS
  <2>5. g * RateDen <= g * RateNum
    BY <2>4
  <2>6. RateDen * g = g * RateDen /\ RateDen * (q + 1) = RateDen * q + RateDen
    BY <1>4
  <2>7. RateDen * q + RateDen \in Nat /\ g * RateDen \in Nat
    BY <1>4
  <2> QED BY <1>1, <1>2, <1>4, <2>3, <2>5, <2>6, <2>7
<1>6. g <= q
  BY <1>4, <1>5
<1> QED BY <1>1, <1>3, <1>4, <1>6

(* What create() and getidx() compute, round by round. *)
LEMMA GrownIs ==
    Grown = [i \in 0..11 |-> IF i = 0 THEN MinMem ELSE (Grown[i - 1] * RateNum) \div RateDen]
<1> USE PoolAssumption
<1> DEFINE G(f) == [i \in 0..11 |-> IF i = 0 THEN MinMem ELSE (f[i - 1] * RateNum) \div RateDen]
<1>1. Grown = CHOOSE f : f = G(f)
  BY DEF Grown, DEFLEVEL
<1>2. \E f : f = G(f)
  <2> DEFINE Up(x) == (x * RateNum) \div RateDen
  <2>1. PICK a0 : a0 = MinMem
    OBVIOUS
  <2>2. PICK a1 : a1 = Up(a0)
    OBVIOUS
  <2>3. PICK a2 : a2 = Up(a1)
    OBVIOUS
  <2>4. PICK a3 : a3 = Up(a2)
    OBVIOUS
  <2>5. PICK a4 : a4 = Up(a3)
    OBVIOUS
  <2>6. PICK a5 : a5 = Up(a4)
    OBVIOUS
  <2>7. PICK a6 : a6 = Up(a5)
    OBVIOUS
  <2>8. PICK a7 : a7 = Up(a6)
    OBVIOUS
  <2>9. PICK a8 : a8 = Up(a7)
    OBVIOUS
  <2>10. PICK a9 : a9 = Up(a8)
    OBVIOUS
  <2>11. PICK a10 : a10 = Up(a9)
    OBVIOUS
  <2>12. PICK a11 : a11 = Up(a10)
    OBVIOUS
  <2>13. PICK s : s = <<a0, a1, a2, a3, a4, a5, a6, a7, a8, a9, a10, a11>>
    OBVIOUS
  <2> HIDE DEF Up
  <2>14. /\ s[1] = MinMem /\ s[2] = Up(s[1]) /\ s[3] = Up(s[2]) /\ s[4] = Up(s[3]) /\ s[5] = Up(s[4])
         /\ s[6] = Up(s[5]) /\ s[7] = Up(s[6]) /\ s[8] = Up(s[7]) /\ s[9] = Up(s[8])
         /\ s[10] = Up(s[9]) /\ s[11] = Up(s[10]) /\ s[12] = Up(s[11])
    BY <2>1, <2>2, <2>3, <2>4, <2>5, <2>6, <2>7, <2>8, <2>9, <2>10, <2>11, <2>12, <2>13
  <2>15. PICK f : f = [i \in 0..11 |-> s[i + 1]]
    OBVIOUS
  <2>16. \A i \in 0..11 : i # 0 => f[i] = Up(f[i - 1])
    <3> SUFFICES ASSUME NEW i \in 0..11, i # 0 PROVE s[i + 1] = Up(s[i])
      BY <2>15
    <3>1. i \in {1, 2, 3, 4, 5, 6, 7, 8, 9, 10, 11}
      OBVIOUS
    <3> QED BY <2>14, <3>1
  <2>17. f[0] = MinMem
    BY <2>14, <2>15
  <2>18. f = [i \in 0..11 |-> IF i = 0 THEN MinMem ELSE Up(f[i - 1])]
    BY <2>15, <2>16, <2>17
  <2>19. f = G(f)
    BY <2>18 DEF Up
  <2> QED BY <2>19
<1>3. Grown = G(Grown)
  BY <1>1, <1>2
<1> QED BY <1>3

(* The sizes of the levels. *)
LEMMA Sizes ==
    /\ \A i \in 0..11 : Grown[i] \in Nat \ {0}
    /\ \A i, j \in 0..11 : i <= j => Grown[i] <= Grown[j]
    /\ Grown[0] = MinMem
<1> USE PoolAssumption
<1> DEFINE Up(x) == (x * RateNum) \div RateDen
<1>1. Grown[0] = MinMem
  BY GrownIs
<1>2. \A i \in 1..11 : Grown[i] = Up(Grown[i - 1])
  <2>1. \A i \in 1..11 : i \in 0..11 /\ i # 0
    OBVIOUS
  <2> QED BY <2>1, GrownIs
<1>3. \A g \in Nat : Up(g) \in Nat /\ g <= Up(g)
  BY Grows
<1> HIDE DEF Up
<1>4. \A i \in 1..11 : Grown[i - 1] \in Nat \ {0} => Grown[i] \in Nat \ {0} /\ Grown[i - 1] <= Grown[i]
  BY <1>2, <1>3
<1>5. Grown[0] \in Nat \ {0}
  BY <1>1
<1>6. Grown[1] \in Nat \ {0} /\ Grown[0] <= Grown[1]
  BY <1>4, <1>5
<1>7. Grown[2] \in Nat \ {0} /\ Grown[1] <= Grown[2]
  BY <1>4, <1>6
<1>8. Grown[3] \in Nat \ {0} /\ Grown[2] <= Grown[3]
  BY <1>4, <1>7
<1>9. Grown[4] \in Nat \ {0} /\ Grown[3] <= Grown[4]
  BY <1>4, <1>8
<1>10. Grown[5] \in Nat \ {0} /\ Grown[4] <= Grown[5]
  BY <1>4, <1>9
<1>11. Grown[6] \in Nat \ {0} /\ Grown[5] <= Grown[6]
  BY <1>4, <1>10
<1>12. Grown[7] \in Nat \ {0} /\ Grown[6] <= Grown[7]
  BY <1>4, <1>11
<1>13. Grown[8] \in Nat \ {0} /\ Grown[7] <= Grown[8]
  BY <1>4, <1>12
<1>14. Grown[9] \in Nat \ {0} /\ Grown[8] <= Grown[9]
  BY <1>4, <1>13
<1>15. Grown[10] \in Nat \ {0} /\ Grown[9] <= Grown[10]
  BY <1>4, <1>14
<1>16. Grown[11] \in Nat \ {0} /\ Grown[10] <= Grown[11]
  BY <1>4, <1>15
<1>17. \A i \in 0..11 : i \in {0, 1, 2, 3, 4, 5, 6, 7, 8, 9, 10, 11}
  OBVIOUS
<1>18. \A i \in 0..11 : Grown[i] \in Nat \ {0}
  BY <1>5, <1>6, <1>7, <1>8, <1>9, <1>10, <1>11, <1>12, <1>13, <1>14, <1>15, <1>16, <1>17
<1>19. ASSUME NEW i \in 0..11, NEW j \in 0..11, i <= j PROVE Grown[i] <= Grown[j]
  BY <1>5, <1>6, <1>7, <1>8, <1>9, <1>10, <1>11, <1>12, <1>13, <1>14, <1>15, <1>16, <1>17, <1>19
<1> QED BY <1>1, <1>18, <1>19

(* A set of numbers has a least one. *)
LEMMA LeastNat ==
    ASSUME NEW T, T \subseteq Nat, T # {}
    PROVE  \E x \in T : \A y \in T : x <= y
<1> DEFINE R == {ss \in Nat \X Nat : ss[1] < ss[2]}
<1>1. OpToRel(<,Nat) = R
  BY Zenon DEF OpToRel
<1>2. \A x, y \in Nat : <<y, x>> \in R <=> y < x
  OBVIOUS
<1>3. IsWellFoundedOn(R, Nat)
  BY <1>1, NatLessThanWellFounded
<1> HIDE DEF R
<1>4. PICK x \in T : \A y \in T : ~(<<y, x>> \in R)
  BY <1>3, WFMin
<1>5. \A y \in T : x \in Nat /\ y \in Nat /\ ~(y < x)
  BY <1>2, <1>4
<1> QED BY <1>5

(* There is a largest level. *)
LEMMA LargestIs ==
    /\ Level \subseteq 0..10 /\ -1 \notin Level
    /\ Largest \in Level /\ \A j \in Level : j <= Largest
<1> USE PoolAssumption
<1>1. 0 \in Level
  BY Sizes DEF Level, DEFLEVEL
<1>2. Level \subseteq 0..10
  BY DEF Level, DEFLEVEL
<1>3. PICK Gaps : Gaps = {10 - x : x \in Level}
  OBVIOUS
<1>4. Gaps \subseteq Nat /\ Gaps # {}
  <2>1. \A x \in Level : 10 - x \in Nat
    BY <1>2
  <2> QED BY <1>1, <1>3, <2>1
<1>5. PICK d \in Gaps : \A e \in Gaps : d <= e
  BY <1>4, LeastNat
<1>6. PICK m \in Level : d = 10 - m
  BY <1>3, <1>5
<1>7. ASSUME NEW y \in Level PROVE y <= m
  <2>1. 10 - y \in Gaps
    BY <1>3
  <2>2. 10 - m <= 10 - y
    BY <1>5, <1>6, <2>1
  <2>3. m \in 0..10 /\ y \in 0..10
    BY <1>2
  <2> QED BY <2>2, <2>3
<1>8. Largest \in Level /\ \A j \in Level : j <= Largest
  BY <1>7 DEF Largest
<1> QED BY <1>2, <1>8

(* A block of a level has room for a cell. *)
LEMMA Rooms ==
    ASSUME NEW l \in Level
    PROVE  bnum(l) \in Nat \ {0} /\ bsize(l) \in Nat
<1> USE PoolAssumption
<1>1. l \in 0..11 /\ Grown[l] <= MaxMem /\ Grown[l] \in Nat \ {0}
  BY Sizes DEF Level, DEFLEVEL
<1>2. PICK g : g = Grown[l]
  OBVIOUS
<1>3. PICK q : q = MaxMem \div g
  OBVIOUS
<1>4. q \in Nat /\ MaxMem < g * q + g
  BY <1>1, <1>2, <1>3
<1>5. q # 0
  <2>1. q = 0 => g * q = 0
    BY <1>1, <1>2
  <2> QED BY <1>1, <1>2, <1>4, <2>1
<1> QED BY <1>1, <1>2, <1>3, <1>4, <1>5 DEF bnum, bsize

(* getidx() finds a level whose cells hold what is asked for. *)
LEMMA IdxIs ==
    ASSUME NEW rsize \in Nat, rsize <= AllocMem
    PROVE  getidx(rsize) \in Level /\ rsize <= bsize(getidx(rsize))
<1> DEFINE P(i) == rsize <= Grown[i] + 1
<1>1. PICK S : S = {i \in 0..11 : P(i)}
  OBVIOUS
<1>2. Largest \in 0..10 /\ Largest \in S /\ Grown[Largest] <= MaxMem
  BY <1>1, LargestIs DEF AllocMem, bsize, Level
<1>3. PICK m \in S : \A j \in S : m <= j
  <2>1. S \subseteq Nat
    BY <1>1
  <2> QED BY <1>2, <2>1, LeastNat
<1>4. m \in 0..11 /\ P(m) /\ m <= Largest
  BY <1>1, <1>2, <1>3
<1>5. ASSUME NEW j \in 0..(m - 1) PROVE rsize > Grown[j] + 1
  <2>1. j \notin S /\ j \in 0..11
    BY <1>3, <1>4
  <2>2. ~(rsize <= Grown[j] + 1) /\ Grown[j] \in Nat
    BY <1>1, <2>1, Sizes
  <2> QED BY <2>2
<1>6. \E i \in 0..DEFLEVEL : rsize <= Grown[i] + 1 /\ \A j \in 0..(i - 1) : rsize > Grown[j] + 1
  BY <1>4, <1>5 DEF DEFLEVEL
<1>7. PICK i : i = getidx(rsize)
  OBVIOUS
<1>8. i \in 0..11 /\ P(i) /\ \A j \in 0..(i - 1) : rsize > Grown[j] + 1
  BY <1>6, <1>7 DEF getidx, DEFLEVEL
<1>9. i <= Largest
  <2>1. SUFFICES ASSUME Largest \in 0..(i - 1) PROVE FALSE
    BY <1>2, <1>8
  <2>2. rsize > Grown[Largest] + 1 /\ Grown[Largest] \in Nat
    BY <1>2, <1>8, <2>1, Sizes
  <2> QED BY <1>1, <1>2, <2>2
<1>10. Grown[i] <= Grown[Largest] /\ Grown[i] \in Nat /\ Grown[Largest] \in Nat
  BY <1>2, <1>8, <1>9, Sizes
<1>11. i \in Level
  BY PoolAssumption, <1>2, <1>8, <1>9, <1>10 DEF Level, DEFLEVEL
<1> QED BY <1>7, <1>8, <1>11 DEF bsize

(* What has been cut off the blocks of a level. *)
LEMMA CutHas ==
    ASSUME NEW l, NEW used, NEW c
    PROVE  c \in CutOff(l, used) <=> \E b \in DOMAIN used : \E k \in 1..used[b] : c = Cell(l, b, k)
BY DEF CutOff

(* The cells of a level are cells of the pool. *)
LEMMA CutIn ==
    ASSUME NEW l \in Level, NEW used \in Seq(Nat)
    PROVE  CutOff(l, used) \subseteq PoolCell
<1> SUFFICES ASSUME NEW b \in DOMAIN used, NEW k \in 1..used[b] PROVE Cell(l, b, k) \in PoolCell
  BY CutHas
<1>1. b \in Nat /\ used[b] \in Nat
  OBVIOUS
<1>2. k \in Nat
  BY <1>1
<1> QED BY <1>1, <1>2 DEF Cell, PoolCell

(* A cell more of block b, and one cell of a new block. *)
OneMore(used, u2, b) ==
    DOMAIN u2 = DOMAIN used /\ u2[b] = used[b] + 1 /\ \A a \in DOMAIN used : a # b => u2[a] = used[a]

OneNew(used, u2) ==
    DOMAIN u2 = 1..(Len(used) + 1) /\ u2[Len(used) + 1] = 1 /\ \A a \in DOMAIN used : u2[a] = used[a]

(* A cell more of block b is one cell more. *)
LEMMA CutMore ==
    ASSUME NEW l, NEW used \in Seq(Nat), NEW b \in DOMAIN used, NEW u2, OneMore(used, u2, b)
    PROVE  /\ Cell(l, b, used[b] + 1) \notin CutOff(l, used)
           /\ CutOff(l, u2) = CutOff(l, used) \cup {Cell(l, b, used[b] + 1)}
<1>c. PICK c : c = Cell(l, b, used[b] + 1)
  OBVIOUS
<1>0. \A a \in DOMAIN used : used[a] \in Nat
  OBVIOUS
<1>1. DOMAIN u2 = DOMAIN used /\ u2[b] = used[b] + 1 /\ \A a \in DOMAIN used : a # b => u2[a] = used[a]
  BY DEF OneMore
<1>2. c \notin CutOff(l, used)
  <2> SUFFICES ASSUME NEW a \in DOMAIN used, NEW k \in 1..used[a], c = Cell(l, a, k) PROVE FALSE
    BY CutHas
  <2>1. a = b /\ k = used[b] + 1
    <3>1. c.block = b /\ c.place = used[b] + 1
      BY <1>c DEF Cell
    <3>2. c.block = a /\ c.place = k
      BY DEF Cell
    <3> QED BY <3>1, <3>2
  <2> QED BY <1>0, <2>1
<1>3. ASSUME NEW x \in CutOff(l, u2) PROVE x \in CutOff(l, used) \cup {c}
  <2>1. PICK a \in DOMAIN u2 : \E k \in 1..u2[a] : x = Cell(l, a, k)
    BY <1>3, CutHas
  <2>2. PICK k \in 1..u2[a] : x = Cell(l, a, k)
    BY <2>1
  <2>3. CASE a # b
    BY <1>1, <2>2, <2>3, CutHas
  <2>4. CASE a = b /\ k = used[b] + 1
    BY <1>c, <2>2, <2>4
  <2>5. CASE a = b /\ k # used[b] + 1
    <3>1. k \in 1..used[b]
      BY <1>0, <1>1, <2>2, <2>5
    <3> QED BY <2>2, <2>5, <3>1, CutHas
  <2> QED BY <2>3, <2>4, <2>5
<1>4. ASSUME NEW x \in CutOff(l, used) PROVE x \in CutOff(l, u2)
  <2>1. PICK a \in DOMAIN used : \E k \in 1..used[a] : x = Cell(l, a, k)
    BY <1>4, CutHas
  <2>2. PICK k \in 1..used[a] : x = Cell(l, a, k)
    BY <2>1
  <2>3. k \in 1..u2[a]
    BY <1>0, <1>1
  <2> QED BY <1>1, <2>2, <2>3, CutHas
<1>5. c \in CutOff(l, u2)
  <2>1. u2[b] \in 1..u2[b]
    BY <1>0, <1>1
  <2> QED BY <1>c, <1>1, <2>1, CutHas
<1> QED BY <1>c, <1>2, <1>3, <1>4, <1>5

(* So is a cell of a new block. *)
LEMMA CutNew ==
    ASSUME NEW l, NEW used \in Seq(Nat), NEW u2, OneNew(used, u2)
    PROVE  /\ Cell(l, Len(used) + 1, 1) \notin CutOff(l, used)
           /\ CutOff(l, u2) = CutOff(l, used) \cup {Cell(l, Len(used) + 1, 1)}
<1>c. PICK c : c = Cell(l, Len(used) + 1, 1)
  OBVIOUS
<1>1. /\ DOMAIN used = 1..Len(used) /\ Len(used) \in Nat /\ DOMAIN u2 = 1..(Len(used) + 1)
      /\ u2[Len(used) + 1] = 1 /\ \A a \in 1..Len(used) : u2[a] = used[a]
  BY DEF OneNew
<1>2. c \notin CutOff(l, used)
  <2> SUFFICES ASSUME NEW a \in DOMAIN used, NEW k \in 1..used[a], c = Cell(l, a, k) PROVE FALSE
    BY CutHas
  <2>1. a = Len(used) + 1
    <3>1. c.block = Len(used) + 1
      BY <1>c DEF Cell
    <3>2. c.block = a
      BY DEF Cell
    <3> QED BY <3>1, <3>2
  <2> QED BY <1>1, <2>1
<1>3. ASSUME NEW x \in CutOff(l, u2) PROVE x \in CutOff(l, used) \cup {c}
  <2>1. PICK a \in DOMAIN u2 : \E k \in 1..u2[a] : x = Cell(l, a, k)
    BY <1>3, CutHas
  <2>2. PICK k \in 1..u2[a] : x = Cell(l, a, k)
    BY <2>1
  <2>3. CASE a \in 1..Len(used)
    BY <1>1, <2>2, <2>3, CutHas
  <2>4. CASE a = Len(used) + 1
    <3>1. k = 1
      BY <1>1, <2>2, <2>4
    <3> QED BY <1>c, <2>2, <2>4, <3>1
  <2>5. a \in 1..(Len(used) + 1)
    BY <1>1
  <2>6. a \in 1..Len(used) \/ a = Len(used) + 1
    BY <1>1, <2>5
  <2> QED BY <2>3, <2>4, <2>6
<1>4. ASSUME NEW x \in CutOff(l, used) PROVE x \in CutOff(l, u2)
  <2>1. PICK a \in DOMAIN used : \E k \in 1..used[a] : x = Cell(l, a, k)
    BY <1>4, CutHas
  <2>2. a \in DOMAIN u2 /\ u2[a] = used[a]
    BY <1>1
  <2> QED BY <2>1, <2>2, CutHas
<1>5. c \in CutOff(l, u2)
  <2>1. Len(used) + 1 \in DOMAIN u2 /\ 1 \in 1..u2[Len(used) + 1]
    BY <1>1
  <2> QED BY <1>c, <2>1, CutHas
<1> QED BY <1>c, <1>2, <1>3, <1>4, <1>5

(* Nothing is cut off a block after a reset. *)
LEMMA CutNone ==
    ASSUME NEW l, NEW used, \A b \in DOMAIN used : used[b] = 0
    PROVE  CutOff(l, used) = {}
<1>1. 1..0 = {}
  OBVIOUS
<1> QED BY <1>1, CutHas

(* What cutting a cell of block b, and what a new block makes of a FixMem; *)
(* when the code does the one and the other.                               *)
AfterCut(f, b) ==
    [used |-> [f.used EXCEPT ![b] = @ + 1], now |-> b, free |-> f.free, nowb |-> f.nowb + 1]

AfterNew(f) ==
    [used |-> Append(f.used, 1), now |-> Len(f.used) + 1, free |-> f.free, nowb |-> f.nowb + 1]

MayCut(l, f, b) ==
    /\ b \in DOMAIN f.used /\ f.used[b] < bnum(l)
    /\ b = f.now \/ (b = f.now - 1 /\ f.used[f.now] = bnum(l) /\ f.used[b] # bnum(l))

MayGrow(l, f) ==
    f.now = 0 \/ (~(f.used[f.now] < bnum(l)) /\ ~(f.now > 1 /\ f.used[f.now - 1] # bnum(l)))

(* A FixMem cuts a cell of the current block, or of the one after it. *)
LEMMA LevelCut ==
    ASSUME NEW l \in Level, NEW f, NEW H, LevelOK(l, f, H), NEW b, MayCut(l, f, b)
    PROVE  /\ Cell(l, b, f.used[b] + 1) \notin H
           /\ LevelOK(l, AfterCut(f, b), H \cup {Cell(l, b, f.used[b] + 1)})
<1>a. /\ b \in DOMAIN f.used /\ f.used[b] < bnum(l)
      /\ b = f.now \/ (b = f.now - 1 /\ f.used[f.now] = bnum(l) /\ f.used[b] # bnum(l))
  BY DEF MayCut
<1>b. PICK u2 : u2 = [f.used EXCEPT ![b] = @ + 1]
  OBVIOUS
<1>c. PICK g : g = [used |-> u2, now |-> b, free |-> f.free, nowb |-> f.nowb + 1]
  OBVIOUS
<1>d. PICK c : c = Cell(l, b, f.used[b] + 1)
  OBVIOUS
<1>1. /\ f \in [used : Seq(Nat), now : Nat, free : Seq(PoolCell), nowb : Nat]
      /\ Rounds(f.used, f.now, bnum(l)) /\ Once(f.free)
      /\ H \cup ToSet(f.free) = CutOff(l, f.used) /\ H \cap ToSet(f.free) = {}
      /\ IsFiniteSet(H) /\ f.nowb = Cardinality(H)
  BY DEF LevelOK
<1>2. PICK u : u = f.used
  OBVIOUS
<1>21. PICK n : n = bnum(l)
  OBVIOUS
<1>4. u \in Seq(Nat) /\ b \in DOMAIN u /\ b \in 1..Len(u) /\ Len(u) \in Nat /\ n \in Nat \ {0} /\ u[b] \in Nat /\ u[b] < n
  <2>1. u \in Seq(Nat) /\ b \in DOMAIN u
    BY <1>a, <1>1, <1>2, <1>21
  <2> QED BY <1>a, <1>2, <1>21, <2>1, Rooms
<1>5. /\ u2 \in Seq(Nat) /\ DOMAIN u2 = DOMAIN u /\ Len(u2) = Len(u) /\ u2[b] = u[b] + 1
      /\ \A a \in DOMAIN u : a # b => u2[a] = u[a]
  BY <1>a, <1>b, <1>2, <1>21, <1>4
<1>6. c \notin CutOff(l, u) /\ CutOff(l, u2) = CutOff(l, u) \cup {c}
  <2>1. c = Cell(l, b, u[b] + 1)
    BY <1>d, <1>2, <1>21, <1>4, <1>5
  <2>2. Cell(l, b, u[b] + 1) \notin CutOff(l, u) /\ CutOff(l, u2) = CutOff(l, u) \cup {Cell(l, b, u[b] + 1)}
    <3>1. OneMore(u, u2, b)
      BY <1>5 DEF OneMore
    <3> QED BY <1>4, <3>1, CutMore
  <2> QED BY <2>1, <2>2
<1>7. c \notin H /\ c \notin ToSet(f.free)
  BY <1>1, <1>2, <1>21, <1>6
<1>8. IsFiniteSet(H \cup {c}) /\ Cardinality(H \cup {c}) = Cardinality(H) + 1
  BY <1>1, <1>7, FS_AddElement
<1>9. Rounds(u2, b, n)
  <2>1. PICK m : m = f.now
    OBVIOUS
  <2>2. Rounds(u, m, n) /\ m \in Nat /\ (b = m \/ (b = m - 1 /\ u[m] = n /\ u[b] # n))
    BY <1>a, <1>1, <1>2, <1>21, <2>1
  <2>3. \A a \in DOMAIN u : a \in Nat /\ u[a] \in Nat
    BY <1>4
  <2>4. b <= Len(u2) /\ b # 0
    BY <1>4, <1>5
  <2>5. \A a \in DOMAIN u : u2[a] <= n
    <3>1. \A a \in DOMAIN u : u[a] <= n
      BY <2>2 DEF Rounds
    <3>2. u2[b] <= n
      BY <1>4, <1>5
    <3> QED BY <1>5, <3>1, <3>2
  <2>6. ASSUME NEW a \in DOMAIN u, a > b PROVE u2[a] = n
    <3>1. a # b /\ (a > m \/ a = m)
      BY <1>4, <2>2, <2>3, <2>6
    <3>2. u[a] = n
      <4>1. CASE a > m
        BY <2>2, <4>1 DEF Rounds
      <4>2. CASE a = m
        BY <1>4, <2>2, <2>3, <2>6, <4>2
      <4> QED BY <3>1, <4>1, <4>2
    <3> QED BY <1>5, <3>1, <3>2
  <2>7. \/ \A a \in DOMAIN u : a < b => u2[a] = n
        \/ \A a \in DOMAIN u : a < b => u2[a] = 0
    <3>1. \A a \in DOMAIN u : a < b => a # b /\ a < m
      BY <1>4, <2>2, <2>3
    <3> QED BY <1>5, <2>2, <3>1 DEF Rounds
  <2> QED BY <1>5, <2>4, <2>5, <2>6, <2>7 DEF Rounds
<1>10. b \in Nat /\ f.nowb + 1 \in Nat
  <2>1. b \in Nat /\ f.nowb \in Nat
    BY <1>1, <1>4
  <2> QED BY <2>1
<1>11. g \in [used : Seq(Nat), now : Nat, free : Seq(PoolCell), nowb : Nat]
  BY <1>c, <1>1, <1>5, <1>10
<1>12. g.used = u2 /\ g.now = b /\ g.free = f.free /\ g.nowb = f.nowb + 1
  BY <1>c
<1>13. (H \cup {c}) \cup ToSet(g.free) = CutOff(l, g.used) /\ (H \cup {c}) \cap ToSet(g.free) = {}
  BY <1>1, <1>2, <1>21, <1>6, <1>7, <1>12
<1> QED BY <1>b, <1>c, <1>d, <1>1, <1>2, <1>21, <1>7, <1>8, <1>9, <1>11, <1>12, <1>13 DEF LevelOK, AfterCut

(* A FixMem takes a new block when all cells of the others are in use. *)
LEMMA LevelNew ==
    ASSUME NEW l \in Level, NEW f, NEW H, LevelOK(l, f, H), MayGrow(l, f)
    PROVE  /\ Cell(l, Len(f.used) + 1, 1) \notin H
           /\ LevelOK(l, AfterNew(f), H \cup {Cell(l, Len(f.used) + 1, 1)})
           /\ \A a \in DOMAIN f.used : f.used[a] = bnum(l)
<1>a. f.now = 0 \/ (~(f.used[f.now] < bnum(l)) /\ ~(f.now > 1 /\ f.used[f.now - 1] # bnum(l)))
  BY DEF MayGrow
<1>b. PICK u2 : u2 = Append(f.used, 1)
  OBVIOUS
<1>e. PICK b : b = Len(f.used) + 1
  OBVIOUS
<1>c. PICK g : g = [used |-> u2, now |-> b, free |-> f.free, nowb |-> f.nowb + 1]
  OBVIOUS
<1>d. PICK c : c = Cell(l, b, 1)
  OBVIOUS
<1>1. /\ f \in [used : Seq(Nat), now : Nat, free : Seq(PoolCell), nowb : Nat]
      /\ Rounds(f.used, f.now, bnum(l)) /\ Once(f.free)
      /\ H \cup ToSet(f.free) = CutOff(l, f.used) /\ H \cap ToSet(f.free) = {}
      /\ IsFiniteSet(H) /\ f.nowb = Cardinality(H)
  BY DEF LevelOK
<1>2. PICK u : u = f.used
  OBVIOUS
<1>21. PICK n : n = bnum(l)
  OBVIOUS
<1>22. PICK m : m = f.now
  OBVIOUS
<1>4. u \in Seq(Nat) /\ Len(u) \in Nat /\ DOMAIN u = 1..Len(u) /\ n \in Nat \ {0} /\ m \in Nat /\ Rounds(u, m, n)
  <2>1. u \in Seq(Nat)
    BY <1>1, <1>a, <1>b, <1>d, <1>e, <1>2, <1>21, <1>22
  <2> QED BY <1>1, <1>a, <1>b, <1>d, <1>e, <1>2, <1>21, <1>22, <2>1, Rooms
<1>5. /\ u2 \in Seq(Nat) /\ Len(u2) = Len(u) + 1 /\ DOMAIN u2 = 1..(Len(u) + 1)
      /\ u2[Len(u) + 1] = 1 /\ \A a \in DOMAIN u : u2[a] = u[a]
  BY <1>a, <1>b, <1>d, <1>e, <1>2, <1>21, <1>22, <1>4
<1>6. c \notin CutOff(l, u) /\ CutOff(l, u2) = CutOff(l, u) \cup {c}
  <2>1. c = Cell(l, Len(u) + 1, 1)
    BY <1>a, <1>b, <1>d, <1>e, <1>2, <1>21, <1>22, <1>4, <1>5
  <2>2. Cell(l, Len(u) + 1, 1) \notin CutOff(l, u) /\ CutOff(l, u2) = CutOff(l, u) \cup {Cell(l, Len(u) + 1, 1)}
    <3>1. OneNew(u, u2)
      BY <1>4, <1>5 DEF OneNew
    <3> QED BY <1>4, <3>1, CutNew
  <2> QED BY <2>1, <2>2
<1>7. c \notin H /\ c \notin ToSet(f.free)
  BY <1>1, <1>a, <1>b, <1>d, <1>e, <1>2, <1>21, <1>22, <1>6
<1>8. IsFiniteSet(H \cup {c}) /\ Cardinality(H \cup {c}) = Cardinality(H) + 1
  BY <1>1, <1>7, FS_AddElement
<1>9. \A a \in DOMAIN u : u[a] = n
  <2> SUFFICES ASSUME NEW a \in DOMAIN u PROVE u[a] = n
    OBVIOUS
  <2>1. m # 0 /\ m \in 1..Len(u)
    BY <1>4 DEF Rounds
  <2>2. m \in DOMAIN u /\ u[m] \in Nat /\ u[m] <= n /\ \A x \in DOMAIN u : u[x] \in Nat
    BY <1>4, <2>1 DEF Rounds
  <2>3. u[m] = n
    BY <1>a, <1>b, <1>d, <1>e, <1>2, <1>21, <1>22, <1>4, <2>1, <2>2
  <2>4. a \in Nat /\ (a > m \/ a = m \/ a < m)
    BY <1>4, <2>1
  <2>5. CASE a > m
    BY <1>4, <2>5 DEF Rounds
  <2>6. CASE a < m
    <3>1. m > 1 /\ m - 1 \in DOMAIN u /\ m - 1 < m
      BY <1>4, <2>1, <2>4, <2>6
    <3>2. u[m - 1] = n
      BY <1>a, <1>b, <1>d, <1>e, <1>2, <1>21, <1>22, <2>1, <2>3, <3>1
    <3>3. \A x \in DOMAIN u : x < m => u[x] = n
      <4>1. n # 0
        BY <1>4
      <4> QED BY <1>4, <3>1, <3>2, <4>1 DEF Rounds
    <3> QED BY <2>6, <3>3
  <2> QED BY <2>3, <2>4, <2>5, <2>6
<1>10. Rounds(u2, b, n)
  <2>1. b = Len(u) + 1 /\ b # 0 /\ b <= Len(u2)
    BY <1>a, <1>b, <1>d, <1>e, <1>2, <1>21, <1>22, <1>4, <1>5
  <2>2. \A a \in DOMAIN u2 : ~(a > b) /\ (a = b \/ (a < b /\ a \in DOMAIN u))
    BY <1>4, <1>5, <2>1
  <2>3. \A a \in DOMAIN u2 : u2[a] <= n
    BY <1>4, <1>5, <1>9, <2>1, <2>2
  <2>4. \A a \in DOMAIN u2 : a < b => u2[a] = n
    BY <1>4, <1>5, <1>9, <2>1, <2>2
  <2> QED BY <2>1, <2>2, <2>3, <2>4 DEF Rounds
<1>11. b \in Nat /\ f.nowb + 1 \in Nat
  BY <1>1, <1>a, <1>b, <1>d, <1>e, <1>2, <1>21, <1>22, <1>4
<1>12. g \in [used : Seq(Nat), now : Nat, free : Seq(PoolCell), nowb : Nat]
  BY <1>c, <1>1, <1>5, <1>11
<1>13. g.used = u2 /\ g.now = b /\ g.free = f.free /\ g.nowb = f.nowb + 1
  BY <1>c
<1>14. (H \cup {c}) \cup ToSet(g.free) = CutOff(l, g.used) /\ (H \cup {c}) \cap ToSet(g.free) = {}
  BY <1>1, <1>a, <1>b, <1>d, <1>e, <1>2, <1>21, <1>22, <1>6, <1>7, <1>13
<1> QED BY <1>c, <1>1, <1>a, <1>b, <1>d, <1>e, <1>2, <1>21, <1>22, <1>7, <1>8, <1>9, <1>10, <1>12, <1>13, <1>14 DEF LevelOK, AfterNew

(* The first element of a list taken off. *)
LEMMA TailOnce ==
    ASSUME NEW S, NEW s \in Seq(S), s # <<>>, Once(s)
    PROVE  /\ Head(s) \in ToSet(s) /\ Tail(s) \in Seq(S) /\ Once(Tail(s))
           /\ ToSet(Tail(s)) = ToSet(s) \ {Head(s)}
<1>1. PICK t : t = Tail(s)
  OBVIOUS
<1>2. PICK n : n = Len(s)
  OBVIOUS
<1>3. n \in Nat \ {0} /\ DOMAIN s = 1..n /\ Head(s) = s[1]
  BY <1>2
<1>4. t \in Seq(S) /\ Len(t) = n - 1 /\ DOMAIN t = 1..(n - 1) /\ \A i \in 1..(n - 1) : t[i] = s[i + 1]
  BY <1>1, <1>2, <1>3
<1>5. \A i, j \in 1..n : s[i] = s[j] => i = j
  BY <1>3 DEF Once
<1>6. \A i \in 1..(n - 1) : i + 1 \in 1..n /\ i + 1 # 1
  BY <1>3
<1>7. \A i \in 1..n : i # 1 => i - 1 \in 1..(n - 1) /\ i = (i - 1) + 1
  BY <1>3
<1>8. Once(t)
  <2> SUFFICES ASSUME NEW i \in 1..(n - 1), NEW j \in 1..(n - 1), t[i] = t[j] PROVE i = j
    BY <1>4 DEF Once
  <2>1. s[i + 1] = s[j + 1] /\ i + 1 \in 1..n /\ j + 1 \in 1..n
    BY <1>4, <1>6
  <2>2. i + 1 = j + 1
    BY <1>5, <2>1
  <2> QED BY <2>2
<1>9. 1 \in 1..n
  BY <1>3
<1>10. \A x : x \in ToSet(t) <=> \E i \in 1..(n - 1) : x = s[i + 1]
  BY <1>4 DEF ToSet
<1>11. \A x : x \in ToSet(s) <=> \E i \in 1..n : x = s[i]
  BY <1>3 DEF ToSet
<1>12. ASSUME NEW x \in ToSet(t) PROVE x \in ToSet(s) /\ x # s[1]
  <2>1. PICK i \in 1..(n - 1) : x = s[i + 1]
    BY <1>10, <1>12
  <2> QED BY <1>5, <1>6, <1>9, <1>11, <2>1
<1>13. ASSUME NEW x \in ToSet(s), x # s[1] PROVE x \in ToSet(t)
  <2>1. PICK i \in 1..n : x = s[i]
    BY <1>11, <1>13
  <2>2. i # 1
    BY <1>13, <2>1
  <2>3. i - 1 \in 1..(n - 1) /\ x = s[(i - 1) + 1]
    BY <1>7, <2>1, <2>2
  <2> QED BY <1>10, <2>3
<1>14. ToSet(t) = ToSet(s) \ {s[1]}
  BY <1>12, <1>13
<1>15. s[1] \in ToSet(s)
  BY <1>9, <1>11
<1> QED BY <1>1, <1>3, <1>4, <1>8, <1>14, <1>15

(* An element put before a list. *)
LEMMA ConsOnce ==
    ASSUME NEW S, NEW s \in Seq(S), Once(s), NEW c \in S, c \notin ToSet(s)
    PROVE  <<c>> \o s \in Seq(S) /\ Once(<<c>> \o s) /\ ToSet(<<c>> \o s) = ToSet(s) \cup {c}
<1>1. PICK t : t = <<c>> \o s
  OBVIOUS
<1>2. PICK n : n = Len(s)
  OBVIOUS
<1>3. n \in Nat /\ DOMAIN s = 1..n
  BY <1>2
<1>4. t \in Seq(S) /\ DOMAIN t = 1..(n + 1) /\ t[1] = c /\ \A i \in 1..(n + 1) : i # 1 => t[i] = s[i - 1]
  BY <1>1, <1>2, <1>3
<1>5. \A i, j \in 1..n : s[i] = s[j] => i = j
  BY <1>3 DEF Once
<1>6. \A i \in 1..(n + 1) : i # 1 => i - 1 \in 1..n
  BY <1>3
<1>7. \A i \in 1..n : i + 1 \in 1..(n + 1) /\ i + 1 # 1 /\ (i + 1) - 1 = i
  BY <1>3
<1>8. \A x : x \in ToSet(s) <=> \E i \in 1..n : x = s[i]
  BY <1>3 DEF ToSet
<1>9. \A x : x \in ToSet(t) <=> \E i \in 1..(n + 1) : x = t[i]
  BY <1>4 DEF ToSet
<1>10. 1 \in 1..(n + 1)
  BY <1>3
<1>11. Once(t)
  <2> SUFFICES ASSUME NEW i \in 1..(n + 1), NEW j \in 1..(n + 1), t[i] = t[j] PROVE i = j
    BY <1>4 DEF Once
  <2>1. CASE i # 1 /\ j # 1
    <3>1. s[i - 1] = s[j - 1] /\ i - 1 \in 1..n /\ j - 1 \in 1..n
      BY <1>4, <1>6, <2>1
    <3>2. i - 1 = j - 1
      BY <1>5, <3>1
    <3> QED BY <3>2
  <2>2. \A k \in 1..(n + 1) : k # 1 => t[k] \in ToSet(s)
    BY <1>4, <1>6, <1>8
  <2> QED BY <1>4, <2>1, <2>2
<1>12. ASSUME NEW x \in ToSet(t) PROVE x \in ToSet(s) \cup {c}
  BY <1>4, <1>6, <1>8, <1>9, <1>12
<1>13. ASSUME NEW x \in ToSet(s) PROVE x \in ToSet(t)
  <2>1. PICK i \in 1..n : x = s[i]
    BY <1>8, <1>13
  <2>2. x = t[i + 1]
    BY <1>4, <1>7, <2>1
  <2> QED BY <1>7, <1>9, <2>2
<1>14. c \in ToSet(t)
  BY <1>4, <1>9, <1>10
<1>15. ToSet(t) = ToSet(s) \cup {c}
  BY <1>12, <1>13, <1>14
<1> QED BY <1>1, <1>4, <1>11, <1>15

(* An element taken out of a list. *)
LEMMA RemoveOnce ==
    ASSUME NEW S, NEW s \in Seq(S), Once(s), NEW p \in DOMAIN s
    PROVE  /\ RemoveAt(s, p) \in Seq(S) /\ Once(RemoveAt(s, p))
           /\ ToSet(RemoveAt(s, p)) = ToSet(s) \ {s[p]}
<1>1. PICK t : t = RemoveAt(s, p)
  OBVIOUS
<1>2. PICK n : n = Len(s)
  OBVIOUS
<1>3. n \in Nat /\ DOMAIN s = 1..n /\ p \in 1..n
  BY <1>2
<1>4. PICK u : u = SubSeq(s, 1, p - 1)
  OBVIOUS
<1>5. PICK v : v = SubSeq(s, p + 1, n)
  OBVIOUS
<1>6. u \in Seq(S) /\ Len(u) = p - 1 /\ \A i \in 1..(p - 1) : u[i] = s[i]
  BY <1>2, <1>3, <1>4
<1>7. v \in Seq(S) /\ Len(v) = n - p /\ \A i \in 1..(n - p) : v[i] = s[p + i]
  BY <1>2, <1>3, <1>5
<1>8. t = u \o v
  BY <1>1, <1>2, <1>4, <1>5 DEF RemoveAt
<1>9. /\ t \in Seq(S) /\ DOMAIN t = 1..(n - 1)
      /\ \A i \in 1..(n - 1) : t[i] = IF i < p THEN s[i] ELSE s[i + 1]
  <2>1. t \in Seq(S) /\ Len(t) = n - 1 /\ DOMAIN t = 1..(n - 1)
    <3>1. t \in Seq(S) /\ Len(t) = Len(u) + Len(v)
      BY <1>6, <1>7, <1>8
    <3>2. (p - 1) + (n - p) = n - 1
      BY <1>3
    <3>3. Len(t) = n - 1
      BY <1>6, <1>7, <3>1, <3>2
    <3> QED BY <3>1, <3>3
  <2>2. \A i \in 1..(n - 1) : t[i] = IF i <= p - 1 THEN u[i] ELSE v[i - (p - 1)]
    BY <1>3, <1>6, <1>7, <1>8
  <2>3. ASSUME NEW i \in 1..(n - 1), i < p PROVE t[i] = s[i]
    <3>1. i <= p - 1 /\ i \in 1..(p - 1)
      BY <1>3, <2>3
    <3> QED BY <1>6, <2>2, <3>1
  <2>4. ASSUME NEW i \in 1..(n - 1), ~(i < p) PROVE t[i] = s[i + 1]
    <3>1. ~(i <= p - 1) /\ i - (p - 1) \in 1..(n - p) /\ p + (i - (p - 1)) = i + 1
      BY <1>3, <2>4
    <3> QED BY <1>7, <2>2, <3>1
  <2> QED BY <2>1, <2>3, <2>4
<1>10. \A i, j \in 1..n : s[i] = s[j] => i = j
  BY <1>3 DEF Once
<1>11. \A x : x \in ToSet(s) <=> \E i \in 1..n : x = s[i]
  BY <1>3 DEF ToSet
<1>12. \A x : x \in ToSet(t) <=> \E i \in 1..(n - 1) : x = t[i]
  BY <1>9 DEF ToSet
<1>13. \A i \in 1..(n - 1) : /\ i < p => i \in 1..n /\ i # p
                             /\ ~(i < p) => i + 1 \in 1..n /\ i + 1 # p
  BY <1>3
<1>14. Once(t)
  <2> SUFFICES ASSUME NEW i \in 1..(n - 1), NEW j \in 1..(n - 1), t[i] = t[j] PROVE i = j
    BY <1>9 DEF Once
  <2>1. CASE i < p /\ j < p
    BY <1>9, <1>10, <1>13, <2>1
  <2>2. CASE ~(i < p) /\ ~(j < p)
    <3>1. i + 1 = j + 1
      BY <1>9, <1>10, <1>13, <2>2
    <3> QED BY <3>1
  <2>3. CASE i < p /\ ~(j < p)
    <3>1. i = j + 1
      BY <1>9, <1>10, <1>13, <2>3
    <3> QED BY <1>3, <2>3, <3>1
  <2>4. CASE ~(i < p) /\ j < p
    <3>1. i + 1 = j
      BY <1>9, <1>10, <1>13, <2>4
    <3> QED BY <1>3, <2>4, <3>1
  <2> QED BY <2>1, <2>2, <2>3, <2>4
<1>15. ASSUME NEW x \in ToSet(t) PROVE x \in ToSet(s) /\ x # s[p]
  <2>1. PICK i \in 1..(n - 1) : x = t[i]
    BY <1>12, <1>15
  <2>2. CASE i < p
    BY <1>3, <1>9, <1>10, <1>11, <1>13, <2>1, <2>2
  <2>3. CASE ~(i < p)
    BY <1>3, <1>9, <1>10, <1>11, <1>13, <2>1, <2>3
  <2> QED BY <2>2, <2>3
<1>16. ASSUME NEW x \in ToSet(s), x # s[p] PROVE x \in ToSet(t)
  <2>1. PICK i \in 1..n : x = s[i]
    BY <1>11, <1>16
  <2>2. i # p
    BY <1>16, <2>1
  <2>3. CASE i < p
    <3>1. i \in 1..(n - 1)
      BY <1>3, <2>3
    <3> QED BY <1>9, <1>12, <2>1, <2>3, <3>1
  <2>4. CASE i > p
    <3>1. i - 1 \in 1..(n - 1) /\ ~(i - 1 < p) /\ (i - 1) + 1 = i
      BY <1>3, <2>4
    <3> QED BY <1>9, <1>12, <2>1, <3>1
  <2> QED BY <1>3, <2>2, <2>3, <2>4
<1>17. ToSet(t) = ToSet(s) \ {s[p]}
  BY <1>15, <1>16
<1> QED BY <1>1, <1>9, <1>14, <1>17

(* The cells of a level carry its number. *)
LEMMA LevelCells ==
    ASSUME NEW l \in Level, NEW f, NEW H, LevelOK(l, f, H), NEW c \in H \cup ToSet(f.free)
    PROVE  c \in PoolCell /\ c.level = l
<1>1. f.used \in Seq(Nat) /\ c \in CutOff(l, f.used)
  BY DEF LevelOK
<1>2. PICK b \in DOMAIN f.used : \E k \in 1..(f.used)[b] : c = Cell(l, b, k)
  BY <1>1, CutHas
<1>3. c.level = l
  BY <1>2 DEF Cell
<1> QED BY <1>1, <1>3, CutIn

(* A returned cell is handed out again. *)
LEMMA LevelFree ==
    ASSUME NEW l \in Level, NEW f, NEW H, LevelOK(l, f, H), f.free # <<>>,
           NEW g, g = [used |-> f.used, now |-> f.now, free |-> Tail(f.free), nowb |-> f.nowb + 1]
    PROVE  Head(f.free) \notin H /\ Head(f.free) \in ToSet(f.free) /\ LevelOK(l, g, H \cup {Head(f.free)})
<1>1. /\ f \in [used : Seq(Nat), now : Nat, free : Seq(PoolCell), nowb : Nat]
      /\ Rounds(f.used, f.now, bnum(l)) /\ Once(f.free)
      /\ H \cup ToSet(f.free) = CutOff(l, f.used) /\ H \cap ToSet(f.free) = {}
      /\ IsFiniteSet(H) /\ f.nowb = Cardinality(H)
  BY DEF LevelOK
<1>2. PICK c : c = Head(f.free)
  OBVIOUS
<1>3. PICK s : s = Tail(f.free)
  OBVIOUS
<1>4. f.free \in Seq(PoolCell)
  BY <1>1
<1>5. c \in ToSet(f.free) /\ s \in Seq(PoolCell) /\ Once(s) /\ ToSet(s) = ToSet(f.free) \ {c}
  BY <1>1, <1>2, <1>3, <1>4, TailOnce
<1>6. g.used = f.used /\ g.now = f.now /\ g.free = s /\ g.nowb = f.nowb + 1
  BY <1>3
<1>7. f.nowb + 1 \in Nat
  BY <1>1
<1>8. g \in [used : Seq(Nat), now : Nat, free : Seq(PoolCell), nowb : Nat]
  BY <1>1, <1>3, <1>5, <1>7
<1>9. c \notin H
  BY <1>1, <1>5
<1>10. IsFiniteSet(H \cup {c}) /\ Cardinality(H \cup {c}) = Cardinality(H) + 1
  BY <1>1, <1>9, FS_AddElement
<1>11. (H \cup {c}) \cup ToSet(g.free) = CutOff(l, g.used) /\ (H \cup {c}) \cap ToSet(g.free) = {}
  BY <1>1, <1>5, <1>6
<1> QED BY <1>1, <1>2, <1>5, <1>6, <1>8, <1>9, <1>10, <1>11 DEF LevelOK

(* A cell comes back. *)
LEMMA LevelBack ==
    ASSUME NEW l \in Level, NEW f, NEW H, LevelOK(l, f, H), NEW c \in H,
           NEW g, g = [used |-> f.used, now |-> f.now, free |-> <<c>> \o f.free, nowb |-> f.nowb - 1]
    PROVE  LevelOK(l, g, H \ {c})
<1>1. /\ f \in [used : Seq(Nat), now : Nat, free : Seq(PoolCell), nowb : Nat]
      /\ Rounds(f.used, f.now, bnum(l)) /\ Once(f.free)
      /\ H \cup ToSet(f.free) = CutOff(l, f.used) /\ H \cap ToSet(f.free) = {}
      /\ IsFiniteSet(H) /\ f.nowb = Cardinality(H)
  BY DEF LevelOK
<1>2. c \in PoolCell
  BY LevelCells
<1>3. PICK s : s = <<c>> \o f.free
  OBVIOUS
<1>4. f.free \in Seq(PoolCell) /\ c \notin ToSet(f.free)
  BY <1>1
<1>5. s \in Seq(PoolCell) /\ Once(s) /\ ToSet(s) = ToSet(f.free) \cup {c}
  BY <1>1, <1>2, <1>3, <1>4, ConsOnce
<1>6. g.used = f.used /\ g.now = f.now /\ g.free = s /\ g.nowb = f.nowb - 1
  BY <1>3
<1>7. IsFiniteSet(H \ {c}) /\ Cardinality(H \ {c}) = Cardinality(H) - 1 /\ Cardinality(H \ {c}) \in Nat
  BY <1>1, FS_RemoveElement, FS_CardinalityType
<1>8. g \in [used : Seq(Nat), now : Nat, free : Seq(PoolCell), nowb : Nat]
  BY <1>1, <1>3, <1>5, <1>7
<1>9. (H \ {c}) \cup ToSet(g.free) = CutOff(l, g.used) /\ (H \ {c}) \cap ToSet(g.free) = {}
  BY <1>1, <1>5, <1>6
<1> QED BY <1>1, <1>5, <1>6, <1>7, <1>8, <1>9 DEF LevelOK

(* An empty list holds nothing. *)
LEMMA NoneIn == ToSet(<<>>) = {} /\ Once(<<>>) /\ \A S : <<>> \in Seq(S)
BY DEF ToSet, Once

(* A reset takes every cell back. *)
LEMMA LevelReset ==
    ASSUME NEW l \in Level, NEW f, NEW H, LevelOK(l, f, H), NEW g, g = FixReset(f)
    PROVE  LevelOK(l, g, {})
<1>1. f \in [used : Seq(Nat), now : Nat, free : Seq(PoolCell), nowb : Nat]
  BY DEF LevelOK
<1>2. PICK u : u = f.used
  OBVIOUS
<1>3. u \in Seq(Nat) /\ Len(u) \in Nat /\ DOMAIN u = 1..Len(u)
  BY <1>1, <1>2
<1>4. PICK v : v = [b \in DOMAIN u |-> 0]
  OBVIOUS
<1>5. v \in Seq(Nat) /\ Len(v) = Len(u) /\ DOMAIN v = DOMAIN u /\ \A b \in DOMAIN v : v[b] = 0
  BY <1>3, <1>4
<1>6. g = [used |-> v, now |-> Len(u), free |-> <<>>, nowb |-> 0]
  BY <1>1, <1>2, <1>4 DEF FixReset
<1>7. g.used = v /\ g.now = Len(u) /\ g.free = <<>> /\ g.nowb = 0
  BY <1>6
<1>8. g \in [used : Seq(Nat), now : Nat, free : Seq(PoolCell), nowb : Nat]
  BY <1>3, <1>5, <1>6, NoneIn
<1>9. Rounds(v, Len(u), bnum(l))
  <2>1. bnum(l) \in Nat
    BY Rooms
  <2>2. Len(u) = 0 => v = <<>>
    BY <1>5
  <2>3. \A b \in DOMAIN v : b \in Nat /\ ~(b > Len(u)) /\ v[b] <= bnum(l)
    BY <1>3, <1>5, <2>1
  <2> QED BY <1>3, <1>5, <2>2, <2>3 DEF Rounds
<1>10. CutOff(l, v) = {}
  BY <1>5, CutNone
<1> QED BY <1>7, <1>8, <1>9, <1>10, NoneIn, FS_EmptySet DEF LevelOK

(* A fresh FixMem has handed out nothing. *)
LEMMA LevelFresh ==
    ASSUME NEW l \in Level
    PROVE  LevelOK(l, Fresh, {})
<1>1. PICK g : g = Fresh
  OBVIOUS
<1>2. PICK e : e = <<>>
  OBVIOUS
<1>3. g = [used |-> e, now |-> 0, free |-> e, nowb |-> 0]
  BY <1>1, <1>2 DEF Fresh
<1>4. g.used = e /\ g.now = 0 /\ g.free = e /\ g.nowb = 0
  BY <1>3
<1>5. DOMAIN e = {} /\ Len(e) = 0 /\ \A S : e \in Seq(S)
  BY <1>2
<1>6. g \in [used : Seq(Nat), now : Nat, free : Seq(PoolCell), nowb : Nat]
  BY <1>3, <1>5
<1>7. Rounds(e, 0, bnum(l))
  BY <1>2, <1>5 DEF Rounds
<1>8. CutOff(l, e) = {}
  BY <1>5, CutNone
<1>9. ToSet(e) = {} /\ Once(e)
  BY <1>2, NoneIn
<1> QED BY <1>1, <1>4, <1>6, <1>7, <1>8, <1>9, FS_EmptySet DEF LevelOK

(* The cells of one level among what the users hold. *)
LEMMA CellsHas ==
    ASSUME NEW X, NEW l, NEW c
    PROVE  c \in Cells(X, l) <=> \E h \in X : h.cell.level = l /\ c = h.cell
BY DEF Cells

(* A cell that nobody holds goes to a user. *)
MayHand(X, most, h, most2) ==
    /\ most \in Nat /\ HeldOK(X, most) /\ most2 \in Nat /\ most <= most2
    /\ Placed(h, most2) /\ h.cell \notin Cells(X, h.cell.level)

GivenOut(X, h, most2) ==
    /\ HeldOK(X \cup {h}, most2)
    /\ Cells(X \cup {h}, h.cell.level) = Cells(X, h.cell.level) \cup {h.cell}
    /\ \A m : m # h.cell.level => Cells(X \cup {h}, m) = Cells(X, m)

LEMMA HandOut ==
    ASSUME NEW X, NEW most, NEW h, NEW most2, MayHand(X, most, h, most2)
    PROVE  GivenOut(X, h, most2)
<1>0. /\ most \in Nat /\ HeldOK(X, most) /\ most2 \in Nat /\ most <= most2
      /\ Placed(h, most2) /\ h.cell \notin Cells(X, h.cell.level)
  BY DEF MayHand
<1>l. PICK l : l = h.cell.level
  OBVIOUS
<1>1. PICK Y : Y = X \cup {h}
  OBVIOUS
<1>2. \A x \in Y : Placed(x, most2)
  <2>1. \A b \in 1..most : b \in 1..most2
    BY <1>0
  <2>2. ASSUME NEW x, Placed(x, most) PROVE Placed(x, most2)
    BY <2>1, <2>2 DEF Placed
  <2>3. \A x \in X : Placed(x, most)
    BY <1>0 DEF HeldOK
  <2> QED BY <1>0, <1>1, <2>2, <2>3
<1>3. \A x \in X : x.cell # h.cell
  BY <1>0, <1>l, CellsHas
<1>4. \A x, y \in Y : x.cell = y.cell => x = y
  <2>1. \A x, y \in X : x.cell = y.cell => x = y
    BY <1>0 DEF HeldOK
  <2> QED BY <1>1, <1>3, <2>1
<1>5. HeldOK(Y, most2)
  BY <1>2, <1>4 DEF HeldOK
<1>6. Cells(Y, l) = Cells(X, l) \cup {h.cell}
  <2>1. \A c : c \in Cells(Y, l) <=> c \in Cells(X, l) \/ c = h.cell
    BY <1>l, <1>1, CellsHas
  <2> QED BY <2>1
<1>7. ASSUME NEW m, m # l PROVE Cells(Y, m) = Cells(X, m)
  <2>1. \A c : c \in Cells(Y, m) <=> c \in Cells(X, m)
    BY <1>l, <1>1, <1>7, CellsHas
  <2> QED BY <2>1
<1> QED BY <1>l, <1>1, <1>5, <1>6, <1>7 DEF GivenOut

(* A user gives a cell back. *)
LEMMA TakeBack ==
    ASSUME NEW X, NEW most \in Nat, HeldOK(X, most), NEW h \in X
    PROVE  /\ HeldOK(X \ {h}, most)
           /\ Cells(X \ {h}, h.cell.level) = Cells(X, h.cell.level) \ {h.cell}
           /\ h.cell \in Cells(X, h.cell.level)
           /\ \A m : m # h.cell.level => Cells(X \ {h}, m) = Cells(X, m)
<1>l. PICK l : l = h.cell.level
  OBVIOUS
<1>1. PICK Y : Y = X \ {h}
  OBVIOUS
<1>2. HeldOK(Y, most)
  BY <1>1 DEF HeldOK
<1>3. \A x \in X : x.cell = h.cell => x = h
  BY DEF HeldOK
<1>4. Cells(Y, l) = Cells(X, l) \ {h.cell}
  <2>1. \A c : c \in Cells(Y, l) <=> c \in Cells(X, l) /\ c # h.cell
    BY <1>l, <1>1, <1>3, CellsHas
  <2> QED BY <2>1
<1>5. ASSUME NEW m, m # l PROVE Cells(Y, m) = Cells(X, m)
  <2>1. \A c : c \in Cells(Y, m) <=> c \in Cells(X, m)
    BY <1>l, <1>1, <1>5, CellsHas
  <2> QED BY <2>1
<1>6. h.cell \in Cells(X, l)
  BY <1>l, CellsHas
<1> QED BY <1>l, <1>1, <1>2, <1>4, <1>5, <1>6

(* A new big piece. *)
LEMMA BigMore ==
    ASSUME NEW X, NEW Y, NEW list, NEW most, BigOK(list, most, X), NEW b, b = most + 1,
           Cells(Y, -1) = Cells(X, -1) \cup {Cell(-1, b, 0)}
    PROVE  BigOK(<<b>> \o list, b, Y)
<1>1. /\ list \in Seq(1..most) /\ most \in Nat /\ Once(list)
      /\ {c.block : c \in Cells(X, -1)} = ToSet(list)
  BY DEF BigOK
<1>2. b \in 1..b /\ b \in Nat /\ b \notin 1..most
  BY <1>1
<1>3. \A i \in 1..most : i \in 1..b
  BY <1>1
<1>4. list \in Seq(1..b)
  <2>1. Len(list) \in Nat /\ list \in [1..Len(list) -> 1..most]
    BY <1>1
  <2>2. list \in [1..Len(list) -> 1..b]
    BY <1>3, <2>1
  <2> QED BY <2>1, <2>2
<1>5. b \notin ToSet(list)
  <2>1. \A i \in DOMAIN list : list[i] \in 1..most
    BY <1>1
  <2> QED BY <1>2, <2>1 DEF ToSet
<1>6. /\ <<b>> \o list \in Seq(1..b) /\ Once(<<b>> \o list)
      /\ ToSet(<<b>> \o list) = ToSet(list) \cup {b}
  BY <1>1, <1>2, <1>4, <1>5, ConsOnce
<1>7. PICK d : d = Cell(-1, b, 0)
  OBVIOUS
<1>8. d.block = b
  BY <1>7 DEF Cell
<1>9. {c.block : c \in Cells(Y, -1)} = {c.block : c \in Cells(X, -1)} \cup {b}
  BY <1>7, <1>8
<1> QED BY <1>1, <1>2, <1>6, <1>9 DEF BigOK

(* A big piece goes back to malloc(). *)
LEMMA BigLess ==
    ASSUME NEW X, NEW Y, NEW list, NEW most, BigOK(list, most, X), NEW i \in DOMAIN list,
           NEW d \in Cells(X, -1), d.block = list[i],
           \A c \in Cells(X, -1) : c.block = d.block => c = d,
           Cells(Y, -1) = Cells(X, -1) \ {d}
    PROVE  BigOK(RemoveAt(list, i), most, Y)
<1>1. /\ list \in Seq(1..most) /\ most \in Nat /\ Once(list)
      /\ {c.block : c \in Cells(X, -1)} = ToSet(list)
  BY DEF BigOK
<1>2. /\ RemoveAt(list, i) \in Seq(1..most) /\ Once(RemoveAt(list, i))
      /\ ToSet(RemoveAt(list, i)) = ToSet(list) \ {list[i]}
  BY <1>1, RemoveOnce
<1>3. {c.block : c \in Cells(Y, -1)} = {c.block : c \in Cells(X, -1)} \ {d.block}
  OBVIOUS
<1> QED BY <1>1, <1>2, <1>3 DEF BigOK

(* A step that hands out a cell of level l. *)
LEMMA HandLevel ==
    ASSUME PoolInv, NEW rsize \in Nat, rsize <= AllocMem, NEW l, l = getidx(rsize),
           NEW g, NEW c, c \notin Cells(held, l), LevelOK(l, g, Cells(held, l) \cup {c}),
           fix' = [fix EXCEPT ![l] = g], Hold(c, rsize), UNCHANGED <<biglist, bigs>>
    PROVE  PoolInv'
<1>1. l \in Level /\ l # -1
  BY IdxIs, LargestIs
<1>2. c \in PoolCell /\ c.level = l
  BY <1>1, LevelCells
<1>3. PICK h : h = [cell |-> c, rsize |-> rsize]
  OBVIOUS
<1>4. h.cell = c /\ h.rsize = rsize /\ h \in [cell : PoolCell, rsize : Nat]
  BY <1>2, <1>3
<1>5. AllocMem \in Nat
  BY LargestIs, Rooms DEF AllocMem
<1>6. ~(rsize > AllocMem)
  BY <1>5
<1>7. Placed(h, bigs)
  BY <1>2, <1>4, <1>6 DEF Placed
<1>8. BigOK(biglist, bigs, held) /\ HeldOK(held, bigs) /\ bigs \in Nat /\ bigs <= bigs
  BY DEF PoolInv, BigOK
<1>9. PICK Y : Y = held \cup {h}
  OBVIOUS
<1>10. /\ HeldOK(Y, bigs) /\ Cells(Y, l) = Cells(held, l) \cup {c}
       /\ \A m : m # l => Cells(Y, m) = Cells(held, m)
  <2>1. h.cell \notin Cells(held, h.cell.level)
    BY <1>2, <1>4
  <2>2. /\ HeldOK(held \cup {h}, bigs)
        /\ Cells(held \cup {h}, h.cell.level) = Cells(held, h.cell.level) \cup {h.cell}
        /\ \A m : m # h.cell.level => Cells(held \cup {h}, m) = Cells(held, m)
    <3>1. MayHand(held, bigs, h, bigs)
      BY <1>7, <1>8, <2>1 DEF MayHand
    <3>2. GivenOut(held, h, bigs)
      BY <3>1, HandOut
    <3> QED BY <3>2 DEF GivenOut
  <2> QED BY <1>2, <1>4, <1>9, <2>2
<1>11. held' = Y
  BY <1>3, <1>9 DEF Hold
<1>12. Cells(Y, -1) = Cells(held, -1)
  BY <1>1, <1>10
<1>13. BigOK(biglist, bigs, Y)
  BY <1>8, <1>12 DEF BigOK
<1>14. PICK F : F = fix'
  OBVIOUS
<1>15. F = [m \in Level |-> F[m]] /\ F[l] = g /\ \A m \in Level : m # l => F[m] = fix[m]
  <2>1. DOMAIN fix = Level /\ fix = [m \in Level |-> fix[m]]
    BY DEF PoolInv
  <2> QED BY <1>1, <1>14, <2>1
<1>16. \A m \in Level : LevelOK(m, F[m], Cells(Y, m))
  <2>1. ASSUME NEW m \in Level, m # l PROVE LevelOK(m, F[m], Cells(Y, m))
    BY <1>10, <1>15, <2>1 DEF PoolInv
  <2> QED BY <1>10, <1>15, <2>1
<1> QED BY <1>10, <1>11, <1>13, <1>14, <1>15, <1>16 DEF PoolInv

(* What the invariant says of one level. *)
LEMMA OneLevel ==
    ASSUME PoolInv, NEW l \in Level
    PROVE  /\ LevelOK(l, fix[l], Cells(held, l)) /\ fix = [m \in Level |-> fix[m]]
           /\ fix[l] \in [used : Seq(Nat), now : Nat, free : Seq(PoolCell), nowb : Nat]
           /\ fix[l].used \in Seq(Nat) /\ fix[l].now \in Nat
           /\ Rounds(fix[l].used, fix[l].now, bnum(l)) /\ bnum(l) \in Nat \ {0}
<1>1. LevelOK(l, fix[l], Cells(held, l))
  BY DEF PoolInv
<1> QED BY <1>1, Rooms DEF PoolInv, LevelOK

(* A cell cut off block b. *)
LEMMA CutFromInv ==
    ASSUME PoolInv, NEW rsize \in Nat, rsize <= AllocMem, NEW l, l = getidx(rsize),
           NEW b, CutFrom(l, b, rsize), UNCHANGED <<biglist, bigs>>,
           b \in DOMAIN fix[l].used, fix[l].used[b] < bnum(l),
           \/ b = fix[l].now
           \/ b = fix[l].now - 1 /\ fix[l].used[fix[l].now] = bnum(l) /\ fix[l].used[b] # bnum(l)
    PROVE  PoolInv'
<1>1. l \in Level
  BY IdxIs
<1>2. PICK f : f = fix[l]
  OBVIOUS
<1>3. LevelOK(l, f, Cells(held, l)) /\ f \in [used : Seq(Nat), now : Nat, free : Seq(PoolCell), nowb : Nat]
  BY <1>1, <1>2, OneLevel
<1>4. MayCut(l, f, b)
  BY <1>2 DEF MayCut
<1>5. PICK g : g = AfterCut(f, b)
  OBVIOUS
<1>6. PICK c : c = Cell(l, b, f.used[b] + 1)
  OBVIOUS
<1>7. fix' = [fix EXCEPT ![l] = g]
  <2>1. fix = [m \in Level |-> fix[m]]
    BY <1>1, OneLevel
  <2>2. fix' = [fix EXCEPT ![l].used[b] = @ + 1, ![l].now = b, ![l].nowb = @ + 1]
    BY DEF CutFrom
  <2>3. f = [used |-> f.used, now |-> f.now, free |-> f.free, nowb |-> f.nowb]
    BY <1>3
  <2>4. PICK u2 : u2 = [f.used EXCEPT ![b] = @ + 1]
    OBVIOUS
  <2>5. [fix EXCEPT ![l].used[b] = @ + 1, ![l].now = b, ![l].nowb = @ + 1]
        = [fix EXCEPT ![l] = [used |-> u2, now |-> b, free |-> f.free, nowb |-> f.nowb + 1]]
    <3>1. PICK F : F = [fix EXCEPT ![l].used[b] = @ + 1, ![l].now = b, ![l].nowb = @ + 1]
      OBVIOUS
    <3>2. PICK e : e = [[[f EXCEPT !.used = u2] EXCEPT !.now = b] EXCEPT !.nowb = f.nowb + 1]
      OBVIOUS
    <3>3. e = [used |-> u2, now |-> b, free |-> f.free, nowb |-> f.nowb + 1]
      BY <2>3, <3>2
    <3>4. F[l] = e
      BY <1>1, <1>2, <2>1, <2>3, <2>4, <3>1, <3>2
    <3>5. \A m \in Level : m # l => F[m] = fix[m]
      BY <1>1, <2>1, <3>1
    <3>6. F = [m \in Level |-> F[m]]
      BY <1>1, <2>1, <3>1
    <3>7. F = [m \in Level |-> IF m = l THEN e ELSE fix[m]]
      BY <3>4, <3>5, <3>6
    <3> QED BY <1>1, <2>1, <3>1, <3>3, <3>7
  <2> QED BY <1>5, <2>2, <2>4, <2>5 DEF AfterCut
<1>8. Hold(c, rsize)
  BY <1>2, <1>6 DEF CutFrom
<1>9. c \notin Cells(held, l) /\ LevelOK(l, g, Cells(held, l) \cup {c})
  BY <1>1, <1>3, <1>4, <1>5, <1>6, LevelCut
<1> QED BY <1>7, <1>8, <1>9, HandLevel

(* AllocCut keeps the invariant. *)
LEMMA AllocCutInv ==
    ASSUME PoolInv, NEW rsize \in Nat, rsize <= AllocMem, NEW l, l = getidx(rsize),
           AllocCut(l, rsize), UNCHANGED <<biglist, bigs>>
    PROVE  PoolInv'
<1>1. l \in Level
  BY IdxIs
<1>2. PICK u : u = fix[l].used
  OBVIOUS
<1>3. PICK m : m = fix[l].now
  OBVIOUS
<1>4. PICK n : n = bnum(l)
  OBVIOUS
<1>5. u \in Seq(Nat) /\ m \in Nat /\ Rounds(u, m, n) /\ n \in Nat \ {0}
  BY <1>1, <1>2, <1>3, <1>4, OneLevel
<1>6. /\ DOMAIN u = 1..Len(u) /\ Len(u) \in Nat /\ m <= Len(u)
      /\ \A b \in DOMAIN u : u[b] \in Nat /\ u[b] <= n
  BY <1>5 DEF Rounds
<1>7. CASE Current(l) /\ CutFrom(l, m, rsize)
  <2>1. m # 0 /\ u[m] < n
    BY <1>2, <1>3, <1>4, <1>7 DEF Current
  <2>2. m \in DOMAIN u
    BY <1>5, <1>6, <2>1
  <2> QED BY <1>2, <1>3, <1>4, <1>7, <2>1, <2>2, CutFromInv
<1>8. CASE ~Current(l) /\ Following(l) /\ CutFrom(l, m - 1, rsize)
  <2>1. m > 1 /\ u[m - 1] # n
    BY <1>2, <1>3, <1>4, <1>8 DEF Following
  <2>2. m \in DOMAIN u /\ m - 1 \in DOMAIN u
    BY <1>5, <1>6, <2>1
  <2>3. u[m] = n
    <3>1. ~(u[m] < n)
      BY <1>2, <1>3, <1>4, <1>5, <1>8, <2>1 DEF Current
    <3> QED BY <1>5, <1>6, <2>2, <3>1
  <2>4. u[m - 1] < n
    BY <1>5, <1>6, <2>1, <2>2
  <2>5. PICK b : b = m - 1
    OBVIOUS
  <2>6. CutFrom(l, b, rsize) /\ b \in DOMAIN fix[l].used /\ fix[l].used[b] < bnum(l)
    BY <1>2, <1>3, <1>4, <1>8, <2>2, <2>4, <2>5
  <2>7. b = fix[l].now - 1 /\ fix[l].used[fix[l].now] = bnum(l) /\ fix[l].used[b] # bnum(l)
    BY <1>2, <1>3, <1>4, <2>1, <2>3, <2>5
  <2> QED BY <2>6, <2>7, CutFromInv
<1> QED BY <1>3, <1>7, <1>8 DEF AllocCut

(* AllocFree keeps the invariant. *)
LEMMA AllocFreeInv ==
    ASSUME PoolInv, NEW rsize \in Nat, rsize <= AllocMem, NEW l, l = getidx(rsize),
           AllocFree(l, rsize), UNCHANGED <<biglist, bigs>>
    PROVE  PoolInv'
<1>1. l \in Level
  BY IdxIs
<1>2. PICK f : f = fix[l]
  OBVIOUS
<1>3. LevelOK(l, f, Cells(held, l)) /\ f \in [used : Seq(Nat), now : Nat, free : Seq(PoolCell), nowb : Nat]
  BY <1>1, <1>2, OneLevel
<1>4. f.free # <<>> /\ Hold(Head(f.free), rsize)
  BY <1>2 DEF AllocFree
<1>5. PICK g : g = [used |-> f.used, now |-> f.now, free |-> Tail(f.free), nowb |-> f.nowb + 1]
  OBVIOUS
<1>6. fix' = [fix EXCEPT ![l] = g]
  <2>1. fix = [m \in Level |-> fix[m]]
    BY <1>1, OneLevel
  <2>2. fix' = [fix EXCEPT ![l].free = Tail(@), ![l].nowb = @ + 1]
    BY DEF AllocFree
  <2>3. f = [used |-> f.used, now |-> f.now, free |-> f.free, nowb |-> f.nowb]
    BY <1>3
  <2>4. PICK s : s = Tail(f.free)
    OBVIOUS
  <2>5. [fix EXCEPT ![l].free = Tail(@), ![l].nowb = @ + 1]
        = [fix EXCEPT ![l] = [used |-> f.used, now |-> f.now, free |-> s, nowb |-> f.nowb + 1]]
    <3>1. PICK F : F = [fix EXCEPT ![l].free = Tail(@), ![l].nowb = @ + 1]
      OBVIOUS
    <3>2. PICK e : e = [[f EXCEPT !.free = s] EXCEPT !.nowb = f.nowb + 1]
      OBVIOUS
    <3>3. e = [used |-> f.used, now |-> f.now, free |-> s, nowb |-> f.nowb + 1]
      BY <2>3, <3>2
    <3>4. F[l] = e
      BY <1>1, <1>2, <2>1, <2>3, <2>4, <3>1, <3>2
    <3>5. \A m \in Level : m # l => F[m] = fix[m]
      BY <1>1, <2>1, <3>1
    <3>6. F = [m \in Level |-> F[m]]
      BY <1>1, <2>1, <3>1
    <3>7. F = [m \in Level |-> IF m = l THEN e ELSE fix[m]]
      BY <3>4, <3>5, <3>6
    <3> QED BY <1>1, <2>1, <3>1, <3>3, <3>7
  <2> QED BY <1>5, <2>2, <2>4, <2>5
<1>7. PICK c : c = Head(f.free)
  OBVIOUS
<1>8. c \notin Cells(held, l) /\ LevelOK(l, g, Cells(held, l) \cup {c})
  BY <1>1, <1>3, <1>4, <1>5, <1>7, LevelFree
<1> QED BY <1>4, <1>6, <1>7, <1>8, HandLevel

(* A new block comes when all the others are in use. *)
LEMMA AllocBlockInv ==
    ASSUME PoolInv, NEW rsize \in Nat, rsize <= AllocMem, NEW l, l = getidx(rsize),
           AllocBlock(l, rsize), UNCHANGED <<biglist, bigs>>
    PROVE  PoolInv'
<1>1. l \in Level
  BY IdxIs
<1>2. PICK f : f = fix[l]
  OBVIOUS
<1>3. LevelOK(l, f, Cells(held, l)) /\ f \in [used : Seq(Nat), now : Nat, free : Seq(PoolCell), nowb : Nat]
  BY <1>1, <1>2, OneLevel
<1>4. PICK b : b = Len(f.used) + 1
  OBVIOUS
<1>6. PICK g : g = AfterNew(f)
  OBVIOUS
<1>7. PICK c : c = Cell(l, b, 1)
  OBVIOUS
<1>8. Hold(c, rsize)
  BY <1>2, <1>4, <1>7 DEF AllocBlock
<1>9. fix' = [fix EXCEPT ![l] = g]
  <2>1. fix = [m \in Level |-> fix[m]]
    BY <1>1, OneLevel
  <2>2. fix' = [fix EXCEPT ![l].used = Append(@, 1), ![l].now = b, ![l].nowb = @ + 1]
    BY <1>2, <1>4 DEF AllocBlock
  <2>3. f = [used |-> f.used, now |-> f.now, free |-> f.free, nowb |-> f.nowb]
    BY <1>3
  <2>4. PICK u2 : u2 = Append(f.used, 1)
    OBVIOUS
  <2>5. [fix EXCEPT ![l].used = Append(@, 1), ![l].now = b, ![l].nowb = @ + 1]
        = [fix EXCEPT ![l] = [used |-> u2, now |-> b, free |-> f.free, nowb |-> f.nowb + 1]]
    <3>1. PICK F : F = [fix EXCEPT ![l].used = Append(@, 1), ![l].now = b, ![l].nowb = @ + 1]
      OBVIOUS
    <3>2. PICK e : e = [[[f EXCEPT !.used = u2] EXCEPT !.now = b] EXCEPT !.nowb = f.nowb + 1]
      OBVIOUS
    <3>3. e = [used |-> u2, now |-> b, free |-> f.free, nowb |-> f.nowb + 1]
      BY <2>3, <3>2
    <3>4. F[l] = e
      BY <1>1, <1>2, <2>1, <2>3, <2>4, <3>1, <3>2
    <3>5. \A m \in Level : m # l => F[m] = fix[m]
      BY <1>1, <2>1, <3>1
    <3>6. F = [m \in Level |-> F[m]]
      BY <1>1, <2>1, <3>1
    <3>7. F = [m \in Level |-> IF m = l THEN e ELSE fix[m]]
      BY <3>4, <3>5, <3>6
    <3> QED BY <1>1, <2>1, <3>1, <3>3, <3>7
  <2> QED BY <1>4, <1>6, <2>2, <2>4, <2>5 DEF AfterNew
<1>10. MayGrow(l, f)
  BY <1>2 DEF AllocBlock, Current, Following, MayGrow
<1>11. c \notin Cells(held, l) /\ LevelOK(l, g, Cells(held, l) \cup {c})
  BY <1>1, <1>3, <1>4, <1>6, <1>7, <1>10, LevelNew
<1> QED BY <1>8, <1>9, <1>11, HandLevel

(* A big piece of malloc() goes to a user. *)
LEMMA AllocBigInv ==
    ASSUME PoolInv, NEW rsize \in Nat, AllocBig(rsize)
    PROVE  PoolInv'
<1>1. BigOK(biglist, bigs, held) /\ HeldOK(held, bigs) /\ bigs \in Nat
  BY DEF PoolInv, BigOK
<1>2. PICK b : b = bigs + 1
  OBVIOUS
<1>3. b \in Nat /\ bigs <= b /\ b \in 1..b /\ b \notin 1..bigs
  BY <1>1, <1>2
<1>4. PICK c : c = Cell(-1, b, 0)
  OBVIOUS
<1>5. c.level = -1 /\ c.block = b /\ c \in PoolCell
  BY <1>3, <1>4 DEF Cell, PoolCell
<1>6. PICK h : h = [cell |-> c, rsize |-> rsize]
  OBVIOUS
<1>7. h.cell = c /\ h.rsize = rsize /\ h \in [cell : PoolCell, rsize : Nat]
  BY <1>5, <1>6
<1>8. rsize > AllocMem
  BY DEF AllocBig
<1>9. Placed(h, b)
  BY <1>3, <1>4, <1>7, <1>8 DEF Placed
<1>10. c \notin Cells(held, -1)
  <2> SUFFICES ASSUME c \in Cells(held, -1) PROVE FALSE
    OBVIOUS
  <2>1. PICK x \in held : x.cell.level = -1 /\ c = x.cell
    BY CellsHas
  <2>2. c.block \in {d.block : d \in Cells(held, -1)}
    OBVIOUS
  <2>3. b \in ToSet(biglist) /\ biglist \in Seq(1..bigs)
    BY <1>1, <1>5, <2>2 DEF BigOK
  <2>4. \A i \in DOMAIN biglist : biglist[i] \in 1..bigs
    <3>1. PICK S : S = 1..bigs
      OBVIOUS
    <3>2. biglist \in Seq(S)
      BY <2>3, <3>1
    <3>3. \A i \in DOMAIN biglist : biglist[i] \in S
      BY <3>2
    <3> QED BY <3>1, <3>3
  <2> QED BY <1>3, <2>3, <2>4 DEF ToSet
<1>11. PICK Y : Y = held \cup {h}
  OBVIOUS
<1>12. /\ HeldOK(Y, b) /\ Cells(Y, -1) = Cells(held, -1) \cup {c}
       /\ \A m : m # -1 => Cells(Y, m) = Cells(held, m)
  <2>1. h.cell \notin Cells(held, -1) /\ -1 = h.cell.level
    BY <1>5, <1>7, <1>10
  <2>2. /\ HeldOK(held \cup {h}, b) /\ Cells(held \cup {h}, -1) = Cells(held, -1) \cup {h.cell}
        /\ \A m : m # -1 => Cells(held \cup {h}, m) = Cells(held, m)
    <3>1. h.cell \notin Cells(held, h.cell.level)
      BY <2>1
    <3>2. /\ HeldOK(held \cup {h}, b)
          /\ Cells(held \cup {h}, h.cell.level) = Cells(held, h.cell.level) \cup {h.cell}
          /\ \A m : m # h.cell.level => Cells(held \cup {h}, m) = Cells(held, m)
      <4>1. MayHand(held, bigs, h, b)
        BY <1>1, <1>3, <1>9, <3>1 DEF MayHand
      <4>2. GivenOut(held, h, b)
        BY <4>1, HandOut
      <4> QED BY <4>2 DEF GivenOut
    <3> QED BY <2>1, <3>2
  <2> QED BY <1>7, <1>11, <2>2
<1>13. PICK list : list = <<b>> \o biglist
  OBVIOUS
<1>14. BigOK(list, b, Y)
  BY <1>1, <1>2, <1>4, <1>12, <1>13, BigMore
<1>15. held' = Y /\ bigs' = b /\ biglist' = list /\ fix' = fix
  BY <1>2, <1>4, <1>6, <1>11, <1>13 DEF AllocBig, Hold
<1>16. ASSUME NEW m \in Level PROVE LevelOK(m, fix[m], Cells(Y, m))
  <2>1. m # -1
    BY LargestIs
  <2> QED BY <1>12, <2>1 DEF PoolInv
<1>17. fix = [m \in Level |-> fix[m]]
  BY DEF PoolInv
<1> QED BY <1>12, <1>14, <1>15, <1>16, <1>17 DEF PoolInv

(* alloc() keeps the invariant. *)
LEMMA AllocInv ==
    ASSUME PoolInv, NEW sz \in Nat, alloc(sz)
    PROVE  PoolInv'
<1>1. PICK rsize : rsize = sz + 1
  OBVIOUS
<1>2. rsize \in Nat
  BY <1>1
<1>3. CASE AllocBig(rsize)
  BY <1>2, <1>3, AllocBigInv
<1>4. CASE /\ rsize <= AllocMem
           /\ \/ AllocCut(getidx(rsize), rsize) \/ AllocFree(getidx(rsize), rsize)
              \/ AllocBlock(getidx(rsize), rsize)
           /\ UNCHANGED <<biglist, bigs, broken>>
  <2>1. PICK l : l = getidx(rsize)
    OBVIOUS
  <2>2. UNCHANGED <<biglist, bigs>>
    BY <1>4
  <2> QED BY <1>2, <1>4, <2>1, <2>2, AllocCutInv, AllocFreeInv, AllocBlockInv
<1> QED BY <1>1, <1>3, <1>4 DEF alloc

(* dealloc() keeps the invariant. *)
LEMMA DeallocInv ==
    ASSUME PoolInv, NEW h \in held, dealloc(h)
    PROVE  PoolInv'
<1>1. BigOK(biglist, bigs, held) /\ HeldOK(held, bigs) /\ bigs \in Nat /\ fix = [m \in Level |-> fix[m]]
  BY DEF PoolInv, BigOK
<1>2. PICK Y : Y = held \ {h}
  OBVIOUS
<1>3. held' = Y /\ bigs' = bigs
  BY <1>2 DEF dealloc
<1>4. PICK l : l = h.cell.level
  OBVIOUS
<1>5. /\ HeldOK(Y, bigs) /\ Cells(Y, l) = Cells(held, l) \ {h.cell} /\ h.cell \in Cells(held, l)
      /\ \A m : m # l => Cells(Y, m) = Cells(held, m)
  <2>1. /\ HeldOK(held \ {h}, bigs) /\ Cells(held \ {h}, l) = Cells(held, l) \ {h.cell}
        /\ h.cell \in Cells(held, l) /\ \A m : m # l => Cells(held \ {h}, m) = Cells(held, m)
    <3>1. /\ HeldOK(held \ {h}, bigs) /\ Cells(held \ {h}, h.cell.level) = Cells(held, h.cell.level) \ {h.cell}
          /\ h.cell \in Cells(held, h.cell.level)
          /\ \A m : m # h.cell.level => Cells(held \ {h}, m) = Cells(held, m)
      BY <1>1, TakeBack
    <3> QED BY <1>4, <3>1
  <2> QED BY <1>2, <2>1
<1>6. Placed(h, bigs)
  BY <1>1 DEF HeldOK
<1>7. AllocMem \in Nat /\ h.rsize \in Nat
  BY <1>6, LargestIs, Rooms DEF AllocMem, Placed
<1>8. CASE h.rsize > AllocMem
  <2>1. PICK b \in 1..bigs : h.cell = Cell(-1, b, 0)
    BY <1>6, <1>8 DEF Placed
  <2>2. l = -1
    BY <1>4, <2>1 DEF Cell
  <2>3. ~(h.rsize <= AllocMem)
    BY <1>7, <1>8
  <2>4. PICK i \in DOMAIN biglist : biglist[i] = h.cell.block /\ biglist' = RemoveAt(biglist, i)
    BY <2>3 DEF dealloc
  <2>5. fix' = fix
    BY <2>3 DEF dealloc
  <2>6. ASSUME NEW c \in Cells(held, -1), c.block = h.cell.block PROVE c = h.cell
    <3>1. PICK g \in held : g.cell.level = -1 /\ c = g.cell
      BY CellsHas
    <3>2. Placed(g, bigs)
      BY <1>1 DEF HeldOK
    <3>3. g.rsize > AllocMem
      <4>1. g.rsize \in Nat
        BY <3>2 DEF Placed
      <4>2. ~(g.rsize <= AllocMem)
        <5> SUFFICES ASSUME g.rsize <= AllocMem PROVE FALSE
          OBVIOUS
        <5>1. ~(g.rsize > AllocMem)
          BY <1>7, <4>1
        <5>2. g.cell.level = getidx(g.rsize)
          BY <3>2, <5>1 DEF Placed
        <5> QED BY <3>1, <4>1, <5>2, IdxIs, LargestIs
      <4> QED BY <1>7, <4>1, <4>2
    <3>4. PICK a \in 1..bigs : c = Cell(-1, a, 0)
      BY <3>1, <3>2, <3>3 DEF Placed
    <3>5. c.block = a /\ h.cell.block = b
      BY <2>1, <3>4 DEF Cell
    <3> QED BY <2>1, <2>6, <3>4, <3>5
  <2>7. PICK list : list = RemoveAt(biglist, i)
    OBVIOUS
  <2>8. BigOK(list, bigs, Y)
    <3>1. PICK d : d = h.cell
      OBVIOUS
    <3>2. /\ d \in Cells(held, -1) /\ d.block = biglist[i] /\ Cells(Y, -1) = Cells(held, -1) \ {d}
          /\ \A c \in Cells(held, -1) : c.block = d.block => c = d
      BY <1>5, <2>2, <2>4, <2>6, <3>1
    <3> QED BY <1>1, <2>7, <3>2, BigLess
  <2>9. ASSUME NEW m \in Level PROVE LevelOK(m, fix[m], Cells(Y, m))
    <3>1. m # l
      BY <2>2, LargestIs
    <3> QED BY <1>5, <3>1 DEF PoolInv
  <2>10. biglist' = list
    BY <2>4, <2>7
  <2> QED BY <1>1, <1>3, <1>5, <2>5, <2>8, <2>9, <2>10 DEF PoolInv
<1>9. CASE h.rsize <= AllocMem
  <2>1. ~(h.rsize > AllocMem)
    BY <1>7, <1>9
  <2>2. l = getidx(h.rsize) /\ l \in Level /\ l # -1
    BY <1>4, <1>6, <1>7, <1>9, <2>1, IdxIs, LargestIs DEF Placed
  <2>3. PICK f : f = fix[l]
    OBVIOUS
  <2>4. LevelOK(l, f, Cells(held, l)) /\ f \in [used : Seq(Nat), now : Nat, free : Seq(PoolCell), nowb : Nat]
    BY <2>2, <2>3, OneLevel
  <2>5. PICK c : c = h.cell
    OBVIOUS
  <2>6. PICK g : g = [used |-> f.used, now |-> f.now, free |-> <<c>> \o f.free, nowb |-> f.nowb - 1]
    OBVIOUS
  <2>7. fix' = [fix EXCEPT ![l] = g]
    <3>1. fix' = [fix EXCEPT ![l].free = <<c>> \o @, ![l].nowb = @ - 1]
      BY <2>1, <2>2, <2>5 DEF dealloc
    <3>2. PICK s : s = <<c>> \o f.free
      OBVIOUS
    <3>3. f = [used |-> f.used, now |-> f.now, free |-> f.free, nowb |-> f.nowb]
      BY <2>4
    <3>4. PICK F : F = fix'
      OBVIOUS
    <3>5. PICK e : e = [[f EXCEPT !.free = s] EXCEPT !.nowb = f.nowb - 1]
      OBVIOUS
    <3>6. e = g
      <4>1. e = [used |-> f.used, now |-> f.now, free |-> s, nowb |-> f.nowb - 1]
        BY <3>3, <3>5
      <4> QED BY <2>6, <3>2, <4>1
    <3>7. F[l] = e
      BY <1>1, <2>2, <2>3, <3>1, <3>2, <3>3, <3>4, <3>5
    <3>8. \A m \in Level : m # l => F[m] = fix[m]
      BY <1>1, <2>2, <3>1, <3>4
    <3>9. F = [m \in Level |-> F[m]]
      BY <1>1, <2>2, <3>1, <3>4
    <3>10. F = [m \in Level |-> IF m = l THEN g ELSE fix[m]]
      BY <3>6, <3>7, <3>8, <3>9
    <3> QED BY <1>1, <2>2, <3>4, <3>10
  <2>8. LevelOK(l, g, Cells(held, l) \ {c})
    BY <1>5, <2>2, <2>4, <2>5, <2>6, LevelBack
  <2>9. PICK F : F = fix'
    OBVIOUS
  <2>10. F = [m \in Level |-> F[m]] /\ F[l] = g /\ \A m \in Level : m # l => F[m] = fix[m]
    BY <1>1, <2>2, <2>7, <2>9
  <2>11. \A m \in Level : LevelOK(m, F[m], Cells(Y, m))
    <3>1. ASSUME NEW m \in Level, m # l PROVE LevelOK(m, F[m], Cells(Y, m))
      BY <1>5, <2>10, <3>1 DEF PoolInv
    <3> QED BY <1>5, <2>5, <2>8, <2>10, <3>1
  <2>12. BigOK(biglist, bigs, Y)
    <3>1. Cells(Y, -1) = Cells(held, -1)
      BY <1>5, <2>2
    <3> QED BY <1>1, <3>1 DEF BigOK
  <2>13. biglist' = biglist
    BY <2>1 DEF dealloc
  <2> QED BY <1>3, <1>5, <2>9, <2>10, <2>11, <2>12, <2>13 DEF PoolInv
<1> QED BY <1>7, <1>8, <1>9

(* Nobody holds anything. *)
LEMMA NobodyHolds == (\A l : Cells({}, l) = {}) /\ \A most : HeldOK({}, most) /\ (most \in Nat => BigOK(<<>>, most, {}))
<1>1. \A l : Cells({}, l) = {}
  BY CellsHas
<1>2. {c.block : c \in {}} = {}
  OBVIOUS
<1> QED BY <1>1, <1>2, NoneIn DEF HeldOK, BigOK

(* MemPool::reset() keeps the invariant. *)
LEMMA ResetInv ==
    ASSUME PoolInv, reset
    PROVE  PoolInv'
<1>1. PICK F : F = fix'
  OBVIOUS
<1>2. F = [l \in Level |-> FixReset(fix[l])]
  BY <1>1 DEF reset
<1>3. F = [l \in Level |-> F[l]]
  BY <1>2
<1>4. ASSUME NEW l \in Level PROVE LevelOK(l, F[l], {})
  <2>1. F[l] = FixReset(fix[l]) /\ LevelOK(l, fix[l], Cells(held, l))
    BY <1>2 DEF PoolInv
  <2> QED BY <2>1, LevelReset
<1>5. bigs \in Nat
  BY DEF PoolInv, BigOK
<1>6. held' = {} /\ bigs' = bigs /\ biglist' = <<>>
  BY DEF reset
<1> QED BY <1>1, <1>3, <1>4, <1>5, <1>6, NobodyHolds DEF PoolInv

(* The pool before its first call. *)
LEMMA PoolStarts == PoolInit => PoolInv
<1> SUFFICES ASSUME PoolInit PROVE PoolInv
  OBVIOUS
<1>1. fix = [l \in Level |-> Fresh] /\ biglist = <<>> /\ bigs = 0 /\ held = {}
  BY DEF PoolInit
<1>2. fix = [l \in Level |-> fix[l]] /\ \A l \in Level : fix[l] = Fresh
  BY <1>1
<1> QED BY <1>1, <1>2, LevelFresh, NobodyHolds DEF PoolInv

(* Every step of the pool keeps the invariant. *)
LEMMA PoolInductive == PoolSpec => []PoolInv
<1>1. ASSUME PoolInv, [PoolNext]_poolVars PROVE PoolInv'
  <2>1. CASE UNCHANGED poolVars
    BY <1>1, <2>1 DEF PoolInv, poolVars
  <2>2. ASSUME NEW sz \in Request, alloc(sz) PROVE PoolInv'
    <3>1. sz \in Nat
      BY PoolAssumption
    <3> QED BY <1>1, <2>2, <3>1, AllocInv
  <2>3. ASSUME NEW h \in held, dealloc(h) PROVE PoolInv'
    BY <1>1, <2>3, DeallocInv
  <2>4. CASE reset
    BY <1>1, <2>4, ResetInv
  <2> QED BY <1>1, <2>1, <2>2, <2>3, <2>4 DEF PoolNext
<1> QED BY <1>1, PoolStarts, PTL DEF PoolSpec

(* A list without repetition holds as many elements as it is long. *)
LEMMA OnceCount ==
    ASSUME NEW S, NEW s \in Seq(S), Once(s)
    PROVE  IsFiniteSet(ToSet(s)) /\ Cardinality(ToSet(s)) = Len(s)
<1>1. PICK n : n = Len(s)
  OBVIOUS
<1>2. n \in Nat /\ DOMAIN s = 1..n
  BY <1>1
<1>3. PICK T : T = ToSet(s)
  OBVIOUS
<1>4. PICK f : f = [i \in 1..n |-> s[i]]
  OBVIOUS
<1>5. f \in [1..n -> T]
  <2>1. \A i \in 1..n : s[i] \in T
    BY <1>2, <1>3 DEF ToSet
  <2> QED BY <1>4, <2>1
<1>6. \A i, j \in 1..n : f[i] = f[j] => i = j
  BY <1>2, <1>4 DEF Once
<1>7. \A t \in T : \E i \in 1..n : f[i] = t
  BY <1>2, <1>3, <1>4 DEF ToSet
<1>8. f \in Bijection(1..n, T)
  BY <1>5, <1>6, <1>7 DEF Bijection, Injection, Surjection, IsInjective
<1>9. ExistsBijection(1..n, T)
  BY <1>8 DEF ExistsBijection
<1>10. IsFiniteSet(1..n)
  BY <1>2, FS_Interval
<1>11. IsFiniteSet(T)
  BY <1>9, <1>10, FS_Bijection
<1>12. Cardinality(T) = n
  BY <1>2, <1>9, FS_CountingElements
<1> QED BY <1>1, <1>3, <1>11, <1>12

(* The count of the cells of full blocks. *)
LEMMA CutCount ==
    ASSUME NEW l, NEW used \in Seq(Nat), NEW n \in Nat, \A b \in DOMAIN used : used[b] = n
    PROVE  Cardinality(CutOff(l, used)) = Len(used) * n
<1>1. PICK m : m = Len(used)
  OBVIOUS
<1>2. m \in Nat /\ DOMAIN used = 1..m
  BY <1>1
<1>3. PICK P : P = (1..m) \X (1..n)
  OBVIOUS
<1>4. PICK T : T = CutOff(l, used)
  OBVIOUS
<1>5. PICK f : f = [p \in P |-> Cell(l, p[1], p[2])]
  OBVIOUS
<1>6. \A p \in P : p = <<p[1], p[2]>> /\ p[1] \in 1..m /\ p[2] \in 1..n
  BY <1>3
<1>7. \A p \in P : f[p].block = p[1] /\ f[p].place = p[2]
  BY <1>5 DEF Cell
<1>8. f \in [P -> T]
  <2>1. ASSUME NEW p \in P PROVE Cell(l, p[1], p[2]) \in T
    <3>1. p[1] \in DOMAIN used /\ p[2] \in 1..used[p[1]]
      BY <1>2, <1>6
    <3> QED BY <1>4, <3>1, CutHas
  <2> QED BY <1>5, <2>1
<1>9. ASSUME NEW p \in P, NEW q \in P, f[p] = f[q] PROVE p = q
  <2>1. p[1] = q[1] /\ p[2] = q[2]
    BY <1>7, <1>9
  <2> QED BY <1>6, <2>1
<1>10. ASSUME NEW t \in T PROVE \E p \in P : f[p] = t
  <2>1. PICK b \in DOMAIN used : \E k \in 1..used[b] : t = Cell(l, b, k)
    BY <1>4, CutHas
  <2>2. PICK k \in 1..n : t = Cell(l, b, k)
    BY <2>1
  <2>3. PICK p : p = <<b, k>>
    OBVIOUS
  <2>4. p \in P /\ p[1] = b /\ p[2] = k
    BY <1>2, <1>3, <2>2, <2>3
  <2> QED BY <1>5, <2>2, <2>4
<1>11. f \in Bijection(P, T)
  BY <1>8, <1>9, <1>10 DEF Bijection, Injection, Surjection, IsInjective
<1>12. ExistsBijection(P, T)
  BY <1>11 DEF ExistsBijection
<1>13. IsFiniteSet(1..m) /\ Cardinality(1..m) = m
  BY <1>2, FS_Interval
<1>14. IsFiniteSet(1..n) /\ Cardinality(1..n) = n
  BY FS_Interval
<1>15. IsFiniteSet(P) /\ Cardinality(P) = m * n
  <2>1. PICK Bs : Bs = 1..m
    OBVIOUS
  <2>2. PICK Ks : Ks = 1..n
    OBVIOUS
  <2>3. IsFiniteSet(Bs \X Ks) /\ Cardinality(Bs \X Ks) = Cardinality(Bs) * Cardinality(Ks)
    BY <1>13, <1>14, <2>1, <2>2, FS_Product
  <2> QED BY <1>3, <1>13, <1>14, <2>1, <2>2, <2>3
<1>16. Cardinality(T) = m * n
  BY <1>12, <1>15, FS_Bijection
<1> QED BY <1>1, <1>4, <1>16

(* Cells and CutOff are HeldOf and CutOf of the pool. *)
LEMMA SameSets == \A l : HeldOf(l) = Cells(held, l) /\ CutOf(l) = CutOff(l, fix[l].used)
BY DEF HeldOf, Cells, CutOf, CutOff

(* Every cell cut off is with one user or once in its list. *)
LEMMA InvAccounted == PoolInv => Accounted
<1> SUFFICES ASSUME PoolInv PROVE Accounted
  OBVIOUS
<1>1. ASSUME NEW l \in Level
      PROVE  /\ HeldOf(l) \cup ToSet(fix[l].free) = CutOf(l)
             /\ Cardinality(HeldOf(l)) + Len(fix[l].free) = Cardinality(CutOf(l))
             /\ Cardinality(HeldOf(l)) = fix[l].nowb
  <2>1. PICK H : H = Cells(held, l)
    OBVIOUS
  <2>2. PICK f : f = fix[l]
    OBVIOUS
  <2>3. LevelOK(l, f, H)
    BY <2>1, <2>2 DEF PoolInv
  <2>4. /\ f \in [used : Seq(Nat), now : Nat, free : Seq(PoolCell), nowb : Nat] /\ Once(f.free)
        /\ H \cup ToSet(f.free) = CutOff(l, f.used) /\ H \cap ToSet(f.free) = {}
        /\ IsFiniteSet(H) /\ f.nowb = Cardinality(H)
    BY <2>3 DEF LevelOK
  <2>5. f.free \in Seq(PoolCell)
    BY <2>4
  <2>6. PICK T : T = ToSet(f.free)
    OBVIOUS
  <2>7. IsFiniteSet(T) /\ Cardinality(T) = Len(f.free)
    BY <2>4, <2>5, <2>6, OnceCount
  <2>8. H \cap T = {}
    BY <2>4, <2>6
  <2>9. Cardinality(H \cup T) = Cardinality(H) + Cardinality(T)
    <3>1. Cardinality(H \cup T) = Cardinality(H) + Cardinality(T) - Cardinality(H \cap T)
      BY <2>4, <2>7, FS_Union
    <3>2. Cardinality(H \cap T) = 0
      BY <2>8, FS_EmptySet
    <3>3. Cardinality(H) \in Nat /\ Cardinality(T) \in Nat
      BY <2>4, <2>7, FS_CardinalityType
    <3> QED BY <3>1, <3>2, <3>3
  <2>10. HeldOf(l) = H /\ CutOf(l) = CutOff(l, f.used)
    BY <2>1, <2>2, SameSets
  <2>11. H \cup T = CutOff(l, f.used)
    BY <2>4, <2>6
  <2> QED BY <2>2, <2>4, <2>6, <2>7, <2>9, <2>10, <2>11
<1>2. {c.block : c \in HeldOf(-1)} = ToSet(biglist)
  BY SameSets DEF PoolInv, BigOK
<1> QED BY <1>1, <1>2 DEF Accounted

(* Every cell that is held is large enough. *)
LEMMA InvFits == PoolInv => Fits
<1> SUFFICES ASSUME PoolInv, NEW h \in held, h.cell.level \in Level PROVE h.rsize <= bsize(h.cell.level)
  BY DEF Fits
<1>1. Placed(h, bigs)
  BY DEF PoolInv, HeldOK
<1>2. AllocMem \in Nat /\ h.rsize \in Nat
  BY <1>1, LargestIs, Rooms DEF AllocMem, Placed
<1>3. h.rsize <= AllocMem
  <2> SUFFICES ASSUME h.rsize > AllocMem PROVE FALSE
    BY <1>2
  <2>1. PICK b \in 1..bigs : h.cell = Cell(-1, b, 0)
    BY <1>1 DEF Placed
  <2>2. h.cell.level = -1
    BY <2>1 DEF Cell
  <2> QED BY <2>2, LargestIs
<1>4. ~(h.rsize > AllocMem)
  BY <1>2, <1>3
<1>5. h.cell.level = getidx(h.rsize)
  BY <1>1, <1>4 DEF Placed
<1> QED BY <1>2, <1>3, <1>5, IdxIs

(* alloc() never hands out a cell that is in use, that is lost, or that is *)
(* too small for what was asked, for every set of sizes and every rate     *)
(* that makes the levels grow.                                             *)
THEOREM PoolAlwaysSound == PoolSpec => []PoolSound
<1>1. PoolInv => PoolSound
  BY InvAccounted, InvFits DEF PoolSound
<1> QED BY <1>1, PoolInductive, PTL

(* Only AllocBlock adds a block to a level, and only when all cells of the *)
(* level are in use.                                                       *)
LEMMA BlockWhenFull ==
    ASSUME PoolInv, NEW l \in Level, MayGrow(l, fix[l]), fix[l].now = 0 \/ fix[l].free = <<>>
    PROVE  Cardinality(HeldOf(l)) = Len(fix[l].used) * bnum(l)
<1>1. PICK H : H = Cells(held, l)
  OBVIOUS
<1>2. PICK f : f = fix[l]
  OBVIOUS
<1>3. LevelOK(l, f, H) /\ bnum(l) \in Nat
  BY <1>1, <1>2, Rooms DEF PoolInv
<1>4. /\ f.used \in Seq(Nat) /\ Rounds(f.used, f.now, bnum(l))
      /\ H \cup ToSet(f.free) = CutOff(l, f.used) /\ H \cap ToSet(f.free) = {}
  BY <1>3 DEF LevelOK
<1>5. \A a \in DOMAIN f.used : f.used[a] = bnum(l)
  BY <1>2, <1>3, LevelNew
<1>6. Cardinality(CutOff(l, f.used)) = Len(f.used) * bnum(l)
  BY <1>3, <1>4, <1>5, CutCount
<1>7. H = CutOff(l, f.used)
  <2>1. CASE f.free = <<>>
    BY <1>4, <2>1, NoneIn
  <2>2. CASE f.now = 0
    <3>1. \A b \in DOMAIN f.used : f.used[b] = 0
      BY <1>4, <2>2 DEF Rounds
    <3>2. CutOff(l, f.used) = {}
      BY <3>1, CutNone
    <3> QED BY <1>4, <3>2
  <2> QED BY <1>2, <2>1, <2>2
<1> QED BY <1>1, <1>2, <1>6, <1>7, SameSets

(* No other step changes the number of blocks. *)
LEMMA StepGrows ==
    ASSUME PoolInv, [PoolNext]_poolVars, NEW l \in Level, Len(fix'[l].used) > Len(fix[l].used)
    PROVE  MayGrow(l, fix[l]) /\ (fix[l].now = 0 \/ fix[l].free = <<>>)
<1>1. fix = [m \in Level |-> fix[m]] /\ \A m \in Level : fix[m].used \in Seq(Nat)
  BY OneLevel
<1>2. PICK n : n = Len(fix[l].used)
  OBVIOUS
<1>3. n \in Nat /\ ~(n > n)
  BY <1>1, <1>2
<1>4. fix'[l].used # fix[l].used /\ Len(fix'[l].used) # n
  BY <1>2, <1>3
<1>5. fix' # fix
  BY <1>4
<1>6. PICK F : F = fix'
  OBVIOUS
<1>7. F[l].used # fix[l].used /\ Len(F[l].used) # n
  BY <1>4, <1>6
<1>8. ASSUME NEW m \in Level, NEW b, NEW rsize, CutFrom(m, b, rsize) PROVE FALSE
  <2>1. F = [fix EXCEPT ![m].used[b] = @ + 1, ![m].now = b, ![m].nowb = @ + 1]
    BY <1>6, <1>8 DEF CutFrom
  <2>2. PICK f : f = fix[m]
    OBVIOUS
  <2>3. f \in [used : Seq(Nat), now : Nat, free : Seq(PoolCell), nowb : Nat]
    BY <2>2, OneLevel
  <2>4. f = [used |-> f.used, now |-> f.now, free |-> f.free, nowb |-> f.nowb]
    BY <2>3
  <2>5. PICK u : u = [f.used EXCEPT ![b] = @ + 1]
    OBVIOUS
  <2>6. PICK e : e = [[[f EXCEPT !.used = u] EXCEPT !.now = b] EXCEPT !.nowb = f.nowb + 1]
    OBVIOUS
  <2>7. F[m] = e
    BY <1>1, <2>1, <2>2, <2>4, <2>5, <2>6
  <2>8. e.used = u
    BY <2>4, <2>6
  <2>9. \A k \in Level : k # m => F[k] = fix[k]
    BY <1>1, <2>1
  <2>10. m = l
    BY <1>7, <2>9
  <2>11. f.used \in Seq(Nat) /\ DOMAIN u = DOMAIN f.used
    BY <2>3, <2>5
  <2>12. Len(u) = Len(f.used)
    <3>1. CASE b \in DOMAIN f.used
      <4>1. u \in Seq(Nat)
        BY <2>11, <2>5, <3>1
      <4> QED BY <2>11, <4>1
    <3>2. CASE b \notin DOMAIN f.used
      <4>1. \A k \in DOMAIN f.used : u[k] = f.used[k]
        BY <2>5, <3>2
      <4>2. u = f.used
        BY <2>5, <2>11, <4>1
      <4> QED BY <4>2
    <3> QED BY <3>1, <3>2
  <2> QED BY <1>2, <1>7, <2>2, <2>7, <2>8, <2>10, <2>12
<1>9. ASSUME NEW m \in Level, NEW rsize, AllocFree(m, rsize) PROVE FALSE
  <2>1. F = [fix EXCEPT ![m].free = Tail(@), ![m].nowb = @ + 1]
    BY <1>6, <1>9 DEF AllocFree
  <2>2. PICK f : f = fix[m]
    OBVIOUS
  <2>3. f \in [used : Seq(Nat), now : Nat, free : Seq(PoolCell), nowb : Nat]
    BY <2>2, OneLevel
  <2>4. F[m].used = f.used
    BY <1>1, <2>1, <2>2, <2>3
  <2>5. \A k \in Level : k # m => F[k] = fix[k]
    BY <1>1, <2>1
  <2> QED BY <1>7, <2>2, <2>4, <2>5
<1>10. ASSUME NEW m \in Level, NEW rsize, AllocBlock(m, rsize)
       PROVE  m = l /\ MayGrow(m, fix[m]) /\ (fix[m].now = 0 \/ fix[m].free = <<>>)
  <2>1. PICK b : b = Len(fix[m].used) + 1
    OBVIOUS
  <2>2. F = [fix EXCEPT ![m].used = Append(@, 1), ![m].now = b, ![m].nowb = @ + 1]
    BY <1>6, <1>10, <2>1 DEF AllocBlock
  <2>3. \A k \in Level : k # m => F[k] = fix[k]
    BY <1>1, <2>2
  <2>4. m = l
    BY <1>7, <2>3
  <2>5. fix[m].now = 0 \/ (~Current(m) /\ ~Following(m) /\ fix[m].free = <<>>)
    BY <1>10 DEF AllocBlock
  <2> QED BY <2>4, <2>5 DEF Current, Following, MayGrow
<1>11. ASSUME NEW sz \in Request, alloc(sz)
       PROVE  MayGrow(l, fix[l]) /\ (fix[l].now = 0 \/ fix[l].free = <<>>)
  <2>1. sz \in Nat
    BY PoolAssumption
  <2>2. PICK rsize : rsize = sz + 1
    OBVIOUS
  <2>3. rsize \in Nat
    BY <2>1, <2>2
  <2>4. CASE AllocBig(rsize)
    BY <1>5, <2>4 DEF AllocBig
  <2>5. CASE /\ rsize <= AllocMem
             /\ \/ AllocCut(getidx(rsize), rsize) \/ AllocFree(getidx(rsize), rsize)
                \/ AllocBlock(getidx(rsize), rsize)
    <3>1. PICK m : m = getidx(rsize)
      OBVIOUS
    <3>2. m \in Level
      BY <2>3, <2>5, <3>1, IdxIs
    <3>3. CASE AllocCut(m, rsize)
      BY <1>8, <3>2, <3>3 DEF AllocCut
    <3>4. CASE AllocFree(m, rsize)
      BY <1>9, <3>2, <3>4
    <3>5. CASE AllocBlock(m, rsize)
      BY <1>10, <3>2, <3>5
    <3> QED BY <2>5, <3>1, <3>3, <3>4, <3>5
  <2> QED BY <1>11, <2>2, <2>4, <2>5 DEF alloc
<1>12. ASSUME NEW h \in held, dealloc(h) PROVE FALSE
  <2>1. PICK m : m = getidx(h.rsize)
    OBVIOUS
  <2>2. PICK c : c = h.cell
    OBVIOUS
  <2>3. /\ h.rsize <= AllocMem
        /\ F = [fix EXCEPT ![m].free = <<c>> \o @, ![m].nowb = @ - 1]
    BY <1>5, <1>6, <1>12, <2>1, <2>2 DEF dealloc
  <2>4. h.rsize \in Nat
    BY DEF PoolInv, HeldOK, Placed
  <2>5. m \in Level
    BY <2>1, <2>3, <2>4, IdxIs
  <2>6. PICK f : f = fix[m]
    OBVIOUS
  <2>7. f \in [used : Seq(Nat), now : Nat, free : Seq(PoolCell), nowb : Nat]
    BY <2>5, <2>6, OneLevel
  <2>8. F[m].used = f.used
    BY <1>1, <2>3, <2>5, <2>6, <2>7
  <2>9. \A k \in Level : k # m => F[k] = fix[k]
    BY <1>1, <2>3, <2>5
  <2> QED BY <1>7, <2>6, <2>8, <2>9
<1>13. CASE reset
  <2>1. PICK f : f = fix[l]
    OBVIOUS
  <2>2. F[l] = FixReset(f)
    BY <1>6, <1>13, <2>1 DEF reset
  <2>3. f \in [used : Seq(Nat), now : Nat, free : Seq(PoolCell), nowb : Nat]
    BY <2>1, OneLevel
  <2>4. PICK v : v = [b \in DOMAIN f.used |-> 0]
    OBVIOUS
  <2>5. F[l].used = v
    BY <2>2, <2>3, <2>4 DEF FixReset
  <2>6. f.used \in Seq(Nat) /\ DOMAIN f.used = 1..Len(f.used) /\ Len(f.used) \in Nat
    BY <2>3
  <2>7. Len(v) = Len(f.used)
    BY <2>4, <2>6
  <2> QED BY <1>2, <1>7, <2>1, <2>5, <2>7
<1>14. ~UNCHANGED poolVars
  BY <1>5 DEF poolVars
<1> QED BY <1>11, <1>12, <1>13, <1>14 DEF PoolNext

(* A pool takes another block only when every cell it has is in use.       *)
THEOREM PoolGrowsWhenFull == PoolSpec => GrowsWhenFull
<1>1. ASSUME PoolInv, [PoolNext]_poolVars
      PROVE  \A l \in Level : Len(fix'[l].used) > Len(fix[l].used) =>
                 Cardinality(HeldOf(l)) = Len(fix[l].used) * bnum(l)
  BY <1>1, StepGrows, BlockWhenFull
<1> QED BY <1>1, PoolInductive, PTL DEF PoolSpec, GrowsWhenFull
-----------------------------------------------------------------------------
USE CapacityAssumption, ValAssumption, BatchAssumption

(* The inductive invariant is RingOK: types, the distance between the two  *)
(* pointers, and stored values in all slots of the content and of the last *)
(* result.                                                                 *)

(* Inc and Dec stay inside the ring. *)
LEMMA SlotMoves ==
    \A x \in Slot : Inc(x) \in Slot /\ Dec(x) \in Slot
BY DEF Slot, Inc, Dec

(* Back(x, k) stays inside the ring. *)
LEMMA BackInSlot ==
    \A x \in Slot : \A k \in 0..Capacity : Back(x, k) \in Slot
BY DEF Slot, Back

(* The slots of the content lie inside the ring, and distinct positions    *)
(* lie in distinct slots.                                                  *)
LEMMA AtInSlot ==
    ASSUME TypeOK
    PROVE  /\ \A i \in 1..Capacity : At(i) \in Slot
           /\ \A i, j \in 1..Capacity : At(i) = At(j) => i = j
BY DEF TypeOK, Slot, At

(* The i-th slot counted back from rear is the i-th last slot of the       *)
(* content.                                                                *)
LEMMA BackIsAt ==
    ASSUME TypeOK, RingShape, capacity = Capacity
    PROVE  \A i \in 1..size : Back(rear, i) = At(size + 1 - i)
BY DEF TypeOK, RingShape, Slot, At, Back

(* The slot rear points to holds no element unless the queue is full, and  *)
(* it is the slot after the content.                                       *)
LEMMA RearIsAt ==
    ASSUME TypeOK, RingShape, capacity = Capacity, size < Capacity
    PROVE  rear = At(size + 1)
BY DEF TypeOK, RingShape, Slot, At

(* The queue before create() satisfies the invariant. *)
LEMMA InitInv == Init => RingOK
BY DEF Init, RingOK, TypeOK, RingShape, NoUndefRead, Slot

(* push_back keeps the invariant. *)
LEMMA PushBackInv ==
    ASSUME RingOK, NEW v \in Val, push_back(v)
    PROVE  RingOK'
<1>1. CASE full /\ Fail
  BY <1>1 DEF Fail, RingOK, TypeOK, RingShape, NoUndefRead, At
<1>2. CASE ~full
  <2>0. /\ TypeOK /\ RingShape /\ NoUndefRead
        /\ capacity = Capacity /\ size < Capacity
    BY <1>2 DEF RingOK, TypeOK, RingShape, full
  <2>1. /\ array' = [array EXCEPT ![rear] = v] /\ size' = size + 1
        /\ rear' = Inc(rear) /\ out' = <<>> /\ UNCHANGED <<capacity, front>>
    BY <1>2 DEF push_back
  <2>2. TypeOK'
    BY <2>0, <2>1, SlotMoves DEF TypeOK
  <2>3. RingShape'
    <3>1. (rear - (front + size + 1))' \in {0, -Capacity, -(2 * Capacity)}
      BY <2>0, <2>1 DEF TypeOK, RingShape, Slot, Inc
    <3>2. ASSUME NEW i \in 1..(size + 1) PROVE array'[At(i)] \in Val
      <4>1. i \in 1..Capacity /\ size + 1 \in 1..Capacity
        BY <2>0 DEF TypeOK
      <4>2. CASE i = size + 1
        BY <4>2, <2>0, <2>1, RearIsAt DEF TypeOK
      <4>3. CASE i \in 1..size
        <5>1. At(i) # rear /\ At(i) \in Slot
          BY <4>1, <4>3, <2>0, RearIsAt, AtInSlot DEF TypeOK
        <5> QED BY <5>1, <4>3, <2>0, <2>1 DEF TypeOK, RingShape
      <4> QED BY <4>2, <4>3, <2>0 DEF TypeOK
    <3> QED BY <3>1, <3>2, <2>0, <2>1 DEF RingShape, At
  <2>4. NoUndefRead'
    BY <2>1 DEF NoUndefRead
  <2> QED BY <2>2, <2>3, <2>4 DEF RingOK
<1> QED BY <1>1, <1>2 DEF push_back

(* push_front keeps the invariant. *)
LEMMA PushFrontInv ==
    ASSUME RingOK, NEW v \in Val, push_front(v)
    PROVE  RingOK'
<1>1. CASE full /\ Fail
  BY <1>1 DEF Fail, RingOK, TypeOK, RingShape, NoUndefRead, At
<1>2. CASE ~full
  <2>0. /\ TypeOK /\ RingShape /\ NoUndefRead
        /\ capacity = Capacity /\ size < Capacity
    BY <1>2 DEF RingOK, TypeOK, RingShape, full
  <2>1. /\ array' = [array EXCEPT ![front] = v] /\ size' = size + 1
        /\ front' = Dec(front) /\ out' = <<>> /\ UNCHANGED <<capacity, rear>>
    BY <1>2 DEF push_front
  <2>2. TypeOK'
    BY <2>0, <2>1, SlotMoves DEF TypeOK
  <2>3. RingShape'
    <3>1. (rear - (front + size + 1))' \in {0, -Capacity, -(2 * Capacity)}
      BY <2>0, <2>1 DEF TypeOK, RingShape, Slot, Dec
    <3>2. ASSUME NEW i \in 1..(size + 1) PROVE array'[At(i)'] \in Val
      <4>1. CASE i = 1
        <5>1. At(i)' = front
          BY <4>1, <2>0, <2>1 DEF TypeOK, Slot, At, Dec
        <5> QED BY <5>1, <2>0, <2>1 DEF TypeOK
      <4>2. CASE i - 1 \in 1..size
        <5>1. At(i)' = At(i - 1) /\ At(i - 1) # front /\ At(i - 1) \in Slot
          BY <4>2, <2>0, <2>1 DEF TypeOK, Slot, At, Dec
        <5> QED BY <5>1, <4>2, <2>0, <2>1 DEF TypeOK, RingShape
      <4> QED BY <4>1, <4>2, <2>0 DEF TypeOK
    <3> QED BY <3>1, <3>2, <2>0, <2>1 DEF RingShape
  <2>4. NoUndefRead'
    BY <2>1 DEF NoUndefRead
  <2> QED BY <2>2, <2>3, <2>4 DEF RingOK
<1> QED BY <1>1, <1>2 DEF push_front

(* pop_backs keeps the invariant, whatever number it is asked for. *)
LEMMA PopBacksInv ==
    ASSUME RingOK, NEW nums \in Nat, pop_backs(nums)
    PROVE  RingOK'
<1> DEFINE cnt == IF nums <= size THEN nums ELSE size
<1>0. TypeOK /\ RingShape /\ NoUndefRead /\ cnt \in 0..size
  BY DEF RingOK, TypeOK
<1>1. /\ rear' = Back(rear, cnt) /\ size' = size - cnt
      /\ out' = [i \in 1..cnt |-> array[Back(rear, i)]]
      /\ UNCHANGED <<capacity, front, array>>
  BY DEF pop_backs
<1> HIDE DEF cnt
<1>2. \A i \in 1..cnt : array[Back(rear, i)] \in Val
  <2>1. ASSUME NEW i \in 1..cnt PROVE array[Back(rear, i)] \in Val
    <3>1. capacity = Capacity /\ i \in 1..size /\ size + 1 - i \in 1..size
      BY <1>0 DEF TypeOK, RingShape
    <3> QED BY <3>1, <1>0, BackIsAt DEF RingShape
  <2> QED BY <2>1
<1>3. out' \in Seq(Val) /\ NoUndefRead'
  <2>1. cnt \in Nat
    BY <1>0 DEF TypeOK
  <2>2. out' \in [1..cnt -> Val]
    BY <1>1, <1>2
  <2>3. out' \in Seq(Val) /\ Len(out') = cnt
    BY <2>1, <2>2
  <2>4. \A i \in 1..Len(out') : out'[i] # Undef
    BY <2>2, <2>3, ValAssumption
  <2> QED BY <2>3, <2>4 DEF NoUndefRead
<1>4. TypeOK'
  <2>1. cnt \in 0..Capacity
    BY <1>0 DEF TypeOK
  <2>2. rear' \in Slot
    BY <2>1, <1>0, <1>1, BackInSlot DEF TypeOK
  <2>3. size' \in 0..Capacity
    BY <1>0, <1>1 DEF TypeOK
  <2>4. out' \in Seq(Val \cup {Undef})
    BY <1>3
  <2> QED BY <2>2, <2>3, <2>4, <1>0, <1>1 DEF TypeOK
<1>5. RingShape'
  <2>1. capacity = Capacity =>
          (rear - (front + size + 1))' \in {0, -Capacity, -(2 * Capacity)}
    BY <1>0, <1>1 DEF TypeOK, RingShape, Slot, Back
  <2> QED BY <2>1, <1>0, <1>1 DEF TypeOK, RingShape, At
<1> QED BY <1>3, <1>4, <1>5 DEF RingOK

(* A successful pop_back is pop_backs of one value; a refused one is       *)
(* pop_backs of none.                                                      *)
LEMMA PopBackIsPopBacks ==
    ASSUME RingOK, pop_back
    PROVE  pop_backs(1)
<1>1. CASE empty
  BY <1>1 DEF pop_back, pop_backs, Fail, empty, RingOK, TypeOK, Slot, Back
<1>2. CASE ~empty
  <2>1. Dec(rear) = Back(rear, 1) /\ 1 <= size
    BY <1>2 DEF RingOK, TypeOK, Slot, Dec, Back, empty
  <2>2. <<array[Back(rear, 1)]>> = [i \in 1..1 |-> array[Back(rear, i)]]
    OBVIOUS
  <2> QED BY <1>2, <2>1, <2>2 DEF pop_back, pop_backs
<1> QED BY <1>1, <1>2

(* pop_front keeps the invariant. *)
LEMMA PopFrontInv ==
    ASSUME RingOK, pop_front
    PROVE  RingOK'
<1>1. CASE empty /\ Fail
  BY <1>1 DEF Fail, RingOK, TypeOK, RingShape, NoUndefRead, At
<1>2. CASE ~empty
  <2>0. TypeOK /\ RingShape /\ NoUndefRead /\ size >= 1 /\ capacity = Capacity
    BY <1>2 DEF RingOK, TypeOK, RingShape, empty
  <2>1. /\ front' = Inc(front) /\ out' = <<array[front']>> /\ size' = size - 1
        /\ UNCHANGED <<capacity, rear, array>>
    BY <1>2 DEF pop_front
  <2>2. front' = At(1) /\ array[front'] \in Val
    BY <2>0, <2>1 DEF TypeOK, RingShape, Slot, At, Inc
  <2>3. TypeOK'
    <3>1. front' \in Slot /\ size' \in 0..Capacity
      BY <2>0, <2>1, SlotMoves DEF TypeOK
    <3>2. out' \in Seq(Val \cup {Undef})
      BY <2>1, <2>2
    <3> QED BY <2>0, <2>1, <3>1, <3>2 DEF TypeOK
  <2>4. RingShape'
    <3>1. (rear - (front + size + 1))' \in {0, -Capacity, -(2 * Capacity)}
      BY <2>0, <2>1 DEF TypeOK, RingShape, Slot, Inc
    <3>2. ASSUME NEW i \in 1..(size - 1) PROVE array[At(i)'] \in Val
      <4>1. At(i)' = At(i + 1) /\ i + 1 \in 1..size
        BY <2>0, <2>1 DEF TypeOK, Slot, At, Inc
      <4> QED BY <4>1, <2>0 DEF RingShape
    <3> QED BY <3>1, <3>2, <2>0, <2>1 DEF RingShape
  <2>5. NoUndefRead'
    BY <2>1, <2>2 DEF NoUndefRead
  <2> QED BY <2>3, <2>4, <2>5 DEF RingOK
<1> QED BY <1>1, <1>2 DEF pop_front

(* create, destroy and clear keep the invariant. *)
LEMMA StorageInv ==
    ASSUME RingOK, Create \/ Destroy \/ Clear
    PROVE  RingOK'
<1>1. CASE Create
  BY <1>1 DEF Create, clear, RingOK, TypeOK, RingShape, NoUndefRead, Slot
<1>2. CASE Destroy
  BY <1>2 DEF Destroy, empty, RingOK, TypeOK, RingShape, NoUndefRead, Slot
<1>3. CASE Clear
  BY <1>3 DEF Clear, clear, RingOK, TypeOK, RingShape, NoUndefRead, Slot
<1> QED BY <1>1, <1>2, <1>3

(* The ring keeps its types and shape, and no call returns a slot that was *)
(* never written, whatever sequence of xqueue.h calls is made.             *)
THEOREM RingSafe == Spec => []RingOK
<1>1. RingOK /\ [Next]_vars => RingOK'
  <2> SUFFICES ASSUME RingOK, [Next]_vars PROVE RingOK'
    OBVIOUS
  <2>1. CASE Create \/ Destroy \/ Clear
    BY <2>1, StorageInv
  <2>2. ASSUME NEW v \in Val, push_back(v) \/ push_front(v) PROVE RingOK'
    BY <2>2, PushBackInv, PushFrontInv
  <2>3. CASE pop_back
    BY <2>3, PopBackIsPopBacks, PopBacksInv
  <2>4. CASE pop_front
    BY <2>4, PopFrontInv
  <2>5. ASSUME NEW nums \in 0..MaxBatch, pop_backs(nums) PROVE RingOK'
    BY <2>5, PopBacksInv
  <2>6. CASE UNCHANGED vars
    BY <2>6 DEF vars, RingOK, TypeOK, RingShape, NoUndefRead, At
  <2> QED BY <2>1, <2>2, <2>3, <2>4, <2>5, <2>6 DEF Next
<1> QED BY <1>1, InitInv, PTL DEF Spec, RingOK
-----------------------------------------------------------------------------
(* The refinement: what each call does to `content'. *)

(* The content of a well-shaped ring is a sequence of stored values. *)
LEMMA ContentSeq ==
    ASSUME RingOK
    PROVE  /\ content \in Seq(Val) /\ Len(content) = size
           /\ \A i \in 1..size : content[i] = array[At(i)]
BY DEF RingOK, TypeOK, RingShape, content

(* A refused call is a refusal of the deque. *)
LEMMA RefusedStep ==
    ASSUME Fail
    PROVE  D!Refuse
BY DEF Fail, D!Refuse, content, At

(* push_back on the ring appends to the content. *)
LEMMA PushBackStep ==
    ASSUME RingOK, NEW v \in Val, push_back(v)
    PROVE  D!PushBack(v)
<1>1. CASE full /\ Fail
  BY <1>1, ContentSeq, RefusedStep DEF D!PushBack, full
<1>2. CASE ~full
  <2>0. TypeOK /\ RingShape /\ capacity = Capacity /\ size < Capacity
    BY <1>2 DEF RingOK, TypeOK, RingShape, full
  <2>1. /\ array' = [array EXCEPT ![rear] = v] /\ size' = size + 1
        /\ out' = <<>> /\ UNCHANGED <<capacity, front>>
    BY <1>2 DEF push_back
  <2>2. /\ content' \in Seq(Val) /\ Len(content') = size + 1
        /\ \A i \in 1..(size + 1) : content'[i] = array'[At(i)]
    <3>1. RingOK' BY PushBackInv
    <3>2. \A i \in Nat : At(i)' = At(i) BY <2>1 DEF At
    <3> QED BY <3>1, <3>2, <2>0, <2>1, ContentSeq
              DEF content, RingOK, TypeOK, RingShape
  <2>3. \A i \in 1..size : content'[i] = content[i]
    <3>1. ASSUME NEW i \in 1..size PROVE array'[At(i)] = array[At(i)]
      <4>1. /\ i \in 1..Capacity /\ size + 1 \in 1..Capacity
            /\ i # size + 1 /\ rear = At(size + 1)
        BY <2>0, RearIsAt DEF TypeOK
      <4>2. At(i) # rear /\ At(i) \in Slot
        BY <4>1, <2>0, AtInSlot
      <4> QED BY <4>2, <2>0, <2>1 DEF TypeOK
    <3> QED BY <3>1, <2>0, <2>2, ContentSeq DEF TypeOK
  <2>4. content'[size + 1] = v
    BY <2>0, <2>1, <2>2, RearIsAt DEF TypeOK
  <2>5. content' = Append(content, v)
    BY <2>0, <2>2, <2>3, <2>4, ContentSeq DEF TypeOK
  <2> QED BY <2>0, <2>1, <2>5, ContentSeq DEF D!PushBack
<1> QED BY <1>1, <1>2 DEF push_back

(* push_front on the ring prepends to the content. *)
LEMMA PushFrontStep ==
    ASSUME RingOK, NEW v \in Val, push_front(v)
    PROVE  D!PushFront(v)
<1>1. CASE full /\ Fail
  BY <1>1, ContentSeq, RefusedStep DEF D!PushFront, full
<1>2. CASE ~full
  <2>0. TypeOK /\ RingShape /\ capacity = Capacity /\ size < Capacity
    BY <1>2 DEF RingOK, TypeOK, RingShape, full
  <2>1. /\ array' = [array EXCEPT ![front] = v] /\ size' = size + 1
        /\ front' = Dec(front) /\ out' = <<>> /\ UNCHANGED capacity
    BY <1>2 DEF push_front
  <2>2. /\ content' \in Seq(Val) /\ Len(content') = size + 1
        /\ \A i \in 1..(size + 1) : content'[i] = array'[At(i)']
    <3>1. RingOK' BY PushFrontInv
    <3> QED BY <3>1, <2>0, <2>1 DEF content, RingOK, TypeOK, RingShape
  <2>3. content'[1] = v
    <3>1. At(1)' = front
      BY <2>0, <2>1 DEF TypeOK, Slot, At, Dec
    <3> QED BY <3>1, <2>0, <2>1, <2>2 DEF TypeOK
  <2>4. ASSUME NEW i \in 1..size PROVE content'[i + 1] = content[i]
    <3>1. At(i + 1)' = At(i) /\ At(i) # front /\ At(i) \in Slot
      BY <2>0, <2>1 DEF TypeOK, Slot, At, Dec
    <3>2. i + 1 \in 1..(size + 1)
      BY <2>0 DEF TypeOK
    <3> QED BY <3>1, <3>2, <2>0, <2>1, <2>2, ContentSeq DEF TypeOK
  <2>5. content' = <<v>> \o content
    <3>1. /\ <<v>> \o content \in Seq(Val)
          /\ Len(<<v>> \o content) = size + 1
          /\ (<<v>> \o content)[1] = v
          /\ \A i \in 1..size : (<<v>> \o content)[i + 1] = content[i]
      BY <2>0, ContentSeq DEF TypeOK
    <3>2. ASSUME NEW j \in 1..(size + 1)
          PROVE  content'[j] = (<<v>> \o content)[j]
      <4>1. CASE j = 1 BY <4>1, <3>1, <2>3
      <4>2. CASE j # 1
        <5>1. j - 1 \in 1..size /\ j = (j - 1) + 1 BY <4>2, <2>0 DEF TypeOK
        <5> QED BY <5>1, <3>1, <2>4
      <4> QED BY <4>1, <4>2
    <3> QED BY <3>1, <3>2, <2>2, <2>0 DEF TypeOK
  <2> QED BY <2>0, <2>1, <2>5, ContentSeq DEF D!PushFront
<1> QED BY <1>1, <1>2 DEF push_front

(* pop_backs hands out the last elements of the content, last one first. *)
LEMMA PopBacksStep ==
    ASSUME RingOK, NEW nums \in Nat, pop_backs(nums)
    PROVE  D!PopBacks(nums)
<1> DEFINE cnt == IF nums <= size THEN nums ELSE size
<1>0. TypeOK /\ RingShape /\ cnt \in 0..size /\ cnt \in 0..nums
      /\ (cnt < nums => cnt = size)
  BY DEF RingOK, TypeOK
<1>1. /\ size' = size - cnt
      /\ out' = [i \in 1..cnt |-> array[Back(rear, i)]]
      /\ UNCHANGED <<capacity, front, array>>
  BY DEF pop_backs
<1> HIDE DEF cnt
<1>2. out' = D!Backs(cnt)
  <2>1. ASSUME NEW i \in 1..cnt
        PROVE  array[Back(rear, i)] = content[Len(content) + 1 - i]
    <3>1. capacity = Capacity /\ i \in 1..size /\ size + 1 - i \in 1..size
      BY <1>0 DEF TypeOK, RingShape
    <3>2. Back(rear, i) = At(size + 1 - i)
      BY <3>1, <1>0, BackIsAt
    <3> QED BY <3>1, <3>2, <1>0, ContentSeq DEF TypeOK
  <2> QED BY <2>1, <1>1 DEF D!Backs
<1>3. content' = SubSeq(content, 1, Len(content) - cnt)
  <2>1. content' = [i \in 1..(size - cnt) |-> array[At(i)]]
    BY <1>1 DEF content, At
  <2>2. SubSeq(content, 1, Len(content) - cnt)
          = [i \in 1..(size - cnt) |-> content[i]]
    BY <1>0, ContentSeq DEF TypeOK
  <2>3. \A i \in 1..(size - cnt) : content[i] = array[At(i)]
    BY <1>0, ContentSeq DEF TypeOK
  <2> QED BY <2>1, <2>2, <2>3
<1>4. cnt <= Len(content) /\ (cnt < nums => cnt = Len(content))
  BY <1>0, ContentSeq DEF TypeOK
<1>5. UNCHANGED capacity
  BY <1>1
<1> QED BY <1>0, <1>2, <1>3, <1>4, <1>5, Zenon DEF D!PopBacks

(* pop_front hands out the first element of the content. *)
LEMMA PopFrontStep ==
    ASSUME RingOK, pop_front
    PROVE  D!PopFront
<1>1. CASE empty /\ Fail
  <2>1. content = <<>>
    BY <1>1, ContentSeq DEF empty
  <2> QED BY <2>1, <1>1, RefusedStep DEF D!PopFront
<1>2. CASE ~empty
  <2>0. TypeOK /\ RingShape /\ size >= 1 /\ capacity = Capacity
    BY <1>2 DEF RingOK, TypeOK, RingShape, empty
  <2>1. /\ front' = Inc(front) /\ out' = <<array[front']>> /\ size' = size - 1
        /\ UNCHANGED <<capacity, array>>
    BY <1>2 DEF pop_front
  <2>2. front' = At(1)
    BY <2>0, <2>1 DEF TypeOK, Slot, At, Inc
  <2>3. content # <<>> /\ out' = <<Head(content)>>
    BY <2>0, <2>1, <2>2, ContentSeq DEF TypeOK
  <2>4. content' = Tail(content)
    <3>1. content' = [i \in 1..(size - 1) |-> array[At(i)']]
      BY <2>1 DEF content
    <3>2. \A i \in 1..(size - 1) : At(i)' = At(i + 1) /\ i + 1 \in 1..size
      BY <2>0, <2>1 DEF TypeOK, Slot, At, Inc
    <3>3. /\ Tail(content) \in Seq(Val) /\ Len(Tail(content)) = size - 1
          /\ \A i \in 1..(size - 1) : Tail(content)[i] = content[i + 1]
      BY <2>0, <2>3, ContentSeq DEF TypeOK
    <3>4. \A i \in 1..(size - 1) : content[i + 1] = array[At(i)']
      BY <3>2, ContentSeq
    <3>5. content' \in Seq(Val) /\ Len(content') = size - 1
      <4>1. RingOK' BY PopFrontInv
      <4> QED BY <4>1, <2>0, <2>1 DEF content, RingOK, TypeOK, RingShape
    <3>6. \A i \in 1..(size - 1) : content'[i] = Tail(content)[i]
      BY <3>1, <3>3, <3>4
    <3> QED BY <3>3, <3>5, <3>6, <2>0 DEF TypeOK
  <2> QED BY <2>1, <2>3, <2>4 DEF D!PopFront
<1> QED BY <1>1, <1>2 DEF pop_front

(* create, destroy and clear empty the content. *)
LEMMA StorageStep ==
    ASSUME RingOK, Create \/ Destroy \/ Clear
    PROVE  D!Create \/ D!Destroy \/ D!Clear
<1>1. ASSUME size' = 0 PROVE content' = <<>>
  BY <1>1 DEF content
<1>2. CASE Create
  BY <1>1, <1>2 DEF Create, clear, D!Create
<1>3. CASE Destroy
  <2>1. content = <<>> /\ content' = <<>>
    BY <1>3 DEF Destroy, empty, content
  <2> QED BY <2>1, <1>3 DEF Destroy, D!Destroy
<1>4. CASE Clear
  BY <1>1, <1>4 DEF Clear, clear, D!Clear
<1> QED BY <1>2, <1>3, <1>4

(* Every behaviour of the ring is a behaviour of the bounded double-ended  *)
(* queue: values come out in the order of the two ends they were put in    *)
(* at, none lost, duplicated or overwritten, and only a full queue refuses *)
(* a push.                                                                 *)
THEOREM RingImplementsDeque == Spec => ImplementsDeque
<1>1. Init => D!Init
  BY DEF Init, D!Init, content
<1>2. RingOK /\ [Next]_vars => [D!Next]_(D!vars)
  <2> SUFFICES ASSUME RingOK, [Next]_vars PROVE [D!Next]_(D!vars)
    OBVIOUS
  <2>1. CASE Create \/ Destroy \/ Clear
    BY <2>1, StorageStep DEF D!Next
  <2>2. ASSUME NEW v \in Val, push_back(v) \/ push_front(v)
        PROVE  D!Next
    BY <2>2, PushBackStep, PushFrontStep DEF D!Next
  <2>3. CASE pop_back
    BY <2>3, PopBackIsPopBacks, PopBacksStep DEF D!Next
  <2>4. CASE pop_front
    BY <2>4, PopFrontStep DEF D!Next
  <2>5. ASSUME NEW nums \in 0..MaxBatch, pop_backs(nums) PROVE D!Next
    BY <2>5, PopBacksStep DEF D!Next
  <2>6. CASE UNCHANGED vars
    BY <2>6 DEF vars, D!vars, content, At
  <2> QED BY <2>1, <2>2, <2>3, <2>4, <2>5, <2>6 DEF Next
<1>3. Spec => []RingOK
  BY RingSafe DEF RingOK
<1> QED BY <1>1, <1>2, <1>3, PTL DEF Spec, ImplementsDeque, D!Spec
-----------------------------------------------------------------------------
(* What is left of a sequence without its first n elements. *)
LEMMA Suffix ==
    ASSUME NEW S, NEW s \in Seq(S), NEW n \in 0..Len(s)
    PROVE  \A k \in 1..(Len(s) - n) : SubSeq(s, n + 1, Len(s))[k] = s[k + n]
OBVIOUS

USE CircleAssumption

BufCell == 0..BufSize

(* The inductive invariant: the indices lie in the ring, and the memory    *)
(* behind it was never written.                                            *)
CircleInv ==
    /\ up \in BOOLEAN /\ sHead \in BufCell /\ sTail \in BufCell
    /\ pbyBuf \in [Memory -> Byte \cup {Garbage}]
    /\ NoOverrun

\* The cell that holds the k-th byte of the queue.
Pos(k) == (sHead + k - 1) % sBufLen

(* A sum of two places in the ring wraps at most once. *)
LEMMA Wrap ==
    ASSUME NEW x \in Int, 0 <= x, x < 2 * sBufLen
    PROVE  x % sBufLen = IF x < sBufLen THEN x ELSE x - sBufLen
<1>0. sBufLen \in Nat /\ sBufLen > 0
  BY DEF sBufLen
<1> HIDE DEF sBufLen
<1>1. CASE x < sBufLen
  BY <1>0, <1>1
<1>2. CASE sBufLen <= x
  BY <1>0, <1>2
<1> QED BY <1>0, <1>1, <1>2

(* A concatenation, element by element. *)
LEMMA Concat ==
    ASSUME NEW S, NEW a \in Seq(S), NEW b \in Seq(S)
    PROVE  a \o b = [k \in 1..(Len(a) + Len(b)) |-> IF k <= Len(a) THEN a[k] ELSE b[k - Len(a)]]
<1> DEFINE c == a \o b
<1>1. c \in Seq(S) /\ Len(c) = Len(a) + Len(b)
  OBVIOUS
<1>2. \A k \in 1..(Len(a) + Len(b)) : c[k] = IF k <= Len(a) THEN a[k] ELSE b[k - Len(a)]
  OBVIOUS
<1>3. c = [k \in 1..(Len(a) + Len(b)) |-> c[k]]
  <2> HIDE DEF c
  <2> QED BY <1>1
<1> QED BY <1>2, <1>3

(* The distance from one cell to another around the ring. *)
LEMMA Distance ==
    ASSUME NEW h \in BufCell, NEW t \in BufCell
    PROVE  (t - h + sBufLen) % sBufLen = IF t >= h THEN t - h ELSE t - h + sBufLen
<1> DEFINE x == t - h + sBufLen
<1>0. h \in 0..BufSize /\ t \in 0..BufSize /\ sBufLen = BufSize + 1
  BY DEF BufCell, sBufLen
<1>1. x \in Int /\ 0 <= x /\ x < 2 * sBufLen
  BY <1>0
<1>2. x % sBufLen = IF x < sBufLen THEN x ELSE x - sBufLen
  <2> HIDE DEF x
  <2> QED BY <1>1, Wrap
<1>3. (IF x < sBufLen THEN x ELSE x - sBufLen) = IF t >= h THEN t - h ELSE t - h + sBufLen
  BY <1>0
<1> QED BY <1>2, <1>3

(* The k-th cell from a given one, around the ring. *)
LEMMA Around ==
    ASSUME NEW h \in BufCell, NEW k \in 1..sBufLen
    PROVE  /\ (h + k - 1) % sBufLen = IF h + k - 1 < sBufLen THEN h + k - 1 ELSE h + k - 1 - sBufLen
           /\ (h + k - 1) % sBufLen \in BufCell
<1> DEFINE x == h + k - 1
<1>0. h \in 0..BufSize /\ sBufLen = BufSize + 1
  BY DEF BufCell, sBufLen
<1>1. x \in Int /\ 0 <= x /\ x < 2 * sBufLen
  BY <1>0
<1>2. x % sBufLen = IF x < sBufLen THEN x ELSE x - sBufLen
  <2> HIDE DEF x
  <2> QED BY <1>1, Wrap
<1>3. (IF x < sBufLen THEN x ELSE x - sBufLen) \in BufCell
  BY <1>0 DEF BufCell
<1>4. x % sBufLen \in BufCell
  <2> HIDE DEF x
  <2> QED BY <1>2, <1>3
<1>5. (h + k - 1) % sBufLen = IF h + k - 1 < sBufLen THEN h + k - 1 ELSE h + k - 1 - sBufLen
  BY <1>0, <1>2
<1> QED BY <1>4, <1>5, Zenon

(* The number of bytes is the distance from sHead to sTail; what is left   *)
(* of the ring but for one cell is room.                                   *)
LEMMA Lengths ==
    ASSUME CircleInv
    PROVE  /\ nCBgetdatalen = IF sTail >= sHead THEN sTail - sHead ELSE sTail - sHead + sBufLen
           /\ nCBgetdatalen \in BufCell
           /\ Room = BufSize - nCBgetdatalen
<1> DEFINE y == sHead - 1 - sTail + sBufLen
<1>0. sHead \in 0..BufSize /\ sTail \in 0..BufSize /\ sBufLen = BufSize + 1
  BY DEF CircleInv, BufCell, sBufLen
<1>1. nCBgetdatalen = IF sTail >= sHead THEN sTail - sHead ELSE sTail - sHead + sBufLen
  BY <1>0, Distance DEF nCBgetdatalen, BufCell
<1>2. y \in Int /\ 0 <= y /\ y < 2 * sBufLen
  BY <1>0
<1>3. Room = IF y < sBufLen THEN y ELSE y - sBufLen
  <2> HIDE DEF y
  <2>1. y % sBufLen = IF y < sBufLen THEN y ELSE y - sBufLen
    BY <1>2, Wrap
  <2> QED BY <2>1 DEF Room, y
<1> HIDE DEF nCBgetdatalen, Room, sBufLen
<1> QED BY <1>0, <1>1, <1>3 DEF BufCell

(* Where the k-th byte lies. *)
LEMMA Places ==
    ASSUME CircleInv, NEW k \in 1..sBufLen
    PROVE  /\ Pos(k) = IF sHead + k - 1 < sBufLen THEN sHead + k - 1 ELSE sHead + k - 1 - sBufLen
           /\ Pos(k) \in BufCell /\ Pos(k) \in Memory
<1>1. sHead \in BufCell /\ \A i \in BufCell : i \in Memory
  BY DEF CircleInv, BufCell, sBufLen, Memory
<1> QED BY <1>1, Around DEF Pos

(* The content of the ring as a sequence. *)
LEMMA BytesSeq ==
    ASSUME CircleInv
    PROVE  /\ bytes \in Seq(Byte \cup {Garbage}) /\ Len(bytes) = nCBgetdatalen
           /\ \A k \in 1..nCBgetdatalen : bytes[k] = pbyBuf[Pos(k)]
<1>1. nCBgetdatalen \in Nat /\ \A k \in 1..nCBgetdatalen : k \in 1..sBufLen
  BY Lengths DEF BufCell, sBufLen
<1>2. \A k \in 1..nCBgetdatalen : pbyBuf[Pos(k)] \in Byte \cup {Garbage}
  BY <1>1, Places DEF CircleInv
<1>3. bytes = [k \in 1..nCBgetdatalen |-> pbyBuf[Pos(k)]]
  BY DEF bytes, Pos
<1> HIDE DEF nCBgetdatalen, bytes
<1> QED BY <1>1, <1>2, <1>3
-----------------------------------------------------------------------------
(* A put that is not refused: where sTail goes and which cells change.  In *)
(* one piece or in two, byte j of the argument lands in the j-th cell      *)
(* behind sTail around the ring, and no other cell is written.             *)
LEMMA PutCells ==
    ASSUME CircleInv, NEW n \in 1..sBufLen, NEW s \in [1..n -> Byte],
           nCBput(s), Room >= Len(s)
    PROVE  /\ up' = up /\ sHead' = sHead /\ sTail + n <= sBufLen + BufSize
           /\ nCBgetdatalen + n <= BufSize
           /\ sTail' = IF sTail + n < sBufLen THEN sTail + n ELSE sTail + n - sBufLen
           /\ pbyBuf' = [i \in Memory |->
                 IF sTail <= i /\ i < sTail + n /\ i < sBufLen THEN s[i - sTail + 1]
                 ELSE IF i < sTail + n - sBufLen THEN s[i + sBufLen - sTail + 1]
                 ELSE pbyBuf[i]]
<1> DEFINE sTmpLen == sBufLen - sTail
<1>0. /\ sHead \in 0..BufSize /\ sTail \in 0..BufSize /\ sBufLen = BufSize + 1
      /\ BufSize \in Nat /\ n \in Nat /\ n >= 1 /\ Memory = 0..(2 * sBufLen)
  BY DEF CircleInv, BufCell, sBufLen, Memory
<1>1. Len(s) = n /\ s \in Seq(Byte)
  BY <1>0
<1>2. /\ nCBgetdatalen = IF sTail >= sHead THEN sTail - sHead ELSE sTail - sHead + sBufLen
      /\ nCBgetdatalen + n <= BufSize
  <2>1. /\ nCBgetdatalen = IF sTail >= sHead THEN sTail - sHead ELSE sTail - sHead + sBufLen
        /\ nCBgetdatalen \in 0..BufSize /\ Room = BufSize - nCBgetdatalen /\ Room >= n
    BY Lengths, <1>1 DEF BufCell
  <2> HIDE DEF nCBgetdatalen, Room
  <2> QED BY <2>1, <1>0
<1>3. /\ up' = up /\ sHead' = sHead
      /\ \/ /\ sTail < sHead \/ sTmpLen >= n
            /\ pbyBuf' = Memcpy(pbyBuf, sTail, s)
            /\ sTail' = (sTail + n) % sBufLen
         \/ /\ sTail >= sHead /\ sTmpLen < n
            /\ pbyBuf' = Memcpy(Memcpy(pbyBuf, sTail, SubSeq(s, 1, sTmpLen)),
                                    0, SubSeq(s, sTmpLen + 1, n))
            /\ sTail' = n - sTmpLen
  <2>1. ~ (Room < n)
    <3>1. Room \in Int
      BY Lengths, <1>0 DEF BufCell
    <3> HIDE DEF Room
    <3> QED BY <3>1, <1>0, <1>1
  <2> HIDE DEF Room, sTmpLen
  <2> QED BY <2>1, <1>1 DEF nCBput, sTmpLen
<1> HIDE DEF nCBgetdatalen, sBufLen, Memory
<1>4. sTail + n <= sBufLen + BufSize
  BY <1>0, <1>2
<1>5. CASE /\ sTail < sHead \/ sTmpLen >= n
           /\ pbyBuf' = Memcpy(pbyBuf, sTail, s)
           /\ sTail' = (sTail + n) % sBufLen
  <2> DEFINE x == sTail + n
  <2>1. x \in Int /\ 0 <= x /\ x < 2 * sBufLen /\ x <= sBufLen
    BY <1>0, <1>2, <1>5
  <2>2. x % sBufLen = IF x < sBufLen THEN x ELSE x - sBufLen
    <3> HIDE DEF x
    <3> QED BY <2>1, Wrap
  <2>3. sTail' = IF x < sBufLen THEN x ELSE x - sBufLen
    <3>1. sTail' = x % sBufLen
      BY <1>5
    <3> HIDE DEF x
    <3> QED BY <2>2, <3>1
  <2>4. pbyBuf' = [i \in Memory |-> IF i \in sTail..(sTail + n - 1) THEN s[i - sTail + 1] ELSE pbyBuf[i]]
    BY <1>1, <1>5 DEF Memcpy
  <2>5. pbyBuf' = [i \in Memory |->
                 IF sTail <= i /\ i < sTail + n /\ i < sBufLen THEN s[i - sTail + 1]
                 ELSE IF i < sTail + n - sBufLen THEN s[i + sBufLen - sTail + 1]
                 ELSE pbyBuf[i]]
    <3>1. ASSUME NEW i \in Memory
          PROVE  (IF i \in sTail..(sTail + n - 1) THEN s[i - sTail + 1] ELSE pbyBuf[i])
               = IF sTail <= i /\ i < sTail + n /\ i < sBufLen THEN s[i - sTail + 1]
                 ELSE IF i < sTail + n - sBufLen THEN s[i + sBufLen - sTail + 1]
                 ELSE pbyBuf[i]
      BY <1>0, <2>1
    <3> QED BY <2>4, <3>1
  <2>6. sTail' = IF sTail + n < sBufLen THEN sTail + n ELSE sTail + n - sBufLen
    BY <1>0, <2>3
  <2>7. up' = up /\ sHead' = sHead /\ nCBgetdatalen + n <= BufSize
    BY <1>2, <1>3
  <2> QED BY <1>4, <2>5, <2>6, <2>7, Zenon
<1>6. CASE /\ sTail >= sHead /\ sTmpLen < n
           /\ pbyBuf' = Memcpy(Memcpy(pbyBuf, sTail, SubSeq(s, 1, sTmpLen)),
                                    0, SubSeq(s, sTmpLen + 1, n))
           /\ sTail' = n - sTmpLen
  <2> DEFINE s1 == SubSeq(s, 1, sTmpLen)
             s2 == SubSeq(s, sTmpLen + 1, n)
             m == Memcpy(pbyBuf, sTail, s1)
  <2>1. sTmpLen \in 1..(n - 1) /\ sTail + sTmpLen = sBufLen
    BY <1>0, <1>6
  <2>2. Len(s1) = sTmpLen /\ \A i \in 1..sTmpLen : s1[i] = s[i]
    BY <1>0, <1>1, <2>1
  <2>3. Len(s2) = n - sTmpLen /\ \A i \in 1..(n - sTmpLen) : s2[i] = s[i + sTmpLen]
    BY <1>0, <1>1, <2>1
  <2>4. m = [i \in Memory |-> IF i \in sTail..(sTail + sTmpLen - 1) THEN s1[i - sTail + 1] ELSE pbyBuf[i]]
    <3> HIDE DEF s1
    <3> QED BY <2>2 DEF Memcpy
  <2>5. pbyBuf' = [i \in Memory |-> IF i \in 0..(n - sTmpLen - 1) THEN s2[i + 1] ELSE m[i]]
    <3>1. pbyBuf' = Memcpy(m, 0, s2)
      BY <1>6
    <3>2. 0 + (n - sTmpLen) - 1 = n - sTmpLen - 1 /\ \A i \in Memory : i - 0 + 1 = i + 1
      BY <1>0, <2>1
    <3> HIDE DEF s2, m, sTmpLen
    <3> QED BY <2>3, <3>1, <3>2 DEF Memcpy
  <2> HIDE DEF s1, s2, m
  <2>6. pbyBuf' = [i \in Memory |->
                 IF sTail <= i /\ i < sTail + n /\ i < sBufLen THEN s[i - sTail + 1]
                 ELSE IF i < sTail + n - sBufLen THEN s[i + sBufLen - sTail + 1]
                 ELSE pbyBuf[i]]
    <3>1. ASSUME NEW i \in Memory
          PROVE  (IF i \in 0..(n - sTmpLen - 1) THEN s2[i + 1] ELSE m[i])
               = IF sTail <= i /\ i < sTail + n /\ i < sBufLen THEN s[i - sTail + 1]
                 ELSE IF i < sTail + n - sBufLen THEN s[i + sBufLen - sTail + 1]
                 ELSE pbyBuf[i]
      <4>0. i \in Nat
        BY <1>0
      <4>1. n - sTmpLen - 1 < sTail
        BY <1>0, <1>2, <1>6
      <4>2. CASE i <= n - sTmpLen - 1
        BY <1>0, <2>1, <2>3, <4>0, <4>1, <4>2
      <4>3. CASE i > n - sTmpLen - 1
        BY <1>0, <2>1, <2>2, <2>4, <4>0, <4>1, <4>3
      <4> QED BY <4>0, <4>2, <4>3, <1>0, <2>1
    <3> QED BY <2>5, <3>1
  <2>7. sTail' = IF sTail + n < sBufLen THEN sTail + n ELSE sTail + n - sBufLen
    BY <1>0, <1>6
  <2> QED BY <1>2, <1>3, <1>4, <2>6, <2>7
<1> QED BY <1>3, <1>5, <1>6

(* Such a put keeps the invariant: no byte of it lands behind the ring. *)
LEMMA PutInv ==
    ASSUME CircleInv, NEW n \in 1..sBufLen, NEW s \in [1..n -> Byte],
           nCBput(s), Room >= Len(s)
    PROVE  CircleInv'
<1>0. /\ sTail \in 0..BufSize /\ sBufLen = BufSize + 1 /\ BufSize \in Nat /\ n \in Nat /\ n >= 1
      /\ Memory = 0..(2 * sBufLen) /\ pbyBuf \in [Memory -> Byte \cup {Garbage}]
      /\ \A i \in Memory : i >= sBufLen => pbyBuf[i] = Garbage
  BY DEF CircleInv, BufCell, sBufLen, Memory, NoOverrun
<1>1. up' = up /\ sHead' = sHead /\ sTail + n <= sBufLen + BufSize
  BY PutCells
<1>2. sTail' = IF sTail + n < sBufLen THEN sTail + n ELSE sTail + n - sBufLen
  BY PutCells
<1>3. pbyBuf' = [i \in Memory |->
                 IF sTail <= i /\ i < sTail + n /\ i < sBufLen THEN s[i - sTail + 1]
                 ELSE IF i < sTail + n - sBufLen THEN s[i + sBufLen - sTail + 1]
                 ELSE pbyBuf[i]]
  BY PutCells
<1> HIDE DEF sBufLen, Memory
<1>4. sTail' \in 0..BufSize
  BY <1>0, <1>1, <1>2
<1>5. ASSUME NEW i \in Memory
      PROVE  pbyBuf'[i] \in Byte \cup {Garbage} /\ (i >= sBufLen => pbyBuf'[i] = Garbage)
  <2>0. i \in Nat
    BY <1>0
  <2>1. CASE sTail <= i /\ i < sTail + n /\ i < sBufLen
    <3>1. i - sTail + 1 \in 1..n
      BY <1>0, <2>0, <2>1
    <3>2. pbyBuf'[i] = s[i - sTail + 1]
      BY <1>3, <2>1
    <3> QED BY <3>1, <3>2, <2>0, <2>1, <1>0
  <2>2. CASE ~(sTail <= i /\ i < sTail + n /\ i < sBufLen) /\ i < sTail + n - sBufLen
    <3>1. i + sBufLen - sTail + 1 \in 1..n /\ i < sBufLen
      BY <1>0, <1>1, <2>0, <2>2
    <3>2. pbyBuf'[i] = s[i + sBufLen - sTail + 1]
      BY <1>3, <2>2
    <3> QED BY <3>1, <3>2, <2>0, <1>0
  <2>3. CASE ~(sTail <= i /\ i < sTail + n /\ i < sBufLen) /\ ~(i < sTail + n - sBufLen)
    BY <1>0, <1>3, <2>3
  <2> QED BY <2>1, <2>2, <2>3
<1>6. pbyBuf' \in [Memory -> Byte \cup {Garbage}]
  <2>1. pbyBuf' = [i \in Memory |-> pbyBuf'[i]]
    BY <1>3
  <2> QED BY <1>5, <2>1
<1>7. NoOverrun'
  BY <1>5, <1>6 DEF NoOverrun
<1> QED BY <1>1, <1>4, <1>6, <1>7 DEF CircleInv, BufCell

(* A get or lookup of n stored bytes: sHead moves n cells around the ring, *)
(* and the bytes handed out are the first n of the queue.                  *)
LEMMA GetCells ==
    ASSUME CircleInv, NEW n \in 1..sBufLen, nCBgetdatalen >= n
    PROVE  /\ Moved(n) = IF sHead + n < sBufLen THEN sHead + n ELSE sHead + n - sBufLen
           /\ Moved(n) \in BufCell
           /\ \A k \in 1..n : Bytes(n)[k] = pbyBuf[Pos(k)]
<1>0. /\ sHead \in 0..BufSize /\ sTail \in 0..BufSize /\ sBufLen = BufSize + 1
      /\ BufSize \in Nat /\ n \in Nat /\ n >= 1
  BY DEF CircleInv, BufCell, sBufLen, Memory
<1>1. /\ nCBgetdatalen = IF sTail >= sHead THEN sTail - sHead ELSE sTail - sHead + sBufLen
      /\ nCBgetdatalen \in 0..BufSize
  BY Lengths DEF BufCell
<1> HIDE DEF sBufLen, nCBgetdatalen
<1>2. Moved(n) = IF sHead + n < sBufLen THEN sHead + n ELSE sHead + n - sBufLen
  <2>1. CASE Piece(n)
    <3> DEFINE x == sHead + n
    <3>1. x \in Int /\ 0 <= x /\ x < 2 * sBufLen
      BY <1>0, <1>1
    <3> HIDE DEF x
    <3>2. x % sBufLen = IF x < sBufLen THEN x ELSE x - sBufLen
      BY <3>1, Wrap
    <3>3. Moved(n) = x % sBufLen
      BY <2>1 DEF Moved, x
    <3>4. Moved(n) = IF x < sBufLen THEN x ELSE x - sBufLen
      BY <3>2, <3>3, Zenon
    <3> QED BY <1>0, <3>4 DEF x
  <2>2. CASE ~Piece(n)
    BY <2>2, <1>0 DEF Moved, Piece
  <2> QED BY <2>1, <2>2
<1>3. ASSUME NEW k \in 1..n
      PROVE  Bytes(n)[k] = pbyBuf[Pos(k)]
  <2>0. k \in 1..sBufLen
    BY <1>0
  <2>1. Pos(k) = IF sHead + k - 1 < sBufLen THEN sHead + k - 1 ELSE sHead + k - 1 - sBufLen
    BY <2>0, Places
  <2>2. Bytes(n)[k] = IF Piece(n) \/ k <= sBufLen - sHead THEN pbyBuf[sHead + k - 1]
                      ELSE pbyBuf[k - 1 - (sBufLen - sHead)]
    BY DEF Bytes
  <2>3. CASE Piece(n) \/ k <= sBufLen - sHead
    <3>1. sHead + k - 1 < sBufLen
      BY <2>3, <1>0, <1>1, <2>0 DEF Piece
    <3> QED BY <2>1, <2>2, <2>3, <3>1
  <2>4. CASE ~(Piece(n) \/ k <= sBufLen - sHead)
    <3>1. ~(sHead + k - 1 < sBufLen) /\ k - 1 - (sBufLen - sHead) = sHead + k - 1 - sBufLen
      BY <2>4, <1>0, <2>0
    <3> QED BY <2>1, <2>2, <2>4, <3>1
  <2> QED BY <2>3, <2>4
<1>4. Moved(n) \in 0..BufSize
  BY <1>0, <1>1, <1>2
<1> QED BY <1>2, <1>3, <1>4 DEF BufCell

(* Every call keeps the indices in the ring and the memory behind it       *)
(* untouched.                                                              *)
LEMMA CircleInductive == CircleSpec => []CircleInv
<1>0. 0 \in BufCell
  BY DEF BufCell
<1>1. CircleInit => CircleInv
  BY <1>0 DEF CircleInit, CircleInv, NoOverrun
<1>2. CircleInv /\ [CircleNext]_circleVars => CircleInv'
  <2> SUFFICES ASSUME CircleInv, [CircleNext]_circleVars PROVE CircleInv'
    OBVIOUS
  <2>1. CASE pstCBinit \/ vCBfree
    BY <1>0, <2>1 DEF pstCBinit, vCBfree, CircleInv, NoOverrun
  <2>2. CASE UNCHANGED <<up, pbyBuf, sHead, sTail>>
    BY <2>2 DEF CircleInv, NoOverrun
  <2>3. ASSUME NEW n \in 1..sBufLen, nCBget(n) PROVE CircleInv'
    <3>1. CASE nCBgetdatalen >= n /\ sHead' = Moved(n)
      BY <2>3, <3>1, GetCells DEF nCBget, CircleInv, NoOverrun
    <3> QED BY <2>2, <2>3, <3>1 DEF nCBget
  <2>4. ASSUME NEW n \in 1..sBufLen, nCBlookup(n) PROVE CircleInv'
    BY <2>2, <2>4 DEF nCBlookup
  <2>5. ASSUME NEW n \in 1..sBufLen, NEW s \in [1..n -> Byte], nCBput(s) PROVE CircleInv'
    <3>1. CASE Room >= Len(s)
      BY <2>5, <3>1, PutInv
    <3> QED BY <2>2, <2>5, <3>1 DEF nCBput
  <2>6. CASE NotInit \/ UNCHANGED circleVars
    BY <2>2, <2>6 DEF NotInit, circleVars
  <2> QED BY <2>1, <2>3, <2>4, <2>5, <2>6 DEF CircleNext
<1> QED BY <1>1, <1>2, PTL DEF CircleSpec

(* For every size of the ring, nothing is written behind it, and the free  *)
(* length nCBgetbufreelen() tells is never more than the room a put finds. *)
THEOREM CircleAlwaysSafe == CircleSpec => []CircleSafe
<1>1. CircleInv => CircleSafe
  <2> SUFFICES ASSUME CircleInv PROVE CircleSafe
    OBVIOUS
  <2>1. nCBgetdatalen \in 0..BufSize /\ Room = BufSize - nCBgetdatalen /\ sBufLen = BufSize + 1
    BY Lengths DEF BufCell, sBufLen
  <2> HIDE DEF nCBgetdatalen, Room, sBufLen
  <2>2. FreeFits
    BY <2>1 DEF FreeFits, nCBgetbufreelen
  <2> QED BY <2>2 DEF CircleSafe, CircleInv
<1> QED BY <1>1, CircleInductive, PTL
-----------------------------------------------------------------------------
(* A put appends its bytes to the content or, without the room, changes    *)
(* nothing.                                                                *)
LEMMA PutStep ==
    ASSUME CircleInv, NEW n \in 1..sBufLen, NEW s \in [1..n -> Byte], nCBput(s)
    PROVE  B!Put(s)
<1>0. /\ sHead \in 0..BufSize /\ sTail \in 0..BufSize /\ sBufLen = BufSize + 1
      /\ BufSize \in Nat /\ n \in Nat /\ n >= 1 /\ Memory = 0..(2 * sBufLen)
  BY DEF CircleInv, BufCell, sBufLen, Memory
<1>1. Len(s) = n /\ s \in Seq(Byte)
  BY <1>0
<1>2. /\ nCBgetdatalen \in 0..BufSize /\ Room = BufSize - nCBgetdatalen
      /\ nCBgetdatalen = IF sTail >= sHead THEN sTail - sHead ELSE sTail - sHead + sBufLen
  BY Lengths DEF BufCell
<1>3. bytes \in Seq(Byte \cup {Garbage}) /\ Len(bytes) = nCBgetdatalen
  BY BytesSeq
<1> HIDE DEF nCBgetdatalen, Room, bytes, sBufLen, Memory
<1>4. CASE Room < Len(s)
  <2>1. Return("put", "CQFULL", <<>>) /\ UNCHANGED <<up, pbyBuf, sHead, sTail>>
    <3>1. ~(Room >= Len(s))
      BY <1>0, <1>1, <1>2, <1>4
    <3> QED BY <3>1 DEF nCBput
  <2>2. bytes' = bytes
    BY <2>1 DEF bytes, nCBgetdatalen
  <2>3. Len(bytes) + Len(s) > BufSize
    BY <1>0, <1>1, <1>2, <1>3, <1>4
  <2> QED BY <2>1, <2>2, <2>3 DEF nCBput, Return, B!Put, B!Answer
<1>5. CASE Room >= Len(s)
  <2>1. /\ up' = up /\ sHead' = sHead /\ nCBgetdatalen + n <= BufSize
        /\ sTail' = IF sTail + n < sBufLen THEN sTail + n ELSE sTail + n - sBufLen
    BY <1>5, PutCells
  <2>2. pbyBuf' = [i \in Memory |->
                 IF sTail <= i /\ i < sTail + n /\ i < sBufLen THEN s[i - sTail + 1]
                 ELSE IF i < sTail + n - sBufLen THEN s[i + sBufLen - sTail + 1]
                 ELSE pbyBuf[i]]
    BY <1>5, PutCells
  <2>3. Return("put", "ok", <<>>)
    <3>1. ~(Room < Len(s))
      BY <1>0, <1>1, <1>2, <1>5
    <3> QED BY <3>1 DEF nCBput
  <2>4. nCBgetdatalen' = nCBgetdatalen + n
    <3>1. sTail' \in BufCell /\ sHead' \in BufCell
      BY <1>5, PutInv DEF CircleInv
    <3>2. nCBgetdatalen' = IF sTail' >= sHead' THEN sTail' - sHead' ELSE sTail' - sHead' + sBufLen
      BY <3>1, Distance DEF nCBgetdatalen
    <3> QED BY <1>0, <1>2, <2>1, <3>2
  <2>5. ASSUME NEW k \in 1..(nCBgetdatalen + n)
        PROVE  pbyBuf'[Pos(k)] = IF k <= nCBgetdatalen THEN pbyBuf[Pos(k)] ELSE s[k - nCBgetdatalen]
    <3>1. k \in 1..sBufLen /\ k \in Nat
      BY <1>0, <1>2, <2>1
    <3>2. /\ Pos(k) = IF sHead + k - 1 < sBufLen THEN sHead + k - 1 ELSE sHead + k - 1 - sBufLen
          /\ Pos(k) \in Memory
      BY <3>1, Places
    <3> HIDE DEF Pos
    <3>3. pbyBuf'[Pos(k)] =
                 IF sTail <= Pos(k) /\ Pos(k) < sTail + n /\ Pos(k) < sBufLen THEN s[Pos(k) - sTail + 1]
                 ELSE IF Pos(k) < sTail + n - sBufLen THEN s[Pos(k) + sBufLen - sTail + 1]
                 ELSE pbyBuf[Pos(k)]
      BY <2>2, <3>2
    <3>4. CASE k <= nCBgetdatalen
      <4>1. ~(sTail <= Pos(k) /\ Pos(k) < sTail + n /\ Pos(k) < sBufLen)
        BY <1>0, <1>2, <2>1, <3>1, <3>2, <3>4
      <4>2. ~(Pos(k) < sTail + n - sBufLen)
        BY <1>0, <1>2, <2>1, <3>1, <3>2, <3>4
      <4> QED BY <3>3, <3>4, <4>1, <4>2
    <3>5. CASE ~(k <= nCBgetdatalen)
      <4>1. CASE sTail <= Pos(k) /\ Pos(k) < sTail + n /\ Pos(k) < sBufLen
        <5>1. Pos(k) - sTail + 1 = k - nCBgetdatalen
          BY <1>0, <1>2, <2>1, <3>1, <3>2, <3>5, <4>1
        <5> QED BY <3>3, <3>5, <4>1, <5>1
      <4>2. CASE ~(sTail <= Pos(k) /\ Pos(k) < sTail + n /\ Pos(k) < sBufLen)
        <5>1. Pos(k) < sTail + n - sBufLen /\ Pos(k) + sBufLen - sTail + 1 = k - nCBgetdatalen
          BY <1>0, <1>2, <2>1, <3>1, <3>2, <3>5, <4>2
        <5> QED BY <3>3, <3>5, <4>2, <5>1
      <4> QED BY <4>1, <4>2
    <3> QED BY <3>4, <3>5
  <2>6. bytes' = bytes \o s
    <3>1. bytes' = [k \in 1..(nCBgetdatalen + n) |-> pbyBuf'[Pos(k)]]
      BY <2>1, <2>4 DEF bytes, Pos
    <3>2. s \in Seq(Byte \cup {Garbage})
      BY <1>1
    <3>3. bytes \o s = [k \in 1..(nCBgetdatalen + n) |->
                           IF k <= nCBgetdatalen THEN bytes[k] ELSE s[k - nCBgetdatalen]]
      <4>1. bytes \o s = [k \in 1..(Len(bytes) + Len(s)) |->
                             IF k <= Len(bytes) THEN bytes[k] ELSE s[k - Len(bytes)]]
        <5> DEFINE S == Byte \cup {Garbage}
        <5>1. bytes \in Seq(S) /\ s \in Seq(S)
          BY <1>3, <3>2
        <5> HIDE DEF S
        <5>2. \A a, b \in Seq(S) : a \o b = [k \in 1..(Len(a) + Len(b)) |-> IF k <= Len(a) THEN a[k] ELSE b[k - Len(a)]]
          BY Concat
        <5> QED BY <5>1, <5>2
      <4> QED BY <1>1, <1>3, <4>1, Zenon
    <3>4. \A k \in 1..(nCBgetdatalen + n) : k <= nCBgetdatalen => bytes[k] = pbyBuf[Pos(k)]
      BY <1>0, <1>2, BytesSeq
    <3> HIDE DEF Pos
    <3> QED BY <2>5, <3>1, <3>3, <3>4
  <2>7. Len(bytes) + Len(s) <= BufSize
    BY <1>1, <1>3, <2>1
  <2> QED BY <2>1, <2>3, <2>6, <2>7 DEF nCBput, Return, B!Put, B!Answer
<1> QED BY <1>0, <1>1, <1>2, <1>4, <1>5

(* The bytes a get or lookup hands out are the first ones of the content. *)
LEMMA Handed ==
    ASSUME CircleInv, NEW n \in 1..sBufLen, nCBgetdatalen >= n
    PROVE  Bytes(n) = SubSeq(bytes, 1, n)
<1>0. nCBgetdatalen \in Nat /\ n \in Nat /\ n >= 1
  BY Lengths DEF BufCell
<1>1. bytes \in Seq(Byte \cup {Garbage}) /\ Len(bytes) = nCBgetdatalen
  BY BytesSeq
<1>2. \A k \in 1..n : Bytes(n)[k] = bytes[k]
  <2> SUFFICES ASSUME NEW k \in 1..n PROVE Bytes(n)[k] = bytes[k]
    OBVIOUS
  <2>1. k \in 1..nCBgetdatalen
    <3> HIDE DEF nCBgetdatalen
    <3> QED BY <1>0
  <2> QED BY <2>1, GetCells, BytesSeq
<1>3. Bytes(n) = [k \in 1..n |-> Bytes(n)[k]]
  BY DEF Bytes
<1> HIDE DEF bytes, nCBgetdatalen, Bytes
<1>4. SubSeq(bytes, 1, n) = [k \in 1..n |-> bytes[k]]
  BY <1>0, <1>1
<1> QED BY <1>2, <1>3, <1>4

(* A lookup hands out the first bytes, or refuses, and changes nothing. *)
LEMMA LookupStep ==
    ASSUME CircleInv, NEW n \in 1..sBufLen, nCBlookup(n)
    PROVE  B!Lookup(n)
<1>0. nCBgetdatalen \in Nat /\ n \in Nat /\ Len(bytes) = nCBgetdatalen
  BY Lengths, BytesSeq DEF BufCell
<1>1. up /\ up' = up /\ bytes' = bytes
  BY DEF nCBlookup, bytes, nCBgetdatalen
<1>2. CASE nCBgetdatalen >= n /\ Return("lookup", "ok", Bytes(n))
  <2>1. Bytes(n) = SubSeq(bytes, 1, n)
    BY <1>2, Handed
  <2> HIDE DEF bytes, nCBgetdatalen, Bytes
  <2> QED BY <1>0, <1>1, <1>2, <2>1 DEF Return, B!Lookup, B!Answer
<1>3. CASE nCBgetdatalen < n /\ Return("lookup", "CQEMPTY", <<>>)
  <2> HIDE DEF bytes, nCBgetdatalen
  <2> QED BY <1>0, <1>1, <1>3 DEF Return, B!Lookup, B!Answer
<1> QED BY <1>2, <1>3 DEF nCBlookup

(* A get also takes them from the content. *)
LEMMA GetStep ==
    ASSUME CircleInv, NEW n \in 1..sBufLen, nCBget(n)
    PROVE  B!Get(n)
<1>0. /\ nCBgetdatalen \in 0..BufSize /\ Len(bytes) = nCBgetdatalen
      /\ nCBgetdatalen = IF sTail >= sHead THEN sTail - sHead ELSE sTail - sHead + sBufLen
      /\ bytes \in Seq(Byte \cup {Garbage})
  BY Lengths, BytesSeq DEF BufCell
<1>1. /\ sHead \in 0..BufSize /\ sTail \in 0..BufSize /\ sBufLen = BufSize + 1
      /\ BufSize \in Nat /\ n \in Nat /\ n >= 1
  BY DEF CircleInv, BufCell, sBufLen
<1>2. up /\ up' = up /\ pbyBuf' = pbyBuf /\ sTail' = sTail
  BY DEF nCBget
<1>3. CASE nCBgetdatalen < n /\ Return("get", "CQEMPTY", <<>>) /\ UNCHANGED sHead
  <2>1. bytes' = bytes
    BY <1>2, <1>3 DEF bytes, nCBgetdatalen
  <2> HIDE DEF bytes, nCBgetdatalen
  <2> QED BY <1>0, <1>1, <1>2, <1>3, <2>1 DEF Return, B!Get, B!Answer
<1>4. CASE nCBgetdatalen >= n /\ Return("get", "ok", Bytes(n)) /\ sHead' = Moved(n)
  <2>1. Bytes(n) = SubSeq(bytes, 1, n)
    BY <1>4, Handed
  <2>2. /\ sHead' = IF sHead + n < sBufLen THEN sHead + n ELSE sHead + n - sBufLen
        /\ sHead' \in BufCell /\ sTail' \in BufCell
    BY <1>2, <1>4, GetCells DEF CircleInv
  <2>3. nCBgetdatalen' = IF sTail' >= sHead' THEN sTail' - sHead' ELSE sTail' - sHead' + sBufLen
    BY <2>2, Distance DEF nCBgetdatalen
  <2> HIDE DEF nCBgetdatalen, sBufLen, bytes
  <2>4. nCBgetdatalen' = nCBgetdatalen - n /\ n <= nCBgetdatalen
    BY <1>0, <1>1, <1>2, <1>4, <2>2, <2>3
  <2>5. ASSUME NEW k \in 1..(nCBgetdatalen - n)
        PROVE  Pos(k)' = Pos(k + n) /\ k + n \in 1..nCBgetdatalen
    <3>1. k \in 1..sBufLen /\ k + n \in 1..sBufLen /\ k + n \in 1..nCBgetdatalen /\ k \in Nat
      BY <1>0, <1>1, <2>4
    <3>2. Pos(k + n) = IF sHead + (k + n) - 1 < sBufLen THEN sHead + (k + n) - 1
                       ELSE sHead + (k + n) - 1 - sBufLen
      BY <3>1, Places
    <3>3. Pos(k)' = IF sHead' + k - 1 < sBufLen THEN sHead' + k - 1 ELSE sHead' + k - 1 - sBufLen
      BY <2>2, <3>1, Around DEF Pos
    <3> HIDE DEF Pos
    <3>4. Pos(k)' = Pos(k + n)
      BY <1>0, <1>1, <2>2, <3>1, <3>2, <3>3
    <3> QED BY <3>1, <3>4
  <2>6. bytes' = [k \in 1..(nCBgetdatalen - n) |-> pbyBuf[Pos(k)']]
    BY <1>2, <2>4 DEF bytes, Pos
  <2>7. \A k \in 1..(nCBgetdatalen - n) : pbyBuf[Pos(k)'] = bytes[k + n]
    BY <2>5, BytesSeq
  <2> HIDE DEF Pos
  <2>8. SubSeq(bytes, n + 1, Len(bytes)) = [k \in 1..(nCBgetdatalen - n) |-> bytes[k + n]]
    <3> DEFINE c == SubSeq(bytes, n + 1, Len(bytes))
    <3>1. c \in Seq(Byte \cup {Garbage}) /\ Len(c) = nCBgetdatalen - n
      BY <1>0, <1>1, <2>4
    <3>2. \A k \in 1..(nCBgetdatalen - n) : c[k] = bytes[k + n]
      <4>1. bytes \in Seq(Byte \cup {Garbage}) /\ n \in 0..Len(bytes)
        BY <1>0, <1>1, <2>4
      <4>2. Len(bytes) = nCBgetdatalen
        BY <1>0, <1>1, <2>4
      <4> HIDE DEF bytes
      <4> QED BY <4>1, <4>2, Suffix
    <3>3. c = [k \in 1..(nCBgetdatalen - n) |-> c[k]]
      <4> HIDE DEF c
      <4> QED BY <3>1
    <3> QED BY <3>2, <3>3
  <2>9. bytes' = SubSeq(bytes, n + 1, Len(bytes))
    BY <2>6, <2>7, <2>8
  <2> HIDE DEF Bytes
  <2> QED BY <1>0, <1>2, <1>4, <2>1, <2>4, <2>9 DEF Return, B!Get, B!Answer
<1> QED BY <1>3, <1>4 DEF nCBget

(* Every behaviour of the ring is one of the bounded byte queue: bytes come*)
(* out once, in the order they went in, none unwritten, and a call is      *)
(* refused exactly when the queue holds too much or too little.            *)
THEOREM CircleImplementsByteQueue == CircleSpec => ImplementsByteQueue
<1>0. ASSUME sHead = 0, sTail = 0 PROVE bytes = <<>>
  <2>1. 0 \in BufCell
    BY DEF BufCell
  <2>2. nCBgetdatalen = 0
    <3>1. (0 - 0 + sBufLen) % sBufLen = IF 0 >= 0 THEN 0 - 0 ELSE 0 - 0 + sBufLen
      BY <2>1, Distance
    <3> QED BY <1>0, <3>1 DEF nCBgetdatalen
  <2> HIDE DEF nCBgetdatalen
  <2> QED BY <2>2 DEF bytes
<1>1. CircleInit => B!Init
  BY <1>0 DEF CircleInit, B!Init
<1>2. CircleInv /\ [CircleNext]_circleVars => [B!Next]_(B!vars)
  <2> SUFFICES ASSUME CircleInv, [CircleNext]_circleVars PROVE [B!Next]_(B!vars)
    OBVIOUS
  <2>1. CASE pstCBinit \/ vCBfree
    <3>1. bytes' = <<>>
      <4>1. sHead' = 0 /\ sTail' = 0
        BY <2>1 DEF pstCBinit, vCBfree
      <4>2. (0 - 0 + sBufLen) % sBufLen = IF 0 >= 0 THEN 0 - 0 ELSE 0 - 0 + sBufLen
        BY Distance DEF BufCell
      <4>3. nCBgetdatalen' = 0
        BY <4>1, <4>2 DEF nCBgetdatalen
      <4> HIDE DEF nCBgetdatalen
      <4> QED BY <4>3 DEF bytes
    <3> HIDE DEF bytes
    <3> QED BY <2>1, <3>1 DEF pstCBinit, vCBfree, Return, B!Next, B!Create, B!Free, B!Answer
  <2>2. CASE NotInit \/ UNCHANGED circleVars
    <3>1. bytes' = bytes
      BY <2>2 DEF bytes, nCBgetdatalen, NotInit, circleVars
    <3> HIDE DEF bytes
    <3> QED BY <2>2, <3>1 DEF NotInit, circleVars, Return, B!Next, B!NotInit, B!Answer, B!vars
  <2>3. ASSUME NEW n \in 1..sBufLen, nCBget(n) \/ nCBlookup(n) PROVE B!Next
    <3>1. n \in 1..(BufSize + 1)
      BY DEF sBufLen
    <3>2. B!Get(n) \/ B!Lookup(n)
      BY <2>3, GetStep, LookupStep
    <3> QED BY <3>1, <3>2 DEF B!Next
  <2>4. ASSUME NEW n \in 1..sBufLen, NEW s \in [1..n -> Byte], nCBput(s) PROVE B!Next
    <3>1. n \in 1..(BufSize + 1)
      BY DEF sBufLen
    <3>2. B!Put(s)
      BY <2>4, PutStep
    <3> QED BY <3>1, <3>2 DEF B!Next
  <2> QED BY <2>1, <2>2, <2>3, <2>4 DEF CircleNext
<1>3. CircleSpec => []CircleInv
  BY CircleInductive
<1> QED BY <1>1, <1>2, <1>3, PTL DEF CircleSpec, ImplementsByteQueue, B!Spec
=============================================================================
