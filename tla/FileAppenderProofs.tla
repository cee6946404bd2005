------------------------- MODULE FileAppenderProofs -------------------------
(***************************************************************************)
(* For any number of logging threads, any quota, any number of files left  *)
(* by earlier runs and any combination of failing calls: print() tells the *)
(* truth, the quota ring keeps the newest files and no more than it may,   *)
(* and a full file is cut once and in time.                                *)
(***************************************************************************)
EXTENDS FileAppender, FiniteSetTheorems, TLAPS

(* The thread inside syncid() is the one that holds _lock. *)
Locked == \A t \in Thread : tpc[t] \in {"cut", "close", "open"} <=> lock = t

(* A thread has an entry while it is inside print(). *)
Handed == \A t \in Thread : tpc[t] = "idle" <=> ent[t] = 0

(* Before getAppender() nothing has happened; afterwards the log file is   *)
(* the newest file, and only a COM_TRUNCT device removes what it cut off.  *)
Started ==
    /\ num = -1 => /\ file = 0 /\ id = 0 /\ cut = 1..inodes /\ gone = {} /\ inodes <= setup.old
                   /\ lock = Free /\ \A t \in Thread : tpc[t] = "idle"
    /\ file \in {0, inodes} /\ id <= inodes
    /\ \A f \in Inode : f > inodes => disk[f] = <<>>
    /\ num > 0 => splite # "COM_TRUNCT"
    /\ splite # "COM_TRUNCT" => \A t \in Thread : tpc[t] \notin {"remove", "removeFail"}
    /\ "move" \notin Faults => \A t \in Thread : tpc[t] = "cut" => file # 0

BaseInv == TypeOK /\ Locked /\ Handed /\ Started
-----------------------------------------------------------------------------
(* An entry in a thread's hands is nowhere else yet. *)
InHand ==
    /\ ok \subseteq 1..prints /\ failed \subseteq 1..prints /\ ok \cap failed = {}
    /\ \A t \in Thread : ent[t] <= prints /\ ent[t] \notin ok \cup failed
    /\ \A t, u \in Thread : t # u /\ ent[t] # 0 => ent[t] # ent[u]

(* The files hold the entries print() returned 0 for, each in one place. *)
OnDisk ==
    /\ \A f \in Inode : \A i \in 1..Len(disk[f]) : disk[f][i] \in ok
    /\ \A e \in ok : \E f \in Inode : \E i \in 1..Len(disk[f]) : disk[f][i] = e
    /\ \A f, g \in Inode : \A i \in 1..Len(disk[f]), j \in 1..Len(disk[g]) :
          disk[f][i] = disk[g][j] => f = g /\ i = j
    /\ \A f \in Inode : Len(disk[f]) <= Cardinality(ok)

TruthInv == InHand /\ OnDisk
-----------------------------------------------------------------------------
(* How many cuts from now the place i of the ring is overwritten. *)
Age(i) == IF i <= head + 1 THEN head + 1 - i ELSE head + 1 + num - i

(* The ring holds all files cut off, in order of age from the head down;   *)
(* the places not used yet come first.  What the quota deleted is older.   *)
RingInv ==
    num > 0 =>
        /\ \A c \in cut : \E i \in 1..num : ft[i] = c
        /\ \A i \in 1..num : ft[i] <= inodes /\ (file # 0 => ft[i] < file)
        /\ \A i, j \in 1..num :
              Age(i) < Age(j) /\ ft[i] # 0 /\ ft[j] # 0 => ft[i] < ft[j]
        /\ \A i \in 1..num : Age(i) < num - ftsize => ft[i] = 0
        /\ \A g \in gone : /\ g <= inodes /\ (file # 0 => g < file)
                           /\ \A i \in 1..num : ft[i] # 0 => g < ft[i]

(* While renames succeed, each used place of the ring is a file that       *)
(* exists, and nothing was deleted before the ring was full.               *)
FullInv ==
    num > 0 /\ Faults \cap {"rename", "move"} = {} =>
        /\ \A i \in 1..num : Age(i) >= num - ftsize => ft[i] \in cut
        /\ gone # {} => ftsize = num

QuotaInv == (num <= 0 => gone = {}) /\ RingInv /\ FullInv
-----------------------------------------------------------------------------
(* A thread that is about to cut found the file full, and it still is. *)
FullAtCut ==
    splite # "COM_DATECUT" =>
        /\ early = {}
        /\ \A t \in Thread : tpc[t] = "cut" /\ file # 0 => Len(disk[file]) >= Limit

(* The threads that may still write into the file without a further look   *)
(* at its size, and the one more that a closed handle lets through.        *)
LetThrough ==
    {t \in Thread : \/ tpc[t] \in {"remove", "removeFail", "write", "fail"}
                    \/ file # 0 /\ tpc[t] \in {"close", "open"}}
Credit == IF id = 0 /\ lock = Free THEN 1 ELSE 0
Target == IF file # 0 THEN file ELSE id
MaxLen == Limit + Cardinality(Thread) - 1

(* Without faults the handle is on the log file, or closed; each file is   *)
(* within the limit, and so is the current one if every thread let through *)
(* adds its entry.                                                         *)
OverInv ==
    Faults = {} =>
        /\ file # 0 => ino = file /\ id \in {0, file}
        /\ file = 0 /\ id # 0 => \E t \in Thread : tpc[t] = "close"
        /\ \A f \in Inode : Len(disk[f]) <= MaxLen
        /\ Target # 0 => Len(disk[Target]) + Cardinality(LetThrough) + Credit <= MaxLen

CutInv == FullAtCut /\ OverInv
-----------------------------------------------------------------------------
(* The sizes of an environment are numbers, and there is room for the log  *)
(* file beside the old ones.                                               *)
LEMMA SetupSizes ==
    ASSUME TypeOK
    PROVE  /\ MaxInode \in Nat /\ MaxPrints \in Nat /\ Quota \in Nat
           /\ setup.old \in Nat /\ setup.old < MaxInode
BY SetupAssumption DEF TypeOK, MaxInode, MaxPrints, Quota

(* What the first scan lists: the files of earlier runs, newest first. *)
LEMMA FirstScan ==
    ASSUME NEW n \in Nat
    PROVE  /\ NewestFirst(1..n) \in [1..n -> 1..n]
           /\ \A i, j \in 1..n : i < j => NewestFirst(1..n)[i] > NewestFirst(1..n)[j]
           /\ \A c \in 1..n : \E i \in 1..n : NewestFirst(1..n)[i] = c
<1> DEFINE Sorted(s) == \A i, j \in 1..n : i < j => s[i] > s[j]
<1>1. Cardinality(1..n) = n /\ IsFiniteSet(1..n)
  BY FS_Interval
<1>2. NewestFirst(1..n) = CHOOSE s \in [1..n -> 1..n] : Sorted(s)
  BY <1>1 DEF NewestFirst
<1>3. \E s \in [1..n -> 1..n] : Sorted(s)
  <2>1. [i \in 1..n |-> n + 1 - i] \in [1..n -> 1..n]
    OBVIOUS
  <2>2. Sorted([i \in 1..n |-> n + 1 - i])
    OBVIOUS
  <2> QED BY <2>1, <2>2
<1> DEFINE f == NewestFirst(1..n)
<1>4. f \in [1..n -> 1..n] /\ Sorted(f)
  <2> HIDE DEF Sorted
  <2> QED BY <1>2, <1>3
<1>5. f \in Injection(1..n, 1..n)
  <2> HIDE DEF f
  <2>1. ASSUME NEW a \in 1..n, NEW b \in 1..n, f[a] = f[b] PROVE a = b
    <3>1. f[a] \in Int /\ f[b] \in Int
      BY <1>4
    <3> QED BY <1>4, <2>1, <3>1
  <2> QED BY <1>4, <2>1 DEF Injection, IsInjective
<1>6. f \in Surjection(1..n, 1..n)
  BY <1>1, <1>5, FS_Injection
<1>7. \A c \in 1..n : \E i \in 1..n : f[i] = c
  <2> HIDE DEF f
  <2> QED BY <1>6 DEF Surjection
<1> QED BY <1>4, <1>7

(* What check_quota_first() leaves: no ring, or one whose first places are *)
(* the newest old files, newest first, the others having been deleted.     *)
LEMMA FirstQuota ==
    ASSUME TypeOK, inodes \in Nat, cut = 1..inodes, gone = {}, check_quota_first
    PROVE  /\ num' \in 0..Quota
           /\ num' > 0 => splite # "COM_TRUNCT"
           /\ num' = 0 => cut' = cut /\ gone' = {}
           /\ num' > 0 =>
                /\ ft' \in [1..num' -> 0..inodes] /\ ftsize' \in 0..num' /\ head' = num' - 1
                /\ \A i, j \in 1..ftsize' : i < j => ft'[i] > ft'[j]
                /\ \A i \in 1..num' : IF i <= ftsize' THEN ft'[i] \in cut' ELSE ft'[i] = 0
                /\ \A c \in cut' : c \in 1..inodes /\ \E i \in 1..ftsize' : ft'[i] = c
                /\ \A g \in gone' : g \in 1..inodes /\ \A i \in 1..ftsize' : g < ft'[i]
                /\ gone' # {} => ftsize' = num'
<1> DEFINE n == IF splite = "COM_TRUNCT" THEN 0 ELSE Quota
           found == NewestFirst(1..inodes)
           kept == IF inodes < n THEN inodes ELSE n
<1>1. Quota \in Nat
  BY SetupSizes
<1>2. /\ found \in [1..inodes -> 1..inodes]
      /\ \A i, j \in 1..inodes : i < j => found[i] > found[j]
      /\ \A c \in 1..inodes : \E i \in 1..inodes : found[i] = c
  BY FirstScan
<1>3. Len(found) = inodes
  <2> HIDE DEF found
  <2> QED BY <1>2
<1> HIDE DEF found
<1>4. num' = n
  BY DEF check_quota_first
<1>5. CASE n = 0
  <2>1. cut' = cut /\ gone' = gone
    BY <1>5 DEF check_quota_first
  <2>2. num' = 0 /\ num' \in 0..Quota /\ ~(num' > 0)
    BY <1>1, <1>4, <1>5
  <2> QED BY <2>1, <2>2
<1>6. CASE n > 0
  <2>1. /\ ft' = [i \in 1..n |-> IF i <= kept THEN found[i] ELSE 0]
        /\ ftsize' = kept /\ head' = n - 1
        /\ cut' = {found[i] : i \in 1..kept}
        /\ gone' = cut \ cut'
    BY <1>3, <1>6 DEF check_quota_first, found
  <2>2. n \in Nat /\ n = Quota /\ splite # "COM_TRUNCT" /\ kept \in 0..n /\ kept <= inodes
    BY <1>1, <1>6
  <2> HIDE DEF n, kept
  <2>3. n = num' /\ kept = ftsize'
    BY <1>4, <2>1
  <2>4. /\ num' \in Nat /\ num' = Quota /\ ftsize' \in 0..num' /\ ftsize' \in Nat
        /\ ftsize' <= inodes /\ num' > 0 /\ head' = num' - 1
    BY <1>6, <2>1, <2>2, <2>3
  <2>5. /\ ft' = [i \in 1..num' |-> IF i <= ftsize' THEN found[i] ELSE 0]
        /\ cut' = {found[i] : i \in 1..ftsize'} /\ gone' = cut \ cut'
    BY <2>1, <2>3
  <2>6. \A i \in 1..ftsize' : /\ i \in 1..inodes /\ i \in 1..num' /\ ft'[i] = found[i]
                              /\ found[i] \in cut' /\ found[i] \in 1..inodes
    <3>1. \A i \in 1..ftsize' : i \in 1..inodes /\ i \in 1..num' /\ i <= ftsize'
      BY <2>4
    <3>2. \A i \in 1..ftsize' : found[i] \in cut'
      BY <2>5
    <3>3. \A i \in 1..ftsize' : ft'[i] = found[i]
      BY <2>5, <3>1
    <3> QED BY <1>2, <3>1, <3>2, <3>3
  <2>7. ft' \in [1..num' -> 0..inodes]
    <3>1. \A i \in 1..num' : (IF i <= ftsize' THEN found[i] ELSE 0) \in 0..inodes
      <4>1. ASSUME NEW i \in 1..num', i <= ftsize' PROVE found[i] \in 0..inodes
        <5>1. i \in 1..ftsize'
          BY <2>4, <4>1
        <5> QED BY <2>6, <5>1
      <4> QED BY <4>1
    <3> QED BY <2>5, <3>1
  <2>8. \A i, j \in 1..ftsize' : i < j => ft'[i] > ft'[j]
    BY <1>2, <2>6
  <2>9. \A i \in 1..num' : IF i <= ftsize' THEN ft'[i] \in cut' ELSE ft'[i] = 0
    BY <2>4, <2>5, <2>6
  <2>10. \A c \in cut' : c \in 1..inodes /\ \E i \in 1..ftsize' : ft'[i] = c
    BY <2>5, <2>6
  <2>11. ASSUME NEW g \in gone'
         PROVE  g \in 1..inodes /\ ftsize' < inodes /\ \A i \in 1..ftsize' : g < ft'[i]
    <3>1. g \in 1..inodes /\ g \notin cut'
      BY <2>5, <2>11
    <3>2. PICK k \in 1..inodes : found[k] = g
      BY <1>2, <3>1
    <3>3. k > ftsize'
      BY <2>4, <2>6, <3>1, <3>2
    <3>4. ASSUME NEW i \in 1..ftsize' PROVE g < ft'[i]
      <4>1. i \in 1..inodes /\ i < k /\ ft'[i] = found[i]
        BY <2>4, <2>6, <3>3
      <4> QED BY <1>2, <3>2, <4>1
    <3>5. ftsize' < inodes
      BY <2>4, <3>3
    <3> QED BY <3>1, <3>4, <3>5
  <2>12. gone' # {} => ftsize' = num'
    BY <2>2, <2>3, <2>11 DEF kept
  <2>13. num' \in 0..Quota /\ splite # "COM_TRUNCT" /\ num' # 0
    BY <2>2, <2>4
  <2>14. \A g \in gone' : g \in 1..inodes /\ \A i \in 1..ftsize' : g < ft'[i]
    BY <2>11
  <2> QED BY <2>4, <2>7, <2>8, <2>9, <2>10, <2>12, <2>13, <2>14
<1>7. n \in Nat
  BY <1>1
<1> HIDE DEF n
<1> QED BY <1>5, <1>6, <1>7
-----------------------------------------------------------------------------
(* The environment is fixed. *)
LEMMA SetupFixed ==
    ASSUME [Next]_vars
    PROVE  /\ setup' = setup /\ splite' = splite /\ Inode' = Inode /\ Faults' = Faults
           /\ MaxInode' = MaxInode /\ MaxPrints' = MaxPrints /\ Quota' = Quota
<1>1. setup' = setup /\ splite' = splite
  BY DEF Next, vars, getAppender, MoveFile, Quiet, print, Printing, Sync, Cut, Close, Open,
         RemoveCut, Write, Fail
<1> QED BY <1>1 DEF Inode, Faults, MaxInode, MaxPrints, Quota

(* Nothing has happened at first. *)
LEMMA BaseInit == Init => BaseInv
<1> SUFFICES ASSUME Init PROVE BaseInv
  OBVIOUS
<1>1. setup \in Setups /\ setup.old \in Nat /\ setup.inodes \in Nat /\ setup.old < setup.inodes
      /\ setup.quota \in Nat /\ setup.prints \in Nat
  BY SetupAssumption DEF Init
<1>2. inodes \in 0..setup.old /\ inodes \in 0..MaxInode /\ cut \subseteq Inode
  BY <1>1 DEF Init, MaxInode, Inode
<1>3. disk \in [Inode -> Seq(1..MaxPrints)]
  BY DEF Init
<1>4. TypeOK
  BY <1>1, <1>2, <1>3 DEF Init, TypeOK, MaxInode, MaxPrints, Quota, Inode
<1>5. Locked
  BY FreeAssumption DEF Init, Locked
<1>6. Started
  BY <1>1, <1>2 DEF Init, Started, Inode
<1>7. Handed
  BY DEF Init, Handed
<1> QED BY <1>4, <1>5, <1>6, <1>7 DEF BaseInv

(* A step of one thread outside syncid(), or within it, leaves the lock    *)
(* with those inside.                                                      *)
LEMMA LockStep ==
    ASSUME BaseInv, NEW t \in Thread, print(t) \/ Printing(t)
    PROVE  /\ Locked' /\ lock' \in Thread \cup {Free}
           /\ \A u \in Thread \ {t} : tpc'[u] = tpc[u]
<1> USE FreeAssumption DEF BaseInv, Locked, TypeOK, Goto
<1>1. CASE print(t)
  BY <1>1 DEF print
<1>2. CASE Sync(t)
  BY <1>2 DEF Sync
<1>3. CASE Cut(t)
  BY <1>3 DEF Cut
<1>4. CASE Close(t)
  BY <1>4 DEF Close
<1>5. CASE Open(t)
  <2>1. lock = t /\ lock' = Free
    BY <1>5 DEF Open, Unlock
  <2>2. \E x \in {"write", "remove", "removeFail", "fail"} : tpc' = [tpc EXCEPT ![t] = x]
    BY <1>5 DEF Open, Unlock
  <2> QED BY <2>1, <2>2
<1>6. CASE RemoveCut(t)
  BY <1>6 DEF RemoveCut
<1>7. CASE Write(t)
  BY <1>7 DEF Write
<1>8. CASE Fail(t)
  BY <1>8 DEF Fail
<1> QED BY <1>1, <1>2, <1>3, <1>4, <1>5, <1>6, <1>7, <1>8 DEF Printing

(* Appending to one file. *)
LEMMA AppendTo ==
    ASSUME NEW S, NEW T, NEW d \in [S -> Seq(T)], NEW f \in S, NEW e \in T,
           NEW d2, d2 = [d EXCEPT ![f] = Append(@, e)]
    PROVE  /\ d2 \in [S -> Seq(T)] /\ Len(d2[f]) = Len(d[f]) + 1
           /\ d2[f][Len(d[f]) + 1] = e
           /\ \A i \in 1..Len(d[f]) : d2[f][i] = d[f][i]
           /\ \A g \in S \ {f} : d2[g] = d[g]
<1>1. d[f] \in Seq(T) /\ Append(d[f], e) \in Seq(T) /\ d2[f] = Append(d[f], e)
  OBVIOUS
<1>2. d2 \in [S -> Seq(T)] /\ \A g \in S \ {f} : d2[g] = d[g]
  BY <1>1
<1>3. PICK s : s = d[f]
  OBVIOUS
<1>4. s \in Seq(T) /\ d2[f] = Append(s, e)
  BY <1>1, <1>3
<1>5. Len(d2[f]) = Len(s) + 1 /\ d2[f][Len(s) + 1] = e /\ \A i \in 1..Len(s) : d2[f][i] = s[i]
  BY <1>4
<1> QED BY <1>2, <1>3, <1>5
(* A turn of the ring keeps its types. *)
LEMMA QuotaTypes ==
    ASSUME TypeOK, num > 0, NEW name \in 0..MaxInode, NEW there \in SUBSET Inode,
           check_quota(name, there)
    PROVE  /\ ft' \in [1..num -> 0..MaxInode] /\ ftsize' \in 0..num /\ head' \in 0..(num - 1)
           /\ num' = num /\ cut' \subseteq there /\ gone' \subseteq Inode
<1>1. ft \in [1..num -> 0..MaxInode] /\ ftsize \in 0..num /\ head \in 0..(num - 1)
      /\ num \in Int /\ gone \subseteq Inode
  <2>1. num \in -1..Quota /\ Quota \in Nat /\ gone \subseteq Inode
    BY SetupSizes DEF TypeOK
  <2>2. ft \in [1..num -> 0..MaxInode] /\ ftsize \in 0..num /\ head \in 0..(num - 1)
    BY DEF TypeOK
  <2> QED BY <2>1, <2>2
<1>2. ft' = [ft EXCEPT ![head + 1] = name] /\ num' = num
      /\ head' = IF head = 0 THEN num - 1 ELSE head - 1
  BY DEF check_quota
<1>3. ft' \in [1..num -> 0..MaxInode]
  BY <1>1, <1>2
<1>4. head' \in 0..(num - 1)
  BY <1>1, <1>2
<1>5. ftsize' \in 0..num
  BY <1>1 DEF check_quota
<1>6. cut' \subseteq there /\ gone' \subseteq Inode
  BY <1>1 DEF check_quota
<1> QED BY <1>2, <1>3, <1>4, <1>5, <1>6

(* What a cut does, but for the ring. *)
LEMMA CutFacts ==
    ASSUME BaseInv, NEW t \in Thread, Cut(t)
    PROVE  \E name \in {0, file} :
               /\ name = file \/ "rename" \in Faults
               /\ file' = IF name = 0 THEN file ELSE 0
               /\ mv' = [mv EXCEPT ![t] = name]
               /\ early' = IF name # 0 /\ Len(disk[name]) < Limit THEN early \cup {name} ELSE early
               /\ IF num > 0 THEN check_quota(name, cut \cup ({name} \ {0}))
                  ELSE cut' = cut \cup ({name} \ {0}) /\ UNCHANGED <<num, ft, ftsize, head, gone>>
               /\ tpc' = [tpc EXCEPT ![t] = "close"]
               /\ UNCHANGED <<setup, splite, id, ino, inodes, disk, lock, ent, prints, ok, failed>>
BY DEF Cut, ring, res, Goto

(* Types are kept. *)
LEMMA TypeStep ==
    ASSUME BaseInv, [Next]_vars
    PROVE  TypeOK'
<1> USE DEF BaseInv
<1>1. /\ setup' = setup /\ splite' = splite /\ Inode' = Inode /\ Faults' = Faults
      /\ MaxInode' = MaxInode /\ MaxPrints' = MaxPrints /\ Quota' = Quota
  BY SetupFixed
<1>2. /\ MaxInode \in Nat /\ MaxPrints \in Nat /\ Quota \in Nat
      /\ setup.old \in Nat /\ setup.old < MaxInode
  BY SetupSizes
<1>3. CASE UNCHANGED vars
  BY <1>1, <1>3 DEF TypeOK, vars, ring, fs, thr, res
<1>4. CASE getAppender
  <2>1. inodes \in Nat /\ cut = 1..inodes /\ gone = {} /\ inodes + 1 \in 1..MaxInode
    BY <1>2, <1>4 DEF getAppender, TypeOK, Started
  <2>2. /\ num' \in 0..Quota
        /\ num' = 0 => cut' = cut /\ gone' = {}
        /\ num' > 0 =>
                /\ ft' \in [1..num' -> 0..inodes] /\ ftsize' \in 0..num' /\ head' = num' - 1
                /\ cut' \subseteq 1..inodes /\ gone' \subseteq 1..inodes
    BY <1>4, <2>1, FirstQuota DEF getAppender
  <2>3. num' > 0 => ft' \in [1..num' -> 0..MaxInode] /\ head' \in 0..(num' - 1)
    <3>1. 0..inodes \subseteq 0..MaxInode
      BY <1>2, <2>1
    <3>2. num' > 0 => ft' \in [1..num' -> 0..MaxInode]
      BY <2>2, <3>1
    <3>3. num' \in Nat /\ (num' > 0 => head' \in 0..(num' - 1))
      BY <1>2, <2>2
    <3> QED BY <3>2, <3>3
  <2>4. cut' \subseteq Inode /\ gone' \subseteq Inode
    BY <1>2, <2>1, <2>2 DEF Inode
  <2>5. id' = inodes + 1 /\ ino' = inodes + 1 /\ file' = inodes + 1 /\ inodes' = inodes + 1
    BY <1>4 DEF getAppender
  <2>6. num' \in -1..Quota
    BY <1>2, <2>2
  <2> HIDE DEF BaseInv
  <2>7. UNCHANGED <<setup, splite, disk, early, lock, tpc, ent, mv, prints, ok, failed>>
    BY <1>4 DEF getAppender, thr, res
  <2>8. /\ id' \in 0..MaxInode /\ ino' \in 0..MaxInode /\ file' \in 0..MaxInode
        /\ inodes' \in 0..MaxInode
    BY <1>2, <2>1, <2>5
  <2>9. num' > 0 => ftsize' \in 0..num'
    BY <2>2
  <2> QED BY <1>1, <2>3, <2>4, <2>6, <2>7, <2>8, <2>9 DEF BaseInv, TypeOK
<1>5. CASE MoveFile
  BY <1>1, <1>2, <1>5 DEF MoveFile, TypeOK, ring, thr, res
<1>6. CASE Quiet
  BY <1>3, <1>6 DEF Quiet
<1>7. ASSUME NEW t \in Thread, print(t)
      PROVE  TypeOK'
  <2>1. prints' = prints + 1 /\ prints' \in 1..MaxPrints
    BY <1>2, <1>7 DEF print, TypeOK
  <2>2. ent' \in [Thread -> 0..MaxPrints]
    BY <1>2, <1>7, <2>1 DEF print, TypeOK
  <2> QED BY <1>1, <1>2, <1>7, <2>1, <2>2 DEF print, TypeOK, ring, fs, Goto
<1>8. ASSUME NEW t \in Thread, Sync(t)
      PROVE  TypeOK'
  <2>1. lock' \in Thread \cup {Free}
    BY <1>8 DEF Sync, TypeOK
  <2> QED BY <1>1, <1>2, <1>8, <2>1 DEF Sync, TypeOK, ring, fs, res, Goto
<1>9. ASSUME NEW t \in Thread, Cut(t)
      PROVE  TypeOK'
  <2>1. PICK name \in {0, file} :
               /\ file' = IF name = 0 THEN file ELSE 0
               /\ mv' = [mv EXCEPT ![t] = name]
               /\ early' = IF name # 0 /\ Len(disk[name]) < Limit THEN early \cup {name} ELSE early
               /\ IF num > 0 THEN check_quota(name, cut \cup ({name} \ {0}))
                  ELSE cut' = cut \cup ({name} \ {0}) /\ UNCHANGED <<num, ft, ftsize, head, gone>>
               /\ tpc' = [tpc EXCEPT ![t] = "close"]
               /\ UNCHANGED <<setup, splite, id, ino, inodes, disk, lock, ent, prints, ok, failed>>
    BY <1>9, CutFacts
  <2>2. name \in 0..MaxInode /\ (cut \cup ({name} \ {0})) \in SUBSET Inode
    BY <1>2, <2>1 DEF TypeOK, Inode
  <2>3. /\ num' = num /\ cut' \subseteq Inode /\ gone' \subseteq Inode
        /\ num > 0 => ft' \in [1..num -> 0..MaxInode] /\ ftsize' \in 0..num /\ head' \in 0..(num - 1)
    <3>1. CASE num > 0
      BY <2>1, <2>2, <3>1, QuotaTypes
    <3>2. CASE ~(num > 0)
      BY <2>1, <2>2, <3>2 DEF TypeOK
    <3> QED BY <3>1, <3>2
  <2>4. early' \subseteq Inode
    BY <1>2, <2>1, <2>2 DEF TypeOK, Inode
  <2>5. file' \in 0..MaxInode /\ mv' \in [Thread -> 0..MaxInode]
    BY <1>2, <2>1, <2>2 DEF TypeOK
  <2>6. tpc' \in [Thread -> {"idle", "sync", "cut", "close", "open", "remove",
                         "removeFail", "write", "fail"}]
    BY <2>1 DEF TypeOK
  <2> QED BY <1>1, <2>1, <2>3, <2>4, <2>5, <2>6 DEF TypeOK
<1>10. ASSUME NEW t \in Thread, Close(t)
       PROVE  TypeOK'
  BY <1>1, <1>2, <1>10 DEF Close, TypeOK, ring, fs, res, Goto
<1>11. ASSUME NEW t \in Thread, Open(t)
       PROVE  TypeOK'
  <2>1. /\ id' \in 0..MaxInode /\ ino' \in 0..MaxInode /\ file' \in 0..MaxInode
        /\ inodes' \in 0..MaxInode
    BY <1>2, <1>11 DEF Open, TypeOK
  <2>2. tpc' \in [Thread -> {"idle", "sync", "cut", "close", "open", "remove",
                         "removeFail", "write", "fail"}]
    BY <1>11 DEF Open, Unlock, TypeOK, Goto
  <2>3. mv' \in [Thread -> 0..MaxInode]
    <3>1. mv' = mv \/ mv' = [mv EXCEPT ![t] = 0]
      BY <1>11 DEF Open, Unlock
    <3> QED BY <1>2, <3>1 DEF TypeOK
  <2>4. lock' = Free
    BY <1>11 DEF Open, Unlock
  <2> QED BY <1>1, <1>11, <2>1, <2>2, <2>3, <2>4 DEF Open, TypeOK, ring, res
<1>12. ASSUME NEW t \in Thread, RemoveCut(t)
       PROVE  TypeOK'
  BY <1>1, <1>2, <1>12 DEF RemoveCut, TypeOK, ring, res, Goto
<1>13. ASSUME NEW t \in Thread, Write(t)
       PROVE  TypeOK'
  <2>1. CASE disk' = disk /\ ok' = ok /\ ent' = ent
    BY <1>1, <1>2, <1>13, <2>1 DEF Write, TypeOK, ring, Goto
  <2>2. CASE id # 0 /\ disk' = [disk EXCEPT ![id] = Append(@, ent[t])] /\ ok' = ok \cup {ent[t]}
             /\ tpc' = [tpc EXCEPT ![t] = "idle"] /\ ent' = [ent EXCEPT ![t] = 0]
    <3>1. id \in Inode
      BY <1>2, <2>2 DEF TypeOK, Inode
    <3>2. ent[t] \in 1..MaxPrints
      BY <1>2, <1>13 DEF TypeOK, Handed, Write
    <3>3. disk' \in [Inode -> Seq(1..MaxPrints)]
      BY <2>2, <3>1, <3>2, AppendTo DEF TypeOK
    <3>4. ok' \subseteq 1..MaxPrints /\ ent' \in [Thread -> 0..MaxPrints]
      <4>1. ok' \subseteq 1..MaxPrints
        BY <2>2, <3>2 DEF TypeOK
      <4>2. 0 \in 0..MaxPrints
        BY <1>2
      <4> QED BY <2>2, <4>1, <4>2 DEF TypeOK
    <3>5. tpc' \in [Thread -> {"idle", "sync", "cut", "close", "open", "remove",
                         "removeFail", "write", "fail"}]
      BY <2>2 DEF TypeOK
    <3> QED BY <1>1, <1>13, <3>3, <3>4, <3>5 DEF Write, TypeOK, ring
  <2> QED BY <1>13, <2>1, <2>2 DEF Write, Goto
<1>14. ASSUME NEW t \in Thread, Fail(t)
       PROVE  TypeOK'
  <2>1. ent[t] \in 1..MaxPrints
    BY <1>2, <1>14 DEF TypeOK, Handed, Fail
  <2>2. failed' \subseteq 1..MaxPrints /\ ent' \in [Thread -> 0..MaxPrints]
    <3>1. failed' \subseteq 1..MaxPrints
      BY <1>14, <2>1 DEF TypeOK, Fail
    <3>2. 0 \in 0..MaxPrints
      BY <1>2
    <3> QED BY <1>14, <3>1, <3>2 DEF TypeOK, Fail
  <2>3. id' \in 0..MaxInode
    BY <1>2, <1>14 DEF Fail
  <2> QED BY <1>1, <1>14, <2>2, <2>3 DEF Fail, TypeOK, ring, fs, Goto
<1> QED BY <1>3, <1>4, <1>5, <1>6, <1>7, <1>8, <1>9, <1>10, <1>11, <1>12, <1>13, <1>14
        DEF Next, Printing

(* A thread gets its entry when print() begins and gives it up at its end. *)
LEMMA HandedStep ==
    ASSUME BaseInv, [Next]_vars
    PROVE  Handed'
<1> USE DEF BaseInv, Handed, TypeOK, Goto
<1>1. CASE UNCHANGED vars \/ getAppender \/ MoveFile \/ Quiet
  BY <1>1 DEF vars, thr, getAppender, MoveFile, Quiet
<1>2. ASSUME NEW t \in Thread, print(t) PROVE Handed'
  <2>1. prints' # 0
    BY <1>2, SetupSizes DEF print
  <2> QED BY <1>2, <2>1 DEF print
<1>3. ASSUME NEW t \in Thread, Printing(t) PROVE Handed'
  <2>1. CASE Sync(t) \/ Cut(t) \/ Close(t) \/ RemoveCut(t)
    BY <2>1 DEF Sync, Cut, Close, RemoveCut
  <2>2. CASE Open(t)
    BY <2>2 DEF Open, Unlock
  <2>3. CASE Write(t) \/ Fail(t)
    BY <2>3 DEF Write, Fail
  <2> QED BY <1>3, <2>1, <2>2, <2>3 DEF Printing
<1> QED BY <1>1, <1>2, <1>3 DEF Next
(* The log file stays the newest one, and what goes with it. *)
LEMMA StartedStep ==
    ASSUME BaseInv, [Next]_vars
    PROVE  Started'
<1>1. /\ setup' = setup /\ splite' = splite /\ Inode' = Inode /\ Faults' = Faults
      /\ MaxInode' = MaxInode /\ MaxPrints' = MaxPrints /\ Quota' = Quota
  BY SetupFixed
<1>2. MaxInode \in Nat /\ inodes \in Nat /\ Quota \in Nat /\ num \in Int
  <2>1. MaxInode \in Nat /\ Quota \in Nat
    BY SetupSizes DEF BaseInv
  <2> QED BY <2>1 DEF BaseInv, TypeOK
<1>3. CASE UNCHANGED vars
  BY <1>1, <1>3 DEF BaseInv, Started, vars, ring, fs, thr, res
<1>4. CASE getAppender
  <2>1. num = -1 /\ cut = 1..inodes /\ gone = {} /\ \A t \in Thread : tpc[t] = "idle"
    BY <1>4 DEF getAppender, BaseInv, Started
  <2>2. num' \in 0..Quota /\ (num' > 0 => splite # "COM_TRUNCT")
    BY <1>2, <1>4, <2>1, FirstQuota DEF getAppender, BaseInv
  <2>3. num' # -1
    BY <1>2, <2>2
  <2>4. file' = inodes' /\ id' <= inodes' /\ inodes' = inodes + 1 /\ disk' = disk /\ tpc' = tpc
    BY <1>2, <1>4 DEF getAppender, thr
  <2>5. \A f \in Inode : f > inodes' => disk'[f] = <<>>
    BY <1>2, <2>4 DEF BaseInv, Started, Inode
  <2> QED BY <1>1, <2>1, <2>2, <2>3, <2>4, <2>5 DEF Started
<1>5. CASE MoveFile
  BY <1>1, <1>2, <1>5 DEF BaseInv, Started, MoveFile, ring, thr, res
<1>6. CASE Quiet
  BY <1>3, <1>6 DEF Quiet
<1>7. ASSUME NEW t \in Thread, print(t)
      PROVE  Started'
  BY <1>1, <1>2, <1>7 DEF BaseInv, TypeOK, Started, print, ring, fs, Goto
<1>8. ASSUME NEW t \in Thread, Printing(t)
      PROVE  Started'
  <2>1. num # -1
    BY <1>8 DEF BaseInv, Started, Printing, Sync, Cut, Close, Open, RemoveCut, Write, Fail
  <2>2. CASE Sync(t)
    BY <1>1, <2>1, <2>2 DEF BaseInv, TypeOK, Started, Sync, Stale, ring, fs, res, Goto
  <2>3. CASE Cut(t)
    <3>1. PICK name \in {0, file} :
               /\ file' = IF name = 0 THEN file ELSE 0
               /\ IF num > 0 THEN check_quota(name, cut \cup ({name} \ {0}))
                  ELSE cut' = cut \cup ({name} \ {0}) /\ UNCHANGED <<num, ft, ftsize, head, gone>>
               /\ tpc' = [tpc EXCEPT ![t] = "close"]
               /\ UNCHANGED <<setup, splite, id, ino, inodes, disk, lock, ent, prints, ok, failed>>
      BY <2>3, CutFacts
    <3>2. num' = num
      BY <3>1 DEF check_quota
    <3>3. \A u \in Thread : tpc'[u] # "cut"
      BY <2>3, <3>1 DEF BaseInv, TypeOK, Locked, Cut
    <3>4. \A u \in Thread : tpc'[u] \in {"remove", "removeFail"} => tpc[u] \in {"remove", "removeFail"}
      BY <3>1 DEF BaseInv, TypeOK
    <3> QED BY <1>1, <2>1, <3>1, <3>2, <3>3, <3>4 DEF BaseInv, Started
  <2>4. CASE Close(t)
    BY <1>1, <1>2, <2>1, <2>4 DEF BaseInv, TypeOK, Started, Close, ring, fs, res, Goto
  <2>5. CASE Open(t)
    <3>1. num' = num /\ disk' = disk /\ cut' = cut /\ gone' = gone
      BY <2>5 DEF Open, ring
    <3>2. /\ file' \in {0, inodes'} /\ id' <= inodes' /\ inodes' \in {inodes, inodes + 1}
          /\ file # 0 => file' # 0
      BY <1>2, <2>5 DEF BaseInv, TypeOK, Started, Open
    <3>3. \A f \in Inode : f > inodes' => disk'[f] = <<>>
      BY <1>2, <3>1, <3>2 DEF BaseInv, Started, Inode
    <3>4. \A u \in Thread : tpc'[u] # "cut"
      BY <2>5 DEF BaseInv, TypeOK, Locked, Open, Unlock, Goto
    <3>5. splite # "COM_TRUNCT" => \A u \in Thread : tpc'[u] \notin {"remove", "removeFail"}
      BY <2>5 DEF BaseInv, TypeOK, Started, Open, Unlock, Goto
    <3> QED BY <1>1, <2>1, <3>1, <3>2, <3>3, <3>4, <3>5 DEF BaseInv, Started
  <2>6. CASE RemoveCut(t)
    BY <1>1, <1>2, <2>1, <2>6 DEF BaseInv, TypeOK, Started, RemoveCut, ring, res, Goto
  <2>7. CASE Write(t)
    <3>1. \A f \in Inode : f > inodes => disk'[f] = disk[f]
      BY <1>2, <2>7 DEF BaseInv, TypeOK, Started, Write, Inode
    <3> QED BY <1>1, <1>2, <2>1, <2>7, <3>1 DEF BaseInv, TypeOK, Started, Write, ring, Goto
  <2>8. CASE Fail(t)
    BY <1>1, <1>2, <2>1, <2>8 DEF BaseInv, TypeOK, Started, Fail, ring, fs, Goto
  <2> QED BY <1>8, <2>2, <2>3, <2>4, <2>5, <2>6, <2>7, <2>8 DEF Printing
<1> QED BY <1>3, <1>4, <1>5, <1>6, <1>7, <1>8 DEF Next

(* BaseInv is inductive. *)
LEMMA BaseStep == BaseInv /\ [Next]_vars => BaseInv'
<1> SUFFICES ASSUME BaseInv, [Next]_vars PROVE BaseInv'
  OBVIOUS
<1>1. TypeOK' /\ Handed' /\ Started'
  BY TypeStep, HandedStep, StartedStep
<1>2. Locked'
  <2>1. CASE UNCHANGED vars \/ getAppender \/ MoveFile \/ Quiet
    BY <2>1 DEF BaseInv, Locked, vars, thr, getAppender, MoveFile, Quiet
  <2>2. ASSUME NEW t \in Thread, print(t) \/ Printing(t) PROVE Locked'
    BY <2>2, LockStep
  <2> QED BY <2>1, <2>2 DEF Next
<1> QED BY <1>1, <1>2 DEF BaseInv

(* The base invariant, for the parts that build on it. *)
LEMMA BaseAlways == Spec => []BaseInv
<1> QED BY BaseInit, BaseStep, PTL DEF Spec
-----------------------------------------------------------------------------
(* print() tells the truth.                                                *)

(* Steps that leave the disk alone. *)
LEMMA DiskSame ==
    ASSUME OnDisk, Inode' = Inode, UNCHANGED <<disk, ok>>
    PROVE  OnDisk'
BY DEF OnDisk

(* Steps that move no entry. *)
LEMMA TruthSame ==
    ASSUME TruthInv, Inode' = Inode, UNCHANGED <<disk, ent, prints, ok, failed>>
    PROVE  TruthInv'
BY DEF TruthInv, InHand, OnDisk

(* A new entry is in its thread's hands alone. *)
LEMMA TruthPrint ==
    ASSUME BaseInv, TruthInv, NEW t \in Thread, print(t)
    PROVE  TruthInv'
<1>1. prints \in Nat /\ Inode' = Inode /\ ent \in [Thread -> 0..MaxPrints] /\ MaxPrints \in Nat
  <2>1. MaxPrints \in Nat
    BY SetupSizes DEF BaseInv
  <2>2. Inode' = Inode
    BY DEF print, Inode, MaxInode
  <2> QED BY <2>1, <2>2 DEF BaseInv, TypeOK
<1>2. /\ prints' = prints + 1 /\ ent' = [ent EXCEPT ![t] = prints'] /\ ent[t] = 0
      /\ UNCHANGED <<disk, ok, failed>>
  BY DEF print, fs, BaseInv, Handed
<1>3. OnDisk'
  BY <1>1, <1>2, DiskSame DEF TruthInv
<1>4. ok' \subseteq 1..prints' /\ failed' \subseteq 1..prints' /\ ok' \cap failed' = {}
  BY <1>1, <1>2 DEF TruthInv, InHand
<1>5. \A u \in Thread : u # t => ent'[u] = ent[u] /\ ent[u] \in Nat /\ ent[u] <= prints
  BY <1>1, <1>2 DEF TruthInv, InHand
<1>6. ent'[t] = prints + 1 /\ prints + 1 \notin ok \cup failed
  BY <1>1, <1>2 DEF TruthInv, InHand
<1>7. ASSUME NEW u \in Thread PROVE ent'[u] <= prints' /\ ent'[u] \notin ok' \cup failed'
  <2>1. CASE u = t
    BY <1>1, <1>2, <1>6, <2>1
  <2>2. CASE u # t
    <3>1. ent[u] \notin ok \cup failed
      BY DEF TruthInv, InHand
    <3> QED BY <1>1, <1>2, <1>5, <2>2, <3>1
  <2> QED BY <2>1, <2>2
<1>8. ASSUME NEW u \in Thread, NEW v \in Thread, u # v, ent'[u] # 0 PROVE ent'[u] # ent'[v]
  <2>1. CASE u = t \/ v = t
    BY <1>1, <1>5, <1>6, <1>8, <2>1
  <2>2. CASE u # t /\ v # t
    BY <1>5, <1>8, <2>2 DEF TruthInv, InHand
  <2> QED BY <2>1, <2>2
<1> QED BY <1>3, <1>4, <1>7, <1>8 DEF TruthInv, InHand

(* An entry written leaves its thread's hands for one place on the disk. *)
LEMMA TruthWrite ==
    ASSUME BaseInv, TruthInv, NEW t \in Thread, Write(t)
    PROVE  TruthInv'
<1>1. /\ prints \in Nat /\ Inode' = Inode /\ ent \in [Thread -> 0..MaxPrints] /\ MaxPrints \in Nat
      /\ MaxInode \in Nat /\ disk \in [Inode -> Seq(1..MaxPrints)] /\ prints' = prints
      /\ failed' = failed
  <2>1. MaxPrints \in Nat /\ MaxInode \in Nat
    BY SetupSizes DEF BaseInv
  <2>2. Inode' = Inode /\ prints' = prints /\ failed' = failed
    BY DEF Write, Inode, MaxInode
  <2> QED BY <2>1, <2>2 DEF BaseInv, TypeOK
<1>2. CASE disk' = disk /\ ok' = ok /\ ent' = ent
  BY <1>1, <1>2, TruthSame
<1>3. CASE id # 0 /\ disk' = [disk EXCEPT ![id] = Append(@, ent[t])] /\ ok' = ok \cup {ent[t]}
           /\ ent' = [ent EXCEPT ![t] = 0]
  <2>1. PICK e : e = ent[t]
    OBVIOUS
  <2>2. e \in 1..prints /\ e \in 1..MaxPrints /\ e \notin ok \cup failed
    BY <1>1, <2>1 DEF TruthInv, InHand, Write, BaseInv, Handed
  <2>3. PICK h : h = id
    OBVIOUS
  <2>4. h \in Inode
    BY <1>1, <1>3, <2>3 DEF BaseInv, TypeOK, Inode
  <2>5. disk' = [disk EXCEPT ![h] = Append(@, e)]
    BY <1>3, <2>1, <2>3
  <2>6. /\ Len(disk'[h]) = Len(disk[h]) + 1
        /\ disk'[h][Len(disk[h]) + 1] = e
        /\ \A i \in 1..Len(disk[h]) : disk'[h][i] = disk[h][i]
        /\ \A g \in Inode \ {h} : disk'[g] = disk[g]
    BY <1>1, <2>2, <2>4, <2>5, AppendTo
  <2>7. \A f \in Inode : Len(disk[f]) \in Nat
    BY <1>1
  <2>8. \A f \in Inode : \A i \in 1..Len(disk'[f]) :
            \/ i \in 1..Len(disk[f]) /\ disk'[f][i] = disk[f][i]
            \/ f = h /\ i = Len(disk[h]) + 1 /\ disk'[f][i] = e
    <3> SUFFICES ASSUME NEW f \in Inode, NEW i \in 1..Len(disk'[f])
                 PROVE  \/ i \in 1..Len(disk[f]) /\ disk'[f][i] = disk[f][i]
                        \/ f = h /\ i = Len(disk[h]) + 1 /\ disk'[f][i] = e
      OBVIOUS
    <3>1. CASE f # h
      BY <2>6, <3>1
    <3>2. CASE f = h
      <4>1. PICK k \in Nat : k = Len(disk[h])
        BY <2>4, <2>7
      <4>2. i \in 1..(k + 1)
        BY <2>6, <3>2, <4>1
      <4>3. i \in 1..k \/ i = k + 1
        BY <4>2
      <4> QED BY <2>6, <3>2, <4>1, <4>3
    <3> QED BY <3>1, <3>2
  <2>9. \A f \in Inode : \A i \in 1..Len(disk[f]) : i \in 1..Len(disk'[f]) /\ disk'[f][i] = disk[f][i]
    <3> SUFFICES ASSUME NEW f \in Inode, NEW i \in 1..Len(disk[f])
                 PROVE  i \in 1..Len(disk'[f]) /\ disk'[f][i] = disk[f][i]
      OBVIOUS
    <3>1. CASE f # h
      BY <2>6, <3>1
    <3>2. CASE f = h
      BY <2>6, <2>7, <3>2
    <3> QED BY <3>1, <3>2
  <2>10. ok' = ok \cup {e}
    BY <1>3, <2>1
  <2>11. \A f \in Inode : \A i \in 1..Len(disk'[f]) : disk'[f][i] \in ok'
    BY <2>8, <2>10 DEF TruthInv, OnDisk
  <2>12. ASSUME NEW x \in ok' PROVE \E f \in Inode : \E i \in 1..Len(disk'[f]) : disk'[f][i] = x
    <3>1. CASE x \in ok
      BY <2>9, <3>1 DEF TruthInv, OnDisk
    <3>2. CASE x = e
      <4>1. Len(disk[h]) + 1 \in 1..Len(disk'[h])
        BY <2>4, <2>6, <2>7
      <4> QED BY <2>4, <2>6, <3>2, <4>1
    <3> QED BY <2>10, <3>1, <3>2
  <2>13. ASSUME NEW f \in Inode, NEW g \in Inode,
                NEW i \in 1..Len(disk'[f]), NEW j \in 1..Len(disk'[g]), disk'[f][i] = disk'[g][j]
         PROVE  f = g /\ i = j
    <3>1. \A k \in Inode : \A l \in 1..Len(disk[k]) : disk[k][l] # e
      BY <2>2 DEF TruthInv, OnDisk
    <3>2. CASE i \in 1..Len(disk[f]) /\ disk'[f][i] = disk[f][i]
      <4>1. disk'[f][i] # e
        BY <3>1, <3>2
      <4>2. j \in 1..Len(disk[g]) /\ disk'[g][j] = disk[g][j]
        BY <2>8, <2>13, <4>1
      <4>3. disk[f][i] = disk[g][j]
        BY <2>13, <3>2, <4>2
      <4> QED BY <3>2, <4>2, <4>3 DEF TruthInv, OnDisk
    <3>3. CASE f = h /\ i = Len(disk[h]) + 1 /\ disk'[f][i] = e
      <4>1. g = h /\ j = Len(disk[h]) + 1
        BY <2>8, <2>13, <3>1, <3>3
      <4> QED BY <3>3, <4>1
    <3> QED BY <2>8, <3>2, <3>3
  <2>14. Cardinality(ok') = Cardinality(ok) + 1 /\ Cardinality(ok) \in Nat
    <3>1. IsFiniteSet(1..prints)
      BY <1>1, FS_Interval
    <3>2. IsFiniteSet(ok)
      BY <3>1, FS_Subset DEF TruthInv, InHand
    <3> QED BY <2>2, <2>10, <3>2, FS_AddElement, FS_CardinalityType
  <2>15. ASSUME NEW f \in Inode PROVE Len(disk'[f]) <= Cardinality(ok')
    <3>1. Len(disk[f]) <= Cardinality(ok) /\ Len(disk[f]) \in Nat
      BY <2>7 DEF TruthInv, OnDisk
    <3>2. Len(disk'[f]) = Len(disk[f]) \/ Len(disk'[f]) = Len(disk[f]) + 1
      BY <2>6
    <3> QED BY <2>14, <3>1, <3>2
  <2>16. OnDisk'
    BY <1>1, <2>11, <2>12, <2>13, <2>15 DEF OnDisk
  <2>17. ok' \subseteq 1..prints' /\ failed' \subseteq 1..prints' /\ ok' \cap failed' = {}
    BY <1>1, <2>2, <2>10 DEF TruthInv, InHand
  <2>18. ASSUME NEW u \in Thread PROVE ent'[u] <= prints' /\ ent'[u] \notin ok' \cup failed'
    <3>1. CASE u = t
      <4>1. ent'[u] = 0 /\ 0 \notin 1..prints
        BY <1>1, <1>3, <3>1
      <4> QED BY <1>1, <2>17, <4>1
    <3>2. CASE u # t
      <4>1. ent'[u] = ent[u] /\ ent[t] # 0
        BY <1>1, <1>3, <2>1, <2>2, <3>2
      <4>2. ent[u] # e
        BY <2>1, <3>2, <4>1 DEF TruthInv, InHand
      <4> QED BY <1>1, <2>10, <4>1, <4>2 DEF TruthInv, InHand
    <3> QED BY <3>1, <3>2
  <2>19. \A u, v \in Thread : u # v /\ ent'[u] # 0 => ent'[u] # ent'[v]
    BY <1>1, <1>3 DEF TruthInv, InHand
  <2> QED BY <2>16, <2>17, <2>18, <2>19 DEF TruthInv, InHand
<1> QED BY <1>2, <1>3 DEF Write

(* An entry given up is on no disk. *)
LEMMA TruthFail ==
    ASSUME BaseInv, TruthInv, NEW t \in Thread, Fail(t)
    PROVE  TruthInv'
<1>1. /\ prints \in Nat /\ Inode' = Inode /\ ent \in [Thread -> 0..MaxPrints] /\ MaxPrints \in Nat
      /\ UNCHANGED <<disk, prints, ok>> /\ ent' = [ent EXCEPT ![t] = 0]
      /\ failed' = failed \cup {ent[t]}
  BY SetupSizes DEF BaseInv, TypeOK, Fail, Inode, MaxInode, fs
<1>2. OnDisk'
  BY <1>1, DiskSame DEF TruthInv
<1>3. ent[t] \in 1..prints /\ ent[t] \notin ok \cup failed
  BY <1>1 DEF TruthInv, InHand, Fail, BaseInv, Handed
<1>4. ok' \subseteq 1..prints' /\ failed' \subseteq 1..prints' /\ ok' \cap failed' = {}
  BY <1>1, <1>3 DEF TruthInv, InHand
<1>5. ASSUME NEW u \in Thread PROVE ent'[u] <= prints' /\ ent'[u] \notin ok' \cup failed'
  <2>1. CASE u = t
    <3>1. ent'[u] = 0 /\ 0 \notin 1..prints
      BY <1>1, <2>1
    <3> QED BY <1>1, <1>4, <3>1
  <2>2. CASE u # t
    <3>1. ent'[u] = ent[u] /\ ent[u] # ent[t]
      BY <1>1, <1>3, <2>2 DEF TruthInv, InHand
    <3> QED BY <1>1, <3>1 DEF TruthInv, InHand
  <2> QED BY <2>1, <2>2
<1>6. \A u, v \in Thread : u # v /\ ent'[u] # 0 => ent'[u] # ent'[v]
  BY <1>1 DEF TruthInv, InHand
<1> QED BY <1>2, <1>4, <1>5, <1>6 DEF TruthInv, InHand
(* TruthInv is inductive. *)
LEMMA TruthStep == BaseInv /\ TruthInv /\ [Next]_vars => TruthInv'
<1> SUFFICES ASSUME BaseInv, TruthInv, [Next]_vars PROVE TruthInv'
  OBVIOUS
<1>1. Inode' = Inode
  BY SetupFixed
<1>2. CASE UNCHANGED vars \/ getAppender \/ MoveFile \/ Quiet
  <2>1. UNCHANGED <<disk, ent, prints, ok, failed>>
    BY <1>2 DEF vars, fs, thr, res, getAppender, MoveFile, Quiet
  <2> QED BY <1>1, <2>1, TruthSame
<1>3. ASSUME NEW t \in Thread, print(t) PROVE TruthInv'
  BY <1>3, TruthPrint
<1>4. ASSUME NEW t \in Thread, Printing(t) PROVE TruthInv'
  <2>1. CASE Sync(t) \/ Cut(t) \/ Close(t) \/ Open(t) \/ RemoveCut(t)
    <3>1. UNCHANGED <<disk, ent, prints, ok, failed>>
      BY <2>1 DEF Sync, Cut, Close, Open, RemoveCut, fs, res
    <3> QED BY <1>1, <3>1, TruthSame
  <2>2. CASE Write(t)
    BY <2>2, TruthWrite
  <2>3. CASE Fail(t)
    BY <2>3, TruthFail
  <2> QED BY <1>4, <2>1, <2>2, <2>3 DEF Printing
<1> QED BY <1>2, <1>3, <1>4 DEF Next

(* No entry has been printed at first. *)
LEMMA TruthInit == Init => TruthInv
<1> SUFFICES ASSUME Init PROVE TruthInv
  OBVIOUS
<1>1. \A f \in Inode : disk[f] = <<>>
  BY DEF Init
<1>2. ok = {} /\ failed = {} /\ prints = 0 /\ \A t \in Thread : ent[t] = 0
  BY DEF Init
<1>3. \A f \in Inode : Len(disk[f]) = 0
  BY <1>1
<1>4. Cardinality(ok) = 0
  BY <1>2, FS_EmptySet
<1>5. InHand
  BY <1>2 DEF InHand
<1>6. \A f \in Inode : 1..Len(disk[f]) = {} /\ Len(disk[f]) <= Cardinality(ok)
  BY <1>3, <1>4
<1>7. OnDisk
  BY <1>2, <1>6 DEF OnDisk
<1> QED BY <1>5, <1>7 DEF TruthInv

(* The invariant says what print() promises. *)
LEMMA TruthImplies == BaseInv /\ TruthInv => Truthful
<1> SUFFICES ASSUME BaseInv, TruthInv PROVE Truthful
  OBVIOUS
<1>1. MaxPrints \in Nat /\ prints \in 0..MaxPrints
  BY SetupSizes DEF BaseInv, TypeOK
<1>2. Cardinality(ok) <= prints /\ Cardinality(ok) \in Nat
  <2>1. IsFiniteSet(1..prints) /\ Cardinality(1..prints) = prints
    BY <1>1, FS_Interval
  <2>2. IsFiniteSet(ok) /\ Cardinality(ok) <= Cardinality(1..prints)
    BY <2>1, FS_Subset DEF TruthInv, InHand
  <2> QED BY <2>1, <2>2, FS_CardinalityType
<1>3. ASSUME NEW f \in Inode PROVE Len(disk[f]) \in 0..MaxPrints
  <2>1. disk[f] \in Seq(1..MaxPrints) /\ Len(disk[f]) \in Nat /\ Len(disk[f]) <= Cardinality(ok)
    BY DEF BaseInv, TypeOK, TruthInv, OnDisk
  <2> QED BY <1>1, <1>2, <2>1
<1> SUFFICES ASSUME NEW e \in 1..prints
             PROVE  LET places == {p \in Inode \X (1..MaxPrints) :
                                      p[2] <= Len(disk[p[1]]) /\ disk[p[1]][p[2]] = e}
                    IN  /\ e \in ok => Cardinality(places) = 1
                        /\ e \in failed => places = {}
  BY DEF Truthful
<1> DEFINE places == {p \in Inode \X (1..MaxPrints) :
                         p[2] <= Len(disk[p[1]]) /\ disk[p[1]][p[2]] = e}
<1>4. ASSUME NEW p \in places
      PROVE  /\ p[1] \in Inode /\ p[2] \in 1..Len(disk[p[1]]) /\ disk[p[1]][p[2]] = e
             /\ p = <<p[1], p[2]>>
  <2>1. p \in Inode \X (1..MaxPrints) /\ p[2] <= Len(disk[p[1]]) /\ disk[p[1]][p[2]] = e
    OBVIOUS
  <2>2. p[1] \in Inode /\ p[2] \in 1..MaxPrints /\ p = <<p[1], p[2]>>
    BY <2>1
  <2> QED BY <1>1, <1>3, <2>1, <2>2
<1>5. ASSUME e \in ok PROVE Cardinality(places) = 1
  <2>1. PICK f \in Inode : \E i \in 1..Len(disk[f]) : disk[f][i] = e
    BY <1>5 DEF TruthInv, OnDisk
  <2>2. PICK i \in 1..Len(disk[f]) : disk[f][i] = e
    BY <2>1
  <2>3. i \in 1..MaxPrints /\ i <= Len(disk[f])
    BY <1>1, <1>3, <2>2
  <2>4. <<f, i>> \in places
    BY <2>2, <2>3
  <2>5. ASSUME NEW p \in places PROVE p = <<f, i>>
    <3>1. /\ p[1] \in Inode /\ p[2] \in 1..Len(disk[p[1]]) /\ disk[p[1]][p[2]] = e
          /\ p = <<p[1], p[2]>>
      BY <1>4
    <3>2. p[1] = f /\ p[2] = i
      BY <2>2, <3>1 DEF TruthInv, OnDisk
    <3> QED BY <3>1, <3>2
  <2>6. places = {<<f, i>>}
    <3> HIDE DEF places
    <3> QED BY <2>4, <2>5
  <2> QED BY <2>6, FS_Singleton
<1>6. ASSUME e \in failed PROVE places = {}
  <2>1. e \notin ok
    BY <1>6 DEF TruthInv, InHand
  <2>2. ASSUME NEW p \in places PROVE FALSE
    BY <1>4, <2>1, <2>2 DEF TruthInv, OnDisk
  <2> HIDE DEF places
  <2> QED BY <2>2
<1> QED BY <1>5, <1>6

(* For any number of threads and whatever fails, print() tells the truth:  *)
(* an entry it returned 0 for is in a file, once, one it returned -1 for   *)
(* is in none, although the write happens after syncid() has unlocked.     *)
THEOREM AlwaysTruthful == Spec => []Truthful
<1>1. BaseInv /\ TruthInv /\ [Next]_vars => (BaseInv /\ TruthInv)'
  BY BaseStep, TruthStep
<1>2. Init => BaseInv /\ TruthInv
  BY BaseInit, TruthInit
<1> QED BY <1>1, <1>2, TruthImplies, PTL DEF Spec
-----------------------------------------------------------------------------
(* The quota ring.                                                         *)

(* Steps that touch neither the ring nor the files. *)
LEMMA QuotaSame ==
    ASSUME QuotaInv, UNCHANGED <<setup, num, ft, ftsize, head, file, inodes, cut, gone>>
    PROVE  QuotaInv'
BY DEF QuotaInv, RingInv, FullInv, Age, Faults

(* The log file goes away, or a newer one comes. *)
LEMMA QuotaFile ==
    ASSUME BaseInv, QuotaInv, UNCHANGED <<setup, num, ft, ftsize, head, cut, gone>>,
           \/ file' \in {0, file} /\ inodes' = inodes
           \/ file' = inodes + 1 /\ inodes' = inodes + 1
    PROVE  QuotaInv'
<1>1. inodes \in Nat /\ gone \subseteq Int
  BY SetupSizes DEF BaseInv, TypeOK, Inode
<1>2. FullInv'
  BY DEF QuotaInv, FullInv, Age, Faults
<1>3. ASSUME num > 0, NEW x \in Int, x <= inodes, file # 0 => x < file
      PROVE  x <= inodes' /\ (file' # 0 => x < file')
  BY <1>1, <1>3
<1>4. ASSUME num > 0
      PROVE  /\ \A i \in 1..num : ft[i] \in Int
             /\ num' = num /\ \A i \in 1..num : Age(i)' = Age(i)
  <2>1. ft \in [1..num -> 0..MaxInode]
    BY <1>4 DEF BaseInv, TypeOK
  <2> QED BY <2>1 DEF Age
<1>5. RingInv'
  <2> SUFFICES ASSUME num' > 0
               PROVE  RingInv'
    BY DEF RingInv
  <2>1. num > 0 /\ num' = num /\ RingInv
    BY DEF QuotaInv
  <2>2. \A i \in 1..num : ft[i] <= inodes' /\ (file' # 0 => ft[i] < file')
    BY <1>3, <1>4, <2>1 DEF RingInv
  <2>3. \A g \in gone : g <= inodes' /\ (file' # 0 => g < file')
    BY <1>1, <1>3, <2>1 DEF RingInv
  <2>4. \A i, j \in 1..num : Age(i)' < Age(j)' /\ ft[i] # 0 /\ ft[j] # 0 => ft[i] < ft[j]
    BY <1>4, <2>1 DEF RingInv
  <2>5. \A i \in 1..num : Age(i)' < num - ftsize => ft[i] = 0
    BY <1>4, <2>1 DEF RingInv
  <2>6. /\ \A c \in cut : \E i \in 1..num : ft[i] = c
        /\ \A g \in gone : \A i \in 1..num : ft[i] # 0 => g < ft[i]
    BY <2>1 DEF RingInv
  <2> QED BY <2>1, <2>2, <2>3, <2>4, <2>5, <2>6 DEF RingInv
<1> QED BY <1>2, <1>5 DEF QuotaInv

(* A turn makes every place one cut older and the head's the last again. *)
LEMMA AgeTurn ==
    ASSUME num \in Nat \ {0}, head \in 0..(num - 1), num' = num,
           head' = IF head = 0 THEN num - 1 ELSE head - 1
    PROVE  \A i \in 1..num :
              /\ Age(i) \in 0..(num - 1) /\ Age(i)' \in 0..(num - 1)
              /\ i = head + 1 => Age(i) = 0 /\ Age(i)' = num - 1
              /\ i # head + 1 => Age(i) > 0 /\ Age(i)' = Age(i) - 1
BY DEF Age

(* The first scan leaves a ring in order. *)
LEMMA QuotaFirst ==
    ASSUME BaseInv, getAppender
    PROVE  QuotaInv'
<1>1. /\ inodes \in Nat /\ cut = 1..inodes /\ gone = {}
      /\ file' = inodes + 1 /\ inodes' = inodes + 1
  BY SetupSizes DEF BaseInv, TypeOK, Started, getAppender
<1>2. /\ num' \in 0..Quota
      /\ num' = 0 => cut' = cut /\ gone' = {}
      /\ num' > 0 =>
                /\ ft' \in [1..num' -> 0..inodes] /\ ftsize' \in 0..num' /\ head' = num' - 1
                /\ \A i, j \in 1..ftsize' : i < j => ft'[i] > ft'[j]
                /\ \A i \in 1..num' : IF i <= ftsize' THEN ft'[i] \in cut' ELSE ft'[i] = 0
                /\ \A c \in cut' : c \in 1..inodes /\ \E i \in 1..ftsize' : ft'[i] = c
                /\ \A g \in gone' : g \in 1..inodes /\ \A i \in 1..ftsize' : g < ft'[i]
                /\ gone' # {} => ftsize' = num'
  BY <1>1, FirstQuota DEF BaseInv, getAppender
<1>3. Quota \in Nat
  BY SetupSizes DEF BaseInv
<1>4. CASE num' = 0
  BY <1>2, <1>4 DEF QuotaInv, RingInv, FullInv
<1>5. CASE num' > 0
  <2>1. PICK n \in Nat : n = num'
    BY <1>2, <1>3
  <2>2. PICK k \in 0..n : k = ftsize'
    BY <1>2, <1>5, <2>1
  <2>3. \A i \in 1..n : Age(i)' = n - i
    <3>1. head' = n - 1 /\ num' = n
      BY <1>2, <1>5, <2>1
    <3>2. head' + 1 = n
      <4>1. \A m \in Nat : (m - 1) + 1 = m
        OBVIOUS
      <4> QED BY <2>1, <3>1, <4>1
    <3>3. \A i \in 1..n : i <= n
      BY <2>1
    <3> QED BY <3>1, <3>2, <3>3 DEF Age
  <2>4. /\ \A i \in 1..n : ft'[i] \in 0..inodes
        /\ \A i, j \in 1..k : i < j => ft'[i] > ft'[j]
        /\ \A i \in 1..n : IF i <= k THEN ft'[i] \in cut' ELSE ft'[i] = 0
        /\ \A c \in cut' : \E i \in 1..k : ft'[i] = c
        /\ \A g \in gone' : g \in 1..inodes /\ \A i \in 1..k : g < ft'[i]
        /\ gone' # {} => k = n
    BY <1>2, <1>5, <2>1, <2>2
  <2>5. \A i \in 1..n : ft'[i] # 0 => i \in 1..k
    BY <2>2, <2>4
  <2>6. \A c \in cut' : \E i \in 1..n : ft'[i] = c
    <3>1. \A i \in 1..k : i \in 1..n
      BY <2>1, <2>2
    <3> QED BY <2>4, <3>1
  <2>7. \A i \in 1..n : ft'[i] <= inodes' /\ (file' # 0 => ft'[i] < file')
    BY <1>1, <2>4
  <2>8. \A i, j \in 1..n : Age(i)' < Age(j)' /\ ft'[i] # 0 /\ ft'[j] # 0 => ft'[i] < ft'[j]
    <3> SUFFICES ASSUME NEW i \in 1..n, NEW j \in 1..n, Age(i)' < Age(j)', ft'[i] # 0, ft'[j] # 0
                 PROVE  ft'[i] < ft'[j]
      OBVIOUS
    <3>1. j < i /\ i \in 1..k /\ j \in 1..k /\ ft'[i] \in Int /\ ft'[j] \in Int
      BY <2>1, <2>3, <2>4, <2>5
    <3>2. ft'[j] > ft'[i]
      BY <2>4, <3>1
    <3> QED BY <3>1, <3>2
  <2>9. \A i \in 1..n : Age(i)' < n - k => ft'[i] = 0
    <3> SUFFICES ASSUME NEW i \in 1..n, Age(i)' < n - k PROVE ft'[i] = 0
      OBVIOUS
    <3>1. ~(i <= k)
      BY <2>1, <2>2, <2>3
    <3> QED BY <2>4, <3>1
  <2>10. \A g \in gone' : /\ g <= inodes' /\ (file' # 0 => g < file')
                          /\ \A i \in 1..n : ft'[i] # 0 => g < ft'[i]
    BY <1>1, <2>4, <2>5
  <2>11. \A i \in 1..n : Age(i)' >= n - k => ft'[i] \in cut'
    <3> SUFFICES ASSUME NEW i \in 1..n, Age(i)' >= n - k PROVE ft'[i] \in cut'
      OBVIOUS
    <3>1. i <= k
      BY <2>1, <2>2, <2>3
    <3> QED BY <2>4, <3>1
  <2>12. RingInv'
    BY <1>5, <2>1, <2>2, <2>6, <2>7, <2>8, <2>9, <2>10 DEF RingInv
  <2>13. FullInv'
    BY <1>5, <2>1, <2>2, <2>4, <2>11 DEF FullInv
  <2>14. ~(num' <= 0)
    BY <2>1, <1>5
  <2> QED BY <2>12, <2>13, <2>14 DEF QuotaInv
<1> QED BY <1>2, <1>3, <1>4, <1>5
(* A cut takes the head's place for the file cut off: the ring stays in    *)
(* order, and what a full ring deletes is its oldest file.                 *)
LEMMA QuotaTurn ==
    ASSUME BaseInv, QuotaInv, num > 0, NEW name \in {0, file},
           check_quota(name, cut \cup ({name} \ {0})),
           UNCHANGED <<setup, inodes>>, file' = IF name = 0 THEN file ELSE 0,
           name = 0 => Faults \cap {"rename", "move"} # {}
    PROVE  QuotaInv'
<1>1. PICK n : n = num
  OBVIOUS
<1>2. PICK h : h = head + 1
  OBVIOUS
<1>3. PICK k : k = ftsize
  OBVIOUS
<1>4. /\ n \in Nat \ {0} /\ h \in 1..n /\ k \in 0..n /\ k \in Nat /\ num' = n
      /\ ft \in [1..n -> 0..MaxInode] /\ MaxInode \in Nat
      /\ head \in 0..(num - 1) /\ num \in Nat \ {0}
  <2>1. num \in -1..Quota /\ Quota \in Nat /\ MaxInode \in Nat
    BY SetupSizes DEF BaseInv, TypeOK
  <2>2. ft \in [1..num -> 0..MaxInode] /\ ftsize \in 0..num /\ head \in 0..(num - 1)
    BY DEF BaseInv, TypeOK
  <2>3. num' = num
    BY DEF check_quota
  <2> QED BY <1>1, <1>2, <1>3, <2>1, <2>2, <2>3
<1>5. \A i \in 1..n : /\ Age(i) \in 0..(n - 1) /\ Age(i)' \in 0..(n - 1)
                      /\ i = h => Age(i) = 0 /\ Age(i)' = n - 1
                      /\ i # h => Age(i) > 0 /\ Age(i)' = Age(i) - 1
  BY <1>1, <1>2, <1>4, AgeTurn DEF check_quota
<1>6. /\ ft' = [ft EXCEPT ![h] = name]
      /\ \/ k = n /\ ftsize' = k /\ cut' = (cut \cup ({name} \ {0})) \ {ft[h]}
            /\ gone' = gone \cup ((cut \cup ({name} \ {0})) \cap {ft[h]})
         \/ k < n /\ ftsize' = k + 1 /\ cut' = cut \cup ({name} \ {0}) /\ gone' = gone
  BY <1>1, <1>2, <1>3, <1>4 DEF check_quota
<1>7. /\ ft'[h] = name /\ \A i \in 1..n : i # h => ft'[i] = ft[i]
      /\ \A i \in 1..n : ft[i] \in 0..MaxInode
  BY <1>4, <1>6
<1>8. /\ \A c \in cut : \E i \in 1..n : ft[i] = c
      /\ \A i \in 1..n : ft[i] <= inodes /\ (file # 0 => ft[i] < file)
      /\ \A i, j \in 1..n : Age(i) < Age(j) /\ ft[i] # 0 /\ ft[j] # 0 => ft[i] < ft[j]
      /\ \A i \in 1..n : Age(i) < n - k => ft[i] = 0
      /\ \A g \in gone : /\ g <= inodes /\ (file # 0 => g < file)
                         /\ \A i \in 1..n : ft[i] # 0 => g < ft[i]
  BY <1>1, <1>3, <1>4 DEF QuotaInv, RingInv
<1>9. /\ inodes \in Nat /\ name \in Nat /\ name <= inodes /\ (name # 0 => name = file)
      /\ cut \subseteq Nat \ {0} /\ gone \subseteq Nat /\ file \in Nat
  <2>1. /\ MaxInode \in Nat /\ inodes \in 0..MaxInode /\ file \in 0..MaxInode /\ file \in {0, inodes}
        /\ cut \subseteq Inode /\ gone \subseteq Inode
    BY SetupSizes DEF BaseInv, TypeOK, Started
  <2> QED BY <2>1 DEF Inode
<1>10. \A c \in cut' : \E i \in 1..n : ft'[i] = c
  <2> SUFFICES ASSUME NEW c \in cut' PROVE \E i \in 1..n : ft'[i] = c
    OBVIOUS
  <2>1. CASE c = name
    BY <1>4, <1>7, <2>1
  <2>2. CASE c # name
    <3>1. c \in cut
      BY <1>6, <2>2
    <3>2. PICK i \in 1..n : ft[i] = c
      BY <1>8, <3>1
    <3>3. i # h
      <4>1. CASE k = n
        BY <1>4, <1>6, <3>2, <4>1
      <4>2. CASE k < n
        <5>1. Age(h) < n - k
          BY <1>4, <1>5, <4>2
        <5>2. ft[h] = 0 /\ c # 0
          BY <1>4, <1>8, <1>9, <3>1, <5>1
        <5> QED BY <3>2, <5>2
      <4> QED BY <1>6, <4>1, <4>2
    <3> QED BY <1>7, <3>2, <3>3
  <2> QED BY <2>1, <2>2
<1>11. \A i \in 1..n : ft'[i] <= inodes' /\ (file' # 0 => ft'[i] < file')
  <2> SUFFICES ASSUME NEW i \in 1..n
               PROVE  ft'[i] <= inodes /\ (file' # 0 => ft'[i] < file')
    OBVIOUS
  <2>1. CASE i = h
    BY <1>7, <1>9, <2>1
  <2>2. CASE i # h
    BY <1>7, <1>8, <2>2
  <2> QED BY <2>1, <2>2
<1>12. ASSUME NEW i \in 1..n, NEW j \in 1..n, Age(i)' < Age(j)', ft'[i] # 0, ft'[j] # 0
       PROVE  ft'[i] < ft'[j]
  <2>1. i # h
    BY <1>4, <1>5, <1>12
  <2>2. CASE j = h
    BY <1>7, <1>8, <1>9, <1>12, <2>1, <2>2
  <2>3. CASE j # h
    <3>1. Age(i) < Age(j)
      BY <1>5, <1>12, <2>1, <2>3
    <3> QED BY <1>7, <1>8, <1>12, <2>1, <2>3, <3>1
  <2> QED BY <2>2, <2>3
<1>13. ASSUME NEW i \in 1..n, Age(i)' < n - ftsize' PROVE ft'[i] = 0
  <2>0. PICK a \in 0..(n - 1), b \in 0..(n - 1) :
            /\ a = Age(i) /\ b = Age(i)' /\ (i = h => b = n - 1) /\ (i # h => b = a - 1)
    BY <1>5
  <2>1. k < n /\ ftsize' = k + 1
    <3>1. k = n => ftsize' = n
      BY <1>4, <1>6
    <3> QED BY <1>4, <1>6, <1>13, <2>0, <3>1
  <2>2. i # h
    BY <1>4, <1>13, <2>0, <2>1
  <2>3. Age(i) < n - k
    BY <1>4, <1>13, <2>0, <2>1, <2>2
  <2> QED BY <1>7, <1>8, <2>2, <2>3
<1>14. ASSUME NEW g \in gone'
       PROVE  /\ g <= inodes' /\ (file' # 0 => g < file')
              /\ \A i \in 1..n : ft'[i] # 0 => g < ft'[i]
  <2>1. CASE g \in gone
    <3>1. g <= inodes' /\ (file' # 0 => g < file')
      BY <1>8, <2>1
    <3>2. ASSUME NEW i \in 1..n, ft'[i] # 0 PROVE g < ft'[i]
      <4>1. CASE i = h
        BY <1>7, <1>8, <1>9, <2>1, <3>2, <4>1
      <4>2. CASE i # h
        BY <1>7, <1>8, <2>1, <3>2, <4>2
      <4> QED BY <4>1, <4>2
    <3> QED BY <3>1, <3>2
  <2>2. CASE g = ft[h] /\ g # 0
    <3>1. g <= inodes' /\ (file' # 0 => g < file')
      BY <1>4, <1>8, <2>2
    <3>2. ASSUME NEW i \in 1..n, ft'[i] # 0 PROVE g < ft'[i]
      <4>1. CASE i = h
        BY <1>4, <1>7, <1>8, <1>9, <2>2, <3>2, <4>1
      <4>2. CASE i # h
        <5>1. Age(h) < Age(i)
          BY <1>4, <1>5, <4>2
        <5> QED BY <1>4, <1>7, <1>8, <2>2, <3>2, <4>2, <5>1
      <4> QED BY <4>1, <4>2
    <3> QED BY <3>1, <3>2
  <2>3. g \in gone \/ (g = ft[h] /\ g # 0)
    BY <1>6, <1>9, <1>14
  <2> QED BY <2>1, <2>2, <2>3
<1>15. RingInv'
  <2>1. num' = n
    BY <1>4
  <2> QED BY <1>10, <1>11, <1>12, <1>13, <1>14, <2>1 DEF RingInv
<1>16. ASSUME Faults \cap {"rename", "move"} = {}
       PROVE  /\ \A i \in 1..n : Age(i)' >= n - ftsize' => ft'[i] \in cut'
              /\ gone' # {} => ftsize' = n
  <2>1. /\ \A i \in 1..n : Age(i) >= n - k => ft[i] \in cut
        /\ gone # {} => k = n
    BY <1>1, <1>3, <1>4, <1>16 DEF QuotaInv, FullInv
  <2>2. name # 0 /\ name = file
    BY <1>9, <1>16
  <2>3. ASSUME NEW i \in 1..n, Age(i)' >= n - ftsize' PROVE ft'[i] \in cut'
    <3>1. CASE i = h
      <4>1. ft[h] # name
        BY <1>4, <1>7, <1>8, <1>9, <2>2
      <4> QED BY <1>6, <1>7, <2>2, <3>1, <4>1
    <3>2. CASE i # h /\ k < n
      <4>0. PICK a \in 0..(n - 1) : a = Age(i) /\ Age(i)' = a - 1
        BY <1>5, <3>2
      <4>1. Age(i) >= n - k
        <5>1. ftsize' = k + 1
          BY <1>4, <1>6, <3>2
        <5> QED BY <1>4, <2>3, <4>0, <5>1
      <4>2. ft[i] \in cut
        BY <2>1, <4>1
      <4>3. cut' = cut \cup ({name} \ {0})
        BY <1>4, <1>6, <3>2
      <4> QED BY <1>7, <3>2, <4>2, <4>3
    <3>3. CASE i # h /\ k = n
      <4>1. Age(i) >= n - k /\ Age(h) >= n - k /\ Age(h) < Age(i)
        BY <1>4, <1>5, <3>3
      <4>2. ft[i] \in cut /\ ft[h] \in cut
        BY <1>4, <2>1, <4>1
      <4>3. ft[h] < ft[i]
        BY <1>4, <1>8, <1>9, <4>1, <4>2
      <4>4. ft[h] # ft[i]
        BY <1>4, <1>7, <4>3
      <4>5. cut' = (cut \cup ({name} \ {0})) \ {ft[h]}
        BY <1>4, <1>6, <3>3
      <4> QED BY <1>7, <3>3, <4>2, <4>4, <4>5
    <3> QED BY <1>6, <3>1, <3>2, <3>3
  <2>4. gone' # {} => ftsize' = n
    BY <1>4, <1>6, <2>1
  <2> QED BY <2>3, <2>4
<1>17. FullInv'
  <2>1. num' = n /\ Faults' = Faults
    BY <1>4 DEF Faults
  <2> QED BY <1>16, <2>1 DEF FullInv
<1>18. ~(num' <= 0)
  BY <1>4
<1> QED BY <1>15, <1>17, <1>18 DEF QuotaInv
(* QuotaInv is inductive. *)
LEMMA QuotaStep == BaseInv /\ QuotaInv /\ [Next]_vars => QuotaInv'
<1> SUFFICES ASSUME BaseInv, QuotaInv, [Next]_vars PROVE QuotaInv'
  OBVIOUS
<1>1. setup' = setup /\ Faults' = Faults
  BY SetupFixed
<1>2. CASE UNCHANGED vars \/ Quiet
  BY <1>2, QuotaSame DEF Quiet, vars, ring, fs
<1>3. CASE getAppender
  BY <1>3, QuotaFirst
<1>4. CASE MoveFile
  <2>1. UNCHANGED <<setup, num, ft, ftsize, head, cut, gone, inodes>> /\ file' = 0
    BY <1>4 DEF MoveFile, ring
  <2> QED BY <2>1, QuotaFile
<1>5. ASSUME NEW t \in Thread, print(t) PROVE QuotaInv'
  BY <1>5, QuotaSame DEF print, ring, fs
<1>6. ASSUME NEW t \in Thread, Printing(t) PROVE QuotaInv'
  <2>1. CASE Sync(t) \/ Close(t) \/ Fail(t)
    BY <2>1, QuotaSame DEF Sync, Close, Fail, ring, fs
  <2>2. CASE Write(t)
    BY <2>2, QuotaSame DEF Write, ring
  <2>3. CASE Open(t)
    <3>1. UNCHANGED <<setup, num, ft, ftsize, head, cut, gone>>
      BY <2>3 DEF Open, ring
    <3>2. \/ file' = file /\ inodes' = inodes
          \/ file' = inodes + 1 /\ inodes' = inodes + 1
      BY <2>3 DEF Open
    <3> QED BY <3>1, <3>2, QuotaFile
  <2>4. CASE RemoveCut(t)
    <3>1. ~(num > 0) /\ UNCHANGED <<num, gone>>
      BY <2>4 DEF RemoveCut, BaseInv, Started, ring
    <3> QED BY <3>1 DEF QuotaInv, RingInv, FullInv
  <2>5. CASE Cut(t)
    <3>1. PICK name \in {0, file} :
               /\ name = file \/ "rename" \in Faults
               /\ file' = IF name = 0 THEN file ELSE 0
               /\ IF num > 0 THEN check_quota(name, cut \cup ({name} \ {0}))
                  ELSE cut' = cut \cup ({name} \ {0}) /\ UNCHANGED <<num, ft, ftsize, head, gone>>
               /\ UNCHANGED <<setup, splite, id, ino, inodes, disk, lock, ent, prints, ok, failed>>
      BY <2>5, CutFacts
    <3>2. CASE num > 0
      <4>1. name = 0 => Faults \cap {"rename", "move"} # {}
        BY <2>5, <3>1 DEF BaseInv, Started, Cut
      <4> QED BY <3>1, <3>2, <4>1, QuotaTurn
    <3>3. CASE ~(num > 0)
      <4>1. num' = num /\ gone' = gone
        BY <3>1, <3>3
      <4> QED BY <3>3, <4>1 DEF QuotaInv, RingInv, FullInv
    <3> QED BY <3>2, <3>3
  <2> QED BY <1>6, <2>1, <2>2, <2>3, <2>4, <2>5 DEF Printing
<1> QED BY <1>2, <1>3, <1>4, <1>5, <1>6 DEF Next

(* The invariant bounds the files kept and orders them. *)
LEMMA QuotaImplies == BaseInv /\ QuotaInv => QuotaKept
<1> SUFFICES ASSUME BaseInv, QuotaInv PROVE QuotaHolds /\ KeepsNewest
  BY DEF QuotaKept, BaseInv
<1>0. num \in Int /\ cut \subseteq Nat \ {0} /\ Quota \in Nat
  <2>1. num \in -1..Quota /\ Quota \in Nat /\ MaxInode \in Nat /\ cut \subseteq Inode
    BY SetupSizes DEF BaseInv, TypeOK
  <2> QED BY <2>1 DEF Inode
<1>1. ASSUME num > 0
      PROVE  /\ num \in Nat /\ ft \in [1..num -> 0..MaxInode] /\ IsFiniteSet(1..num)
             /\ Cardinality(1..num) = num /\ ftsize \in 0..num /\ head \in 0..(num - 1)
  <2>1. num \in Nat /\ IsFiniteSet(1..num) /\ Cardinality(1..num) = num
    BY <1>0, <1>1, FS_Interval
  <2> QED BY <1>1, <2>1 DEF BaseInv, TypeOK
<1>2. QuotaHolds
  <2> SUFFICES ASSUME num > 0 PROVE Cardinality(cut) <= num
    BY DEF QuotaHolds
  <2> DEFINE S == {i \in 1..num : ft[i] \in cut}
             g == [i \in S |-> ft[i]]
  <2>1. g \in Surjection(S, cut)
    <3>1. \A c \in cut : \E i \in S : g[i] = c
      BY DEF QuotaInv, RingInv
    <3>2. g \in [S -> cut]
      OBVIOUS
    <3> HIDE DEF S, g
    <3> QED BY <3>1, <3>2 DEF Surjection
  <2>2. IsFiniteSet(S) /\ Cardinality(S) <= num
    <3>1. S \in SUBSET (1..num)
      OBVIOUS
    <3>2. IsFiniteSet(1..num) /\ Cardinality(1..num) = num
      BY <1>1
    <3> HIDE DEF S
    <3>3. IsFiniteSet(S) /\ Cardinality(S) <= Cardinality(1..num)
      BY <3>1, <3>2, FS_Subset
    <3> QED BY <3>2, <3>3
  <2>3. IsFiniteSet(cut) /\ Cardinality(cut) <= Cardinality(S)
    <3> HIDE DEF S, g
    <3> QED BY <2>1, <2>2, FS_Surjection
  <2>4. Cardinality(S) \in Nat /\ Cardinality(cut) \in Nat
    <3> HIDE DEF S
    <3> QED BY <2>2, <2>3, FS_CardinalityType
  <2> HIDE DEF S
  <2> QED BY <1>0, <2>2, <2>3, <2>4
<1>3. \A g \in gone, c \in cut : g < c
  <2> SUFFICES ASSUME NEW g \in gone, NEW c \in cut PROVE g < c
    OBVIOUS
  <2>1. num > 0
    BY <1>0 DEF QuotaInv
  <2>2. PICK i \in 1..num : ft[i] = c
    BY <2>1 DEF QuotaInv, RingInv
  <2>3. c # 0
    BY <1>0
  <2> QED BY <2>1, <2>2, <2>3 DEF QuotaInv, RingInv
<1>4. ASSUME Faults \cap {"rename", "move"} = {}, gone # {} PROVE Cardinality(cut) = num
  <2>1. num > 0 /\ ftsize = num
    BY <1>0, <1>4 DEF QuotaInv, FullInv
  <2>2. PICK n : n = num
    OBVIOUS
  <2>3. /\ n \in Nat /\ ft \in [1..n -> 0..MaxInode] /\ head \in 0..(n - 1)
        /\ IsFiniteSet(1..n) /\ Cardinality(1..n) = n
    BY <1>1, <2>1, <2>2
  <2>4. \A i, j \in 1..n : /\ Age(i) \in Int /\ Age(i) >= 0
                           /\ i # j => Age(i) < Age(j) \/ Age(j) < Age(i)
    <3>1. PICK h : h = head
      OBVIOUS
    <3>2. h \in 0..(n - 1)
      BY <2>3, <3>1
    <3>3. \A i \in 1..n : Age(i) = IF i <= h + 1 THEN h + 1 - i ELSE h + 1 + n - i
      BY <2>2, <3>1 DEF Age
    <3> QED BY <2>3, <3>2, <3>3
  <2>5. \A i \in 1..n : ft[i] \in cut
    <3>1. \A i \in 1..n : Age(i) >= num - ftsize
      BY <2>1, <2>2, <2>3, <2>4
    <3> QED BY <1>4, <2>1, <2>2, <3>1 DEF QuotaInv, FullInv
  <2>6. ASSUME NEW i \in 1..n, NEW j \in 1..n, ft[i] = ft[j] PROVE i = j
    <3>1. ft[i] \in Int /\ ft[i] # 0 /\ ft[j] # 0 /\ ft[j] \in Int
      <4>1. \A c \in cut : c \in Int /\ c # 0
        BY <1>0
      <4>2. ft[i] \in cut /\ ft[j] \in cut
        BY <2>5
      <4> QED BY <4>1, <4>2
    <3>2. /\ Age(i) < Age(j) => ft[i] < ft[j]
          /\ Age(j) < Age(i) => ft[j] < ft[i]
      BY <2>1, <2>2, <3>1 DEF QuotaInv, RingInv
    <3>3. ~(ft[i] < ft[j]) /\ ~(ft[j] < ft[i])
      BY <2>6, <3>1
    <3> QED BY <2>4, <3>2, <3>3
  <2>7. ft \in [1..n -> cut]
    BY <2>3, <2>5
  <2>8. ft \in Injection(1..n, cut)
    BY <2>6, <2>7 DEF Injection, IsInjective
  <2>9. ft \in Surjection(1..n, cut)
    <3>1. \A c \in cut : \E i \in 1..n : ft[i] = c
      BY <2>1, <2>2 DEF QuotaInv, RingInv
    <3> QED BY <2>7, <3>1 DEF Surjection
  <2>10. Cardinality(cut) = Cardinality(1..n)
    BY <2>3, <2>8, <2>9, FS_Surjection
  <2> QED BY <2>2, <2>3, <2>10
<1> QED BY <1>2, <1>3, <1>4 DEF KeepsNewest

(* For any quota, any old files and any faults the ring _ft, with its      *)
(* wrapping head, keeps no more files than the quota; what it deletes is   *)
(* older than all it keeps, and while renames succeed it deletes only what *)
(* it must.                                                                *)
THEOREM QuotaAlwaysKept == Spec => []QuotaKept
<1>1. Init => QuotaInv
  BY DEF Init, QuotaInv, RingInv, FullInv
<1>2. BaseInv /\ QuotaInv /\ [Next]_vars => (BaseInv /\ QuotaInv)'
  BY BaseStep, QuotaStep
<1>3. Init => BaseInv /\ QuotaInv
  BY <1>1, BaseInit
<1> QED BY <1>2, <1>3, QuotaImplies, PTL DEF Spec
-----------------------------------------------------------------------------
(* Cutting in time.                                                        *)

(* The file a thread is about to cut stays full. *)
LEMMA FullStep == BaseInv /\ FullAtCut /\ [Next]_vars => FullAtCut'
<1> SUFFICES ASSUME BaseInv, FullAtCut, [Next]_vars, splite' # "COM_DATECUT"
             PROVE  /\ early' = {}
                    /\ \A t \in Thread : tpc'[t] = "cut" /\ file' # 0 => Len(disk'[file']) >= Limit
  BY DEF FullAtCut
<1>1. splite # "COM_DATECUT" /\ early = {} /\ splite' = splite
      /\ \A t \in Thread : tpc[t] = "cut" /\ file # 0 => Len(disk[file]) >= Limit
  BY SetupFixed DEF FullAtCut
<1>2. CASE UNCHANGED vars \/ Quiet
  BY <1>1, <1>2 DEF Quiet, vars, fs, thr
<1>3. CASE getAppender
  BY <1>1, <1>3 DEF getAppender, thr, BaseInv, Started
<1>4. CASE MoveFile
  BY <1>1, <1>4 DEF MoveFile
<1>5. ASSUME NEW t \in Thread, print(t)
      PROVE  /\ early' = {}
             /\ \A u \in Thread : tpc'[u] = "cut" /\ file' # 0 => Len(disk'[file']) >= Limit
  BY <1>1, <1>5 DEF print, fs, Goto, BaseInv, TypeOK
<1>6. ASSUME NEW t \in Thread, Printing(t)
      PROVE  /\ early' = {}
             /\ \A u \in Thread : tpc'[u] = "cut" /\ file' # 0 => Len(disk'[file']) >= Limit
  <2>1. CASE Sync(t)
    <3>1. UNCHANGED <<file, disk, early>>
      BY <2>1 DEF Sync, fs
    <3>2. \A u \in Thread : u # t => tpc'[u] # "cut"
      BY <2>1, FreeAssumption DEF Sync, BaseInv, Locked, TypeOK, Goto
    <3>3. tpc'[t] = "cut" => Len(disk[file]) >= Limit
      BY <1>1, <2>1 DEF Sync, BaseInv, TypeOK, Goto
    <3> QED BY <1>1, <3>1, <3>2, <3>3
  <2>2. CASE Cut(t)
    <3>1. PICK name \in {0, file} :
             /\ early' = IF name # 0 /\ Len(disk[name]) < Limit THEN early \cup {name} ELSE early
             /\ tpc' = [tpc EXCEPT ![t] = "close"]
      BY <2>2, CutFacts
    <3>2. \A u \in Thread : tpc'[u] # "cut"
      BY <2>2, <3>1 DEF BaseInv, TypeOK, Locked, Cut
    <3>3. name # 0 => Len(disk[name]) >= Limit
      BY <1>1, <2>2, <3>1 DEF Cut
    <3>4. name # 0 => Len(disk[name]) \in Nat /\ Limit \in Nat
      <4>0. MaxInode \in Nat /\ file \in 0..MaxInode /\ disk \in [Inode -> Seq(1..MaxPrints)]
        BY SetupSizes DEF BaseInv, TypeOK
      <4>1. name # 0 => disk[name] \in Seq(1..MaxPrints)
        BY <3>1, <4>0 DEF Inode
      <4> QED BY <4>1, SizeAssumption
    <3> QED BY <1>1, <3>1, <3>2, <3>3, <3>4
  <2>3. CASE Close(t) \/ RemoveCut(t) \/ Fail(t)
    BY <1>1, <2>3 DEF Close, RemoveCut, Fail, fs, Goto, BaseInv, TypeOK
  <2>4. CASE Open(t)
    <3>1. \A u \in Thread : tpc'[u] # "cut"
      BY <2>4 DEF BaseInv, TypeOK, Locked, Open, Unlock, Goto
    <3> QED BY <1>1, <2>4, <3>1 DEF Open
  <2>5. CASE Write(t)
    <3>1. UNCHANGED <<file, early>> /\ \A u \in Thread : tpc'[u] = "cut" => tpc[u] = "cut"
      BY <2>5 DEF Write, Goto, BaseInv, TypeOK
    <3>2. ASSUME file # 0 PROVE Len(disk[file]) \in Nat /\ Len(disk'[file]) >= Len(disk[file])
                                /\ Len(disk'[file]) \in Nat
      <4>1. file \in Inode /\ (id # 0 => id \in Inode) /\ disk \in [Inode -> Seq(1..MaxPrints)]
        BY <3>2, SetupSizes DEF BaseInv, TypeOK, Inode
      <4>2. Len(disk[file]) \in Nat
        BY <4>1
      <4>3. CASE disk' = disk
        BY <4>2, <4>3
      <4>4. CASE id # 0 /\ disk' = [disk EXCEPT ![id] = Append(@, ent[t])]
        <5>1. ent[t] \in 1..MaxPrints
          BY <2>5, SetupSizes DEF BaseInv, TypeOK, Handed, Write
        <5>2. /\ Len(disk'[id]) = Len(disk[id]) + 1
              /\ \A g \in Inode \ {id} : disk'[g] = disk[g]
          BY <4>1, <4>4, <5>1, AppendTo
        <5> QED BY <4>1, <4>2, <5>2
      <4> QED BY <2>5, <4>3, <4>4 DEF Write
    <3>3. Limit \in Nat
      BY SizeAssumption
    <3> QED BY <1>1, <3>1, <3>2, <3>3
  <2> QED BY <1>6, <2>1, <2>2, <2>3, <2>4, <2>5 DEF Printing
<1> QED BY <1>2, <1>3, <1>4, <1>5, <1>6 DEF Next

(* Counting threads. *)
LEMMA Counting ==
    ASSUME NEW A \in SUBSET Thread, NEW B \in SUBSET Thread
    PROVE  /\ Cardinality(A) \in Nat /\ Cardinality(Thread) \in Nat
           /\ Cardinality(A) <= Cardinality(Thread)
           /\ A \subseteq B => Cardinality(A) <= Cardinality(B)
           /\ \A t \in Thread : A \subseteq B \cup {t} => Cardinality(A) <= Cardinality(B) + 1
           /\ \A t \in B : A \subseteq B \ {t} => Cardinality(A) + 1 <= Cardinality(B)
<1>1. IsFiniteSet(A) /\ IsFiniteSet(B) /\ Cardinality(A) <= Cardinality(Thread)
  BY ThreadAssumption, FS_Subset
<1>2. Cardinality(A) \in Nat /\ Cardinality(B) \in Nat /\ Cardinality(Thread) \in Nat
  BY <1>1, ThreadAssumption, FS_CardinalityType
<1>3. A \subseteq B => Cardinality(A) <= Cardinality(B)
  BY <1>1, FS_Subset
<1>4. ASSUME NEW t \in Thread, A \subseteq B \cup {t} PROVE Cardinality(A) <= Cardinality(B) + 1
  <2>1. /\ IsFiniteSet(B \cup {t})
        /\ Cardinality(B \cup {t}) = IF t \in B THEN Cardinality(B) ELSE Cardinality(B) + 1
    BY <1>1, FS_AddElement
  <2>2. Cardinality(A) <= Cardinality(B \cup {t})
    BY <1>4, <2>1, FS_Subset
  <2> QED BY <1>2, <2>1, <2>2
<1>5. ASSUME NEW t \in B, A \subseteq B \ {t} PROVE Cardinality(A) + 1 <= Cardinality(B)
  <2>1. IsFiniteSet(B \ {t}) /\ Cardinality(B \ {t}) = Cardinality(B) - 1
    BY <1>1, FS_RemoveElement
  <2>2. Cardinality(A) <= Cardinality(B \ {t})
    BY <1>5, <2>1, FS_Subset
  <2> QED BY <1>2, <2>1, <2>2
<1> QED BY <1>1, <1>2, <1>3, <1>4, <1>5
(* What the steps below need of the state they start from. *)
LEMMA OverFacts ==
    ASSUME BaseInv
    PROVE  /\ LetThrough \subseteq Thread /\ Cardinality(LetThrough) \in Nat
           /\ Cardinality(LetThrough) <= Cardinality(Thread)
           /\ MaxLen \in Nat /\ MaxLen = Limit - 1 + Cardinality(Thread) /\ Limit \in Nat \ {0}
           /\ Cardinality(Thread) \in Nat /\ MaxInode \in Nat
           /\ disk \in [Inode -> Seq(1..MaxPrints)]
           /\ \A f \in Inode : Len(disk[f]) \in Nat
           /\ Credit \in {0, 1} /\ Target \in 0..MaxInode /\ (Target # 0 => Target \in Inode)
<1>1. LetThrough \subseteq Thread
  BY DEF LetThrough
<1>2. /\ Cardinality(LetThrough) \in Nat /\ Cardinality(LetThrough) <= Cardinality(Thread)
      /\ Cardinality(Thread) \in Nat
  BY <1>1, Counting
<1>3. MaxLen \in Nat /\ MaxLen = Limit - 1 + Cardinality(Thread) /\ Limit \in Nat \ {0}
  BY <1>2, SizeAssumption DEF MaxLen
<1>4. disk \in [Inode -> Seq(1..MaxPrints)] /\ MaxInode \in Nat
  BY SetupSizes DEF BaseInv, TypeOK
<1>5. \A f \in Inode : Len(disk[f]) \in Nat
  BY <1>4
<1>6. Target \in 0..MaxInode
  BY DEF BaseInv, TypeOK, Target
<1>7. Target # 0 => Target \in Inode
  BY <1>4, <1>6 DEF Inode
<1> QED BY <1>1, <1>2, <1>3, <1>4, <1>5, <1>6, <1>7 DEF Credit

(* A step that writes nothing keeps OverInv if it lets nobody through to   *)
(* the same file, or starts a file that is still empty.                    *)
LEMMA OverKept ==
    ASSUME BaseInv, BaseInv', OverInv, setup' = setup, disk' = disk, Faults = {},
           file' # 0 => ino' = file' /\ id' \in {0, file'},
           file' = 0 /\ id' # 0 => \E t \in Thread : tpc'[t] = "close",
           Target' # 0 =>
               \/ Target' = Target
                  /\ Cardinality(LetThrough') + Credit' <= Cardinality(LetThrough) + Credit
               \/ Len(disk[Target']) < Limit /\ Credit' = 0
    PROVE  OverInv'
<1>1. MaxLen' = MaxLen /\ Inode' = Inode /\ Faults' = Faults
  BY DEF MaxLen, Inode, MaxInode, Faults
<1>2. /\ Cardinality(LetThrough) \in Nat /\ Credit \in {0, 1} /\ MaxLen \in Nat
      /\ MaxLen = Limit - 1 + Cardinality(Thread) /\ Limit \in Nat /\ Cardinality(Thread) \in Nat
      /\ \A f \in Inode : Len(disk[f]) \in Nat
  BY OverFacts
<1>3. LetThrough' \in SUBSET Thread /\ Credit' \in {0, 1} /\ (Target' # 0 => Target' \in Inode)
  <2>1. Credit' \in {0, 1}
    BY DEF Credit
  <2>2. Target' # 0 => Target' \in Inode
    <3>1. Target' \in 0..MaxInode' /\ MaxInode' = MaxInode
      BY DEF BaseInv, TypeOK, Target, MaxInode
    <3>2. MaxInode \in Nat
      BY SetupSizes DEF BaseInv
    <3> QED BY <3>1, <3>2 DEF Inode
  <2>3. LetThrough' \subseteq Thread
    BY DEF LetThrough
  <2> QED BY <2>1, <2>2, <2>3
<1>4. Cardinality(LetThrough') \in Nat /\ Cardinality(LetThrough') <= Cardinality(Thread)
  BY <1>3, Counting
<1>5. ASSUME Target' # 0
      PROVE  Len(disk[Target']) + Cardinality(LetThrough') + Credit' <= MaxLen
  <2>1. PICK len \in Nat : len = Len(disk[Target'])
    BY <1>2, <1>3, <1>5
  <2>2. CASE Target' = Target
             /\ Cardinality(LetThrough') + Credit' <= Cardinality(LetThrough) + Credit
    <3>1. len + Cardinality(LetThrough) + Credit <= MaxLen
      BY <1>5, <2>1, <2>2 DEF OverInv
    <3> QED BY <1>2, <1>3, <1>4, <2>1, <2>2, <3>1
  <2>3. CASE Len(disk[Target']) < Limit /\ Credit' = 0
    BY <1>2, <1>4, <2>1, <2>3
  <2> QED BY <1>5, <2>2, <2>3
<1>6. \A f \in Inode : Len(disk[f]) <= MaxLen
  BY DEF OverInv
<1> QED BY <1>1, <1>5, <1>6 DEF OverInv
(* An entry written was allowed for. *)
LEMMA OverWrite ==
    ASSUME BaseInv, BaseInv', OverInv, Faults = {}, NEW t \in Thread, Write(t)
    PROVE  OverInv'
<1>1. /\ setup' = setup /\ MaxLen' = MaxLen /\ Inode' = Inode /\ Faults' = Faults
      /\ UNCHANGED <<file, id, ino, lock>>
  BY DEF Write, MaxLen, Inode, MaxInode, Faults
<1>2. Target' = Target /\ Credit' = Credit
  BY <1>1 DEF Target, Credit
<1>3. \A u \in Thread : u # t => tpc'[u] = tpc[u]
  BY DEF Write, Goto, BaseInv, TypeOK
<1>4. \A u \in Thread : tpc[u] = "close" => tpc'[u] = "close"
  BY <1>3 DEF Write
<1>5. /\ file' # 0 => ino' = file' /\ id' \in {0, file'}
      /\ file' = 0 /\ id' # 0 => \E u \in Thread : tpc'[u] = "close"
  BY <1>1, <1>4 DEF OverInv
<1>6. t \in LetThrough /\ LetThrough \in SUBSET Thread /\ LetThrough' \in SUBSET Thread
  BY DEF LetThrough, Write
<1>7. CASE disk' = disk /\ tpc' = [tpc EXCEPT ![t] = "fail"]
  <2>1. LetThrough' \subseteq LetThrough
    BY <1>1, <1>3, <1>6 DEF LetThrough
  <2>2. /\ Cardinality(LetThrough') <= Cardinality(LetThrough)
        /\ Cardinality(LetThrough') \in Nat /\ Cardinality(LetThrough) \in Nat
    BY <1>6, <2>1, Counting
  <2>3. Cardinality(LetThrough') + Credit' <= Cardinality(LetThrough) + Credit
    BY <1>2, <2>2 DEF Credit
  <2> QED BY <1>1, <1>2, <1>5, <1>7, <2>3, OverKept
<1>8. CASE id # 0 /\ disk' = [disk EXCEPT ![id] = Append(@, ent[t])]
           /\ tpc' = [tpc EXCEPT ![t] = "idle"]
  <2>1. Target = id /\ id \in Inode
    <3>1. Target = id
      BY <1>8 DEF OverInv, Target
    <3> QED BY <1>8, <3>1, OverFacts
  <2>2. ent[t] \in 1..MaxPrints
    BY SetupSizes DEF BaseInv, TypeOK, Handed, Write
  <2>3. /\ Len(disk'[id]) = Len(disk[id]) + 1
        /\ \A g \in Inode \ {id} : disk'[g] = disk[g]
    BY <1>8, <2>1, <2>2, AppendTo, OverFacts
  <2>4. LetThrough' \subseteq LetThrough \ {t}
    <3>1. tpc'[t] = "idle"
      BY <1>8 DEF BaseInv, TypeOK
    <3> QED BY <1>1, <1>3, <3>1 DEF LetThrough
  <2>5. /\ Cardinality(LetThrough') + 1 <= Cardinality(LetThrough)
        /\ Cardinality(LetThrough') \in Nat /\ Cardinality(LetThrough) \in Nat
    BY <1>6, <2>4, Counting
  <2>6. Len(disk[id]) \in Nat /\ Credit \in {0, 1} /\ MaxLen \in Nat
    BY <2>1, OverFacts
  <2>7. Len(disk[id]) + Cardinality(LetThrough) + Credit <= MaxLen
    BY <1>8, <2>1 DEF OverInv
  <2>8. Len(disk'[id]) + Cardinality(LetThrough') + Credit <= MaxLen /\ Len(disk'[id]) <= MaxLen
    BY <2>3, <2>5, <2>6, <2>7
  <2>9. \A f \in Inode : Len(disk'[f]) <= MaxLen
    BY <2>3, <2>8 DEF OverInv
  <2>10. Target' = id
    BY <1>2, <2>1
  <2> QED BY <1>1, <1>2, <1>5, <2>8, <2>9, <2>10 DEF OverInv
<1> QED BY <1>7, <1>8 DEF Write, Goto

(* OverInv is inductive: whoever is let through without a look at the size *)
(* has the credit of a closed handle.                                      *)
LEMMA OverStep == BaseInv /\ BaseInv' /\ OverInv /\ [Next]_vars => OverInv'
<1> SUFFICES ASSUME BaseInv, BaseInv', OverInv, [Next]_vars PROVE OverInv'
  OBVIOUS
<1>1. setup' = setup /\ Faults' = Faults
  BY SetupFixed
<1> SUFFICES ASSUME Faults = {} PROVE OverInv'
  BY <1>1 DEF OverInv
<1>2. /\ file # 0 => ino = file /\ id \in {0, file}
      /\ file = 0 /\ id # 0 => \E t \in Thread : tpc[t] = "close"
  BY DEF OverInv
<1>3. /\ LetThrough \in SUBSET Thread /\ Cardinality(LetThrough) \in Nat
      /\ Credit \in {0, 1} /\ Limit \in Nat \ {0}
  BY OverFacts
<1>4. LetThrough' \in SUBSET Thread /\ Credit' \in {0, 1} /\ Cardinality(LetThrough') \in Nat
  <2>1. LetThrough' \in SUBSET Thread /\ Credit' \in {0, 1}
    BY DEF LetThrough, Credit
  <2> QED BY <2>1, Counting
<1>5. ASSUME LetThrough' \subseteq LetThrough, Credit' <= Credit
      PROVE  Cardinality(LetThrough') + Credit' <= Cardinality(LetThrough) + Credit
  <2>1. Cardinality(LetThrough') <= Cardinality(LetThrough)
    BY <1>3, <1>4, <1>5, Counting
  <2> QED BY <1>3, <1>4, <1>5, <2>1
<1>6. Limit > 0 /\ Limit \in Nat
  BY <1>3
<1>7. CASE UNCHANGED vars \/ Quiet
  <2>1. UNCHANGED <<file, id, ino, disk, tpc, lock>>
    BY <1>7 DEF Quiet, vars, fs, thr
  <2>2. Target' = Target /\ Credit' = Credit /\ LetThrough' = LetThrough
    BY <2>1 DEF Target, Credit, LetThrough
  <2> QED BY <1>1, <1>2, <1>3, <2>1, <2>2, OverKept
<1>8. CASE getAppender
  <2>1. file' = inodes + 1 /\ id' = file' /\ ino' = file' /\ disk' = disk /\ file' # 0
        /\ inodes \in Nat /\ inodes + 1 \in Inode
    <3>1. inodes \in Nat /\ inodes + 1 \in 1..MaxInode
      BY <1>8, SetupSizes DEF getAppender, BaseInv, TypeOK, Started
    <3> QED BY <1>8, <3>1 DEF getAppender, Inode
  <2>2. disk[inodes + 1] = <<>>
    BY <2>1 DEF BaseInv, Started
  <2>3. Target' = inodes + 1 /\ Credit' = 0
    BY <2>1 DEF Target, Credit
  <2>4. Len(disk[Target']) < Limit
    BY <1>6, <2>2, <2>3
  <2> QED BY <1>1, <2>1, <2>3, <2>4, OverKept
<1>9. CASE MoveFile
  BY <1>9 DEF MoveFile
<1>10. ASSUME NEW t \in Thread, print(t) PROVE OverInv'
  <2>1. UNCHANGED <<file, id, ino, disk, lock>> /\ tpc' = [tpc EXCEPT ![t] = "sync"] /\ tpc[t] = "idle"
    BY <1>10 DEF print, fs, Goto
  <2>2. \A u \in Thread : u # t => tpc'[u] = tpc[u]
    BY <2>1 DEF BaseInv, TypeOK
  <2>3. tpc'[t] = "sync"
    BY <2>1 DEF BaseInv, TypeOK
  <2>4. Target' = Target /\ Credit' = Credit /\ LetThrough' \subseteq LetThrough
    BY <2>1, <2>2, <2>3 DEF Target, Credit, LetThrough
  <2>5. file' = 0 /\ id' # 0 => \E u \in Thread : tpc'[u] = "close"
    BY <1>2, <2>1, <2>2
  <2> QED BY <1>1, <1>2, <1>3, <1>5, <2>1, <2>4, <2>5, OverKept
<1>11. ASSUME NEW t \in Thread, Sync(t) PROVE OverInv'
  <2>1. UNCHANGED <<file, id, ino, disk>> /\ lock = Free
    BY <1>11 DEF Sync, fs
  <2>2. \A u \in Thread : u # t => tpc'[u] = tpc[u]
    BY <1>11 DEF Sync, Goto, BaseInv, TypeOK
  <2>3. file = 0 => id = 0
    BY <1>2, <2>1, FreeAssumption DEF BaseInv, Locked
  <2>4. Target' = Target
    BY <2>1 DEF Target
  <2>5. CASE Stale /\ lock' = t
    <3>1. id = 0 /\ Credit = 1 /\ Credit' = 0
      BY <1>2, <2>1, <2>3, <2>5, FreeAssumption DEF Stale, Credit
    <3>2. LetThrough' \subseteq LetThrough \cup {t}
      BY <2>1, <2>2 DEF LetThrough
    <3>3. Cardinality(LetThrough') <= Cardinality(LetThrough) + 1
      BY <1>3, <1>4, <3>2, Counting
    <3>4. Cardinality(LetThrough') + Credit' <= Cardinality(LetThrough) + Credit
      BY <1>3, <1>4, <3>1, <3>3
    <3> QED BY <1>1, <1>2, <2>1, <2>3, <2>4, <3>4, OverKept
  <2>6. CASE ~Stale /\ tpc' = [tpc EXCEPT ![t] = "cut"] /\ lock' = t
    <3>1. Credit' = 0 /\ tpc'[t] = "cut"
      BY <2>6, FreeAssumption DEF Credit, BaseInv, TypeOK
    <3>2. LetThrough' \subseteq LetThrough
      BY <2>1, <2>2, <3>1 DEF LetThrough
    <3>3. Cardinality(LetThrough') + Credit' <= Cardinality(LetThrough) + Credit
      BY <1>3, <1>5, <3>1, <3>2
    <3> QED BY <1>1, <1>2, <2>1, <2>3, <2>4, <3>3, OverKept
  <2>7. CASE ~Stale /\ Len(disk[file]) < Limit
    <3>1. file # 0 /\ id # 0
      BY <2>7 DEF Stale
    <3>2. Credit' = 0 /\ Target' = file
      BY <2>1, <2>4, <3>1 DEF Credit, Target
    <3>3. Len(disk[Target']) < Limit
      BY <2>7, <3>2
    <3> QED BY <1>1, <1>2, <2>1, <3>1, <3>2, <3>3, OverKept
  <2> QED BY <1>11, <2>5, <2>6, <2>7 DEF Sync, Goto
<1>12. ASSUME NEW t \in Thread, Cut(t) PROVE OverInv'
  <2>1. PICK name \in {0, file} :
               /\ name = file \/ "rename" \in Faults
               /\ file' = IF name = 0 THEN file ELSE 0
               /\ tpc' = [tpc EXCEPT ![t] = "close"]
               /\ UNCHANGED <<setup, splite, id, ino, inodes, disk, lock, ent, prints, ok, failed>>
    BY <1>12, CutFacts
  <2>2. file # 0 /\ file' = 0
    BY <1>12, <2>1 DEF BaseInv, Started, Cut
  <2>3. tpc'[t] = "close" /\ \A u \in Thread : u # t => tpc'[u] = tpc[u]
    BY <2>1 DEF BaseInv, TypeOK
  <2>4. LetThrough' \subseteq LetThrough
    BY <2>2, <2>3 DEF LetThrough
  <2>5. Credit' <= Credit
    BY <2>1 DEF Credit
  <2>6. Target' # 0 => Target' = Target
    BY <1>2, <2>1, <2>2 DEF Target
  <2> QED BY <1>1, <1>5, <2>1, <2>2, <2>3, <2>4, <2>5, <2>6, OverKept
<1>13. ASSUME NEW t \in Thread, Close(t) PROVE OverInv'
  <2>1. /\ UNCHANGED <<file, ino, disk, lock>> /\ id' = 0 /\ tpc' = [tpc EXCEPT ![t] = "open"]
        /\ tpc[t] = "close" /\ lock = t
    BY <1>13 DEF Close, fs, Goto, BaseInv, Locked
  <2>2. tpc'[t] = "open" /\ \A u \in Thread : u # t => tpc'[u] = tpc[u]
    BY <2>1 DEF BaseInv, TypeOK
  <2>3. LetThrough' \subseteq LetThrough
    BY <2>1, <2>2 DEF LetThrough
  <2>4. Credit' = 0
    BY <2>1, FreeAssumption DEF Credit
  <2>5. Target' # 0 => Target' = Target
    BY <2>1 DEF Target
  <2> QED BY <1>1, <1>2, <1>3, <1>5, <2>1, <2>3, <2>4, <2>5, OverKept
<1>14. ASSUME NEW t \in Thread, Open(t) PROVE OverInv'
  <2>1. disk' = disk /\ lock' = Free /\ tpc[t] = "open" /\ lock = t
    BY <1>14 DEF Open, Unlock, BaseInv, Locked
  <2>2. \A u \in Thread : u # t => tpc'[u] = tpc[u]
    BY <1>14 DEF Open, Unlock, Goto, BaseInv, TypeOK
  <2>3. file = 0 => id = 0
    BY <1>2, <2>1 DEF BaseInv, Locked
  <2>4. CASE file # 0 /\ file' = file /\ id' = file' /\ ino' = file'
    <3>1. LetThrough' \subseteq LetThrough
      BY <2>1, <2>2, <2>4 DEF LetThrough
    <3>2. Credit' = 0 /\ Target' = Target
      BY <2>4 DEF Credit, Target
    <3> QED BY <1>1, <1>3, <1>5, <2>1, <2>4, <3>1, <3>2, OverKept
  <2>5. CASE file = 0 /\ inodes < MaxInode /\ file' = inodes + 1 /\ id' = file' /\ ino' = file'
    <3>1. inodes + 1 \in Inode /\ inodes + 1 > inodes /\ file' # 0
      <4>1. MaxInode \in Nat /\ inodes \in 0..MaxInode
        BY SetupSizes DEF BaseInv, TypeOK
      <4> QED BY <2>5, <4>1 DEF Inode
    <3>2. disk[inodes + 1] = <<>>
      BY <3>1 DEF BaseInv, Started
    <3>3. Credit' = 0 /\ Target' = inodes + 1
      BY <2>5, <3>1 DEF Credit, Target
    <3>4. Len(disk[Target']) < Limit
      BY <1>6, <3>2, <3>3
    <3> QED BY <1>1, <2>1, <2>5, <3>1, <3>3, <3>4, OverKept
  <2>6. CASE file = 0 /\ UNCHANGED <<id, ino, file>>
    <3>1. Target' = 0 /\ file' = 0 /\ id' = 0
      BY <2>3, <2>6 DEF Target
    <3> QED BY <1>1, <2>1, <3>1, OverKept
  <2> QED BY <1>14, <2>4, <2>5, <2>6 DEF Open
<1>15. ASSUME NEW t \in Thread, RemoveCut(t) PROVE OverInv'
  <2>1. /\ UNCHANGED <<file, id, ino, disk, lock>> /\ tpc[t] \in {"remove", "removeFail"}
        /\ tpc' = [tpc EXCEPT ![t] = IF tpc[t] = "remove" THEN "write" ELSE "fail"]
    BY <1>15 DEF RemoveCut, Goto
  <2>2. tpc'[t] \in {"write", "fail"} /\ \A u \in Thread : u # t => tpc'[u] = tpc[u]
    BY <2>1 DEF BaseInv, TypeOK
  <2>3. Target' = Target /\ Credit' = Credit /\ LetThrough' \subseteq LetThrough
    BY <2>1, <2>2 DEF Target, Credit, LetThrough
  <2>4. file' = 0 /\ id' # 0 => \E u \in Thread : tpc'[u] = "close"
    BY <1>2, <2>1, <2>2
  <2> QED BY <1>1, <1>2, <1>3, <1>5, <2>1, <2>3, <2>4, OverKept
<1>16. ASSUME NEW t \in Thread, Write(t) PROVE OverInv'
  BY <1>16, OverWrite
<1>17. ASSUME NEW t \in Thread, Fail(t) PROVE OverInv'
  <2>1. /\ UNCHANGED <<file, ino, disk, lock>> /\ id' = 0 /\ tpc' = [tpc EXCEPT ![t] = "idle"]
        /\ tpc[t] = "fail"
    BY <1>17 DEF Fail, fs, Goto
  <2>2. tpc'[t] = "idle" /\ \A u \in Thread : u # t => tpc'[u] = tpc[u]
    BY <2>1 DEF BaseInv, TypeOK
  <2>3. LetThrough' \subseteq LetThrough \ {t} /\ t \in LetThrough
    BY <2>1, <2>2 DEF LetThrough
  <2>4. Cardinality(LetThrough') + 1 <= Cardinality(LetThrough)
    BY <1>3, <1>4, <2>3, Counting
  <2>5. Cardinality(LetThrough') + Credit' <= Cardinality(LetThrough) + Credit
    BY <1>3, <1>4, <2>4
  <2>6. Target' # 0 => Target' = Target
    BY <2>1 DEF Target
  <2> QED BY <1>1, <1>2, <2>1, <2>5, <2>6, OverKept
<1> QED BY <1>7, <1>8, <1>9, <1>10, <1>11, <1>12, <1>13, <1>14, <1>15, <1>16, <1>17
        DEF Next, Printing

(* For any number of threads that write outside the lock: a file cut by    *)
(* size is never cut before it is full, and without faults it outgrows the *)
(* limit by no more than the entries of the other threads.  The invariant  *)
(* counts the threads let through, and the one more that may pass without  *)
(* a look at the size after a lost race has closed the handle.             *)
THEOREM AlwaysCutInTime == Spec => []CutInTime
<1>1. Init => CutInv
  <2> SUFFICES ASSUME Init PROVE CutInv
    OBVIOUS
  <2>1. FullAtCut
    BY DEF Init, FullAtCut
  <2>2. MaxLen \in Nat
    BY BaseInit, OverFacts
  <2>3. \A f \in Inode : Len(disk[f]) = 0
    BY DEF Init
  <2>4. Target = 0 /\ file = 0 /\ id = 0
    BY DEF Init, Target
  <2>5. \A f \in Inode : Len(disk[f]) <= MaxLen
    BY <2>2, <2>3
  <2>6. OverInv
    BY <2>4, <2>5 DEF OverInv
  <2> QED BY <2>1, <2>6 DEF CutInv
<1>2. BaseInv /\ CutInv /\ [Next]_vars => (BaseInv /\ CutInv)'
  BY BaseStep, FullStep, OverStep DEF CutInv
<1>3. Init => BaseInv /\ CutInv
  BY <1>1, BaseInit
<1>4. CutInv => CutInTime
  BY DEF CutInv, FullAtCut, OverInv, CutInTime, CutOnce, Overshoot, MaxLen
<1> QED BY <1>2, <1>3, <1>4, PTL DEF Spec
=============================================================================
