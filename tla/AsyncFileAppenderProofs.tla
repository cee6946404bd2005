---------------------- MODULE AsyncFileAppenderProofs ----------------------
(***************************************************************************)
(* For every queue, batch, limit and set of failing calls: no entry that   *)
(* print() accepted is lost, repeated or reordered on its way through the  *)
(* queue, the writer's batch and the files, files are cut in time, the     *)
(* handle follows the log's name, and the destructor frees nothing the     *)
(* writer may still use.                                                   *)
(***************************************************************************)
EXTENDS AsyncFileAppender, TLAPS

USE SizesAssumption, KindsAssumption

\* The entries that left the pipeline, written or dropped, are 1..done.
done == pushed - Len(queue) - Len(batch)

\* Queue and batch hold the entries behind them, without a gap.
Shape ==
    /\ done >= 0
    /\ \A i \in 1..Len(queue) : queue[i] = pushed - i + 1
    /\ \A i \in 1..Len(batch) : batch[i] = done + i

Settled ==
    /\ Increasing(written)
    /\ ToSet(written) \cap lost = {}
    /\ ToSet(written) \cup lost = 1..done

\* The batch is there from pop_backs to erasedata, and before the drop no more.
Phases ==
    /\ batch # <<>> => wpc \in {"got", "sync", "write"}
    /\ wpc \in {"sync", "write"} => batch # <<>>
    /\ NoUseAfterDrop
    /\ owner = "construct" => wpc = "none" /\ inodes = 0

\* The handle and the inode numbers; each batch creates one file at most.
Handles ==
    /\ id # -1 => id = ino
    /\ id <= inodes /\ ino <= inodes /\ file <= inodes
    /\ inodes <= done + IF wpc = "write" THEN 2 ELSE 1
    /\ \A f \in Inode : f > inodes => disk[f] = <<>>

\* When renaming works, the log's name is free or the file in use is the one
\* that has it, and a file about to be written has been checked.
Names ==
    "rename" \notin Faults =>
        /\ id = -1 /\ owner # "gone" => file = 0
        /\ file \in {0, ino}
        /\ wpc = "write" => id # -1 /\ Len(disk[id]) < Limit

Stored == \A f \in Inode : ToSet(disk[f]) \subseteq ToSet(written)

(* The inductive invariant. *)
AInv ==
    /\ TypeOK /\ Shape /\ Settled /\ Phases /\ Handles /\ Names /\ Stored
    /\ OnDiskOnce /\ OnlyFaultsDrop /\ FileBounded
-----------------------------------------------------------------------------
(* Facts about sequences of entries. *)

(* The elements of a sequence. *)
LEMMA InToSet ==
    ASSUME NEW S, NEW s \in Seq(S)
    PROVE  /\ \A x : x \in ToSet(s) <=> \E i \in 1..Len(s) : x = s[i]
           /\ ToSet(s) \subseteq S
<1>1. DOMAIN s = 1..Len(s) /\ \A i \in 1..Len(s) : s[i] \in S
  OBVIOUS
<1>2. \A x : x \in ToSet(s) <=> \E i \in 1..Len(s) : x = s[i]
  BY <1>1 DEF ToSet
<1> QED BY <1>1, <1>2

(* A concatenation has the elements of both sequences. *)
LEMMA ToSetConcat ==
    ASSUME NEW S, NEW a \in Seq(S), NEW b \in Seq(S)
    PROVE  ToSet(a \o b) = ToSet(a) \cup ToSet(b)
<1> DEFINE c == a \o b
<1>1. c \in Seq(S) /\ Len(c) = Len(a) + Len(b)
  OBVIOUS
<1>2. \A i \in 1..Len(a) : c[i] = a[i]
  OBVIOUS
<1>3. \A i \in 1..Len(b) : c[Len(a) + i] = b[i] /\ Len(a) + i \in 1..Len(c)
  OBVIOUS
<1>4. \A i \in 1..Len(c) : i \in 1..Len(a) \/ (i - Len(a) \in 1..Len(b) /\ c[i] = b[i - Len(a)])
  OBVIOUS
<1>5. Len(a) \in Nat /\ Len(b) \in Nat /\ \A i \in 1..Len(a) : i \in 1..Len(c)
  OBVIOUS
<1> HIDE DEF c
<1>6. ASSUME NEW x PROVE x \in ToSet(c) => x \in ToSet(a) \cup ToSet(b)
  BY <1>1, <1>2, <1>4, InToSet
<1>7. ASSUME NEW x PROVE x \in ToSet(a) => x \in ToSet(c)
  BY <1>1, <1>2, <1>5, InToSet
<1>8. ASSUME NEW x, x \in ToSet(b) PROVE x \in ToSet(c)
  <2>1. PICK i \in 1..Len(b) : x = b[i]
    BY <1>8, InToSet
  <2>2. x = c[Len(a) + i] /\ Len(a) + i \in 1..Len(c)
    BY <1>3, <2>1
  <2> QED BY <1>1, <2>2, InToSet
<1>9. ToSet(c) = ToSet(a) \cup ToSet(b)
  BY <1>6, <1>7, <1>8
<1> QED BY <1>9 DEF c

(* Increasing sequences, the second above the first, one after the other. *)
LEMMA IncreasingConcat ==
    ASSUME NEW a \in Seq(Int), NEW b \in Seq(Int), NEW d \in Int,
           Increasing(a), Increasing(b),
           \A i \in 1..Len(a) : a[i] <= d, \A i \in 1..Len(b) : b[i] > d
    PROVE  Increasing(a \o b)
<1> DEFINE c == a \o b
<1>1. Len(a) \in Nat /\ Len(b) \in Nat /\ Len(c) = Len(a) + Len(b)
  OBVIOUS
<1>2. \A i \in 1..Len(a) : c[i] = a[i] /\ a[i] \in Int
  OBVIOUS
<1>3. \A i \in 1..Len(c) : i \notin 1..Len(a) =>
          i - Len(a) \in 1..Len(b) /\ c[i] = b[i - Len(a)] /\ b[i - Len(a)] \in Int
  OBVIOUS
<1> HIDE DEF c
<1>4. ASSUME NEW i \in 1..Len(c), NEW j \in 1..Len(c), i < j
      PROVE  c[i] < c[j]
  <2>1. CASE j \in 1..Len(a)
    <3>1. i \in 1..Len(a)
      BY <1>1, <1>4, <2>1
    <3> QED BY <1>2, <1>4, <2>1, <3>1 DEF Increasing
  <2>2. CASE i \in 1..Len(a) /\ j \notin 1..Len(a)
    <3>1. a[i] <= d /\ b[j - Len(a)] > d
      BY <1>3, <2>2
    <3> QED BY <1>2, <1>3, <2>2, <3>1
  <2>3. CASE i \notin 1..Len(a) /\ j \notin 1..Len(a)
    <3>1. i - Len(a) < j - Len(a)
      BY <1>1, <1>4
    <3> QED BY <1>3, <2>3, <3>1 DEF Increasing
  <2> QED BY <2>1, <2>2, <2>3
<1> QED BY <1>4 DEF Increasing, c

(* A run of consecutive numbers. *)
LEMMA RunOfEntries ==
    ASSUME NEW d \in Int, NEW s \in Seq(Int), \A i \in 1..Len(s) : s[i] = d + i
    PROVE  Increasing(s) /\ ToSet(s) = (d + 1)..(d + Len(s))
<1>1. Increasing(s)
  BY DEF Increasing
<1>2. ASSUME NEW x PROVE x \in ToSet(s) <=> x \in (d + 1)..(d + Len(s))
  <2>1. x \in ToSet(s) <=> \E i \in 1..Len(s) : x = s[i]
    BY InToSet
  <2>2. ASSUME x \in (d + 1)..(d + Len(s)) PROVE x \in ToSet(s)
    <3>1. x - d \in 1..Len(s) /\ s[x - d] = x
      BY <2>2
    <3> QED BY <2>1, <3>1
  <2>3. ASSUME x \in ToSet(s) PROVE x \in (d + 1)..(d + Len(s))
    BY <2>1, <2>3
  <2> QED BY <2>2, <2>3
<1> QED BY <1>1, <1>2
-----------------------------------------------------------------------------
(* What the files hold depends on the files and on what was written. *)
LEMMA FilesAlone ==
    ASSUME AInv, UNCHANGED <<disk, written, conf>>
    PROVE  Stored' /\ OnDiskOnce' /\ FileBounded'
<1>1. Stored'
  BY DEF AInv, Stored
<1>2. OnDiskOnce'
  BY DEF AInv, OnDiskOnce, splite
<1>3. FileBounded'
  BY DEF AInv, FileBounded, Faults
<1> QED BY <1>1, <1>2, <1>3

(* Steps of the destructor and of the writer's loop that move no entry and *)
(* touch no file.                                                          *)
LEMMA ControlStep ==
    ASSUME AInv,
           UNCHANGED <<queue, pushed, conf, batch, fvars, written, lost>>,
           run' \in {0, 1, -1}, stop' \in {0, 1}, isWorking' \in BOOLEAN, signaled' \in BOOLEAN,
           wpc' \in {"none", "top", "pop", "wait", "got", "sync", "exit"}, wpc # "write",
           owner' \in {"use", "stop", "stop2", "signal", "join", "drop", "hung", owner},
           batch # <<>> => wpc' \in {"got", "sync"}, wpc' = "sync" => batch # <<>>,
           owner' \in {"drop", "gone"} => wpc' \in {"none", "exit"},
           owner = "gone" => owner' = "gone",
           owner' = "construct" => wpc' = "none"
    PROVE  AInv'
<1>1. TypeOK'
  BY DEF AInv, TypeOK, fvars
<1>2. Shape' /\ Settled'
  BY DEF AInv, Shape, Settled, done
<1>3. Phases'
  BY DEF AInv, Phases, NoUseAfterDrop, fvars
<1>4. Handles'
  BY DEF AInv, Handles, done, fvars
<1>5. Names' /\ OnlyFaultsDrop'
  BY DEF AInv, Names, OnlyFaultsDrop, Faults, fvars
<1>6. Stored' /\ OnDiskOnce' /\ FileBounded'
  BY FilesAlone DEF fvars
<1> QED BY <1>1, <1>2, <1>3, <1>4, <1>5, <1>6 DEF AInv

(* print() appends the next number to the run of entries under way. *)
LEMMA PrintStep ==
    ASSUME AInv, print
    PROVE  AInv'
<1>0. /\ pushed \in Nat /\ MaxItems \in Nat /\ QueueSize \in Nat /\ queue \in Seq(1..MaxItems)
      /\ batch \in Seq(1..MaxItems) /\ Len(queue) <= QueueSize
  BY DEF AInv, TypeOK
<1>1. /\ UNCHANGED <<run, stop, isWorking, conf, wpc, batch, fvars, written, lost, owner>>
      /\ signaled' \in BOOLEAN /\ owner = "use"
  BY DEF print
<1>2. /\ pushed' \in 0..MaxItems /\ queue' \in Seq(1..MaxItems) /\ Len(queue') <= QueueSize
      /\ pushed' - Len(queue') = pushed - Len(queue)
      /\ \A i \in 1..Len(queue') : queue'[i] = pushed' - i + 1
  <2>1. CASE Len(queue) < QueueSize /\ pushed' = pushed + 1 /\ queue' = <<pushed + 1>> \o queue
    <3>1. pushed + 1 \in 1..MaxItems /\ \A i \in 1..Len(queue) : queue[i] = pushed - i + 1
      BY <1>0 DEF print, AInv, Shape
    <3>2. <<pushed + 1>> \in Seq(1..MaxItems) /\ Len(<<pushed + 1>>) = 1
      BY <3>1
    <3>3. queue' \in Seq(1..MaxItems) /\ Len(queue') = Len(queue) + 1
      BY <1>0, <2>1, <3>2
    <3>4. queue'[1] = pushed + 1 /\ \A i \in 2..(Len(queue) + 1) : queue'[i] = queue[i - 1]
      BY <1>0, <2>1, <3>2
    <3>5. ASSUME NEW i \in 1..Len(queue') PROVE queue'[i] = pushed' - i + 1
      <4>1. CASE i = 1
        BY <1>0, <2>1, <3>4, <4>1
      <4>2. CASE i # 1
        <5>1. i \in 2..(Len(queue) + 1) /\ i - 1 \in 1..Len(queue)
          BY <1>0, <3>3, <4>2
        <5>2. queue'[i] = pushed - (i - 1) + 1
          BY <3>1, <3>4, <5>1
        <5> QED BY <1>0, <2>1, <5>1, <5>2
      <4> QED BY <4>1, <4>2
    <3> QED BY <1>0, <2>1, <3>1, <3>3, <3>5
  <2>2. CASE Len(queue) = QueueSize /\ UNCHANGED <<pushed, queue>>
    BY <1>0, <2>2 DEF AInv, TypeOK, Shape
  <2> QED BY <2>1, <2>2 DEF print
<1>3. done' = done
  BY <1>0, <1>1, <1>2 DEF done
<1>4. TypeOK'
  BY <1>1, <1>2 DEF AInv, TypeOK, fvars
<1>5. Shape'
  BY <1>1, <1>2, <1>3 DEF AInv, Shape
<1>6. Settled' /\ Handles'
  BY <1>1, <1>3 DEF AInv, Settled, Handles, fvars
<1>7. Stored' /\ OnDiskOnce' /\ FileBounded'
  BY <1>1, FilesAlone DEF fvars
<1>8. Phases' /\ Names' /\ OnlyFaultsDrop'
  BY <1>1 DEF AInv, Faults, fvars, Phases, NoUseAfterDrop, Names, OnlyFaultsDrop
<1> QED BY <1>4, <1>5, <1>6, <1>7, <1>8 DEF AInv

(* pop_backs moves the oldest entries from the queue to the batch, oldest  *)
(* first.                                                                  *)
LEMMA TakeStep ==
    ASSUME AInv, wpc \in {"pop", "wait"}, Take,
           UNCHANGED <<run, stop, isWorking, pushed, conf, fvars, written, lost, owner>>
    PROVE  AInv'
<1> DEFINE n == IF Len(queue) < BatchSize THEN Len(queue) ELSE BatchSize
           last == SubSeq(queue, Len(queue) - n + 1, Len(queue))
<1>0. /\ queue \in Seq(1..MaxItems) /\ Len(queue) <= QueueSize /\ QueueSize \in Nat /\ BatchSize \in Nat
      /\ pushed \in Nat /\ MaxItems \in Nat
      /\ \A i \in 1..Len(queue) : queue[i] = pushed - i + 1
  BY DEF AInv, TypeOK, Shape
<1>1. batch = <<>> /\ Len(batch) = 0
  BY DEF AInv, Phases
<1>2. n \in 0..Len(queue) /\ n <= BatchSize
  BY <1>0
<1>3. batch' = Reverse(last) /\ queue' = SubSeq(queue, 1, Len(queue) - n) /\ wpc' = "got" /\ signaled' = FALSE
  BY DEF Take
<1> HIDE DEF n
<1>4. /\ last \in Seq(1..MaxItems) /\ Len(last) = n
      /\ \A i \in 1..n : last[i] = queue[Len(queue) - n + i]
  BY <1>0, <1>2
<1> HIDE DEF last
<1>5. /\ queue' \in Seq(1..MaxItems) /\ Len(queue') = Len(queue) - n
      /\ \A i \in 1..Len(queue') : queue'[i] = pushed - i + 1
  <2> DEFINE m == Len(queue) - n
  <2>1. m \in 0..Len(queue) /\ queue' = SubSeq(queue, 1, m)
    BY <1>0, <1>2, <1>3
  <2> HIDE DEF m
  <2>2. /\ queue' \in Seq(1..MaxItems) /\ Len(queue') = m
        /\ \A i \in 1..m : queue'[i] = queue[i] /\ i \in 1..Len(queue)
    BY <1>0, <2>1
  <2> QED BY <1>0, <2>2 DEF m
<1>6. /\ batch' \in Seq(1..MaxItems) /\ Len(batch') = n
      /\ \A i \in 1..n : batch'[i] = pushed - Len(queue) + i
  <2>1. batch' = [i \in 1..n |-> last[(n - i) + 1]]
    BY <1>3, <1>4 DEF Reverse
  <2>2. ASSUME NEW i \in 1..n
        PROVE  last[(n - i) + 1] = pushed - Len(queue) + i /\ last[(n - i) + 1] \in 1..MaxItems
    <3>1. (n - i) + 1 \in 1..n /\ Len(queue) - n + ((n - i) + 1) \in 1..Len(queue)
      BY <1>0, <1>2
    <3>2. last[(n - i) + 1] = pushed - (Len(queue) - n + ((n - i) + 1)) + 1
      BY <1>0, <1>4, <3>1
    <3>3. Len(queue) \in Nat /\ n \in Nat /\ i \in Nat
      BY <1>0, <1>2
    <3>4. last[(n - i) + 1] = pushed - Len(queue) + i
      BY <1>0, <3>2, <3>3
    <3>5. last[(n - i) + 1] \in 1..MaxItems
      BY <1>4, <3>1
    <3> QED BY <3>4, <3>5
  <2>3. n \in Nat
    BY <1>0, <1>2
  <2> QED BY <2>1, <2>2, <2>3
<1>7. done' = done /\ done = pushed - Len(queue)
  BY <1>0, <1>1, <1>2, <1>5, <1>6 DEF done
<1>8. TypeOK'
  <2>1. Len(queue') <= QueueSize /\ Len(batch') <= BatchSize
    BY <1>0, <1>2, <1>5, <1>6
  <2> QED BY <1>3, <1>5, <1>6, <2>1 DEF AInv, TypeOK, fvars
<1>9. Shape'
  BY <1>0, <1>5, <1>6, <1>7 DEF AInv, Shape
<1>10. Settled' /\ Handles'
  BY <1>3, <1>7 DEF AInv, Settled, Handles, fvars
<1>11. Phases'
  BY <1>1, <1>3 DEF AInv, Phases, NoUseAfterDrop
<1>12. Stored' /\ OnDiskOnce' /\ FileBounded'
  BY FilesAlone DEF fvars
<1>13. Names' /\ OnlyFaultsDrop'
  BY <1>3 DEF AInv, Faults, fvars, Names, OnlyFaultsDrop
<1> QED BY <1>8, <1>9, <1>10, <1>11, <1>12, <1>13 DEF AInv

(* Deleting the file cut off, as a COM_TRUNCT device does, leaves the other*)
(* files as they are.                                                      *)
LEMMA TruncStep ==
    ASSUME AInv, UNCHANGED <<written, conf>>, NEW g \in Inode, splite = "COM_TRUNCT",
           disk' = [disk EXCEPT ![g] = <<>>]
    PROVE  Stored' /\ OnDiskOnce' /\ FileBounded'
<1>0. disk \in [Inode -> Seq(1..MaxItems)] /\ splite' = splite /\ Faults' = Faults
  BY DEF AInv, TypeOK, splite, Faults
<1>1. \A f \in Inode : disk'[f] = IF f = g THEN <<>> ELSE disk[f]
  BY <1>0
<1>2. ToSet(<<>>) = {} /\ Increasing(<<>>) /\ Len(<<>>) = 0
  BY DEF ToSet, Increasing
<1>3. \A f \in Inode : ToSet(disk'[f]) \subseteq ToSet(disk[f])
  BY <1>1, <1>2
<1>4. Stored'
  BY <1>3 DEF AInv, Stored
<1>5. OnDiskOnce'
  <2>1. \A f \in Inode : Increasing(disk'[f])
    BY <1>1, <1>2 DEF AInv, OnDiskOnce
  <2>2. ASSUME NEW f \in Inode, NEW h \in Inode, f # h
        PROVE  ToSet(disk'[f]) \cap ToSet(disk'[h]) = {}
    <3>1. ToSet(disk[f]) \cap ToSet(disk[h]) = {}
      BY <2>2 DEF AInv, OnDiskOnce
    <3>2. ToSet(disk'[f]) \subseteq ToSet(disk[f]) /\ ToSet(disk'[h]) \subseteq ToSet(disk[h])
      BY <1>3
    <3> QED BY <3>1, <3>2
  <2> QED BY <1>0, <2>1, <2>2 DEF OnDiskOnce
<1>6. FileBounded'
  <2>1. 0 < Limit + BatchSize
    OBVIOUS
  <2> QED BY <1>0, <1>1, <1>2, <2>1 DEF AInv, FileBounded
<1> QED BY <1>4, <1>5, <1>6

(* What syncid() may do to the files. *)
LEMMA SyncidFiles ==
    ASSUME AInv, NEW ok \in BOOLEAN, syncid(ok), UNCHANGED <<written, conf>>
    PROVE  /\ Stored' /\ OnDiskOnce' /\ FileBounded'
           /\ disk' \in [Inode -> Seq(1..MaxItems)]
           /\ \A f \in Inode : disk[f] = <<>> => disk'[f] = <<>>
<1>0. disk \in [Inode -> Seq(1..MaxItems)] /\ <<>> \in Seq(1..MaxItems)
  BY DEF AInv, TypeOK
<1>1. \/ disk' = disk
      \/ file \in Inode /\ splite = "COM_TRUNCT" /\ disk' = [disk EXCEPT ![file] = <<>>]
  <2>1. CASE id # -1 /\ file = ino
    <3>1. file \in Inode
      BY <2>1 DEF AInv, TypeOK, Handles
    <3>2. disk' = disk \/ \E name \in save_backup :
             disk' = IF splite = "COM_TRUNCT" /\ name = 0 THEN [disk EXCEPT ![file] = <<>>] ELSE disk
      BY <2>1 DEF syncid, fvars
    <3> QED BY <3>1, <3>2
  <2> QED BY <2>1 DEF syncid
<1>2. CASE disk' = disk
  BY <1>0, <1>2, FilesAlone
<1>3. CASE file \in Inode /\ splite = "COM_TRUNCT" /\ disk' = [disk EXCEPT ![file] = <<>>]
  <2>1. Stored' /\ OnDiskOnce' /\ FileBounded'
    BY <1>3, TruncStep
  <2> QED BY <1>0, <1>3, <2>1
<1> QED BY <1>1, <1>2, <1>3

(* After syncid() succeeds the handle is that of the file with the log's   *)
(* name, and unless renaming failed that file is below its limit.          *)
LEMMA SyncidOk ==
    ASSUME AInv, syncid(TRUE), owner # "gone", inodes < MaxInode, UNCHANGED <<written, conf>>
    PROVE  /\ id' = file' /\ ino' = file' /\ file' \in Inode /\ file' <= inodes'
           /\ inodes' \in {inodes, inodes + 1}
           /\ run' \in {run, 1}
           /\ \A f \in Inode : f > inodes' => disk'[f] = <<>>
           /\ "rename" \notin Faults => Len(disk'[id']) < Limit
<1>0. /\ id \in Inode \cup {-1} /\ ino \in Inode \cup {0} /\ file \in Inode \cup {0} /\ inodes \in Nat
      /\ MaxInode \in Nat /\ Inode = 1..MaxInode /\ (id # -1 => id = ino) /\ file <= inodes
      /\ \A f \in Inode : f > inodes => disk[f] = <<>>
  BY DEF AInv, TypeOK, Handles, Inode
<1>1. "rename" \notin Faults => (id = -1 => file = 0) /\ file \in {0, ino}
  BY DEF AInv, Names
<1>2. \A f \in Inode : disk[f] = <<>> => disk'[f] = <<>>
  BY SyncidFiles
<1>3. ASSUME NEW name \in {0, file}, OpenOn(name)
      PROVE  /\ id' = file' /\ ino' = file' /\ file' \in Inode /\ file' <= inodes'
             /\ inodes' \in {inodes, inodes + 1} /\ run' = 1
             /\ \A f \in Inode : f > inodes' => disk'[f] = <<>>
             /\ name = 0 => Len(disk'[id']) < Limit
  <2>1. /\ inodes' = (IF name = 0 THEN inodes + 1 ELSE inodes)
        /\ file' = (IF name = 0 THEN inodes + 1 ELSE name)
        /\ id' = file' /\ ino' = file' /\ run' = 1
    BY <1>3 DEF OpenOn
  <2>2. file' \in Inode /\ file' <= inodes' /\ inodes' >= inodes
    BY <1>0, <2>1
  <2>3. \A f \in Inode : f > inodes' => disk'[f] = <<>>
    BY <1>0, <1>2, <2>1
  <2>4. ASSUME name = 0 PROVE Len(disk'[id']) < Limit
    <3>1. disk'[id'] = <<>>
      BY <1>0, <1>2, <2>1, <2>2, <2>4
    <3> QED BY <3>1
  <2> QED BY <2>1, <2>2, <2>3, <2>4
<1>4. CASE id = -1 /\ open(file, TRUE)
  BY <1>1, <1>3, <1>4 DEF open
<1>5. CASE id # -1 /\ file # ino /\ open(file, TRUE)
  BY <1>1, <1>3, <1>5 DEF open
<1>6. CASE id # -1 /\ file = ino /\ \E name \in save_backup : open(name, TRUE)
  <2>1. PICK name \in save_backup : OpenOn(name)
    BY <1>6 DEF open
  <2>2. name \in {0, file} /\ ("rename" \notin Faults => name = 0)
    BY DEF save_backup
  <2> QED BY <1>3, <2>1, <2>2
<1>7. CASE id # -1 /\ file = ino /\ Len(disk[file]) < Limit /\ UNCHANGED <<fvars, run>>
  BY <1>0, <1>7 DEF fvars
<1> QED BY <1>4, <1>5, <1>6, <1>7 DEF syncid

(* syncid() fails only when open() may: the handle is closed, and nothing  *)
(* is created.                                                             *)
LEMMA SyncidFail ==
    ASSUME AInv, syncid(FALSE), owner # "gone"
    PROVE  /\ "open" \in Faults /\ id' = -1 /\ file' \in {0, file}
           /\ UNCHANGED <<ino, inodes, run>>
           /\ "rename" \notin Faults => file' = 0
<1>1. "rename" \notin Faults => (id = -1 => file = 0) /\ file \in {0, ino}
  BY DEF AInv, Names
<1>2. CASE (id = -1 \/ file # ino) /\ OpenFails(file)
  BY <1>1, <1>2 DEF OpenFails
<1>3. CASE \E name \in save_backup : OpenFails(name)
  <2>1. PICK name \in save_backup : OpenFails(name)
    BY <1>3
  <2>2. name \in {0, file} /\ ("rename" \notin Faults => name = 0)
    BY DEF save_backup
  <2> QED BY <2>1, <2>2 DEF OpenFails
<1> QED BY <1>2, <1>3 DEF syncid, open

(* getAppender() creates at most one file, and starts the thread only      *)
(* together with the handle.                                               *)
LEMMA GetAppenderStep ==
    ASSUME AInv, getAppender
    PROVE  AInv'
<1>0. /\ owner = "construct" /\ wpc = "none" /\ inodes = 0 /\ 0 < MaxInode /\ batch = <<>>
      /\ UNCHANGED <<stop, queue, pushed, conf, signaled, batch, written, lost>>
      /\ MaxInode \in Nat /\ ino \in Inode \cup {0} /\ file \in Inode \cup {0} /\ Inode = 1..MaxInode
  BY DEF getAppender, AInv, Phases, TypeOK, Inode
<1>1. done' = done /\ done \in Nat /\ Shape' /\ Settled' /\ Faults' = Faults
  BY <1>0 DEF AInv, Shape, Settled, TypeOK, done, Faults
<1>2. CASE syncid(FALSE) /\ owner' = "drop" /\ UNCHANGED <<isWorking, wpc>>
  <2>1. /\ "open" \in Faults /\ id' = -1 /\ file' \in {0, file}
        /\ UNCHANGED <<ino, inodes, run>> /\ ("rename" \notin Faults => file' = 0)
    BY <1>0, <1>2, SyncidFail
  <2>2. /\ Stored' /\ OnDiskOnce' /\ FileBounded' /\ disk' \in [Inode -> Seq(1..MaxItems)]
        /\ \A f \in Inode : disk[f] = <<>> => disk'[f] = <<>>
    BY <1>0, <1>2, SyncidFiles
  <2>3. TypeOK'
    BY <1>0, <1>2, <2>1, <2>2 DEF AInv, TypeOK
  <2>4. Phases'
    BY <1>0, <1>2, <2>1 DEF Phases, NoUseAfterDrop
  <2>5. Handles'
    <3>1. /\ id' <= inodes' /\ ino' <= inodes' /\ file' <= inodes'
          /\ \A f \in Inode : f > inodes' => disk'[f] = <<>>
      BY <1>0, <2>1, <2>2 DEF AInv, Handles
    <3>2. inodes' <= done' + 1
      BY <1>0, <1>1, <2>1
    <3> QED BY <1>0, <1>2, <2>1, <3>1, <3>2 DEF Handles
  <2>6. Names' /\ OnlyFaultsDrop'
    BY <1>0, <1>1, <1>2, <2>1 DEF Names, OnlyFaultsDrop
  <2> QED BY <1>1, <2>2, <2>3, <2>4, <2>5, <2>6 DEF AInv
<1>3. CASE syncid(TRUE) /\ isWorking' = TRUE /\ owner' \in {"use", "stop"} /\ wpc' \in {"none", "top"}
  <2>1. /\ id' = file' /\ ino' = file' /\ file' \in Inode /\ file' <= inodes'
        /\ inodes' \in {inodes, inodes + 1} /\ run' \in {run, 1}
        /\ \A f \in Inode : f > inodes' => disk'[f] = <<>>
        /\ "rename" \notin Faults => Len(disk'[id']) < Limit
    BY <1>0, <1>3, SyncidOk
  <2>2. Stored' /\ OnDiskOnce' /\ FileBounded' /\ disk' \in [Inode -> Seq(1..MaxItems)]
    BY <1>0, <1>3, SyncidFiles
  <2>3. TypeOK'
    <3>1. inodes' \in 0..MaxInode /\ run' \in {0, 1, -1}
      BY <1>0, <2>1 DEF AInv, TypeOK
    <3> QED BY <1>0, <1>3, <2>1, <2>2, <3>1 DEF AInv, TypeOK
  <2>4. Phases'
    BY <1>0, <1>3 DEF Phases, NoUseAfterDrop
  <2>5. Handles'
    <3>1. inodes' <= done' + 1
      BY <1>0, <1>1, <2>1
    <3> QED BY <1>0, <1>3, <2>1, <3>1 DEF Handles
  <2>6. Names' /\ OnlyFaultsDrop'
    <3>1. id' # -1
      BY <1>0, <2>1
    <3> QED BY <1>0, <1>1, <1>3, <2>1, <3>1 DEF Names, OnlyFaultsDrop, AInv
  <2> QED BY <1>1, <2>2, <2>3, <2>4, <2>5, <2>6 DEF AInv
<1> QED BY <1>0, <1>2, <1>3 DEF getAppender

(* A batch whose file could be opened is written next. *)
LEMMA SyncedStep ==
    ASSUME AInv, Synced
    PROVE  AInv'
<1>0. /\ wpc = "sync" /\ wpc' = "write" /\ syncid(TRUE) /\ batch # <<>>
      /\ UNCHANGED <<stop, isWorking, queue, pushed, conf, signaled, batch, written, lost, owner>>
  BY DEF Synced, AInv, Phases
<1>1. owner \notin {"gone", "construct"}
  BY <1>0 DEF AInv, Phases, NoUseAfterDrop
<1>2. done' = done /\ done \in Nat /\ Shape' /\ Settled' /\ Faults' = Faults
  BY <1>0 DEF AInv, Shape, Settled, TypeOK, done, Faults
<1>3. inodes <= done + 1 /\ done + 1 <= MaxItems /\ inodes \in Nat
  <2>1. Len(batch) \in Nat /\ Len(batch) # 0 /\ Len(queue) \in Nat /\ pushed \in 0..MaxItems
    BY <1>0 DEF AInv, TypeOK
  <2>2. done + 1 <= MaxItems
    BY <2>1 DEF done
  <2> QED BY <1>0, <2>2 DEF AInv, Handles, TypeOK
<1>4. /\ id' = file' /\ ino' = file' /\ file' \in Inode /\ file' <= inodes'
      /\ inodes' \in {inodes, inodes + 1} /\ run' \in {run, 1}
      /\ \A f \in Inode : f > inodes' => disk'[f] = <<>>
      /\ "rename" \notin Faults => Len(disk'[id']) < Limit
  <2>1. inodes < MaxInode
    BY <1>2, <1>3
  <2> QED BY <1>0, <1>1, <2>1, SyncidOk
<1>5. Stored' /\ OnDiskOnce' /\ FileBounded' /\ disk' \in [Inode -> Seq(1..MaxItems)]
  BY <1>0, SyncidFiles
<1>6. TypeOK'
  <2>1. inodes' \in 0..MaxInode /\ run' \in {0, 1, -1}
    BY <1>2, <1>3, <1>4 DEF AInv, TypeOK
  <2> QED BY <1>0, <1>4, <1>5, <2>1 DEF AInv, TypeOK
<1>7. Phases'
  BY <1>0, <1>1 DEF AInv, Phases, NoUseAfterDrop
<1>8. Handles'
  <2>1. inodes' <= done' + 2
    BY <1>2, <1>3, <1>4
  <2> QED BY <1>0, <1>4, <2>1 DEF Handles
<1>9. Names' /\ OnlyFaultsDrop'
  <2>1. id' # -1
    BY <1>4 DEF Inode
  <2> QED BY <1>0, <1>2, <1>4, <2>1 DEF Names, OnlyFaultsDrop, AInv
<1> QED BY <1>2, <1>5, <1>6, <1>7, <1>8, <1>9 DEF AInv

(* A batch whose file could not be opened is dropped as a whole. *)
LEMMA SyncFailedStep ==
    ASSUME AInv, SyncFailed
    PROVE  AInv'
<1>0. /\ wpc = "sync" /\ wpc' = "top" /\ syncid(FALSE) /\ batch' = <<>> /\ lost' = lost \cup ToSet(batch)
      /\ UNCHANGED <<stop, isWorking, queue, pushed, conf, signaled, written, owner>>
  BY DEF SyncFailed, erasedata
<1>1. owner \notin {"gone", "construct"}
  BY <1>0 DEF AInv, Phases, NoUseAfterDrop
<1>2. /\ batch \in Seq(1..MaxItems) /\ batch \in Seq(Int) /\ queue \in Seq(1..MaxItems) /\ pushed \in Nat
      /\ done \in Nat /\ \A i \in 1..Len(batch) : batch[i] = done + i
  BY DEF AInv, TypeOK, Shape, done
<1>3. done' = done + Len(batch)
  BY <1>0, <1>2 DEF done
<1>4. ToSet(batch) = (done + 1)..(done + Len(batch))
  BY <1>2, RunOfEntries
<1>5. /\ "open" \in Faults /\ id' = -1 /\ file' \in {0, file}
      /\ UNCHANGED <<ino, inodes, run>> /\ ("rename" \notin Faults => file' = 0)
  BY <1>0, <1>1, SyncidFail
<1>6. /\ Stored' /\ OnDiskOnce' /\ FileBounded' /\ disk' \in [Inode -> Seq(1..MaxItems)]
      /\ \A f \in Inode : disk[f] = <<>> => disk'[f] = <<>>
  BY <1>0, SyncidFiles
<1>7. TypeOK'
  <2>1. ToSet(batch) \subseteq 1..MaxItems
    BY <1>2, InToSet
  <2>2. batch' \in Seq(1..MaxItems) /\ Len(batch') <= BatchSize
    BY <1>0
  <2>3. id' \in Inode \cup {-1} /\ file' \in Inode \cup {0}
    BY <1>5 DEF AInv, TypeOK
  <2> QED BY <1>0, <1>5, <1>6, <2>1, <2>2, <2>3 DEF AInv, TypeOK
<1>8. Shape'
  BY <1>0, <1>2, <1>3 DEF AInv, Shape
<1>9. Settled'
  <2>1. ToSet(written) \cap lost = {} /\ ToSet(written) \cup lost = 1..done /\ Increasing(written)
    BY DEF AInv, Settled
  <2>2. Len(batch) \in Nat
    BY <1>2
  <2>3. ToSet(written) \cap lost' = {}
    BY <1>0, <1>2, <1>4, <2>1
  <2>4. ToSet(written) \cup lost' = 1..done'
    BY <1>0, <1>2, <1>3, <1>4, <2>1, <2>2
  <2> QED BY <1>0, <2>1, <2>3, <2>4 DEF Settled
<1>10. Phases'
  BY <1>0, <1>1 DEF AInv, Phases, NoUseAfterDrop
<1>11. Handles'
  <2>1. id' <= inodes' /\ ino' <= inodes' /\ file' <= inodes'
    BY <1>5 DEF AInv, Handles, TypeOK
  <2>2. inodes' <= done' + 1
    BY <1>0, <1>2, <1>3, <1>5 DEF AInv, Handles, TypeOK
  <2>3. \A f \in Inode : f > inodes' => disk'[f] = <<>>
    BY <1>5, <1>6 DEF AInv, Handles
  <2> QED BY <1>0, <1>5, <2>1, <2>2, <2>3 DEF Handles
<1>12. Names' /\ OnlyFaultsDrop'
  BY <1>0, <1>5 DEF Names, OnlyFaultsDrop, Faults
<1> QED BY <1>6, <1>7, <1>8, <1>9, <1>10, <1>11, <1>12 DEF AInv

(* writev() of n entries of the batch appends them, in order, to one file; *)
(* the rest of the batch is dropped.                                       *)
LEMMA WritevStep ==
    ASSUME AInv, NEW n \in 0..Len(batch), Writev(n)
    PROVE  AInv'
<1> DEFINE a == SubSeq(batch, 1, n)
           b == SubSeq(batch, n + 1, Len(batch))
<1>0. /\ wpc = "write" /\ wpc' = "top" /\ id \in Inode
      /\ disk' = [disk EXCEPT ![id] = disk[id] \o a] /\ written' = written \o a
      /\ batch' = <<>> /\ lost' = lost \cup ToSet(b)
      /\ UNCHANGED <<run, stop, isWorking, queue, pushed, conf, signaled, id, ino, file, inodes, owner>>
  BY DEF Writev, erasedata
<1>1. n = Len(batch) \/ "writev" \in Faults
  BY DEF Writev
<1>2. owner \notin {"gone", "construct", "drop"}
  BY <1>0 DEF AInv, Phases, NoUseAfterDrop
<1>3. /\ batch \in Seq(1..MaxItems) /\ batch \in Seq(Int) /\ Len(batch) \in Nat /\ n \in Nat /\ Len(batch) >= 1
      /\ queue \in Seq(1..MaxItems) /\ pushed \in Nat /\ done \in Nat /\ Len(batch) <= BatchSize
      /\ \A i \in 1..Len(batch) : batch[i] = done + i
  <2>1. batch \in Seq(1..MaxItems) /\ batch # <<>> /\ Len(batch) <= BatchSize
    BY <1>0 DEF AInv, TypeOK, Phases
  <2>2. batch \in Seq(Int) /\ Len(batch) \in Nat /\ n \in Nat /\ Len(batch) >= 1
    BY <2>1
  <2>3. queue \in Seq(1..MaxItems) /\ pushed \in Nat
    BY DEF AInv, TypeOK
  <2>4. done \in Int
    BY <2>2, <2>3 DEF done
  <2>5. done \in Nat /\ \A i \in 1..Len(batch) : batch[i] = done + i
    BY <2>4 DEF AInv, Shape
  <2> QED BY <2>1, <2>2, <2>3, <2>5
<1>4. done' = done + Len(batch)
  BY <1>0, <1>3 DEF done
<1>5. /\ a \in Seq(1..MaxItems) /\ a \in Seq(Int) /\ Len(a) = n
      /\ \A i \in 1..Len(a) : a[i] = done + i
  BY <1>3
<1>6. /\ b \in Seq(1..MaxItems) /\ b \in Seq(Int) /\ Len(b) = Len(batch) - n
      /\ \A i \in 1..Len(b) : b[i] = (done + n) + i
  <2>1. b \in Seq(1..MaxItems) /\ b \in Seq(Int) /\ Len(b) = Len(batch) - n
    BY <1>3
  <2>2. \A i \in 1..(Len(batch) - n) : b[i] = batch[n + i] /\ n + i \in 1..Len(batch)
    BY <1>3
  <2> HIDE DEF b
  <2>3. \A i \in 1..Len(b) : b[i] = done + (n + i)
    BY <1>3, <2>1, <2>2
  <2> QED BY <1>3, <2>1, <2>3
<1> HIDE DEF a, b
<1>7. Increasing(a) /\ ToSet(a) = (done + 1)..(done + n)
  <2>1. done \in Int
    BY <1>3
  <2>2. Increasing(a) /\ ToSet(a) = (done + 1)..(done + Len(a))
    BY <1>5, <2>1, RunOfEntries
  <2> QED BY <1>5, <2>2
<1>8. ToSet(b) = (done + n + 1)..(done + Len(batch))
  <2> DEFINE d == done + n
  <2>1. d \in Int /\ \A i \in 1..Len(b) : b[i] = d + i
    BY <1>3, <1>6
  <2> HIDE DEF d
  <2>2. ToSet(b) = (d + 1)..(d + Len(b))
    BY <1>6, <2>1, RunOfEntries
  <2>3. d + Len(b) = done + Len(batch) /\ d + 1 = done + n + 1
    BY <1>3, <1>6 DEF d
  <2> QED BY <2>2, <2>3
<1>9. /\ written \in Seq(1..MaxItems) /\ written \in Seq(Int) /\ disk \in [Inode -> Seq(1..MaxItems)]
      /\ Increasing(written) /\ ToSet(written) \cap lost = {} /\ ToSet(written) \cup lost = 1..done
      /\ \A f \in Inode : ToSet(disk[f]) \subseteq ToSet(written)
  BY DEF AInv, TypeOK, Settled, Stored
<1>10. /\ \A f \in Inode : disk'[f] = IF f = id THEN disk[id] \o a ELSE disk[f]
       /\ disk' \in [Inode -> Seq(1..MaxItems)] /\ disk[id] \in Seq(1..MaxItems) /\ disk[id] \in Seq(Int)
  BY <1>0, <1>5, <1>9
<1>11. ToSet(written') = ToSet(written) \cup ToSet(a)
  BY <1>0, <1>5, <1>9, ToSetConcat
<1>12. \A f \in Inode : ToSet(disk'[f]) = IF f = id THEN ToSet(disk[id]) \cup ToSet(a) ELSE ToSet(disk[f])
  <2>1. ToSet(disk[id] \o a) = ToSet(disk[id]) \cup ToSet(a)
    BY <1>5, <1>10, ToSetConcat
  <2> QED BY <1>10, <2>1
<1>13. TypeOK'
  <2>1. written' \in Seq(1..MaxItems)
    BY <1>0, <1>5, <1>9
  <2>2. lost' \subseteq 1..MaxItems
    <3>1. ToSet(b) \subseteq 1..MaxItems
      BY <1>6, InToSet
    <3> QED BY <1>0, <3>1 DEF AInv, TypeOK
  <2>3. batch' \in Seq(1..MaxItems) /\ Len(batch') <= BatchSize
    BY <1>0
  <2> QED BY <1>0, <1>10, <2>1, <2>2, <2>3 DEF AInv, TypeOK
<1>14. Shape'
  BY <1>0, <1>3, <1>4 DEF AInv, Shape
<1>15. Settled'
  <2>1. \A i \in 1..Len(written) : written[i] <= done
    <3> SUFFICES ASSUME NEW i \in 1..Len(written) PROVE written[i] <= done
      OBVIOUS
    <3>1. written[i] \in 1..done
      BY <1>9, InToSet
    <3> QED BY <1>3, <3>1
  <2>2. \A i \in 1..Len(a) : a[i] > done
    BY <1>3, <1>5
  <2>3. Increasing(written')
    <3>1. done \in Int
      BY <1>3
    <3>2. Increasing(written \o a)
      BY <1>5, <1>7, <1>9, <2>1, <2>2, <3>1, IncreasingConcat
    <3> QED BY <1>0, <3>2
  <2>4. ToSet(written') \cap lost' = {}
    BY <1>0, <1>3, <1>7, <1>8, <1>9, <1>11
  <2>5. ToSet(written') \cup lost' = 1..done'
    <3>1. n <= Len(batch)
      BY <1>3
    <3>2. ToSet(written') \cup lost' = (1..done) \cup ((done + 1)..(done + n))
                                         \cup ((done + n + 1)..(done + Len(batch)))
      BY <1>0, <1>7, <1>8, <1>9, <1>11
    <3>3. (1..done) \cup ((done + 1)..(done + n)) \cup ((done + n + 1)..(done + Len(batch)))
             = 1..(done + Len(batch))
      BY <1>3, <3>1
    <3> QED BY <1>4, <3>2, <3>3
  <2> QED BY <2>3, <2>4, <2>5 DEF Settled
<1>16. Phases'
  BY <1>0, <1>2 DEF AInv, Phases, NoUseAfterDrop
<1>17. Handles'
  <2>1. inodes' <= done' + 1
    BY <1>0, <1>3, <1>4 DEF AInv, Handles, TypeOK
  <2>2. \A f \in Inode : f > inodes' => disk'[f] = <<>>
    <3>1. id <= inodes /\ \A f \in Inode : f > inodes => f # id
      BY <1>0 DEF AInv, Handles, TypeOK, Inode
    <3> QED BY <1>0, <1>10, <3>1 DEF AInv, Handles
  <2> QED BY <1>0, <2>1, <2>2 DEF AInv, Handles
<1>18. Names'
  BY <1>0 DEF AInv, Names, Faults
<1>19. Stored'
  BY <1>9, <1>11, <1>12 DEF Stored
<1>20. OnDiskOnce'
  <2>1. ASSUME NEW f \in Inode PROVE Increasing(disk'[f])
    <3>1. CASE f = id
      <4>1. \A i \in 1..Len(disk[id]) : disk[id][i] <= done
        <5> SUFFICES ASSUME NEW i \in 1..Len(disk[id]) PROVE disk[id][i] <= done
          OBVIOUS
        <5>1. disk[id][i] \in ToSet(disk[id])
          BY <1>10, InToSet
        <5>2. disk[id][i] \in 1..done
          BY <1>0, <1>9, <5>1
        <5> QED BY <1>3, <5>2
      <4>2. \A i \in 1..Len(a) : a[i] > done
        BY <1>3, <1>5
      <4>3. Increasing(disk[id])
        BY <1>0 DEF AInv, OnDiskOnce
      <4>4. Increasing(disk[id] \o a)
        <5>1. done \in Int
          BY <1>3
        <5> QED BY <1>5, <1>7, <1>10, <4>1, <4>2, <4>3, <5>1, IncreasingConcat
      <4> QED BY <1>10, <3>1, <4>4
    <3>2. CASE f # id
      BY <1>10, <3>2 DEF AInv, OnDiskOnce
    <3> QED BY <3>1, <3>2
  <2>2. ASSUME NEW f \in Inode, NEW g \in Inode, f # g
        PROVE  ToSet(disk'[f]) \cap ToSet(disk'[g]) = {}
    <3>1. ToSet(disk[f]) \cap ToSet(disk[g]) = {}
      BY <2>2 DEF AInv, OnDiskOnce
    <3>2. \A h \in Inode : ToSet(disk[h]) \cap ToSet(a) = {}
      <4> SUFFICES ASSUME NEW h \in Inode, NEW x \in ToSet(disk[h]), x \in ToSet(a) PROVE FALSE
        OBVIOUS
      <4>1. x \in 1..done /\ x \in (done + 1)..(done + n)
        BY <1>7, <1>9
      <4> QED BY <1>3, <4>1
    <3> QED BY <1>12, <2>2, <3>1, <3>2
  <2>3. ASSUME splite' # "COM_TRUNCT"
        PROVE  ToSet(written)' = UNION {ToSet(disk[f]) : f \in Inode}'
    <3>1. ToSet(written) = UNION {ToSet(disk[f]) : f \in Inode}
      BY <1>0, <2>3 DEF AInv, OnDiskOnce, splite
    <3>2. ASSUME NEW x \in ToSet(written') PROVE \E f \in Inode : x \in ToSet(disk'[f])
      <4>1. CASE x \in ToSet(a)
        BY <1>0, <1>12, <4>1
      <4>2. CASE x \in ToSet(written)
        <5>1. PICK f \in Inode : x \in ToSet(disk[f])
          BY <3>1, <4>2
        <5> QED BY <1>12, <5>1
      <4> QED BY <1>11, <4>1, <4>2
    <3>3. \A f \in Inode : ToSet(disk'[f]) \subseteq ToSet(written')
      BY <1>9, <1>11, <1>12
    <3>4. ToSet(written') = UNION {ToSet(disk'[f]) : f \in Inode}
      BY <3>2, <3>3
    <3> QED BY <3>4
  <2> QED BY <2>1, <2>2, <2>3 DEF OnDiskOnce
<1>21. OnlyFaultsDrop'
  <2>1. "writev" \notin Faults => ToSet(b) = {}
    BY <1>1, <1>3, <1>8
  <2> QED BY <1>0, <1>2, <2>1 DEF AInv, OnlyFaultsDrop, Faults
<1>22. FileBounded'
  <2> SUFFICES ASSUME "rename" \notin Faults, NEW f \in Inode PROVE Len(disk'[f]) < Limit + BatchSize
    BY <1>0 DEF FileBounded, Faults
  <2>1. CASE f = id
    <3>1. Len(disk[id]) < Limit
      BY <1>0 DEF AInv, Names
    <3>2. Len(disk'[f]) = Len(disk[id]) + n
      BY <1>5, <1>10, <2>1
    <3>3. Len(disk[id]) \in Nat
      BY <1>10
    <3> QED BY <1>3, <3>1, <3>2, <3>3
  <2>2. CASE f # id
    BY <1>10, <2>2 DEF AInv, FileBounded
  <2> QED BY <2>1, <2>2
<1> QED BY <1>13, <1>14, <1>15, <1>16, <1>17, <1>18, <1>19, <1>20, <1>21, <1>22 DEF AInv

(* The destructor drops what is queued; the writer has left by then. *)
LEMMA DropStep ==
    ASSUME AInv, Drop
    PROVE  AInv'
<1>0. /\ owner = "drop" /\ owner' = "gone" /\ id' = -1 /\ queue' = <<>> /\ lost' = lost \cup ToSet(queue)
      /\ UNCHANGED <<run, stop, isWorking, pushed, conf, wpc, signaled, batch, written>>
      /\ UNCHANGED <<ino, file, inodes, disk>>
  BY DEF Drop, close, wvars
<1>1. wpc \in {"none", "exit"} /\ batch = <<>> /\ Len(batch) = 0
  BY <1>0 DEF AInv, Phases, NoUseAfterDrop
<1>2. /\ queue \in Seq(1..MaxItems) /\ pushed \in Nat /\ done \in Nat /\ done = pushed - Len(queue)
      /\ \A i \in 1..Len(queue) : queue[i] = pushed - i + 1
  BY <1>1 DEF AInv, TypeOK, Shape, done
<1>3. done' = pushed
  BY <1>0, <1>1, <1>2 DEF done
<1>4. ToSet(queue) = (done + 1)..pushed
  <2>1. ASSUME NEW x PROVE x \in ToSet(queue) <=> x \in (done + 1)..pushed
    <3>1. x \in ToSet(queue) <=> \E i \in 1..Len(queue) : x = queue[i]
      BY <1>2, InToSet
    <3>2. ASSUME x \in (done + 1)..pushed PROVE x \in ToSet(queue)
      <4>1. pushed - x + 1 \in 1..Len(queue) /\ pushed - (pushed - x + 1) + 1 = x
        BY <1>2, <3>2
      <4>2. queue[pushed - x + 1] = x
        BY <1>2, <4>1
      <4> QED BY <3>1, <4>1, <4>2
    <3>3. ASSUME x \in ToSet(queue) PROVE x \in (done + 1)..pushed
      BY <1>2, <3>1, <3>3
    <3> QED BY <3>2, <3>3
  <2> QED BY <2>1
<1>5. TypeOK'
  <2>1. ToSet(queue) \subseteq 1..MaxItems
    BY <1>2, InToSet
  <2>2. queue' \in Seq(1..MaxItems) /\ Len(queue') <= QueueSize
    BY <1>0
  <2> QED BY <1>0, <2>1, <2>2 DEF AInv, TypeOK
<1>6. Shape'
  BY <1>0, <1>1, <1>2, <1>3 DEF Shape
<1>7. Settled'
  <2>1. ToSet(written) \cap lost = {} /\ ToSet(written) \cup lost = 1..done /\ Increasing(written)
    BY DEF AInv, Settled
  <2>2. done <= pushed
    BY <1>2
  <2>3. ToSet(written) \cap lost' = {}
    BY <1>0, <1>2, <1>4, <2>1
  <2>4. ToSet(written) \cup lost' = 1..done'
    BY <1>0, <1>2, <1>3, <1>4, <2>1, <2>2
  <2> QED BY <1>0, <2>1, <2>3, <2>4 DEF Settled
<1>8. Phases'
  BY <1>0, <1>1 DEF Phases, NoUseAfterDrop
<1>9. Handles'
  <2>1. inodes' <= done' + 1 /\ id' <= inodes'
    BY <1>0, <1>1, <1>2, <1>3 DEF AInv, Handles, TypeOK
  <2> QED BY <1>0, <1>1, <2>1 DEF AInv, Handles
<1>10. Names' /\ OnlyFaultsDrop'
  BY <1>0, <1>1 DEF AInv, Names, OnlyFaultsDrop, Faults
<1>11. Stored' /\ OnDiskOnce' /\ FileBounded'
  BY <1>0, FilesAlone
<1> QED BY <1>5, <1>6, <1>7, <1>8, <1>9, <1>10, <1>11 DEF AInv

(* Another process takes the log's name from the file. *)
LEMMA MoveStep ==
    ASSUME AInv, MoveFile
    PROVE  AInv'
<1>0. /\ file' = 0
      /\ UNCHANGED <<run, stop, isWorking, queue, pushed, conf, wpc, signaled, batch, id, ino,
                     inodes, disk, written, lost, owner>>
  BY DEF MoveFile, wvars
<1>1. TypeOK'
  BY <1>0 DEF AInv, TypeOK
<1>2. Shape' /\ Settled' /\ Phases'
  BY <1>0 DEF AInv, Shape, Settled, Phases, NoUseAfterDrop, done
<1>3. Handles'
  <2>1. file' <= inodes'
    BY <1>0 DEF AInv, TypeOK
  <2> QED BY <1>0, <2>1 DEF AInv, Handles, done
<1>4. Names' /\ OnlyFaultsDrop'
  BY <1>0 DEF AInv, Names, OnlyFaultsDrop, Faults
<1>5. Stored' /\ OnDiskOnce' /\ FileBounded'
  BY <1>0, FilesAlone
<1> QED BY <1>1, <1>2, <1>3, <1>4, <1>5 DEF AInv
-----------------------------------------------------------------------------
(* The appender starts without a file, a thread or an entry. *)
LEMMA InitInv ==
    ASSUME Init
    PROVE  AInv
<1>0. /\ done = 0 /\ ToSet(<<>>) = {} /\ Increasing(<<>>) /\ Len(<<>>) = 0
      /\ <<>> \in Seq(1..MaxItems) /\ disk = [f \in Inode |-> <<>>] /\ \A f \in Inode : disk[f] = <<>>
  <2>1. ToSet(<<>>) = {} /\ Increasing(<<>>) /\ Len(<<>>) = 0 /\ <<>> \in Seq(1..MaxItems)
    BY DEF ToSet, Increasing
  <2>2. done = 0
    <3>1. pushed = 0 /\ Len(queue) = 0 /\ Len(batch) = 0
      BY <2>1 DEF Init
    <3> QED BY <3>1 DEF done
  <2>3. disk = [f \in Inode |-> <<>>]
    BY DEF Init
  <2> QED BY <2>1, <2>2, <2>3
<1>1. TypeOK
  <2>1. disk \in [Inode -> Seq(1..MaxItems)]
    BY <1>0
  <2>2. /\ queue \in Seq(1..MaxItems) /\ Len(queue) <= QueueSize
        /\ batch \in Seq(1..MaxItems) /\ Len(batch) <= BatchSize /\ written \in Seq(1..MaxItems)
    BY <1>0 DEF Init
  <2>3. /\ pushed \in 0..MaxItems /\ inodes \in 0..MaxInode /\ lost \subseteq 1..MaxItems
        /\ run \in {0, 1, -1} /\ stop \in {0, 1}
    <3>1. pushed = 0 /\ inodes = 0 /\ lost = {} /\ run = 0 /\ stop = 0
      BY DEF Init
    <3> QED BY <3>1
  <2>4. /\ isWorking \in BOOLEAN /\ signaled \in BOOLEAN
        /\ conf \in [splite : SpliteTypes, faults : FaultSets] /\ wpc = "none" /\ owner = "construct"
        /\ id \in Inode \cup {-1} /\ ino \in Inode \cup {0} /\ file \in Inode \cup {0}
    BY DEF Init
  <2> QED BY <2>1, <2>2, <2>3, <2>4 DEF TypeOK
<1>2. Shape /\ Phases /\ Handles
  BY <1>0 DEF Init, Shape, Phases, NoUseAfterDrop, Handles
<1>3. Settled /\ Stored
  BY <1>0 DEF Init, Settled, Stored
<1>4. Names /\ OnlyFaultsDrop
  BY DEF Init, Names, OnlyFaultsDrop
<1>5. OnDiskOnce
  <2>1. \A f \in Inode : ToSet(disk[f]) = {}
    BY <1>0
  <2>2. UNION {ToSet(disk[f]) : f \in Inode} = {}
    BY <2>1
  <2> QED BY <1>0, <2>1, <2>2 DEF Init, OnDiskOnce
<1>6. FileBounded
  <2>1. 0 < Limit + BatchSize
    OBVIOUS
  <2> QED BY <1>0, <2>1 DEF FileBounded
<1> QED BY <1>1, <1>2, <1>3, <1>4, <1>5, <1>6 DEF AInv

(* Every step of every thread keeps the inductive invariant. *)
LEMMA NextInv ==
    ASSUME AInv, [Next]_vars
    PROVE  AInv'
<1>0. TypeOK /\ Phases
  BY DEF AInv
<1>1. CASE getAppender
  BY <1>1, GetAppenderStep
<1>2. CASE print
  BY <1>2, PrintStep
<1>3. CASE Top
  <2>1. batch = <<>> /\ wpc' \in {"exit", "pop"} /\ owner \notin {"drop", "gone", "construct"}
    BY <1>0, <1>3 DEF Top, Phases, NoUseAfterDrop
  <2>2. UNCHANGED <<run, stop, isWorking, queue, pushed, conf, signaled, batch, fvars, written, lost, owner>>
    BY <1>3 DEF Top
  <2>3. wpc = "top"
    BY <1>3 DEF Top
  <2> QED BY <1>0, <2>1, <2>2, <2>3, ControlStep DEF TypeOK
<1>4. CASE PopBacks \/ Wake \/ Timeout
  <2>1. CASE Take
    BY <1>4, <2>1, TakeStep DEF PopBacks, Wake, Timeout
  <2>2. CASE PopBacks /\ wpc' = "wait" /\ UNCHANGED <<queue, signaled, batch>>
    <3>1. batch = <<>> /\ wpc = "pop" /\ owner \notin {"drop", "gone", "construct"}
      BY <1>0, <2>2 DEF PopBacks, Phases, NoUseAfterDrop
    <3>2. UNCHANGED <<run, stop, isWorking, pushed, conf, fvars, written, lost, owner>>
      BY <2>2 DEF PopBacks
    <3> QED BY <1>0, <2>2, <3>1, <3>2, ControlStep DEF TypeOK
  <2> QED BY <1>4, <2>1, <2>2 DEF PopBacks, Wake, Timeout
<1>5. CASE Got
  <2>1. wpc = "got" /\ owner \notin {"drop", "gone", "construct"}
    BY <1>0, <1>5 DEF Got, Phases, NoUseAfterDrop
  <2>2. wpc' \in {"sync", "exit", "top"} /\ (batch # <<>> <=> wpc' = "sync")
    BY <1>5 DEF Got
  <2>3. UNCHANGED <<run, stop, isWorking, queue, pushed, conf, signaled, batch, fvars, written, lost, owner>>
    BY <1>5 DEF Got
  <2> QED BY <1>0, <2>1, <2>2, <2>3, ControlStep DEF TypeOK
<1>6. CASE SyncFailed
  BY <1>6, SyncFailedStep
<1>7. CASE Synced
  BY <1>7, SyncedStep
<1>8. CASE \E n \in 0..Len(batch) : Writev(n)
  BY <1>8, WritevStep
<1>9. CASE CloseLog \/ StopRun \/ StopStop \/ Signal \/ Join
  <2>1. /\ UNCHANGED <<queue, pushed, conf, wpc, batch, fvars, written, lost>>
        /\ run' \in {0, 1, -1} /\ stop' \in {0, 1} /\ isWorking' \in BOOLEAN /\ signaled' \in BOOLEAN
        /\ owner \notin {"construct", "gone"} /\ owner' \in {"stop", "stop2", "signal", "join", "drop", "hung"}
        /\ owner' = "drop" => wpc \in {"none", "exit"}
    BY <1>0, <1>9 DEF CloseLog, StopRun, StopStop, Signal, Join, wvars, TypeOK
  <2>2. CASE wpc # "write"
    BY <1>0, <2>1, <2>2, ControlStep DEF TypeOK, Phases
  <2>3. CASE wpc = "write"
    <3>1. TypeOK' /\ Phases'
      BY <1>0, <2>1, <2>3 DEF TypeOK, Phases, NoUseAfterDrop, fvars
    <3>2. Shape' /\ Settled' /\ Handles'
      BY <2>1 DEF AInv, Shape, Settled, Handles, done, fvars
    <3>3. Names' /\ OnlyFaultsDrop'
      BY <2>1 DEF AInv, Names, OnlyFaultsDrop, Faults, fvars
    <3>4. Stored' /\ OnDiskOnce' /\ FileBounded'
      BY <2>1, FilesAlone DEF fvars
    <3> QED BY <3>1, <3>2, <3>3, <3>4 DEF AInv
  <2> QED BY <2>2, <2>3
<1>10. CASE Drop
  BY <1>10, DropStep
<1>11. CASE MoveFile
  BY <1>11, MoveStep
<1>12. CASE UNCHANGED vars
  <2>1. UNCHANGED <<run, stop, isWorking, queue, pushed, conf, wvars, fvars, written, lost, owner>>
    BY <1>12 DEF vars
  <2>2. TypeOK' /\ Phases'
    BY <1>0, <2>1 DEF TypeOK, Phases, NoUseAfterDrop, fvars, wvars
  <2>3. Shape' /\ Settled' /\ Handles'
    BY <2>1 DEF AInv, Shape, Settled, Handles, done, fvars, wvars
  <2>4. Names' /\ OnlyFaultsDrop'
    BY <2>1 DEF AInv, Names, OnlyFaultsDrop, Faults, fvars, wvars
  <2>5. Stored' /\ OnDiskOnce' /\ FileBounded'
    BY <2>1, FilesAlone DEF fvars
  <2> QED BY <2>2, <2>3, <2>4, <2>5 DEF AInv
<1> QED
  BY <1>1, <1>2, <1>3, <1>4, <1>5, <1>6, <1>7, <1>8, <1>9, <1>10, <1>11, <1>12
  DEF Next, Owner, Writer, Finished

(* The invariant holds in every state. *)
LEMMA AppenderInductive == Spec => []AInv
<1> QED BY InitInv, NextInv, PTL DEF Spec

(* The pipeline in the order of the pushes: what was written, the batch and*)
(* the queue from its old end are increasing, and with the entries dropped *)
(* they are all the entries accepted.                                      *)
LEMMA PipelineInOrder ==
    ASSUME AInv
    PROVE  InOrderOnce
<1> DEFINE wb == written \o batch
           rq == Reverse(queue)
           pipeline == written \o batch \o rq
           top == pushed - Len(queue)
<1>0. /\ written \in Seq(Int) /\ batch \in Seq(Int) /\ queue \in Seq(Int) /\ pushed \in Nat /\ done \in Nat
      /\ \A i \in 1..Len(queue) : queue[i] = pushed - i + 1
      /\ \A i \in 1..Len(batch) : batch[i] = done + i
      /\ top \in Int /\ top = done + Len(batch)
  BY DEF AInv, TypeOK, Shape, done
<1>1. /\ Increasing(written) /\ ToSet(written) \cap lost = {} /\ ToSet(written) \cup lost = 1..done
  BY DEF AInv, Settled
<1>2. Increasing(batch) /\ ToSet(batch) = (done + 1)..(done + Len(batch))
  BY <1>0, RunOfEntries
<1>3. /\ rq \in Seq(Int) /\ Len(rq) = Len(queue)
      /\ \A i \in 1..Len(rq) : rq[i] = top + i
  <2>1. rq = [i \in 1..Len(queue) |-> queue[(Len(queue) - i) + 1]]
    BY DEF Reverse
  <2>2. ASSUME NEW i \in 1..Len(queue)
        PROVE  queue[(Len(queue) - i) + 1] = top + i /\ queue[(Len(queue) - i) + 1] \in Int
    <3>1. (Len(queue) - i) + 1 \in 1..Len(queue) /\ Len(queue) \in Nat /\ i \in Int
      BY <1>0
    <3>2. queue[(Len(queue) - i) + 1] = pushed - ((Len(queue) - i) + 1) + 1
      BY <1>0, <3>1
    <3> QED BY <1>0, <3>1, <3>2
  <2>3. Len(queue) \in Nat
    BY <1>0
  <2> HIDE DEF top, rq
  <2> QED BY <2>1, <2>2, <2>3
<1> HIDE DEF rq, top
<1>4. Increasing(rq) /\ ToSet(rq) = (top + 1)..(top + Len(rq))
  BY <1>0, <1>3, RunOfEntries
<1>5. wb \in Seq(Int) /\ ToSet(wb) = ToSet(written) \cup ToSet(batch)
  BY <1>0, ToSetConcat
<1>6. Increasing(wb)
  <2>1. \A i \in 1..Len(written) : written[i] <= done
    <3> SUFFICES ASSUME NEW i \in 1..Len(written) PROVE written[i] <= done
      OBVIOUS
    <3>1. written[i] \in ToSet(written)
      BY <1>0, InToSet
    <3>2. written[i] \in 1..done
      BY <1>1, <3>1
    <3> QED BY <1>0, <3>2
  <2>2. done \in Int /\ \A i \in 1..Len(batch) : batch[i] > done
    BY <1>0
  <2> QED BY <1>0, <1>1, <1>2, <2>1, <2>2, IncreasingConcat
<1> HIDE DEF wb
<1>7. Increasing(pipeline) /\ ToSet(pipeline) = ToSet(wb) \cup ToSet(rq)
  <2>1. \A i \in 1..Len(wb) : wb[i] <= top
    <3> SUFFICES ASSUME NEW i \in 1..Len(wb) PROVE wb[i] <= top
      OBVIOUS
    <3>1. wb[i] \in ToSet(wb) /\ Len(batch) \in Nat
      BY <1>0, <1>5, InToSet
    <3>2. wb[i] \in 1..done \/ wb[i] \in (done + 1)..(done + Len(batch))
      BY <1>1, <1>2, <1>5, <3>1
    <3> QED BY <1>0, <3>1, <3>2
  <2>2. \A i \in 1..Len(rq) : rq[i] > top
    BY <1>0, <1>3
  <2>3. Increasing(wb \o rq)
    BY <1>0, <1>3, <1>4, <1>5, <1>6, <2>1, <2>2, IncreasingConcat
  <2>4. ToSet(wb \o rq) = ToSet(wb) \cup ToSet(rq)
    BY <1>3, <1>5, ToSetConcat
  <2> QED BY <2>3, <2>4 DEF wb
<1>8. /\ ToSet(pipeline) = ToSet(written) \cup ((done + 1)..pushed)
  <2>1. Len(queue) \in Nat /\ Len(batch) \in Nat /\ pushed = top + Len(rq)
    BY <1>0, <1>3 DEF top
  <2>2. ((done + 1)..(done + Len(batch))) \cup ((top + 1)..(top + Len(rq))) = (done + 1)..pushed
    BY <1>0, <1>3, <2>1
  <2> QED BY <1>2, <1>4, <1>5, <1>7, <2>2
<1> HIDE DEF pipeline
<1>9. done <= pushed
  <2>1. Len(queue) \in Nat /\ Len(batch) \in Nat
    BY <1>0
  <2> QED BY <1>0, <2>1 DEF done
<1>10. ToSet(pipeline) \cap lost = {}
  <2> SUFFICES ASSUME NEW x \in ToSet(pipeline), x \in lost PROVE FALSE
    OBVIOUS
  <2>1. x \in 1..done /\ x \in (done + 1)..pushed
    BY <1>1, <1>8
  <2> QED BY <1>0, <2>1
<1>11. ToSet(pipeline) \cup lost = 1..pushed
  <2>1. (1..done) \cup ((done + 1)..pushed) = 1..pushed
    BY <1>0, <1>9
  <2> QED BY <1>1, <1>8, <2>1
<1> QED BY <1>7, <1>10, <1>11 DEF InOrderOnce, pipeline, rq

(* From print() to the files every entry accepted is kept once and in      *)
(* order, is dropped only on an I/O error, and files are cut in time: for  *)
(* every size of the queue, the batch and the files.                       *)
THEOREM EntriesAlwaysKept == Spec => []EntriesKept
<1>1. AInv => EntriesKept
  BY PipelineInOrder DEF AInv, EntriesKept
<1> QED BY <1>1, AppenderInductive, PTL

(* The destructor frees the queue and the handle only when the writer has  *)
(* ended or never started.                                                 *)
THEOREM NeverUsedAfterDrop == Spec => []NoUseAfterDrop
<1>1. AInv => NoUseAfterDrop
  BY DEF AInv, Phases
<1> QED BY <1>1, AppenderInductive, PTL

(* A batch goes to the file that has the log's name when syncid() returns. *)
THEOREM HandleAlwaysFollows == Spec => HandleFollowsFile
<1>1. ASSUME AInv, [Next]_vars, wpc = "sync", wpc' = "write"
      PROVE  id' = file' /\ ino' = file'
  <2>1. Synced
    BY <1>1 DEF Next, Owner, Writer, Finished, getAppender, StopRun, StopStop, Signal, Join, Drop, CloseLog,
                print, Timeout, MoveFile, Top, PopBacks, Take, Wake, Got, SyncFailed, Writev, vars, wvars
  <2>2. /\ owner # "gone" /\ UNCHANGED <<written, conf>> /\ syncid(TRUE)
    BY <1>1, <2>1 DEF AInv, Phases, NoUseAfterDrop, Synced
  <2>3. inodes < MaxInode
    <3>1. /\ Len(batch) \in Nat /\ Len(batch) # 0 /\ Len(queue) \in Nat /\ pushed \in 0..MaxItems
          /\ inodes <= done + 1 /\ inodes \in Nat
      BY <1>1 DEF AInv, TypeOK, Phases, Handles
    <3> QED BY <3>1 DEF done
  <2> QED BY <1>1, <2>2, <2>3, SyncidOk
<1> QED BY <1>1, AppenderInductive, PTL DEF Spec, HandleFollowsFile
=============================================================================
