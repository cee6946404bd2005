---------------------------- MODULE UlLogProofs ----------------------------
(***************************************************************************)
(* What ul_log promises, for any number of threads, files and processes.   *)
(* First the log files of one process: slots of the file table are counted *)
(* and locked by those who use them, every log has one stream and what is  *)
(* printed lands under its name, and rotation keeps files small and loses  *)
(* nothing.  Then the table in shared memory, whose processes may die      *)
(* anywhere: the semaphore is neither lost nor doubled by SEM_UNDO, a name *)
(* is in the table at most once, a slot belongs to one process and is      *)
(* clean when it is free, and a monitor reads what the slot's process      *)
(* assigned.                                                               *)
(***************************************************************************)
EXTENDS UlLog, UlLogShm, WellFoundedInduction, FiniteSetTheorems, TLAPS
-----------------------------------------------------------------------------
(* The log files of one process.                                           *)

(* Where a thread has a complete log unit and cur is the field it writes.  *)
Writing == {"lock", "remove"} \cup Locked

\* The fields that thread t's plan fills.
Fields(t) == 1..Len(Plan(t))

(* How far a thread's log unit is, by where the thread is: opening fills   *)
(* the fields in their order, and only closing empties them.               *)
PlaceOK(t) ==
    /\ Held(t) \subseteq Fields(t)
    /\ at[t] = "idle" => Held(t) \in {{}, Fields(t)}
    /\ at[t] = "open" => cur[t] \in Fields(t) /\ Held(t) = 1..(cur[t] - 1)
    /\ at[t] \in {"start", "start wf", "end", "end wf"} \cup Writing => Held(t) = Fields(t)
    /\ at[t] \in Writing => cur[t] \in Fields(t)
    /\ at[t] \in {"cut", "remove"} => ~program.split
PlaceInv == \A t \in Thread : PlaceOK(t)

(* What the assumptions say of the program that runs.                      *)
LEMMA ProgramFacts ==
    ASSUME LogTypeOK
    PROVE  /\ program.slots \in Nat /\ program.split \in BOOLEAN
           /\ FileSlot \subseteq Nat \ {0} /\ 0..program.slots = FileSlot \cup {0}
           /\ \A t \in Thread : /\ Fields(t) \subseteq Field /\ {1, 2} \subseteq Fields(t)
                                /\ Len(Plan(t)) \in Nat
                                /\ \A k \in Fields(t) : Plan(t)[k] \in File
<1>1. program.slots \in Nat /\ program.split \in BOOLEAN
  BY ProgramAssumption DEF LogTypeOK
<1>2. \A t \in Thread : Plan(t) \in Seq(File) /\ Len(Plan(t)) \in 2..(2 + MAX_SELF_DEF_LOG)
  BY ProgramAssumption DEF LogTypeOK, Plan
<1>3. QED
  BY <1>1, <1>2, FileBounds DEF FileSlot, Fields, Field

(* The slot and the file of a thread in ul_vwritelog_buff.                 *)
LEMMA MyFacts ==
    ASSUME LogTypeOK, PlaceInv, NEW t \in Thread, at[t] \in Writing
    PROVE  cur[t] \in Fields(t) /\ cur[t] \in Field /\ My(t) \in FileSlot /\ Mine(t) \in File
<1>1. cur[t] \in Fields(t) /\ Held(t) = Fields(t)
  BY DEF PlaceInv, PlaceOK
<1>2. cur[t] \in Field /\ Mine(t) \in File
  BY <1>1, ProgramFacts DEF Mine
<1>3. unit[t][cur[t]] \in 0..program.slots /\ unit[t][cur[t]] # 0
  BY <1>1, <1>2 DEF LogTypeOK, Held
<1>4. QED
  BY <1>1, <1>2, <1>3, ProgramFacts DEF My

(* The file that a thread in ul_openlog_ex opens next.                     *)
LEMMA OpenFacts ==
    ASSUME LogTypeOK, PlaceInv, NEW t \in Thread, at[t] = "open"
    PROVE  /\ cur[t] \in Fields(t) /\ cur[t] \in Field /\ Mine(t) \in File
           /\ unit[t][cur[t]] = 0 /\ cur[t] \in Nat /\ Held(t) = 1..(cur[t] - 1)
<1>1. cur[t] \in Fields(t) /\ Held(t) = 1..(cur[t] - 1)
  BY DEF PlaceInv, PlaceOK
<1>2. cur[t] \in Field /\ Mine(t) \in File
  BY <1>1, ProgramFacts DEF Mine
<1>3. cur[t] \in Nat /\ cur[t] \notin Held(t)
  BY <1>1, ProgramFacts DEF Fields
<1>4. QED
  BY <1>1, <1>2, <1>3 DEF Held

\* An inode, as ul_open_file makes it.
Inode == [base : File, size : Nat]

(* What ul_open_file leaves: the inode opened bears the log's name, and    *)
(* everything else is as it was.                                           *)
Opened(f, i) ==
    /\ i \in 1..Len(inode') /\ inode' \in Seq(Inode) /\ Len(inode) <= Len(inode')
    /\ dir' \in [Path -> 0..Len(inode')] /\ dir'[Log(f)] = i
    /\ \A x \in Path : x # Log(f) => dir'[x] = dir[x]
    /\ \A j \in 1..Len(inode) : inode'[j] = inode[j]
    /\ dir[Log(f)] # 0 => i = dir[Log(f)] /\ inode' = inode
    /\ dir[Log(f)] = 0 => i = Len(inode) + 1 /\ Len(inode') = i
                          /\ inode'[i] = [base |-> f, size |-> 0]

(* The names of a log and of its .tmp are paths.                           *)
LEMMA LogPath ==
    \A f \in File : Log(f) \in Path /\ Tmp(f) \in Path
<1>1. 0 \in 0..(1 + MaxPart) /\ 1 \in 0..(1 + MaxPart)
  BY FileBounds
<1>2. QED
  BY <1>1 DEF Log, Tmp, Path

(* ul_open_file, whether the file exists or is created.                    *)
LEMMA OpensFacts ==
    ASSUME LogTypeOK, NEW f \in File, NEW i, Opens(f, i)
    PROVE  Opened(f, i)
<1>0. Log(f) \in Path
  BY LogPath
<1>1. Log(f) \in Path /\ dir \in [Path -> 0..Len(inode)] /\ inode \in Seq(Inode)
  BY <1>0 DEF LogTypeOK, Inode
<1>2. dir[Log(f)] \in 0..Len(inode) /\ Len(inode) \in Nat
  BY <1>1
<1>3. CASE dir[Log(f)] # 0
  <2>1. i = dir[Log(f)] /\ inode' = inode /\ dir' = dir
    BY <1>3 DEF Opens
  <2>2. i \in 1..Len(inode)
    BY <2>1, <1>2, <1>3
  <2>3. QED
    BY <2>1, <2>2, <1>1, <1>2, <1>3 DEF Opened
<1>4. CASE dir[Log(f)] = 0
  <2>1. /\ i = Len(inode) + 1 /\ inode' = Append(inode, [base |-> f, size |-> 0])
        /\ dir' = [dir EXCEPT ![Log(f)] = i]
    BY <1>4 DEF Opens
  <2>2. [base |-> f, size |-> 0] \in Inode
    BY DEF Inode
  <2>3. /\ inode' \in Seq(Inode) /\ Len(inode') = Len(inode) + 1
        /\ inode'[i] = [base |-> f, size |-> 0]
        /\ \A j \in 1..Len(inode) : inode'[j] = inode[j]
    BY <2>1, <2>2, <1>1, <1>2
  <2>4. 0..Len(inode) \subseteq 0..Len(inode') /\ i \in 1..Len(inode')
    BY <2>1, <2>3, <1>2
  <2>5. /\ dir' \in [Path -> 0..Len(inode')] /\ dir'[Log(f)] = i
        /\ \A x \in Path : x # Log(f) => dir'[x] = dir[x]
    BY <2>1, <2>4, <1>1
  <2>6. Len(inode) <= Len(inode')
    BY <2>3, <1>2
  <2>7. QED
    BY <2>1, <2>3, <2>4, <2>5, <2>6, <1>4 DEF Opened
<1>5. QED
  BY <1>3, <1>4

\* Slot s becomes the given entry, every other slot stays.
Alters(s, fp, full, ref_cnt, lock, file_name) ==
    /\ file' \in [FileSlot -> Entries]
    /\ /\ file'[s].fp = fp /\ file'[s].full = full /\ file'[s].ref_cnt = ref_cnt
       /\ file'[s].lock = lock /\ file'[s].file_name = file_name
    /\ \A r \in FileSlot : r # s => file'[r] = file[r]

(* A slot of the table is an entry.                                        *)
LEMMA SlotEntry ==
    ASSUME LogTypeOK, NEW s \in FileSlot
    PROVE  /\ file \in [FileSlot -> Entries] /\ file[s] \in Entries
           /\ file[s].fp \in Nat /\ file[s].fp <= Len(inode) /\ Len(inode) \in Nat
           /\ file[s].ref_cnt \in Nat /\ file[s].full \in BOOLEAN
           /\ file[s].lock \in Thread \cup {None} /\ file[s].file_name \in File \cup {Cut}
<1>1. file \in [FileSlot -> Entries] /\ file[s].fp <= Len(inode)
  BY DEF LogTypeOK
<1>2. file[s] \in Entries
  BY <1>1
<1>3. Len(inode) \in Nat
  <2>1. inode \in Seq(Inode)
    BY DEF LogTypeOK, Inode
  <2>2. QED
    BY <2>1
<1>4. file[s].fp \in Nat /\ file[s].ref_cnt \in Nat /\ file[s].full \in BOOLEAN
      /\ file[s].lock \in Thread \cup {None} /\ file[s].file_name \in File \cup {Cut}
  BY <1>2 DEF Entries
<1>5. QED
  BY <1>1, <1>2, <1>3, <1>4

\* An entry with one or more fields changed, all of their types.
NewEntry(s, e, fp, full, ref_cnt, lock, file_name) ==
    /\ fp \in Nat /\ full \in BOOLEAN /\ ref_cnt \in Nat /\ lock \in Thread \cup {None}
    /\ file_name \in File \cup {Cut}
    /\ e = [fp |-> fp, full |-> full, ref_cnt |-> ref_cnt, lock |-> lock,
            file_name |-> file_name]
    /\ file' = [file EXCEPT ![s] = e]

(* Assigning a whole entry changes that slot and no other.                 *)
LEMMA AltersFrom ==
    ASSUME LogTypeOK, NEW s \in FileSlot, NEW e, NEW fp, NEW full, NEW ref_cnt, NEW lock,
           NEW file_name, NewEntry(s, e, fp, full, ref_cnt, lock, file_name)
    PROVE  Alters(s, fp, full, ref_cnt, lock, file_name)
<1>1. file \in [FileSlot -> Entries]
  BY SlotEntry
<1>2. e \in Entries /\ e.fp = fp /\ e.full = full /\ e.ref_cnt = ref_cnt /\ e.lock = lock
      /\ e.file_name = file_name
  BY DEF NewEntry, Entries
<1>3. file' \in [FileSlot -> Entries] /\ file'[s] = e
      /\ \A r \in FileSlot : r # s => file'[r] = file[r]
  BY <1>1, <1>2 DEF NewEntry
<1>4. QED
  BY <1>2, <1>3 DEF Alters

\* What the field-wise updates of an entry are.
Updates(e) ==
    /\ \A x : [e EXCEPT !.fp = x] = [fp |-> x, full |-> e.full, ref_cnt |-> e.ref_cnt,
                                     lock |-> e.lock, file_name |-> e.file_name]
    /\ \A x : [e EXCEPT !.ref_cnt = x] = [fp |-> e.fp, full |-> e.full, ref_cnt |-> x,
                                          lock |-> e.lock, file_name |-> e.file_name]
    /\ \A x : [e EXCEPT !.lock = x] = [fp |-> e.fp, full |-> e.full, ref_cnt |-> e.ref_cnt,
                                       lock |-> x, file_name |-> e.file_name]
    /\ \A x : [e EXCEPT !.file_name = x] = [fp |-> e.fp, full |-> e.full,
                                            ref_cnt |-> e.ref_cnt, lock |-> e.lock,
                                            file_name |-> x]
    /\ [e EXCEPT !.full = e.full] = e

(* The field-wise updates of an entry are records of the same fields.      *)
LEMMA EntryUpdates ==
    ASSUME NEW e \in Entries
    PROVE  Updates(e)
BY DEF Entries, Updates

\* One field of slot s is assigned.
AssignsFp(s, x) == x \in Nat /\ file' = [file EXCEPT ![s].fp = x]

(* Assigning fp leaves the other fields of the slot as they are.           *)
LEMMA FpAlters ==
    ASSUME LogTypeOK, NEW s \in FileSlot, NEW x, AssignsFp(s, x)
    PROVE  Alters(s, x, file[s].full, file[s].ref_cnt, file[s].lock, file[s].file_name)
<1>1. Updates(file[s])
  BY SlotEntry, EntryUpdates
<1>2. PICK e : e = [file[s] EXCEPT !.fp = x]
  OBVIOUS
<1>3. e = [fp |-> x, full |-> file[s].full, ref_cnt |-> file[s].ref_cnt,
           lock |-> file[s].lock, file_name |-> file[s].file_name]
  BY <1>1, <1>2 DEF Updates
<1>4. file' = [file EXCEPT ![s] = e]
  BY <1>2 DEF AssignsFp
<1>5. file[s].fp \in Nat /\ file[s].ref_cnt \in Nat /\ file[s].full \in BOOLEAN
      /\ file[s].lock \in Thread \cup {None} /\ file[s].file_name \in File \cup {Cut}
  BY SlotEntry
<1>6. NewEntry(s, e, x, file[s].full, file[s].ref_cnt, file[s].lock, file[s].file_name)
  BY <1>3, <1>4, <1>5 DEF NewEntry, AssignsFp
<1>7. QED
  BY <1>6, AltersFrom

\* One field of slot s is assigned.
AssignsRef(s, x) == x \in Nat /\ file' = [file EXCEPT ![s].ref_cnt = x]

(* Assigning ref_cnt leaves the other fields of the slot as they are.      *)
LEMMA RefAlters ==
    ASSUME LogTypeOK, NEW s \in FileSlot, NEW x, AssignsRef(s, x)
    PROVE  Alters(s, file[s].fp, file[s].full, x, file[s].lock, file[s].file_name)
<1>1. Updates(file[s])
  BY SlotEntry, EntryUpdates
<1>2. PICK e : e = [file[s] EXCEPT !.ref_cnt = x]
  OBVIOUS
<1>3. e = [fp |-> file[s].fp, full |-> file[s].full, ref_cnt |-> x,
           lock |-> file[s].lock, file_name |-> file[s].file_name]
  BY <1>1, <1>2 DEF Updates
<1>4. file' = [file EXCEPT ![s] = e]
  BY <1>2 DEF AssignsRef
<1>5. file[s].fp \in Nat /\ file[s].ref_cnt \in Nat /\ file[s].full \in BOOLEAN
      /\ file[s].lock \in Thread \cup {None} /\ file[s].file_name \in File \cup {Cut}
  BY SlotEntry
<1>6. NewEntry(s, e, file[s].fp, file[s].full, x, file[s].lock, file[s].file_name)
  BY <1>3, <1>4, <1>5 DEF NewEntry, AssignsRef
<1>7. QED
  BY <1>6, AltersFrom

\* One field of slot s is assigned.
AssignsLock(s, x) == x \in Thread \cup {None} /\ file' = [file EXCEPT ![s].lock = x]

(* Assigning the lock leaves the other fields of the slot as they are.     *)
LEMMA LockAlters ==
    ASSUME LogTypeOK, NEW s \in FileSlot, NEW x, AssignsLock(s, x)
    PROVE  Alters(s, file[s].fp, file[s].full, file[s].ref_cnt, x, file[s].file_name)
<1>1. Updates(file[s])
  BY SlotEntry, EntryUpdates
<1>2. PICK e : e = [file[s] EXCEPT !.lock = x]
  OBVIOUS
<1>3. e = [fp |-> file[s].fp, full |-> file[s].full, ref_cnt |-> file[s].ref_cnt,
           lock |-> x, file_name |-> file[s].file_name]
  BY <1>1, <1>2 DEF Updates
<1>4. file' = [file EXCEPT ![s] = e]
  BY <1>2 DEF AssignsLock
<1>5. file[s].fp \in Nat /\ file[s].ref_cnt \in Nat /\ file[s].full \in BOOLEAN
      /\ file[s].lock \in Thread \cup {None} /\ file[s].file_name \in File \cup {Cut}
  BY SlotEntry
<1>6. NewEntry(s, e, file[s].fp, file[s].full, file[s].ref_cnt, x, file[s].file_name)
  BY <1>3, <1>4, <1>5 DEF NewEntry, AssignsLock
<1>7. QED
  BY <1>6, AltersFrom

\* One field of slot s is assigned.
AssignsName(s, x) == x \in File \cup {Cut} /\ file' = [file EXCEPT ![s].file_name = x]

(* Assigning file_name leaves the other fields of the slot as they are.    *)
LEMMA NameAlters ==
    ASSUME LogTypeOK, NEW s \in FileSlot, NEW x, AssignsName(s, x)
    PROVE  Alters(s, file[s].fp, file[s].full, file[s].ref_cnt, file[s].lock, x)
<1>1. Updates(file[s])
  BY SlotEntry, EntryUpdates
<1>2. PICK e : e = [file[s] EXCEPT !.file_name = x]
  OBVIOUS
<1>3. e = [fp |-> file[s].fp, full |-> file[s].full, ref_cnt |-> file[s].ref_cnt,
           lock |-> file[s].lock, file_name |-> x]
  BY <1>1, <1>2 DEF Updates
<1>4. file' = [file EXCEPT ![s] = e]
  BY <1>2 DEF AssignsName
<1>5. file[s].fp \in Nat /\ file[s].ref_cnt \in Nat /\ file[s].full \in BOOLEAN
      /\ file[s].lock \in Thread \cup {None} /\ file[s].file_name \in File \cup {Cut}
  BY SlotEntry
<1>6. NewEntry(s, e, file[s].fp, file[s].full, file[s].ref_cnt, file[s].lock, x)
  BY <1>3, <1>4, <1>5 DEF NewEntry, AssignsName
<1>7. QED
  BY <1>6, AltersFrom

(* Share: one more user of the slot found.                                 *)
LEMMA ShareEffect ==
    ASSUME LogTypeOK, NEW t \in Thread, Share(t)
    PROVE  \E s \in Found(Mine(t)) :
              /\ s \in FileSlot /\ Point(t, s)
              /\ Alters(s, file[s].fp, file[s].full, file[s].ref_cnt + 1, file[s].lock,
                        file[s].file_name)
<1>1. PICK s \in Found(Mine(t)) : s \in FileSlot /\ Point(t, s)
                                  /\ file' = [file EXCEPT ![s].ref_cnt = @ + 1]
  BY DEF Share, Lowest, Found
<1>2. file[s].ref_cnt + 1 \in Nat
  BY <1>1, SlotEntry
<1>3. AssignsRef(s, file[s].ref_cnt + 1)
  BY <1>1, <1>2 DEF AssignsRef
<1>4. QED
  BY <1>1, <1>3, RefAlters

(* OpenNew: the first free slot gets a stream of the file's log.           *)
LEMMA OpenNewEffect ==
    ASSUME LogTypeOK, PlaceInv, NEW t \in Thread, OpenNew(t)
    PROVE  \E s \in Free, i \in Nat :
              /\ s \in FileSlot /\ Point(t, s) /\ Opened(Mine(t), i)
              /\ Alters(s, i, FALSE, 1, None, Mine(t))
              /\ stolen' = (stolen \/ file[s].ref_cnt > 0)
<1>1. PICK s \in Lowest(Free), i \in 1..MaxInode :
        /\ Opens(Mine(t), i) /\ Point(t, s) /\ stolen' = (stolen \/ file[s].ref_cnt > 0)
        /\ file' = [file EXCEPT ![s] = [fp |-> i, full |-> FALSE, ref_cnt |-> 1,
                                        lock |-> None, file_name |-> Mine(t)]]
  BY DEF OpenNew
<1>2. s \in Free /\ s \in FileSlot /\ i \in Nat /\ Mine(t) \in File
  BY OpenFacts, FileBounds DEF Lowest, Free, OpenNew
<1>3. PICK e : e = [fp |-> i, full |-> FALSE, ref_cnt |-> 1, lock |-> None,
                    file_name |-> Mine(t)]
  OBVIOUS
<1>4. NewEntry(s, e, i, FALSE, 1, None, Mine(t))
  BY <1>1, <1>2, <1>3 DEF NewEntry
<1>5. Alters(s, i, FALSE, 1, None, Mine(t))
  BY <1>2, <1>4, AltersFrom
<1>6. Opened(Mine(t), i)
  BY <1>1, <1>2, OpensFacts
<1>7. QED
  BY <1>1, <1>2, <1>5, <1>6

(* ul_check marks no file as full: one that large is rotated instead.      *)
LEMMA CheckEffect ==
    ASSUME LogTypeOK, PlaceInv, NEW t \in Thread, ul_check(t)
    PROVE  file' = file
<1>1. at[t] = "check"
  BY DEF ul_check
<1>2. My(t) \in FileSlot /\ Mine(t) \in File
  BY <1>1, MyFacts DEF Writing, Locked
<1>3. PICK m : m = My(t)
  OBVIOUS
<1>4. file \in [FileSlot -> Entries] /\ file[m] \in Entries /\ file[m].full \in BOOLEAN
  BY <1>2, <1>3, SlotEntry
<1>5. CASE UNCHANGED file
  BY <1>5
<1>6. ASSUME NEW z, z \in Nat, z + 1 < MaxSize,
             file' = [file EXCEPT ![m].full = @ \/ z >= MaxSize]
      PROVE  file' = file
  <2>1. ~(z >= MaxSize)
    BY <1>6, FileBounds
  <2>2. (file[m].full \/ z >= MaxSize) = file[m].full
    BY <2>1, <1>4
  <2>3. [file[m] EXCEPT !.full = file[m].full] = file[m]
    BY <1>4, EntryUpdates DEF Updates
  <2>4. file' = [file EXCEPT ![m] = file[m]]
    BY <1>6, <2>2, <2>3
  <2>5. QED
    BY <2>4, <1>4
<1>7. CASE dir[Log(Mine(t))] # 0 /\ ~UNCHANGED file
  <2>1. PICK z : z = inode[dir[Log(Mine(t))]].size
    OBVIOUS
  <2>2. z + 1 < MaxSize /\ file' = [file EXCEPT ![m].full = @ \/ z >= MaxSize]
    BY <1>3, <1>7, <2>1 DEF ul_check, Sized
  <2>3. dir[Log(Mine(t))] \in 1..Len(inode)
    <3>1. dir \in [Path -> 0..Len(inode)] /\ inode \in Seq(Inode)
      BY DEF LogTypeOK, Inode
    <3>2. QED
      BY <3>1, <1>2, <1>7, LogPath
  <2>4. z \in Nat
    <3>1. inode \in Seq(Inode)
      BY DEF LogTypeOK, Inode
    <3>2. inode[dir[Log(Mine(t))]] \in Inode
      BY <2>3, <3>1
    <3>3. QED
      BY <2>1, <3>2 DEF Inode
  <2>5. QED
    BY <2>2, <2>4, <1>6
<1>8. QED
  BY <1>5, <1>7 DEF ul_check

\* The full log of f is renamed to x, which nobody had when the log is split.
Renamed(f, x) ==
    /\ dir' \in [Path -> 0..Len(inode)] /\ x \in Path /\ x[1] = f /\ x # Log(f)
    /\ dir'[Log(f)] = 0
    /\ \A y \in Path : y # x /\ y # Log(f) => dir'[y] = dir[y]
    /\ dir[Log(f)] = 0 => dir'[x] = dir[x]
    /\ dir[Log(f)] # 0 => dir'[x] = dir[Log(f)] /\ (program.split => dir[x] = 0)

(* Rename: the log's name is free, and its inode has the name of a part or *)
(* of the .tmp.                                                            *)
LEMMA RenameEffect ==
    ASSUME LogTypeOK, PlaceInv, NEW t \in Thread, Rename(t)
    PROVE  \E x \in Path : Renamed(Mine(t), x)
<1>1. Mine(t) \in File
  BY MyFacts DEF Rename, Writing, Locked
<1>2. PICK f \in File : f = Mine(t)
  BY <1>1
<1>3. /\ dir \in [Path -> 0..Len(inode)] /\ Log(f) \in Path /\ Tmp(f) \in Path
      /\ Log(f) # Tmp(f) /\ Tmp(f)[1] = f
  <2>1. dir \in [Path -> 0..Len(inode)]
    BY DEF LogTypeOK
  <2>2. Log(f) # Tmp(f) /\ Tmp(f)[1] = f
    BY DEF Log, Tmp
  <2>3. QED
    BY <2>1, <2>2, LogPath
<1>3a. 0 \in 0..Len(inode)
  <2>1. inode \in Seq(Inode)
    BY DEF LogTypeOK, Inode
  <2>2. QED
    BY <2>1
<1>4. CASE dir[Log(f)] = 0
  <2>1. dir' = dir
    BY <1>2, <1>4 DEF Rename
  <2>2. Renamed(f, Tmp(f))
    BY <2>1, <1>3, <1>4 DEF Renamed
  <2>3. QED
    BY <2>2, <1>2, <1>3
<1>5. CASE dir[Log(f)] # 0
  <2>1. PICK x \in Target(f) : dir' = [dir EXCEPT ![x] = dir[Log(f)], ![Log(f)] = 0]
    BY <1>2, <1>5 DEF Rename
  <2>2. x \in Path /\ x[1] = f /\ x # Log(f) /\ (program.split => dir[x] = 0)
    <3>1. CASE program.split
      <4>1. PICK k \in 1..MaxPart : x = Part(f, k) /\ dir[Part(f, k)] = 0
        BY <3>1 DEF Target, Lowest
      <4>2. 1 + k \in 0..(1 + MaxPart) /\ 1 + k # 0
        BY <4>1, FileBounds
      <4>3. QED
        BY <4>1, <4>2 DEF Part, Path, Log
    <3>2. CASE ~program.split
      BY <3>2, <1>3 DEF Target
    <3>3. QED
      BY <3>1, <3>2
  <2>3. /\ dir' \in [Path -> 0..Len(inode)] /\ dir'[x] = dir[Log(f)] /\ dir'[Log(f)] = 0
        /\ \A y \in Path : y # x /\ y # Log(f) => dir'[y] = dir[y]
    BY <2>1, <2>2, <1>3, <1>3a
  <2>4. Renamed(f, x)
    BY <2>2, <2>3, <1>3, <1>5 DEF Renamed
  <2>5. QED
    BY <2>2, <2>4, <1>2
<1>6. QED
  BY <1>4, <1>5

\* Where ul_check and fprintf rely on the stream.
Streaming == {"restat", "cut", "rename", "reopen", "write"}

(* Whoever is past the check of fp has a stream.                           *)
FpInv == ~stolen => \A t \in Thread : at[t] \in Streaming => file[My(t)].fp # 0

NamesType == inode \in Seq(Inode) /\ dir \in [Path -> 0..Len(inode)]

\* Inodes are only added, and they only grow.
Lasting ==
    /\ NamesType' /\ Len(inode) \in Nat /\ Len(inode') \in Nat /\ Len(inode) <= Len(inode')
    /\ \A j \in 1..Len(inode) : inode'[j].base = inode[j].base
                                /\ inode'[j].size \in Nat /\ inode'[j].size >= inode[j].size

\* One entry is added to inode i.
Printed(i) ==
    /\ i \in 1..Len(inode) /\ inode' \in Seq(Inode) /\ Len(inode') = Len(inode)
    /\ inode[i].size \in Nat /\ inode'[i].size = inode[i].size + 1
    /\ inode'[i].base = inode[i].base
    /\ \A j \in 1..Len(inode) : j # i => inode'[j] = inode[j]

(* Write: one entry more in the inode of the stream.                       *)
LEMMA WriteEffect ==
    ASSUME LogTypeOK, PlaceInv, FpInv, ~stolen, NEW t \in Thread, Write(t)
    PROVE  Printed(file[My(t)].fp)
<1>1. My(t) \in FileSlot /\ file[My(t)].fp # 0
  BY MyFacts DEF Write, Writing, Locked, FpInv, Streaming
<1>2. PICK i : i = file[My(t)].fp
  OBVIOUS
<1>3. i \in 1..Len(inode)
  BY <1>1, <1>2, SlotEntry
<1>4. inode \in Seq(Inode) /\ Len(inode) \in Nat
  <2>1. inode \in Seq(Inode)
    BY DEF LogTypeOK, Inode
  <2>2. QED
    BY <2>1
<1>5. inode[i] \in Inode /\ inode[i].size \in Nat /\ inode[i].base \in File
  <2>1. inode[i] \in Inode
    BY <1>3, <1>4
  <2>2. QED
    BY <2>1 DEF Inode
<1>6. PICK e : e = [inode[i] EXCEPT !.size = @ + 1]
  OBVIOUS
<1>7. e \in Inode /\ e.size = inode[i].size + 1 /\ e.base = inode[i].base
  BY <1>5, <1>6 DEF Inode
<1>8. inode' = [inode EXCEPT ![i] = e]
  BY <1>2, <1>6 DEF Write
<1>9. inode' \in Seq(Inode) /\ Len(inode') = Len(inode) /\ inode'[i] = e
      /\ \A j \in 1..Len(inode) : j # i => inode'[j] = inode[j]
  <2>1. inode \in [1..Len(inode) -> Inode]
    BY <1>4
  <2>2. inode' \in [1..Len(inode) -> Inode]
    BY <1>8, <2>1, <1>7
  <2>3. inode' \in Seq(Inode) /\ Len(inode') = Len(inode)
    BY <1>4, <2>2
  <2>4. QED
    BY <1>3, <1>8, <2>1, <2>3
<1>10. QED
  BY <1>2, <1>3, <1>5, <1>7, <1>9 DEF Printed

(* No step shortens a file or takes it away; names may go, inodes stay.    *)
LEMMA LastingStep ==
    ASSUME LogTypeOK, PlaceInv, FpInv, LogNext
    PROVE  Lasting
<1>0. /\ inode \in Seq(Inode) /\ dir \in [Path -> 0..Len(inode)] /\ Len(inode) \in Nat
      /\ 0 \in 0..Len(inode) /\ \A j \in 1..Len(inode) : inode[j].size \in Nat
  <2>1. inode \in Seq(Inode) /\ dir \in [Path -> 0..Len(inode)]
    BY DEF LogTypeOK, Inode
  <2>2. Len(inode) \in Nat /\ 0 \in 0..Len(inode)
    BY <2>1
  <2>3. \A j \in 1..Len(inode) : inode[j] \in Inode
    BY <2>1
  <2>4. QED
    BY <2>1, <2>2, <2>3 DEF Inode
<1>a. ASSUME inode' = inode, dir' \in [Path -> 0..Len(inode)]
      PROVE  Lasting
  BY <1>a, <1>0 DEF Lasting, NamesType
<1>b. ASSUME UNCHANGED <<dir, inode>>
      PROVE  Lasting
  BY <1>a, <1>b, <1>0
<1>c. ASSUME NEW f, NEW i, Opened(f, i)
      PROVE  Lasting
  <2>1. inode' \in Seq(Inode) /\ Len(inode') \in Nat /\ Len(inode) <= Len(inode')
        /\ dir' \in [Path -> 0..Len(inode')]
    BY <1>c DEF Opened
  <2>2. \A j \in 1..Len(inode) : inode'[j] = inode[j]
    BY <1>c DEF Opened
  <2>3. QED
    BY <2>1, <2>2, <1>0 DEF Lasting, NamesType
<1>1. ASSUME NEW f \in File, Unlink(f)
      PROVE  Lasting
  BY <1>a, <1>0, <1>1, LogPath DEF Unlink
<1>2. ASSUME NEW t \in Thread, OpenNew(t)
      PROVE  Lasting
  BY <1>2, <1>c, OpenNewEffect
<1>3. ASSUME NEW t \in Thread, Restat(t) \/ Reopen(t)
      PROVE  Lasting
  <2>1. Mine(t) \in File
    BY <1>3, MyFacts DEF Restat, Reopen, Writing, Locked
  <2>2. CASE OpenMayFail
    BY <2>2, <1>b DEF OpenMayFail
  <2>3. CASE \E i \in 1..MaxInode : Opens(Mine(t), i)
    BY <2>1, <2>3, <1>c, OpensFacts
  <2>4. QED
    BY <2>2, <2>3, <1>3 DEF Restat, Reopen
<1>4. ASSUME NEW t \in Thread, Rename(t)
      PROVE  Lasting
  BY <1>4, <1>a, RenameEffect DEF Renamed, Rename
<1>5. ASSUME NEW t \in Thread, Write(t)
      PROVE  Lasting
  <2>1. ~stolen
    BY DEF LogNext
  <2>2. PICK i : i = file[My(t)].fp
    OBVIOUS
  <2>3. Printed(i)
    BY <2>1, <2>2, <1>5, WriteEffect
  <2>4. dir' = dir
    BY <1>5 DEF Write
  <2>5. \A j \in 1..Len(inode) : inode'[j].base = inode[j].base
                                 /\ inode'[j].size \in Nat /\ inode'[j].size >= inode[j].size
    BY <2>3, <1>0 DEF Printed
  <2>6. QED
    BY <2>3, <2>4, <2>5, <1>0 DEF Printed, Lasting, NamesType
<1>6. ASSUME NEW t \in Thread, RemoveTmp(t)
      PROVE  Lasting
  <2>1. Mine(t) \in File
    BY <1>6, MyFacts DEF RemoveTmp, Writing
  <2>2. QED
    BY <1>a, <1>0, <1>6, <2>1, LogPath DEF RemoveTmp
<1>7. ASSUME NEW t \in Thread,
             \/ Share(t) \/ OpenFails(t) \/ Start(t) \/ Lock(t) \/ Unlock(t) \/ ul_check(t)
             \/ CutName(t) \/ Close(t) \/ Freed(t) \/ ul_openlog(t) \/ ul_closelog(t)
             \/ \E k \in Field : ul_writelog(t, k)
      PROVE  Lasting
  <2>1. UNCHANGED <<dir, inode>>
    BY <1>7 DEF Share, OpenFails, Start, Lock, Unlock, ul_check, CutName, Close, Freed,
                ul_openlog, ul_closelog, ul_writelog
  <2>2. QED
    BY <2>1, <1>b
<1>8. QED
  BY <1>1, <1>2, <1>3, <1>4, <1>5, <1>6, <1>7 DEF LogNext, Work

\* The actions of thread t that leave the file table alone.
Idles(t) ==
    \/ OpenFails(t) \/ Start(t) \/ ul_check(t) \/ RemoveTmp(t) \/ Freed(t)
    \/ ul_openlog(t) \/ ul_closelog(t) \/ \E k \in Field : ul_writelog(t, k)

(* Those actions change neither a slot nor a log unit.                     *)
LEMMA IdlesFile ==
    ASSUME LogTypeOK, PlaceInv, NEW t \in Thread, Idles(t)
    PROVE  file' = file /\ unit' = unit
<1>1. CASE ul_check(t)
  BY <1>1, CheckEffect DEF ul_check
<1>2. CASE ~ul_check(t)
  BY <1>2 DEF Idles, OpenFails, Start, RemoveTmp, Freed, ul_openlog, ul_closelog, ul_writelog
<1>3. QED
  BY <1>1, <1>2

(* Close: the slot loses one user, and is cleared with the last one.       *)
Closes(t, k) ==
    /\ k \in Held(t) /\ unit[t][k] \in FileSlot /\ unit' = [unit EXCEPT ![t][k] = 0]
    /\ LET s == unit[t][k]
       IN  \/ file[s].ref_cnt <= 1 /\ Alters(s, 0, FALSE, 0, None, Cut)
           \/ /\ file[s].ref_cnt > 1
              /\ Alters(s, file[s].fp, file[s].full, file[s].ref_cnt - 1, file[s].lock,
                        file[s].file_name)

(* Close is that of one field of the unit.                                 *)
LEMMA CloseEffect ==
    ASSUME LogTypeOK, NEW t \in Thread, Close(t)
    PROVE  \E k \in Field : Closes(t, k)
<1>1. PICK k \in Held(t) : /\ file' = [file EXCEPT ![unit[t][k]] = closefile(unit[t][k])]
                           /\ unit' = [unit EXCEPT ![t][k] = 0]
  BY DEF Close
<1>2. PICK s : s = unit[t][k]
  OBVIOUS
<1>3. k \in Field /\ s \in FileSlot
  <2>1. k \in Field /\ unit[t][k] # 0
    BY DEF Held
  <2>2. unit[t][k] \in 0..program.slots
    BY <2>1 DEF LogTypeOK
  <2>3. QED
    BY <1>2, <2>1, <2>2, ProgramFacts
<1>4. file[s].ref_cnt \in Nat /\ file[s] \in Entries
  BY <1>3, SlotEntry
<1>5. CASE file[s].ref_cnt <= 1
  <2>1. file' = [file EXCEPT ![s] = Unused]
    BY <1>1, <1>2, <1>5 DEF closefile
  <2>2. PICK e : e = Unused
    OBVIOUS
  <2>3. NewEntry(s, e, 0, FALSE, 0, None, Cut)
    BY <2>1, <2>2 DEF NewEntry, Unused
  <2>4. Alters(s, 0, FALSE, 0, None, Cut)
    BY <2>3, <1>3, AltersFrom
  <2>5. QED
    BY <1>1, <1>2, <1>3, <1>5, <2>4 DEF Closes
<1>6. CASE file[s].ref_cnt > 1
  <2>1. file[s].ref_cnt - 1 \in Nat /\ ~(file[s].ref_cnt <= 1)
    BY <1>4, <1>6
  <2>2. file' = [file EXCEPT ![s] = [file[s] EXCEPT !.ref_cnt = file[s].ref_cnt - 1]]
    BY <1>1, <1>2, <2>1 DEF closefile
  <2>3. file' = [file EXCEPT ![s].ref_cnt = file[s].ref_cnt - 1]
    BY <2>2
  <2>4. AssignsRef(s, file[s].ref_cnt - 1)
    BY <2>1, <2>3 DEF AssignsRef
  <2>5. Alters(s, file[s].fp, file[s].full, file[s].ref_cnt - 1, file[s].lock,
               file[s].file_name)
    BY <2>4, <1>3, RefAlters
  <2>6. QED
    BY <1>1, <1>2, <1>3, <1>6, <2>5 DEF Closes
<1>7. QED
  BY <1>4, <1>5, <1>6

(* Lock, Unlock, Write: only the lock of the slot.                         *)
LEMMA LockEffect ==
    ASSUME LogTypeOK, PlaceInv, NEW t \in Thread, NEW s, s = My(t),
           Lock(t) \/ Unlock(t) \/ Write(t)
    PROVE  /\ s \in FileSlot /\ unit' = unit /\ cur' = cur
           /\ \E x \in Thread \cup {None} :
                 /\ x = IF Lock(t) THEN t ELSE None
                 /\ Alters(s, file[s].fp, file[s].full, file[s].ref_cnt, x,
                           file[s].file_name)
<1>1. s \in FileSlot
  BY MyFacts DEF Lock, Unlock, Write, Writing, Locked
<1>2. PICK x : x = IF Lock(t) THEN t ELSE None
  OBVIOUS
<1>3. AssignsLock(s, x)
  BY <1>2 DEF AssignsLock, Lock, Unlock, Write
<1>4. x \in Thread \cup {None}
  BY <1>3 DEF AssignsLock
<1>5. Alters(s, file[s].fp, file[s].full, file[s].ref_cnt, x, file[s].file_name)
  BY <1>1, <1>3, LockAlters
<1>6. unit' = unit /\ cur' = cur
  BY DEF Lock, Unlock, Write
<1>7. QED
  BY <1>1, <1>2, <1>4, <1>5, <1>6

(* CutName, Rename: only the name of the slot.                             *)
LEMMA NameEffect ==
    ASSUME LogTypeOK, PlaceInv, NEW t \in Thread, NEW s, s = My(t), CutName(t) \/ Rename(t)
    PROVE  /\ s \in FileSlot /\ unit' = unit /\ cur' = cur
           /\ \E x \in File \cup {Cut} :
                 /\ CutName(t) => x = Cut
                 /\ Rename(t) => x = Mine(t)
                 /\ Alters(s, file[s].fp, file[s].full, file[s].ref_cnt, file[s].lock, x)
<1>1. s \in FileSlot /\ Mine(t) \in File
  BY MyFacts DEF CutName, Rename, Writing, Locked
<1>2. ~(CutName(t) /\ Rename(t))
  BY DEF CutName, Rename
<1>3. PICK x : x = IF CutName(t) THEN Cut ELSE Mine(t)
  OBVIOUS
<1>4. AssignsName(s, x)
  BY <1>1, <1>3 DEF AssignsName, CutName, Rename
<1>5. x \in File \cup {Cut}
  BY <1>4 DEF AssignsName
<1>6. Alters(s, file[s].fp, file[s].full, file[s].ref_cnt, file[s].lock, x)
  BY <1>1, <1>4, NameAlters
<1>7. unit' = unit /\ cur' = cur
  BY DEF CutName, Rename
<1>8. QED
  BY <1>1, <1>2, <1>3, <1>5, <1>6, <1>7

(* Restat, Reopen: the slot loses its stream, or gets one of the log.      *)
LEMMA StreamEffect ==
    ASSUME LogTypeOK, PlaceInv, NEW t \in Thread, NEW s, s = My(t), Restat(t) \/ Reopen(t)
    PROVE  /\ s \in FileSlot /\ unit' = unit /\ cur' = cur
           /\ \E i \in Nat :
                 /\ \/ i = 0 /\ at' = [at EXCEPT ![t] = "unlock"] /\ UNCHANGED <<dir, inode>>
                    \/ /\ Opened(Mine(t), i)
                       /\ \E w \in {"write", "rename", "cut"} :
                             /\ at' = [at EXCEPT ![t] = w]
                             /\ w = "cut" => ~program.split
                             /\ Reopen(t) => w = "write"
                 /\ Alters(s, i, file[s].full, file[s].ref_cnt, file[s].lock,
                           file[s].file_name)
<1>1. s \in FileSlot /\ Mine(t) \in File
  BY MyFacts DEF Restat, Reopen, Writing, Locked
<1>2. unit' = unit /\ cur' = cur
  BY DEF Restat, Reopen
<1>3. PICK i \in Nat :
        /\ file' = [file EXCEPT ![s].fp = i]
        /\ \/ i = 0 /\ at' = [at EXCEPT ![t] = "unlock"] /\ UNCHANGED <<dir, inode>>
           \/ /\ Opens(Mine(t), i)
              /\ \E w \in {"write", "rename", "cut"} :
                    /\ at' = [at EXCEPT ![t] = w]
                    /\ w = "cut" => ~program.split
                    /\ Reopen(t) => w = "write"
  <2>1. 1..MaxInode \subseteq Nat
    BY FileBounds
  <2>2. CASE Restat(t)
    <3>1. CASE OpenMayFail /\ file' = [file EXCEPT ![My(t)].fp = 0] /\ Go(t, "unlock")
      BY <3>1 DEF OpenMayFail, Go
    <3>2. ASSUME NEW i \in 1..MaxInode,
                 NEW w \in {"write", IF program.split THEN "rename" ELSE "cut"},
                 Opens(Mine(t), i), file' = [file EXCEPT ![My(t)].fp = i], Go(t, w)
          PROVE  \E j \in Nat :
                    /\ file' = [file EXCEPT ![s].fp = j]
                    /\ \/ j = 0 /\ at' = [at EXCEPT ![t] = "unlock"] /\ UNCHANGED <<dir, inode>>
                       \/ /\ Opens(Mine(t), j)
                          /\ \E v \in {"write", "rename", "cut"} :
                                /\ at' = [at EXCEPT ![t] = v]
                                /\ v = "cut" => ~program.split
                                /\ Reopen(t) => v = "write"
      <4>1. w \in {"write", "rename", "cut"} /\ (w = "cut" => ~program.split)
        BY <3>2
      <4>2. ~Reopen(t)
        BY <2>2 DEF Restat, Reopen
      <4>3. QED
        BY <2>1, <3>2, <4>1, <4>2 DEF Go
    <3>3. QED
      BY <2>2, <3>1, <3>2 DEF Restat
  <2>3. CASE Reopen(t)
    <3>1. CASE OpenMayFail /\ file' = [file EXCEPT ![My(t)].fp = 0] /\ Go(t, "unlock")
      BY <3>1 DEF OpenMayFail, Go
    <3>2. CASE \E i \in 1..MaxInode :
                  Opens(Mine(t), i) /\ file' = [file EXCEPT ![My(t)].fp = i] /\ Go(t, "write")
      BY <2>1, <3>2 DEF Go
    <3>3. QED
      BY <2>3, <3>1, <3>2 DEF Reopen
  <2>4. QED
    BY <2>2, <2>3
<1>4. AssignsFp(s, i)
  BY <1>3 DEF AssignsFp
<1>5. Alters(s, i, file[s].full, file[s].ref_cnt, file[s].lock, file[s].file_name)
  BY <1>1, <1>4, FpAlters
<1>6. Opens(Mine(t), i) => Opened(Mine(t), i)
  BY <1>1, OpensFacts
<1>7. QED
  BY <1>1, <1>2, <1>3, <1>5, <1>6

(* What ul_openlog_ex keeps of a slot it was given.                        *)
LEMMA PointEffect ==
    ASSUME LogTypeOK, PlaceInv, NEW t \in Thread, at[t] = "open", NEW s \in FileSlot,
           Point(t, s)
    PROVE  /\ unit' \in [Thread -> [Field -> 0..program.slots]]
           /\ unit'[t][cur[t]] = s /\ s # 0
           /\ \A k \in Field : k # cur[t] => unit'[t][k] = unit[t][k]
           /\ \A r \in Thread : r # t => unit'[r] = unit[r] /\ cur'[r] = cur[r] /\ at'[r] = at[r]
           /\ cur' \in [Thread -> Nat] /\ cur'[t] = cur[t] + 1
           /\ at'[t] = IF cur[t] = Len(Plan(t)) THEN "start" ELSE "open"
<1>1. cur[t] \in Field /\ cur[t] \in Nat
  BY OpenFacts
<1>2. s \in 0..program.slots /\ s # 0
  BY ProgramFacts
<1>3. /\ unit \in [Thread -> [Field -> 0..program.slots]] /\ cur \in [Thread -> Nat]
      /\ DOMAIN at = Thread
  BY DEF LogTypeOK
<1>4. unit' = [unit EXCEPT ![t] = [unit[t] EXCEPT ![cur[t]] = s]]
  BY DEF Point
<1>5. [unit[t] EXCEPT ![cur[t]] = s] \in [Field -> 0..program.slots]
  BY <1>1, <1>2, <1>3
<1>6. cur' = [cur EXCEPT ![t] = cur[t] + 1] /\ cur[t] + 1 \in Nat
  BY <1>1 DEF Point
<1>7. at' = [at EXCEPT ![t] = IF cur[t] = Len(Plan(t)) THEN "start" ELSE "open"]
  BY DEF Point, Go
<1>8. unit' \in [Thread -> [Field -> 0..program.slots]]
  BY <1>3, <1>4, <1>5
<1>9. /\ unit'[t][cur[t]] = s
      /\ \A k \in Field : k # cur[t] => unit'[t][k] = unit[t][k]
      /\ \A r \in Thread : r # t => unit'[r] = unit[r]
  BY <1>1, <1>3, <1>4
<1>10. /\ cur' \in [Thread -> Nat] /\ cur'[t] = cur[t] + 1
       /\ \A r \in Thread : r # t => cur'[r] = cur[r]
  BY <1>3, <1>6
<1>11. /\ at'[t] = IF cur[t] = Len(Plan(t)) THEN "start" ELSE "open"
       /\ \A r \in Thread : r # t => at'[r] = at[r]
  BY <1>3, <1>7
<1>12. QED
  BY <1>2, <1>8, <1>9, <1>10, <1>11

(* A step of thread t moves no other thread.                               *)
LEMMA OthersStay ==
    ASSUME LogTypeOK, NEW t \in Thread, NEW r \in Thread, r # t,
           \/ Work(t) \/ ul_openlog(t) \/ ul_closelog(t) \/ \E k \in Field : ul_writelog(t, k)
    PROVE  /\ at'[r] = at[r] /\ cur'[r] = cur[r] /\ unit'[r] = unit[r] /\ back'[r] = back[r]
           /\ rotated'[r] = rotated[r]
<1>1. DOMAIN at = Thread /\ DOMAIN cur = Thread /\ DOMAIN unit = Thread /\ DOMAIN back = Thread
      /\ DOMAIN rotated = Thread
  BY DEF LogTypeOK
<1>2. CASE Share(t) \/ OpenNew(t)
  BY <1>1, <1>2 DEF Share, OpenNew, Point, Go
<1>3. CASE \/ OpenFails(t) \/ Start(t) \/ ul_openlog(t) \/ ul_closelog(t)
           \/ \E k \in Field : ul_writelog(t, k)
  BY <1>1, <1>3 DEF OpenFails, Start, ul_openlog, ul_closelog, ul_writelog, CallWrite, Go
<1>4. CASE Lock(t) \/ Unlock(t) \/ CutName(t) \/ Rename(t) \/ Write(t) \/ RemoveTmp(t)
           \/ Freed(t)
  BY <1>1, <1>4 DEF Lock, Unlock, CutName, Rename, Write, RemoveTmp, Freed, Go
<1>5. CASE ul_check(t)
  BY <1>1, <1>5 DEF ul_check, Sized, Go
<1>6. CASE Restat(t) \/ Reopen(t)
  BY <1>1, <1>6 DEF Restat, Reopen, Go
<1>7. CASE Close(t)
  BY <1>1, <1>7 DEF Close
<1>8. QED
  BY <1>2, <1>3, <1>4, <1>5, <1>6, <1>7 DEF Work

(* The log unit, the file table and the program of a step.                 *)
LEMMA SameProgram ==
    ASSUME LogNext
    PROVE  /\ program' = program /\ FileSlot' = FileSlot /\ Path' = Path
           /\ \A t \in Thread : Plan(t)' = Plan(t) /\ Fields(t)' = Fields(t)
<1>1. program' = program
  BY DEF LogNext, Work, Unlink, Share, OpenNew, OpenFails, Start, Lock, Unlock, ul_check,
         Restat, CutName, Rename, Reopen, Write, RemoveTmp, Close, Freed, ul_openlog,
         ul_closelog, ul_writelog
<1>2. QED
  BY <1>1 DEF FileSlot, Plan, Fields, Path

(* The file table stays a table of entries, with streams of inodes that    *)
(* exist.                                                                  *)
LEMMA FilesTypeStep ==
    ASSUME LogTypeOK, PlaceInv, FpInv, LogNext
    PROVE  /\ file' \in [FileSlot -> Entries]
           /\ \A s \in FileSlot : file'[s].fp <= Len(inode')
<1>0. /\ file \in [FileSlot -> Entries]
      /\ \A s \in FileSlot : file[s].fp \in Nat /\ file[s].fp <= Len(inode)
      /\ Len(inode) \in Nat /\ Len(inode') \in Nat /\ Len(inode) <= Len(inode')
  <2>1. file \in [FileSlot -> Entries]
    BY DEF LogTypeOK
  <2>2. QED
    BY <2>1, SlotEntry, LastingStep DEF Lasting
<1>1. CASE file' = file
  BY <1>0, <1>1
<1>2. ASSUME NEW s \in FileSlot, NEW i, i <= Len(inode'),
             \E b, c, d, e : Alters(s, i, b, c, d, e)
      PROVE  /\ file' \in [FileSlot -> Entries]
             /\ \A r \in FileSlot : file'[r].fp <= Len(inode')
  BY <1>0, <1>2 DEF Alters
<1>3. ASSUME NEW t \in Thread, Share(t)
      PROVE  /\ file' \in [FileSlot -> Entries]
             /\ \A r \in FileSlot : file'[r].fp <= Len(inode')
  <2>1. PICK s \in FileSlot :
          Alters(s, file[s].fp, file[s].full, file[s].ref_cnt + 1, file[s].lock,
                 file[s].file_name)
    BY <1>3, ShareEffect
  <2>2. file[s].fp <= Len(inode')
    BY <1>0
  <2>3. QED
    BY <2>1, <2>2, <1>2
<1>4. ASSUME NEW t \in Thread, OpenNew(t)
      PROVE  /\ file' \in [FileSlot -> Entries]
             /\ \A r \in FileSlot : file'[r].fp <= Len(inode')
  <2>1. PICK s \in FileSlot, i \in Nat :
          Opened(Mine(t), i) /\ Alters(s, i, FALSE, 1, None, Mine(t))
    BY <1>4, OpenNewEffect
  <2>2. i <= Len(inode')
    BY <2>1, <1>0 DEF Opened
  <2>3. QED
    BY <2>1, <2>2, <1>2
<1>5. ASSUME NEW t \in Thread, Lock(t) \/ Unlock(t) \/ Write(t)
      PROVE  /\ file' \in [FileSlot -> Entries]
             /\ \A r \in FileSlot : file'[r].fp <= Len(inode')
  <2>1. PICK s : s = My(t)
    OBVIOUS
  <2>2. s \in FileSlot
    BY <1>5, <2>1, LockEffect
  <2>3. PICK x : Alters(s, file[s].fp, file[s].full, file[s].ref_cnt, x, file[s].file_name)
    BY <1>5, <2>1, LockEffect
  <2>4. file[s].fp <= Len(inode')
    BY <2>2, <1>0
  <2>5. QED
    BY <2>2, <2>3, <2>4, <1>2
<1>6. ASSUME NEW t \in Thread, CutName(t) \/ Rename(t)
      PROVE  /\ file' \in [FileSlot -> Entries]
             /\ \A r \in FileSlot : file'[r].fp <= Len(inode')
  <2>1. PICK s : s = My(t)
    OBVIOUS
  <2>2. s \in FileSlot
    BY <1>6, <2>1, NameEffect
  <2>3. PICK x : Alters(s, file[s].fp, file[s].full, file[s].ref_cnt, file[s].lock, x)
    BY <1>6, <2>1, NameEffect
  <2>4. file[s].fp <= Len(inode')
    BY <2>2, <1>0
  <2>5. QED
    BY <2>2, <2>3, <2>4, <1>2
<1>7. ASSUME NEW t \in Thread, Restat(t) \/ Reopen(t)
      PROVE  /\ file' \in [FileSlot -> Entries]
             /\ \A r \in FileSlot : file'[r].fp <= Len(inode')
  <2>1. PICK s : s = My(t)
    OBVIOUS
  <2>2. s \in FileSlot
    BY <1>7, <2>1, StreamEffect
  <2>3. PICK i \in Nat :
          /\ i = 0 \/ Opened(Mine(t), i)
          /\ Alters(s, i, file[s].full, file[s].ref_cnt, file[s].lock, file[s].file_name)
    BY <1>7, <2>1, StreamEffect
  <2>4. i <= Len(inode')
    BY <2>3, <1>0 DEF Opened
  <2>5. QED
    BY <2>2, <2>3, <2>4, <1>2
<1>8. ASSUME NEW t \in Thread, Close(t)
      PROVE  /\ file' \in [FileSlot -> Entries]
             /\ \A r \in FileSlot : file'[r].fp <= Len(inode')
  <2>1. PICK k \in Field : Closes(t, k)
    BY <1>8, CloseEffect
  <2>2. PICK s \in FileSlot : s = unit[t][k]
    BY <2>1 DEF Closes
  <2>3. file[s].fp <= Len(inode') /\ 0 <= Len(inode')
    BY <1>0
  <2>4. (\E b, c, d, e : Alters(s, 0, b, c, d, e))
        \/ \E b, c, d, e : Alters(s, file[s].fp, b, c, d, e)
    BY <2>1, <2>2 DEF Closes
  <2>5. QED
    BY <2>3, <2>4, <1>2
<1>9. CASE \E f \in File : Unlink(f)
  BY <1>9, <1>1 DEF Unlink
<1>10. CASE \E t \in Thread : Idles(t)
  BY <1>10, <1>1, IdlesFile
<1>11. QED
  BY <1>3, <1>4, <1>5, <1>6, <1>7, <1>8, <1>9, <1>10 DEF LogNext, Work, Idles

\* Where a thread can be.
Where == {"idle", "open", "undo", "start", "start wf", "lock", "remove", "end", "end wf",
          "close"} \cup Locked
BackTo == {"idle", "start wf", "end wf", "close"}

(* The entries of ul_openlog, ul_closelog and ul_writelog go to a file of  *)
(* a complete unit.                                                        *)
LEMMA CallEffect ==
    ASSUME LogTypeOK, PlaceInv, NEW t \in Thread, Start(t) \/ \E k \in Field : ul_writelog(t, k)
    PROVE  /\ unit' = unit /\ Held(t) = Fields(t)
           /\ \E k \in Fields(t) : \E then \in BackTo : CallWrite(t, k, then)
<1>1. unit' = unit
  BY DEF Start, ul_writelog
<1>2. CASE Start(t)
  <2>1. Held(t) = Fields(t)
    BY <1>2 DEF Start, PlaceInv, PlaceOK
  <2>2. 1 \in Fields(t) /\ 2 \in Fields(t)
    BY ProgramFacts
  <2>3. QED
    BY <1>1, <1>2, <2>1, <2>2 DEF Start, BackTo
<1>3. ASSUME NEW k \in Field, ul_writelog(t, k)
      PROVE  /\ Held(t) = Fields(t)
             /\ k \in Fields(t) /\ CallWrite(t, k, "idle")
  <2>1. at[t] = "idle" /\ k \in Held(t) /\ CallWrite(t, k, "idle")
    BY <1>3 DEF ul_writelog
  <2>2. Held(t) = Fields(t)
    BY <2>1 DEF PlaceInv, PlaceOK
  <2>3. QED
    BY <2>1, <2>2
<1>4. QED
  BY <1>1, <1>2, <1>3 DEF BackTo

(* A step leads to a place in the code, and the place to go back to is one *)
(* after a write.                                                          *)
LEMMA AtTypeStep ==
    ASSUME LogTypeOK, PlaceInv, LogNext
    PROVE  /\ at' \in [Thread -> Where] /\ back' \in [Thread -> BackTo]
           /\ rotated' \in [Thread -> BOOLEAN]
<1>0. /\ at \in [Thread -> Where] /\ back \in [Thread -> BackTo] /\ BackTo \subseteq Where
      /\ rotated \in [Thread -> BOOLEAN]
  BY DEF LogTypeOK, Where, BackTo
<1>1. CASE \E f \in File : Unlink(f)
  BY <1>0, <1>1 DEF Unlink
<1>a. ASSUME NEW t \in Thread, NEW w \in Where, at' = [at EXCEPT ![t] = w],
             UNCHANGED <<back, rotated>>
      PROVE  /\ at' \in [Thread -> Where] /\ back' \in [Thread -> BackTo]
             /\ rotated' \in [Thread -> BOOLEAN]
  BY <1>0, <1>a
<1>2. ASSUME NEW t \in Thread, Share(t) \/ OpenNew(t)
      PROVE  /\ at' \in [Thread -> Where] /\ back' \in [Thread -> BackTo]
             /\ rotated' \in [Thread -> BOOLEAN]
  <2>1. PICK w \in Where : at' = [at EXCEPT ![t] = w]
    BY <1>2 DEF Share, OpenNew, Point, Go, Where
  <2>2. QED
    BY <2>1, <1>2, <1>a DEF Share, OpenNew
<1>3. ASSUME NEW t \in Thread, Start(t) \/ \E k \in Field : ul_writelog(t, k)
      PROVE  /\ at' \in [Thread -> Where] /\ back' \in [Thread -> BackTo]
             /\ rotated' \in [Thread -> BOOLEAN]
  <2>1. PICK k \in Fields(t) : \E then \in BackTo : CallWrite(t, k, then)
    BY <1>3, CallEffect
  <2>1a. PICK then \in BackTo : CallWrite(t, k, then)
    BY <2>1
  <2>2. PICK w \in Where : at' = [at EXCEPT ![t] = w]
    BY <2>1a, <1>0 DEF CallWrite, Go, Where
  <2>3. QED
    BY <2>1a, <2>2, <1>0 DEF CallWrite
<1>4. ASSUME NEW t \in Thread,
             \/ OpenFails(t) \/ Lock(t) \/ Unlock(t) \/ CutName(t) \/ Rename(t) \/ Write(t)
             \/ RemoveTmp(t) \/ Freed(t) \/ ul_openlog(t) \/ ul_closelog(t)
      PROVE  /\ at' \in [Thread -> Where] /\ back' \in [Thread -> BackTo]
             /\ rotated' \in [Thread -> BOOLEAN]
  <2>1. PICK w \in Where : at' = [at EXCEPT ![t] = w]
    BY <1>4, <1>0 DEF OpenFails, Lock, Unlock, CutName, Rename, Write, RemoveTmp, Freed,
                      ul_openlog, ul_closelog, Go, Where, Locked
  <2>2. UNCHANGED <<back, rotated>>
    BY <1>4 DEF OpenFails, Lock, Unlock, CutName, Rename, Write, RemoveTmp, Freed,
                ul_openlog, ul_closelog
  <2>3. QED
    BY <2>1, <2>2, <1>a
<1>5. ASSUME NEW t \in Thread, ul_check(t)
      PROVE  /\ at' \in [Thread -> Where] /\ back' \in [Thread -> BackTo]
             /\ rotated' \in [Thread -> BOOLEAN]
  <2>1. PICK w \in Where : at' = [at EXCEPT ![t] = w]
    BY <1>5 DEF ul_check, Sized, Go, Where, Locked
  <2>2. QED
    BY <1>5, <2>1, <1>a DEF ul_check
<1>6. ASSUME NEW t \in Thread, Restat(t) \/ Reopen(t)
      PROVE  /\ at' \in [Thread -> Where] /\ back' \in [Thread -> BackTo]
             /\ rotated' \in [Thread -> BOOLEAN]
  <2>1. PICK w \in Where : at' = [at EXCEPT ![t] = w]
    BY <1>6 DEF Restat, Reopen, Go, Where, Locked
  <2>2. back' = back /\ rotated' \in [Thread -> BOOLEAN]
    BY <1>6, <1>0 DEF Restat, Reopen
  <2>3. QED
    BY <2>1, <2>2, <1>0
<1>7. CASE \E t \in Thread : Close(t)
  BY <1>0, <1>7 DEF Close
<1>8. QED
  BY <1>1, <1>2, <1>3, <1>4, <1>5, <1>6, <1>7 DEF LogNext, Work

(* Log units keep pointing to slots or to none.                            *)
LEMMA UnitTypeStep ==
    ASSUME LogTypeOK, PlaceInv, LogNext
    PROVE  unit' \in [Thread -> [Field -> 0..program.slots]] /\ cur' \in [Thread -> Nat]
<1>0. unit \in [Thread -> [Field -> 0..program.slots]] /\ cur \in [Thread -> Nat]
  BY DEF LogTypeOK
<1>1. CASE \E f \in File : Unlink(f)
  BY <1>0, <1>1 DEF Unlink
<1>2. ASSUME NEW t \in Thread, Share(t) \/ OpenNew(t)
      PROVE  unit' \in [Thread -> [Field -> 0..program.slots]] /\ cur' \in [Thread -> Nat]
  <2>1. at[t] = "open" /\ \E s \in FileSlot : Point(t, s)
    BY <1>2, ShareEffect, OpenNewEffect DEF Share, OpenNew
  <2>2. QED
    BY <2>1, PointEffect
<1>3. ASSUME NEW t \in Thread, Close(t)
      PROVE  unit' \in [Thread -> [Field -> 0..program.slots]] /\ cur' \in [Thread -> Nat]
  <2>1. PICK k \in Field : unit' = [unit EXCEPT ![t][k] = 0]
    BY <1>3, CloseEffect DEF Closes
  <2>2. 0 \in 0..program.slots
    BY ProgramFacts
  <2>3. [unit[t] EXCEPT ![k] = 0] \in [Field -> 0..program.slots]
    BY <1>0, <2>2
  <2>4. unit' \in [Thread -> [Field -> 0..program.slots]]
    BY <2>1, <2>3, <1>0
  <2>5. QED
    BY <1>0, <1>3, <2>4 DEF Close
<1>4. ASSUME NEW t \in Thread, Start(t) \/ \E k \in Field : ul_writelog(t, k)
      PROVE  unit' \in [Thread -> [Field -> 0..program.slots]] /\ cur' \in [Thread -> Nat]
  <2>1. PICK k \in Nat : cur' = [cur EXCEPT ![t] = k]
    <3>1. PICK k \in Fields(t) : \E then \in BackTo : CallWrite(t, k, then)
      BY <1>4, CallEffect
    <3>2. k \in Nat
      BY FileBounds, ProgramFacts DEF Fields
    <3>3. QED
      BY <3>1, <3>2 DEF CallWrite
  <2>2. unit' = unit
    BY <1>4 DEF Start, ul_writelog
  <2>3. QED
    BY <1>0, <2>1, <2>2
<1>5. ASSUME NEW t \in Thread, ul_openlog(t) \/ Freed(t)
      PROVE  unit' \in [Thread -> [Field -> 0..program.slots]] /\ cur' \in [Thread -> Nat]
  BY <1>0, <1>5 DEF ul_openlog, Freed
<1>6. ASSUME NEW t \in Thread,
             \/ OpenFails(t) \/ Lock(t) \/ Unlock(t) \/ CutName(t) \/ Rename(t) \/ Write(t)
             \/ RemoveTmp(t) \/ ul_closelog(t) \/ ul_check(t) \/ Restat(t) \/ Reopen(t)
      PROVE  unit' \in [Thread -> [Field -> 0..program.slots]] /\ cur' \in [Thread -> Nat]
  <2>1. UNCHANGED <<unit, cur>>
    BY <1>6 DEF OpenFails, Lock, Unlock, CutName, Rename, Write, RemoveTmp, ul_closelog,
                ul_check, Restat, Reopen
  <2>2. QED
    BY <2>1, <1>0
<1>7. QED
  BY <1>1, <1>2, <1>3, <1>4, <1>5, <1>6 DEF LogNext, Work

(* The histories keep their types.                                         *)
LEMMA FlagsTypeStep ==
    ASSUME LogTypeOK, PlaceInv, FpInv, LogNext
    PROVE  /\ stolen' \in BOOLEAN /\ raced' \in BOOLEAN
           /\ unlinked' \in Nat /\ written' \subseteq File \X Nat \X Nat
<1>0. /\ stolen \in BOOLEAN /\ raced \in BOOLEAN
      /\ unlinked \in Nat /\ written \subseteq File \X Nat \X Nat
  BY DEF LogTypeOK
<1>1. CASE \E f \in File : Unlink(f)
  BY <1>0, <1>1 DEF Unlink
<1>2. ASSUME NEW t \in Thread, OpenNew(t)
      PROVE  /\ stolen' \in BOOLEAN /\ raced' \in BOOLEAN
             /\ unlinked' = unlinked /\ written' = written
  <2>1. stolen' \in BOOLEAN
    BY <1>2, OpenNewEffect
  <2>2. raced' \in BOOLEAN
    BY <1>2 DEF OpenNew
  <2>3. QED
    BY <1>2, <2>1, <2>2 DEF OpenNew, calls
<1>3. ASSUME NEW t \in Thread, Write(t)
      PROVE  UNCHANGED <<stolen, raced, unlinked>> /\ written' \subseteq File \X Nat \X Nat
  <2>1. ~stolen
    BY DEF LogNext
  <2>2. Printed(file[My(t)].fp) /\ Mine(t) \in File
    BY <2>1, <1>3, WriteEffect, MyFacts DEF Write, Writing, Locked
  <2>3. PICK i : i = file[My(t)].fp
    OBVIOUS
  <2>4. i \in Nat /\ inode[i].size + 1 \in Nat
    <3>1. i \in 1..Len(inode) /\ inode[i].size \in Nat
      BY <2>2, <2>3 DEF Printed
    <3>2. QED
      BY <3>1
  <2>5. written' = written \cup {<<Mine(t), i, inode[i].size + 1>>}
    BY <1>3, <2>3 DEF Write
  <2>6. <<Mine(t), i, inode[i].size + 1>> \in File \X Nat \X Nat
    BY <2>2, <2>4
  <2>7. QED
    BY <2>5, <2>6, <1>0, <1>3 DEF Write, calls
<1>4. ASSUME NEW t \in Thread,
             \/ Share(t) \/ OpenFails(t) \/ Start(t) \/ Lock(t) \/ Unlock(t) \/ ul_check(t)
             \/ Restat(t) \/ CutName(t) \/ Rename(t) \/ Reopen(t) \/ RemoveTmp(t) \/ Close(t)
             \/ Freed(t) \/ ul_openlog(t) \/ ul_closelog(t) \/ \E k \in Field : ul_writelog(t, k)
      PROVE  UNCHANGED <<stolen, raced, unlinked, written>>
  BY <1>4 DEF Share, OpenFails, Start, Lock, Unlock, ul_check, Restat, CutName, Rename,
              Reopen, RemoveTmp, Close, Freed, ul_openlog, ul_closelog, ul_writelog, calls
<1>5. QED
  BY <1>0, <1>1, <1>2, <1>3, <1>4 DEF LogNext, Work

(* Every action keeps the types.                                           *)
LEMMA LogTypeStep ==
    ASSUME LogTypeOK, PlaceInv, FpInv, LogNext
    PROVE  LogTypeOK'
<1>1. /\ program' = program /\ program \in Programs /\ FileSlot' = FileSlot /\ Path' = Path
      /\ Entries' = Entries
  BY SameProgram DEF LogTypeOK, Entries
<1>2. /\ file' \in [FileSlot -> Entries]
      /\ \A s \in FileSlot : file'[s].fp <= Len(inode')
  BY FilesTypeStep
<1>3. inode' \in Seq(Inode) /\ dir' \in [Path -> 0..Len(inode')]
  BY LastingStep DEF Lasting, NamesType
<1>4. unit' \in [Thread -> [Field -> 0..program.slots]] /\ cur' \in [Thread -> Nat]
  BY UnitTypeStep
<1>5. /\ at' \in [Thread -> Where] /\ back' \in [Thread -> BackTo]
      /\ rotated' \in [Thread -> BOOLEAN]
  BY AtTypeStep
<1>6. /\ stolen' \in BOOLEAN /\ raced' \in BOOLEAN
      /\ unlinked' \in Nat /\ written' \subseteq File \X Nat \X Nat
  BY FlagsTypeStep
<1>7. QED
  BY <1>1, <1>2, <1>3, <1>4, <1>5, <1>6 DEF LogTypeOK, Where, BackTo, Inode

(* A thread that does not move keeps its place.                            *)
LEMMA PlaceStays ==
    ASSUME LogNext, NEW r \in Thread, PlaceOK(r),
           at'[r] = at[r], cur'[r] = cur[r], unit'[r] = unit[r]
    PROVE  PlaceOK(r)'
<1>1. Held(r)' = Held(r) /\ Fields(r)' = Fields(r) /\ program' = program
  BY SameProgram DEF Held
<1>2. QED
  BY <1>1 DEF PlaceOK

(* The next field is filled.                                               *)
LEMMA PointPlace ==
    ASSUME LogTypeOK, PlaceInv, LogNext, NEW t \in Thread, at[t] = "open",
           NEW s \in FileSlot, Point(t, s)
    PROVE  PlaceOK(t)'
<1>1. /\ cur[t] \in Fields(t) /\ cur[t] \in Field /\ cur[t] \in Nat
      /\ Held(t) = 1..(cur[t] - 1) /\ unit[t][cur[t]] = 0
  BY OpenFacts
<1>2. /\ unit'[t][cur[t]] = s /\ s # 0
      /\ \A k \in Field : k # cur[t] => unit'[t][k] = unit[t][k]
      /\ cur'[t] = cur[t] + 1
      /\ at'[t] = IF cur[t] = Len(Plan(t)) THEN "start" ELSE "open"
  BY PointEffect
<1>3. Held(t)' = Held(t) \cup {cur[t]}
  BY <1>1, <1>2 DEF Held
<1>4. Held(t)' = 1..cur[t]
  BY <1>1, <1>3, FileBounds DEF Fields
<1>5. Fields(t)' = Fields(t) /\ Len(Plan(t)) \in Nat /\ cur[t] \in 1..Len(Plan(t))
  BY <1>1, SameProgram, ProgramFacts DEF Fields
<1>6. CASE cur[t] = Len(Plan(t))
  <2>1. at'[t] = "start" /\ Held(t)' = Fields(t)
    BY <1>2, <1>4, <1>6 DEF Fields
  <2>2. QED
    BY <2>1, <1>5 DEF PlaceOK, Writing, Locked
<1>7. CASE cur[t] # Len(Plan(t))
  <2>1. at'[t] = "open"
    BY <1>2, <1>7
  <2>2. cur'[t] \in Fields(t) /\ Held(t)' = 1..(cur'[t] - 1) /\ Held(t)' \subseteq Fields(t)
    <3>1. cur'[t] - 1 = cur[t] /\ cur'[t] \in 1..Len(Plan(t))
      BY <1>1, <1>2, <1>5, <1>7
    <3>2. 1..cur[t] \subseteq 1..Len(Plan(t))
      BY <1>5
    <3>3. QED
      BY <3>1, <3>2, <1>4 DEF Fields
  <2>3. QED
    BY <2>1, <2>2, <1>5 DEF PlaceOK, Writing, Locked
<1>8. QED
  BY <1>6, <1>7

(* Within ul_vwritelog_buff the unit and cur stay.                         *)
LEMMA WritingPlace ==
    ASSUME LogTypeOK, PlaceInv, LogNext, NEW t \in Thread, at[t] \in Writing,
           unit' = unit, cur' = cur, at'[t] \in BackTo \cup Writing,
           at'[t] \in {"cut", "remove"} => ~program.split
    PROVE  PlaceOK(t)'
<1>1. Held(t) = Fields(t) /\ cur[t] \in Fields(t)
  BY DEF PlaceInv, PlaceOK
<1>2. Held(t)' = Held(t) /\ Fields(t)' = Fields(t) /\ program' = program
  BY SameProgram DEF Held
<1>3. at'[t] # "open"
  BY DEF BackTo, Writing, Locked
<1>4. QED
  BY <1>1, <1>2, <1>3 DEF PlaceOK

(* Every step keeps the fields that are open in accord with the place in   *)
(* the code.                                                               *)
LEMMA PlaceStep ==
    ASSUME LogTypeOK, PlaceInv, LogNext
    PROVE  PlaceInv'
<1>0. /\ DOMAIN at = Thread /\ DOMAIN cur = Thread /\ back \in [Thread -> BackTo]
      /\ \A t \in Thread : PlaceOK(t)
  BY DEF LogTypeOK, PlaceInv, BackTo
<1>1. ASSUME NEW f \in File, Unlink(f)
      PROVE  PlaceInv'
  <2>1. \A r \in Thread : at'[r] = at[r] /\ cur'[r] = cur[r] /\ unit'[r] = unit[r]
    BY <1>1 DEF Unlink
  <2>2. QED
    BY <2>1, <1>0, PlaceStays DEF PlaceInv
<1>2. ASSUME NEW t \in Thread,
             \/ Work(t) \/ ul_openlog(t) \/ ul_closelog(t)
             \/ \E k \in Field : ul_writelog(t, k)
      PROVE  PlaceInv'
  <2>1. ASSUME NEW r \in Thread, r # t
        PROVE  PlaceOK(r)'
    <3>1. at'[r] = at[r] /\ cur'[r] = cur[r] /\ unit'[r] = unit[r]
      BY <1>2, <2>1, OthersStay
    <3>2. QED
      BY <3>1, <1>0, PlaceStays
  <2>2. Fields(t)' = Fields(t) /\ program' = program /\ (unit' = unit => Held(t)' = Held(t))
    BY SameProgram DEF Held
  <2>3. CASE Share(t) \/ OpenNew(t)
    <3>1. at[t] = "open" /\ \E s \in FileSlot : Point(t, s)
      BY <2>3, ShareEffect, OpenNewEffect DEF Share, OpenNew
    <3>2. QED
      BY <2>1, <3>1, PointPlace DEF PlaceInv
  <2>4. CASE Start(t) \/ \E k \in Field : ul_writelog(t, k)
    <3>1. unit' = unit /\ Held(t) = Fields(t)
      BY <2>4, CallEffect
    <3>2. PICK k \in Fields(t) : \E then \in BackTo : CallWrite(t, k, then)
      BY <2>4, CallEffect
    <3>3. PICK then \in BackTo : CallWrite(t, k, then)
      BY <3>2
    <3>4. cur'[t] = k /\ at'[t] \in BackTo \cup {"lock"}
      BY <3>3, <1>0 DEF CallWrite, Go
    <3>5. Held(t)' = Fields(t) /\ at'[t] \notin {"cut", "remove", "open"}
      BY <3>1, <3>4, <2>2 DEF BackTo
    <3>6. PlaceOK(t)'
      BY <3>4, <3>5, <2>2 DEF PlaceOK
    <3>7. QED
      BY <2>1, <3>6 DEF PlaceInv
  <2>5. CASE \/ Lock(t) \/ Unlock(t) \/ ul_check(t) \/ Restat(t) \/ CutName(t) \/ Rename(t)
             \/ Reopen(t) \/ Write(t) \/ RemoveTmp(t)
    <3>1. at[t] \in Writing /\ unit' = unit /\ cur' = cur
      BY <2>5 DEF Lock, Unlock, ul_check, Restat, CutName, Rename, Reopen, Write, RemoveTmp,
                  Writing, Locked
    <3>2. at'[t] \in BackTo \cup Writing /\ (at'[t] \in {"cut", "remove"} => ~program.split)
      <4>1. CASE Lock(t) \/ CutName(t) \/ Rename(t)
        BY <4>1, <1>0 DEF Lock, CutName, Rename, Go, Writing, Locked
      <4>2. CASE Unlock(t) \/ RemoveTmp(t)
        BY <4>2, <1>0 DEF Unlock, RemoveTmp, Go, BackTo
      <4>3. CASE Write(t)
        BY <4>3, <1>0 DEF Write, Go, BackTo, Writing
      <4>4. CASE ul_check(t)
        BY <4>4, <1>0 DEF ul_check, Sized, Go, Writing, Locked
      <4>5. CASE Restat(t) \/ Reopen(t)
        BY <4>5, <1>0 DEF Restat, Reopen, Go, Writing, Locked
      <4>6. QED
        BY <2>5, <4>1, <4>2, <4>3, <4>4, <4>5
    <3>3. PlaceOK(t)'
      BY <3>1, <3>2, WritingPlace
    <3>4. QED
      BY <2>1, <3>3 DEF PlaceInv
  <2>6. CASE OpenFails(t)
    <3>1. unit' = unit /\ at'[t] = "undo"
      BY <2>6, <1>0 DEF OpenFails, Go
    <3>2. PlaceOK(t)'
      BY <3>1, <2>2, <1>0 DEF PlaceOK, Writing, Locked
    <3>3. QED
      BY <2>1, <3>2 DEF PlaceInv
  <2>7. CASE Close(t)
    <3>1. PICK k \in Field : Closes(t, k)
      BY <2>7, CloseEffect
    <3>2. at'[t] \in {"close", "undo"}
      BY <2>7 DEF Close
    <3>3. \A j \in Field : unit'[t][j] \in {0, unit[t][j]}
      BY <3>1 DEF Closes, LogTypeOK
    <3>4. Held(t)' \subseteq Held(t)
      BY <3>3 DEF Held
    <3>5. PlaceOK(t)'
      BY <3>2, <3>4, <2>2, <1>0 DEF PlaceOK, Writing, Locked
    <3>6. QED
      BY <2>1, <3>5 DEF PlaceInv
  <2>8. CASE Freed(t)
    <3>1. unit' = unit /\ at'[t] = "idle" /\ Held(t) = {}
      BY <2>8, <1>0 DEF Freed, Go
    <3>2. PlaceOK(t)'
      BY <3>1, <2>2, <1>0 DEF PlaceOK, Writing, Locked
    <3>3. QED
      BY <2>1, <3>2 DEF PlaceInv
  <2>9. CASE ul_openlog(t)
    <3>1. unit' = unit /\ at'[t] = "open" /\ cur'[t] = 1 /\ Held(t) = {}
      BY <2>9, <1>0 DEF ul_openlog, Go
    <3>2. 1 \in Fields(t) /\ Held(t) = 1..(cur'[t] - 1)
      BY <3>1, ProgramFacts
    <3>3. PlaceOK(t)'
      BY <3>1, <3>2, <2>2, <1>0 DEF PlaceOK, Writing, Locked
    <3>4. QED
      BY <2>1, <3>3 DEF PlaceInv
  <2>10. CASE ul_closelog(t)
    <3>1. unit' = unit /\ at'[t] = "end" /\ Held(t) = Fields(t)
      BY <2>10, <1>0 DEF ul_closelog, Go, PlaceOK
    <3>2. PlaceOK(t)'
      BY <3>1, <2>2, <1>0 DEF PlaceOK, Writing, Locked
    <3>3. QED
      BY <2>1, <3>2 DEF PlaceInv
  <2>11. QED
    BY <1>2, <2>3, <2>4, <2>5, <2>6, <2>7, <2>8, <2>9, <2>10 DEF Work
<1>3. QED
  BY <1>1, <1>2 DEF LogNext

(* A lock belongs to the thread that is in the locked part with that slot. *)
LockInv ==
    ~stolen => \A t \in Thread, s \in FileSlot :
        file[s].lock = t <=> at[t] \in Locked /\ My(t) = s

(* A slot has finitely many users.                                         *)
LEMMA UsersFinite ==
    ASSUME NEW s
    PROVE  IsFiniteSet(Users(s)) /\ Cardinality(Users(s)) \in Nat
           /\ (Cardinality(Users(s)) = 0 <=> Users(s) = {})
<1>1. IsFiniteSet(Field)
  <2>1. 2 + MAX_SELF_DEF_LOG \in Int
    BY FileBounds
  <2>2. QED
    BY <2>1, FS_Interval DEF Field
<1>2. IsFiniteSet(Thread \X Field)
  BY <1>1, ThreadAssumption, FS_Product
<1>3. Users(s) \subseteq Thread \X Field
  BY DEF Users
<1>4. IsFiniteSet(Users(s))
  BY <1>2, <1>3, FS_Subset
<1>5. QED
  BY <1>4, FS_CardinalityType, FS_EmptySet

(* Who uses slot s.                                                        *)
LEMMA UserIs ==
    ASSUME NEW s, NEW t \in Thread, NEW k \in Field
    PROVE  <<t, k>> \in Users(s) <=> unit[t][k] = s
BY DEF Users

(* A field that now points to s is one more user of s and of no other      *)
(* slot.                                                                   *)
LEMMA UsersAfterPoint ==
    ASSUME LogTypeOK, PlaceInv, NEW t \in Thread, at[t] = "open", NEW s \in FileSlot,
           Point(t, s)
    PROVE  /\ Users(s)' = Users(s) \cup {<<t, cur[t]>>} /\ <<t, cur[t]>> \notin Users(s)
           /\ \A r \in FileSlot : r # s => Users(r)' = Users(r)
<1>1. cur[t] \in Field /\ unit[t][cur[t]] = 0
  BY OpenFacts
<1>2. /\ unit'[t][cur[t]] = s /\ s # 0
      /\ \A k \in Field : k # cur[t] => unit'[t][k] = unit[t][k]
      /\ \A r \in Thread : r # t => unit'[r] = unit[r]
  BY PointEffect
<1>3. \A q \in Thread, k \in Field : <<q, k>> # <<t, cur[t]>> => unit'[q][k] = unit[q][k]
  BY <1>2
<1>4. \A r \in FileSlot : r # 0
  BY ProgramFacts
<1>5. \A r : Users(r)' = {u \in Thread \X Field : unit'[u[1]][u[2]] = r}
  BY DEF Users
<1>6. \A u \in Thread \X Field : u # <<t, cur[t]>> => unit'[u[1]][u[2]] = unit[u[1]][u[2]]
  BY <1>3
<1>7. <<t, cur[t]>> \in Thread \X Field
  BY <1>1
<1>8. \A r \in FileSlot : r # s => Users(r)' = Users(r)
  BY <1>1, <1>2, <1>4, <1>5, <1>6, <1>7 DEF Users
<1>9. Users(s)' = Users(s) \cup {<<t, cur[t]>>} /\ <<t, cur[t]>> \notin Users(s)
  BY <1>1, <1>2, <1>4, <1>5, <1>6, <1>7 DEF Users
<1>10. QED
  BY <1>8, <1>9

(* A field that is closed is one user less.                                *)
LEMMA UsersAfterClose ==
    ASSUME LogTypeOK, NEW t \in Thread, NEW k \in Field, NEW s \in FileSlot,
           s = unit[t][k], unit' = [unit EXCEPT ![t][k] = 0]
    PROVE  /\ Users(s)' = Users(s) \ {<<t, k>>} /\ <<t, k>> \in Users(s)
           /\ \A r \in FileSlot : r # s => Users(r)' = Users(r)
<1>1. unit \in [Thread -> [Field -> 0..program.slots]]
  BY DEF LogTypeOK
<1>2. /\ unit'[t][k] = 0
      /\ \A q \in Thread, j \in Field : <<q, j>> # <<t, k>> => unit'[q][j] = unit[q][j]
  BY <1>1
<1>4. \A r \in FileSlot : r # 0
  BY ProgramFacts
<1>5. \A r : Users(r)' = {u \in Thread \X Field : unit'[u[1]][u[2]] = r}
  BY DEF Users
<1>6. \A u \in Thread \X Field : u # <<t, k>> => unit'[u[1]][u[2]] = unit[u[1]][u[2]]
  BY <1>2
<1>7. <<t, k>> \in Thread \X Field
  OBVIOUS
<1>8. \A r \in FileSlot : r # s => Users(r)' = Users(r)
  BY <1>2, <1>4, <1>5, <1>6, <1>7 DEF Users
<1>9. Users(s)' = Users(s) \ {<<t, k>>} /\ <<t, k>> \in Users(s)
  BY <1>2, <1>4, <1>5, <1>6, <1>7 DEF Users
<1>10. QED
  BY <1>8, <1>9

\* What RefCnt says of one slot.
Counted(s) == /\ file[s].ref_cnt = Cardinality(Users(s))
              /\ Users(s) = {} => file[s] = Unused

(* A slot whose count and users stay, and that is cleared when unused.     *)
LEMMA CountedStays ==
    ASSUME LogTypeOK, NEW s \in FileSlot, Counted(s), Users(s)' = Users(s),
           file'[s] = file[s] \/ (file'[s].ref_cnt = file[s].ref_cnt /\ Users(s) # {})
    PROVE  Counted(s)'
BY DEF Counted, Unused

(* Every step changes ref_cnt by as many users as it adds or takes away.   *)
LEMMA RefCntStep ==
    ASSUME LogTypeOK, PlaceInv, FpInv, RefCnt, LogNext
    PROVE  RefCnt'
<1>0. SUFFICES ASSUME ~stolen' PROVE \A s \in FileSlot : Counted(s)'
  BY SameProgram DEF RefCnt, Counted
<1>a. ~stolen
  BY DEF LogNext
<1>b. \A s \in FileSlot : Counted(s)
  BY <1>a DEF RefCnt, Counted
<1>c. ASSUME file' = file, unit' = unit
      PROVE  \A s \in FileSlot : Counted(s)'
  <2>1. \A s \in FileSlot : Users(s)' = Users(s)
    BY <1>c DEF Users
  <2>2. QED
    BY <2>1, <1>b, <1>c, CountedStays
<1>d. ASSUME NEW t \in Thread, NEW s \in FileSlot, at[t] \in Writing, s = My(t), unit' = unit,
             file'[s].ref_cnt = file[s].ref_cnt,
             \A r \in FileSlot : r # s => file'[r] = file[r]
      PROVE  \A r \in FileSlot : Counted(r)'
  <2>1. \A r \in FileSlot : Users(r)' = Users(r)
    BY <1>d DEF Users
  <2>2. cur[t] \in Field
    BY <1>d, MyFacts
  <2>3. <<t, cur[t]>> \in Users(s)
    BY <1>d, <2>2, UserIs DEF My
  <2>4. QED
    BY <2>1, <2>3, <1>b, <1>d, CountedStays
<1>1. CASE \E f \in File : Unlink(f)
  BY <1>1, <1>c DEF Unlink
<1>2. CASE \E t \in Thread : Idles(t)
  BY <1>2, <1>c, IdlesFile
<1>3. ASSUME NEW t \in Thread, Share(t)
      PROVE  \A s \in FileSlot : Counted(s)'
  <2>1. PICK s \in FileSlot :
          /\ s \in Found(Mine(t)) /\ Point(t, s)
          /\ Alters(s, file[s].fp, file[s].full, file[s].ref_cnt + 1, file[s].lock,
                    file[s].file_name)
    BY <1>3, ShareEffect
  <2>2. at[t] = "open"
    BY <1>3 DEF Share
  <2>3. /\ Users(s)' = Users(s) \cup {<<t, cur[t]>>} /\ <<t, cur[t]>> \notin Users(s)
        /\ \A r \in FileSlot : r # s => Users(r)' = Users(r)
    BY <2>1, <2>2, UsersAfterPoint
  <2>4. Cardinality(Users(s) \cup {<<t, cur[t]>>}) = Cardinality(Users(s)) + 1
    BY <2>3, UsersFinite, FS_AddElement
  <2>5. file'[s].ref_cnt = file[s].ref_cnt + 1
        /\ \A r \in FileSlot : r # s => file'[r] = file[r]
    BY <2>1 DEF Alters
  <2>6. PICK U : U = Users(s)'
    OBVIOUS
  <2>7. Cardinality(U) = Cardinality(Users(s)) + 1 /\ U # {}
    BY <2>3, <2>4, <2>6
  <2>8. Counted(s)'
    BY <2>5, <2>6, <2>7, <1>b DEF Counted
  <2>9. QED
    BY <2>3, <2>5, <2>8, <1>b, CountedStays
<1>4. ASSUME NEW t \in Thread, OpenNew(t)
      PROVE  \A s \in FileSlot : Counted(s)'
  <2>1. PICK s \in FileSlot, i \in Nat :
          /\ Point(t, s) /\ Alters(s, i, FALSE, 1, None, Mine(t))
          /\ stolen' = (stolen \/ file[s].ref_cnt > 0)
    BY <1>4, OpenNewEffect
  <2>2. at[t] = "open"
    BY <1>4 DEF OpenNew
  <2>3. /\ Users(s)' = Users(s) \cup {<<t, cur[t]>>} /\ <<t, cur[t]>> \notin Users(s)
        /\ \A r \in FileSlot : r # s => Users(r)' = Users(r)
    BY <2>1, <2>2, UsersAfterPoint
  <2>4. file[s].ref_cnt = 0
    <3>1. ~(file[s].ref_cnt > 0) /\ file[s].ref_cnt \in Nat
      BY <1>0, <2>1, SlotEntry
    <3>2. QED
      BY <3>1
  <2>5. Users(s) = {}
    BY <2>4, <1>b, UsersFinite DEF Counted
  <2>6. PICK U : U = Users(s)'
    OBVIOUS
  <2>7. Cardinality(U) = 1 /\ U # {}
    <3>1. U = {<<t, cur[t]>>}
      BY <2>3, <2>5, <2>6
    <3>2. QED
      BY <3>1, FS_Singleton
  <2>8. file'[s].ref_cnt = 1 /\ \A r \in FileSlot : r # s => file'[r] = file[r]
    BY <2>1 DEF Alters
  <2>9. Counted(s)'
    BY <2>6, <2>7, <2>8 DEF Counted
  <2>10. QED
    BY <2>3, <2>8, <2>9, <1>b, CountedStays
<1>5. ASSUME NEW t \in Thread, Lock(t) \/ Unlock(t) \/ Write(t)
      PROVE  \A s \in FileSlot : Counted(s)'
  <2>1. PICK s : s = My(t)
    OBVIOUS
  <2>2. at[t] \in Writing
    BY <1>5 DEF Lock, Unlock, Write, Writing, Locked
  <2>3. s \in FileSlot /\ unit' = unit
    BY <1>5, <2>1, LockEffect
  <2>4. PICK x : Alters(s, file[s].fp, file[s].full, file[s].ref_cnt, x, file[s].file_name)
    BY <1>5, <2>1, LockEffect
  <2>5. file'[s].ref_cnt = file[s].ref_cnt /\ \A r \in FileSlot : r # s => file'[r] = file[r]
    BY <2>4 DEF Alters
  <2>6. QED
    BY <2>1, <2>2, <2>3, <2>5, <1>d
<1>6. ASSUME NEW t \in Thread, CutName(t) \/ Rename(t)
      PROVE  \A s \in FileSlot : Counted(s)'
  <2>1. PICK s : s = My(t)
    OBVIOUS
  <2>2. at[t] \in Writing
    BY <1>6 DEF CutName, Rename, Writing, Locked
  <2>3. s \in FileSlot /\ unit' = unit
    BY <1>6, <2>1, NameEffect
  <2>4. PICK x : Alters(s, file[s].fp, file[s].full, file[s].ref_cnt, file[s].lock, x)
    BY <1>6, <2>1, NameEffect
  <2>5. file'[s].ref_cnt = file[s].ref_cnt /\ \A r \in FileSlot : r # s => file'[r] = file[r]
    BY <2>4 DEF Alters
  <2>6. QED
    BY <2>1, <2>2, <2>3, <2>5, <1>d
<1>7. ASSUME NEW t \in Thread, Restat(t) \/ Reopen(t)
      PROVE  \A s \in FileSlot : Counted(s)'
  <2>1. PICK s : s = My(t)
    OBVIOUS
  <2>2. at[t] \in Writing
    BY <1>7 DEF Restat, Reopen, Writing, Locked
  <2>3. s \in FileSlot /\ unit' = unit
    BY <1>7, <2>1, StreamEffect
  <2>4. PICK i : Alters(s, i, file[s].full, file[s].ref_cnt, file[s].lock, file[s].file_name)
    BY <1>7, <2>1, StreamEffect
  <2>5. file'[s].ref_cnt = file[s].ref_cnt /\ \A r \in FileSlot : r # s => file'[r] = file[r]
    BY <2>4 DEF Alters
  <2>6. QED
    BY <2>1, <2>2, <2>3, <2>5, <1>d
<1>8. ASSUME NEW t \in Thread, Close(t)
      PROVE  \A s \in FileSlot : Counted(s)'
  <2>1. PICK k \in Field : Closes(t, k)
    BY <1>8, CloseEffect
  <2>2. PICK s \in FileSlot : s = unit[t][k]
    BY <2>1 DEF Closes
  <2>3. /\ Users(s)' = Users(s) \ {<<t, k>>} /\ <<t, k>> \in Users(s)
        /\ \A r \in FileSlot : r # s => Users(r)' = Users(r)
    BY <2>1, <2>2, UsersAfterClose DEF Closes
  <2>4. PICK U : U = Users(s)'
    OBVIOUS
  <2>5. /\ IsFiniteSet(U) /\ Cardinality(U) = Cardinality(Users(s)) - 1 /\ Cardinality(U) \in Nat
        /\ Cardinality(Users(s)) \in Nat
    BY <2>3, <2>4, UsersFinite, FS_RemoveElement, FS_CardinalityType
  <2>6. Cardinality(U) = 0 <=> U = {}
    BY <2>5, FS_EmptySet
  <2>7. file[s].ref_cnt = Cardinality(Users(s))
    BY <1>b DEF Counted
  <2>8. CASE file[s].ref_cnt <= 1
    <3>1. Alters(s, 0, FALSE, 0, None, Cut)
      <4>1. ~(file[s].ref_cnt > 1)
        BY <2>5, <2>7, <2>8
      <4>2. QED
        BY <2>1, <2>2, <4>1 DEF Closes
    <3>2. Cardinality(U) = 0
      BY <2>5, <2>7, <2>8
    <3>3. file'[s] = Unused /\ \A r \in FileSlot : r # s => file'[r] = file[r]
      BY <3>1 DEF Alters, Unused, Entries
    <3>4. file'[s].ref_cnt = 0
      BY <3>3 DEF Unused
    <3>5. Counted(s)'
      BY <3>2, <3>3, <3>4, <2>4 DEF Counted, Unused
    <3>6. QED
      BY <3>3, <3>5, <2>3, <1>b, CountedStays
  <2>9. CASE file[s].ref_cnt > 1
    <3>1. Alters(s, file[s].fp, file[s].full, file[s].ref_cnt - 1, file[s].lock,
                 file[s].file_name)
      <4>1. ~(file[s].ref_cnt <= 1)
        BY <2>5, <2>7, <2>9
      <4>2. QED
        BY <2>1, <2>2, <4>1 DEF Closes
    <3>2. Cardinality(U) # 0
      BY <2>5, <2>7, <2>9
    <3>3. file'[s].ref_cnt = file[s].ref_cnt - 1
          /\ \A r \in FileSlot : r # s => file'[r] = file[r]
      BY <3>1 DEF Alters
    <3>4. file'[s].ref_cnt = Cardinality(U)
      BY <3>3, <2>5, <2>7
    <3>5. Counted(s)'
      BY <3>2, <3>4, <2>4, <2>6 DEF Counted
    <3>6. QED
      BY <3>3, <3>5, <2>3, <1>b, CountedStays
  <2>10. QED
    BY <2>5, <2>7, <2>8, <2>9
<1>9. QED
  BY <1>1, <1>2, <1>3, <1>4, <1>5, <1>6, <1>7, <1>8 DEF LogNext, Work, Idles

(* A thread in the locked part is a user of its slot and has its lock.     *)
LEMMA LockedUser ==
    ASSUME LogTypeOK, PlaceInv, LockInv, ~stolen, NEW t \in Thread, at[t] \in Locked
    PROVE  /\ My(t) \in FileSlot /\ file[My(t)].lock = t /\ cur[t] \in Field
           /\ <<t, cur[t]>> \in Users(My(t))
<1>1. My(t) \in FileSlot /\ cur[t] \in Field
  BY MyFacts DEF Writing
<1>2. QED
  BY <1>1, UserIs DEF LockInv, My

(* Nobody is in the locked part of a slot that its last user closes.       *)
LEMMA LastUserAlone ==
    ASSUME LogTypeOK, PlaceInv, RefCnt, LockInv, ~stolen, NEW t \in Thread, Close(t),
           NEW k \in Field, NEW s \in FileSlot, s = unit[t][k], file[s].ref_cnt <= 1
    PROVE  file[s].lock = None
<1>1. SUFFICES ASSUME file[s].lock # None PROVE FALSE
  OBVIOUS
<1>2. PICK q \in Thread : file[s].lock = q
  BY <1>1, SlotEntry
<1>3. at[q] \in Locked /\ My(q) = s
  BY <1>2 DEF LockInv
<1>4. <<q, cur[q]>> \in Users(s)
  BY <1>3, LockedUser
<1>5. q # t
  BY <1>3 DEF Close, Locked
<1>6. <<t, k>> \in Users(s)
  BY UserIs
<1>7. <<q, cur[q]>> \in Users(s) \ {<<t, k>>}
  BY <1>4, <1>5
<1>8. file[s].ref_cnt = Cardinality(Users(s))
  BY DEF RefCnt
<1>9. PICK U : U = Users(s) \ {<<t, k>>}
  OBVIOUS
<1>10. IsFiniteSet(U) /\ Cardinality(U) = Cardinality(Users(s)) - 1 /\ Cardinality(U) \in Nat
       /\ Cardinality(Users(s)) \in Nat
  BY <1>6, <1>9, UsersFinite, FS_RemoveElement, FS_CardinalityType
<1>11. Cardinality(U) = 0
  BY <1>8, <1>10
<1>12. U = {}
  BY <1>10, <1>11, FS_EmptySet
<1>13. QED
  BY <1>7, <1>9, <1>12

\* Thread t acts; no other thread moves.
Alone(t) == \A r \in Thread : r # t =>
                at'[r] = at[r] /\ cur'[r] = cur[r] /\ unit'[r] = unit[r]

(* Locks stay with their threads when no lock changes and the thread that  *)
(* acts neither enters nor leaves the locked part.                         *)
LEMMA LockStays ==
    ASSUME LogNext, LockInv, NEW t \in Thread, Alone(t),
           \A s \in FileSlot : file'[s].lock = file[s].lock,
           \/ at[t] \notin Locked /\ at'[t] \notin Locked
           \/ at[t] \in Locked /\ at'[t] \in Locked /\ unit'[t] = unit[t] /\ cur'[t] = cur[t]
    PROVE  LockInv'
<1>1. ~stolen /\ FileSlot' = FileSlot
  BY SameProgram DEF LogNext
<1>2. \A r \in Thread : (at'[r] \in Locked <=> at[r] \in Locked)
                        /\ (at[r] \in Locked => My(r)' = My(r))
  BY DEF Alone, My
<1>3. \A r \in Thread, s \in FileSlot :
        file[s].lock = r <=> at[r] \in Locked /\ My(r) = s
  BY <1>1 DEF LockInv
<1>4. \A r \in Thread, s \in FileSlot :
        file'[s].lock = r <=> at'[r] \in Locked /\ My(r)' = s
  BY <1>2, <1>3
<1>5. QED
  BY <1>1, <1>4 DEF LockInv

(* Any action that leaves or enters no lock.                               *)
LEMMA LockStep ==
    ASSUME LogTypeOK, PlaceInv, FpInv, RefCnt, LockInv, LogNext
    PROVE  LockInv'
<1>0. SUFFICES ASSUME ~stolen' PROVE LockInv'
  BY DEF LockInv
<1>a. ~stolen /\ FileSlot' = FileSlot
  BY SameProgram DEF LogNext
<1>b. DOMAIN at = Thread /\ back \in [Thread -> BackTo]
  BY DEF LogTypeOK, BackTo
<1>1. CASE \E f \in File : Unlink(f)
  <2>1. UNCHANGED <<file, at, unit, cur, stolen>>
    BY <1>1 DEF Unlink
  <2>2. QED
    BY <2>1, <1>a DEF LockInv, My
<1>2. ASSUME NEW t \in Thread,
             \/ Work(t) \/ ul_openlog(t) \/ ul_closelog(t)
             \/ \E k \in Field : ul_writelog(t, k)
      PROVE  LockInv'
  <2>1. Alone(t)
    BY <1>2, OthersStay DEF Alone
  <2>2. CASE Idles(t)
    <3>1. file' = file /\ unit' = unit
      BY <2>2, IdlesFile
    <3>2. CASE ul_check(t)
      <4>1. at[t] \in Locked /\ at'[t] \in Locked /\ cur' = cur
        BY <3>2, <1>b DEF ul_check, Sized, Go, Locked
      <4>2. QED
        BY <2>1, <3>1, <4>1, LockStays
    <3>3. CASE Start(t) \/ \E k \in Field : ul_writelog(t, k)
      <4>1. PICK k \in Fields(t) : \E then \in BackTo : CallWrite(t, k, then)
        BY <3>3, CallEffect
      <4>2. at'[t] \in BackTo \cup {"lock"}
        BY <4>1, <1>b DEF CallWrite, Go
      <4>3. at[t] \notin Locked
        BY <3>3 DEF Start, ul_writelog, Locked
      <4>4. at'[t] \notin Locked
        BY <4>2 DEF BackTo, Locked
      <4>5. QED
        BY <2>1, <3>1, <4>3, <4>4, LockStays
    <3>4. CASE OpenFails(t) \/ RemoveTmp(t) \/ Freed(t) \/ ul_openlog(t) \/ ul_closelog(t)
      <4>1. at[t] \notin Locked
        BY <3>4 DEF OpenFails, RemoveTmp, Freed, ul_openlog, ul_closelog, Locked
      <4>2. at'[t] \in BackTo \cup {"undo", "open", "end"}
        BY <3>4, <1>b DEF OpenFails, RemoveTmp, Freed, ul_openlog, ul_closelog, Go, BackTo
      <4>3. at'[t] \notin Locked
        BY <4>2 DEF BackTo, Locked
      <4>4. QED
        BY <2>1, <3>1, <4>1, <4>3, LockStays
    <3>5. QED
      BY <2>2, <3>2, <3>3, <3>4 DEF Idles
  <2>3. CASE Share(t)
    <3>1. PICK s \in FileSlot :
            /\ Point(t, s)
            /\ Alters(s, file[s].fp, file[s].full, file[s].ref_cnt + 1, file[s].lock,
                      file[s].file_name)
      BY <2>3, ShareEffect
    <3>2. at[t] = "open" /\ at'[t] \in {"start", "open"}
      BY <2>3, <3>1, PointEffect DEF Share
    <3>3. \A r \in FileSlot : file'[r].lock = file[r].lock
      BY <3>1 DEF Alters
    <3>4. QED
      BY <2>1, <3>2, <3>3, LockStays DEF Locked
  <2>4. CASE OpenNew(t)
    <3>1. PICK s \in FileSlot, i \in Nat :
            /\ Point(t, s) /\ Alters(s, i, FALSE, 1, None, Mine(t))
            /\ stolen' = (stolen \/ file[s].ref_cnt > 0)
      BY <2>4, OpenNewEffect
    <3>2. at[t] = "open" /\ at'[t] \in {"start", "open"}
      BY <2>4, <3>1, PointEffect DEF OpenNew
    <3>3. file[s].ref_cnt = 0
      <4>1. ~(file[s].ref_cnt > 0) /\ file[s].ref_cnt \in Nat
        BY <1>0, <3>1, SlotEntry
      <4>2. QED
        BY <4>1
    <3>4. file[s].lock = None
      <4>1. Users(s) = {}
        BY <3>3, <1>a, UsersFinite DEF RefCnt
      <4>2. QED
        BY <4>1, <1>a DEF RefCnt, Unused
    <3>5. \A r \in FileSlot : file'[r].lock = file[r].lock
      BY <3>1, <3>4 DEF Alters
    <3>6. QED
      BY <2>1, <3>2, <3>5, LockStays DEF Locked
  <2>5. CASE CutName(t) \/ Rename(t)
    <3>1. PICK s : s = My(t)
      OBVIOUS
    <3>2. s \in FileSlot /\ unit' = unit /\ cur' = cur
      BY <2>5, <3>1, NameEffect
    <3>3. PICK x : Alters(s, file[s].fp, file[s].full, file[s].ref_cnt, file[s].lock, x)
      BY <2>5, <3>1, NameEffect
    <3>4. \A r \in FileSlot : file'[r].lock = file[r].lock
      BY <3>3 DEF Alters
    <3>5. at[t] \in Locked /\ at'[t] \in Locked
      BY <2>5, <1>b DEF CutName, Rename, Go, Locked
    <3>6. QED
      BY <2>1, <3>2, <3>4, <3>5, LockStays
  <2>6. CASE Restat(t) \/ Reopen(t)
    <3>1. PICK s : s = My(t)
      OBVIOUS
    <3>2. s \in FileSlot /\ unit' = unit /\ cur' = cur
      BY <2>6, <3>1, StreamEffect
    <3>3. PICK i : Alters(s, i, file[s].full, file[s].ref_cnt, file[s].lock,
                          file[s].file_name)
      BY <2>6, <3>1, StreamEffect
    <3>4. \A r \in FileSlot : file'[r].lock = file[r].lock
      BY <3>3 DEF Alters
    <3>5. at[t] \in Locked /\ at'[t] \in Locked
      BY <2>6, <1>b DEF Restat, Reopen, Go, Locked
    <3>6. QED
      BY <2>1, <3>2, <3>4, <3>5, LockStays
  <2>7. CASE Close(t)
    <3>1. PICK k \in Field : Closes(t, k)
      BY <2>7, CloseEffect
    <3>2. PICK s \in FileSlot : s = unit[t][k]
      BY <3>1 DEF Closes
    <3>3. \A r \in FileSlot : file'[r].lock = file[r].lock
      <4>1. CASE file[s].ref_cnt <= 1 /\ Alters(s, 0, FALSE, 0, None, Cut)
        <5>1. file[s].lock = None
          BY <2>7, <3>2, <4>1, <1>a, LastUserAlone
        <5>2. QED
          BY <4>1, <5>1 DEF Alters
      <4>2. CASE Alters(s, file[s].fp, file[s].full, file[s].ref_cnt - 1, file[s].lock,
                        file[s].file_name)
        BY <4>2 DEF Alters
      <4>3. QED
        BY <3>1, <3>2, <4>1, <4>2 DEF Closes
    <3>4. at[t] \notin Locked /\ at' = at
      BY <2>7 DEF Close, Locked
    <3>5. QED
      BY <2>1, <3>3, <3>4, LockStays
  <2>8. CASE Lock(t) \/ Unlock(t) \/ Write(t)
    <3>1. PICK s : s = My(t)
      OBVIOUS
    <3>2. s \in FileSlot /\ unit' = unit /\ cur' = cur
      BY <2>8, <3>1, LockEffect
    <3>3. PICK x : /\ x = IF Lock(t) THEN t ELSE None
                   /\ Alters(s, file[s].fp, file[s].full, file[s].ref_cnt, x,
                             file[s].file_name)
      BY <2>8, <3>1, LockEffect
    <3>4. file'[s].lock = x /\ \A r \in FileSlot : r # s => file'[r].lock = file[r].lock
      BY <3>3 DEF Alters
    <3>5. \A r \in Thread : My(r)' = My(r)
      BY <3>2 DEF My
    <3>6. \A r \in Thread, q \in FileSlot :
            file[q].lock = r <=> at[r] \in Locked /\ My(r) = q
      BY <1>a DEF LockInv
    <3>7. \A r \in Thread : r # t => at'[r] = at[r]
      BY <2>1 DEF Alone
    <3>8. None \notin Thread
      BY ThreadAssumption
    <3>9. CASE Lock(t)
      <4>1. x = t /\ file[s].lock = None /\ at'[t] \in Locked /\ at[t] \notin Locked
        BY <3>1, <3>3, <3>9, <1>b DEF Lock, Go, Locked
      <4>2. \A r \in Thread, q \in FileSlot :
              file'[q].lock = r <=> at'[r] \in Locked /\ My(r)' = q
        BY <3>1, <3>4, <3>5, <3>6, <3>7, <3>8, <4>1
      <4>3. QED
        BY <4>2, <1>a DEF LockInv
    <3>10. CASE ~Lock(t)
      <4>1. x = None /\ at[t] \in Locked
        BY <2>8, <3>3, <3>10 DEF Unlock, Write, Locked
      <4>2. at'[t] \in BackTo \cup {"remove"}
        BY <2>8, <3>10, <1>b DEF Unlock, Write, Go
      <4>3. at'[t] \notin Locked
        BY <4>2 DEF BackTo, Locked
      <4>4. \A r \in Thread, q \in FileSlot :
              file'[q].lock = r <=> at'[r] \in Locked /\ My(r)' = q
        BY <3>1, <3>2, <3>4, <3>5, <3>6, <3>7, <3>8, <4>1, <4>3
      <4>5. QED
        BY <4>4, <1>a DEF LockInv
    <3>11. QED
      BY <3>9, <3>10
  <2>9. QED
    BY <1>2, <2>2, <2>3, <2>4, <2>5, <2>6, <2>7, <2>8 DEF Work, Idles
<1>3. QED
  BY <1>1, <1>2 DEF LogNext

(* Nobody is left without a stream by another thread.                      *)
LEMMA FpStep ==
    ASSUME LogTypeOK, PlaceInv, FpInv, RefCnt, LockInv, LogNext
    PROVE  FpInv'
<1>0. SUFFICES ASSUME ~stolen' PROVE FpInv'
  BY DEF FpInv
<1>a. ~stolen /\ FileSlot' = FileSlot
  BY SameProgram DEF LogNext
<1>b. DOMAIN at = Thread /\ back \in [Thread -> BackTo] /\ Streaming \subseteq Locked
  BY DEF LogTypeOK, BackTo, Streaming, Locked
<1>c. \A r \in Thread : at[r] \in Streaming =>
        My(r) \in FileSlot /\ file[My(r)].lock = r /\ file[My(r)].fp # 0
  BY <1>a, <1>b, LockedUser DEF FpInv
<1>1. CASE \E f \in File : Unlink(f)
  <2>1. UNCHANGED <<file, at, unit, cur, stolen>>
    BY <1>1 DEF Unlink
  <2>2. QED
    BY <2>1, <1>a DEF FpInv, My
<1>2. ASSUME NEW t \in Thread,
             \/ Work(t) \/ ul_openlog(t) \/ ul_closelog(t)
             \/ \E k \in Field : ul_writelog(t, k)
      PROVE  FpInv'
  <2>1. \A r \in Thread : r # t => at'[r] = at[r] /\ My(r)' = My(r)
    BY <1>2, OthersStay DEF My
  <2>a. ASSUME \A r \in Thread : r # t /\ at[r] \in Streaming => file'[My(r)].fp # 0,
               at'[t] \in Streaming => file'[My(t)'].fp # 0
        PROVE  FpInv'
    <3>1. \A r \in Thread : at'[r] \in Streaming => file'[My(r)'].fp # 0
      BY <2>1, <2>a
    <3>2. QED
      BY <3>1 DEF FpInv
  <2>b. ASSUME \A s \in FileSlot : file'[s].fp = file[s].fp,
               at'[t] \in Streaming => file'[My(t)'].fp # 0
        PROVE  FpInv'
    <3>1. \A r \in Thread : at[r] \in Streaming => file'[My(r)].fp # 0
      BY <2>b, <1>c
    <3>2. QED
      BY <2>a, <2>b, <3>1
  <2>2. CASE Idles(t)
    <3>1. file' = file /\ unit' = unit
      BY <2>2, IdlesFile
    <3>2. CASE ul_check(t)
      <4>1. cur' = cur /\ (at'[t] \in Streaming => file[My(t)].fp # 0)
        BY <3>2, <1>b DEF ul_check, Sized, Go, Streaming
      <4>2. My(t)' = My(t)
        BY <4>1, <3>1 DEF My
      <4>3. QED
        BY <2>b, <3>1, <4>1, <4>2
    <3>3. CASE Start(t) \/ \E k \in Field : ul_writelog(t, k)
      <4>1. PICK k \in Fields(t) : \E then \in BackTo : CallWrite(t, k, then)
        BY <3>3, CallEffect
      <4>2. at'[t] \in BackTo \cup {"lock"}
        BY <4>1, <1>b DEF CallWrite, Go
      <4>3. at'[t] \notin Streaming
        BY <4>2 DEF BackTo, Streaming
      <4>4. QED
        BY <2>b, <3>1, <4>3
    <3>4. CASE OpenFails(t) \/ RemoveTmp(t) \/ Freed(t) \/ ul_openlog(t) \/ ul_closelog(t)
      <4>2. at'[t] \in BackTo \cup {"undo", "open", "end"}
        BY <3>4, <1>b DEF OpenFails, RemoveTmp, Freed, ul_openlog, ul_closelog, Go, BackTo
      <4>3. at'[t] \notin Streaming
        BY <4>2 DEF BackTo, Streaming
      <4>4. QED
        BY <2>b, <3>1, <4>3
    <3>5. QED
      BY <2>2, <3>2, <3>3, <3>4 DEF Idles
  <2>3. CASE Share(t)
    <3>1. PICK s \in FileSlot :
            /\ Point(t, s)
            /\ Alters(s, file[s].fp, file[s].full, file[s].ref_cnt + 1, file[s].lock,
                      file[s].file_name)
      BY <2>3, ShareEffect
    <3>2. at'[t] \in {"start", "open"}
      BY <2>3, <3>1, PointEffect DEF Share
    <3>3. \A r \in FileSlot : file'[r].fp = file[r].fp
      BY <3>1 DEF Alters
    <3>4. QED
      BY <2>b, <3>2, <3>3 DEF Streaming
  <2>4. CASE OpenNew(t)
    <3>1. PICK s \in FileSlot, i \in Nat :
            Point(t, s) /\ Opened(Mine(t), i) /\ Alters(s, i, FALSE, 1, None, Mine(t))
      BY <2>4, OpenNewEffect
    <3>2. at'[t] \in {"start", "open"}
      BY <2>4, <3>1, PointEffect DEF OpenNew
    <3>3. file'[s].fp # 0
      BY <3>1 DEF Alters, Opened
    <3>4. \A r \in FileSlot : r # s => file'[r].fp = file[r].fp
      BY <3>1 DEF Alters
    <3>5. QED
      BY <2>a, <3>2, <3>3, <3>4, <1>c DEF Streaming
  <2>5. CASE CutName(t) \/ Rename(t)
    <3>1. PICK s : s = My(t)
      OBVIOUS
    <3>2. s \in FileSlot /\ unit' = unit /\ cur' = cur
      BY <2>5, <3>1, NameEffect
    <3>3. PICK x : Alters(s, file[s].fp, file[s].full, file[s].ref_cnt, file[s].lock, x)
      BY <2>5, <3>1, NameEffect
    <3>4. \A r \in FileSlot : file'[r].fp = file[r].fp
      BY <3>3 DEF Alters
    <3>5. at[t] \in Streaming /\ My(t)' = My(t)
      BY <2>5, <3>2 DEF CutName, Rename, Streaming, My
    <3>6. QED
      BY <2>b, <3>4, <3>5, <1>c
  <2>6. CASE Restat(t) \/ Reopen(t)
    <3>1. PICK s : s = My(t)
      OBVIOUS
    <3>2. s \in FileSlot /\ unit' = unit /\ cur' = cur
      BY <2>6, <3>1, StreamEffect
    <3>3. PICK i \in Nat :
            /\ (i = 0 /\ at' = [at EXCEPT ![t] = "unlock"]) \/ Opened(Mine(t), i)
            /\ Alters(s, i, file[s].full, file[s].ref_cnt, file[s].lock, file[s].file_name)
      BY <2>6, <3>1, StreamEffect
    <3>4. file'[s].fp = i /\ \A r \in FileSlot : r # s => file'[r].fp = file[r].fp
      BY <3>3 DEF Alters
    <3>5. My(t)' = s /\ at[t] \in Streaming
      BY <2>6, <3>1, <3>2 DEF My, Restat, Reopen, Streaming
    <3>6. \A r \in Thread : r # t /\ at[r] \in Streaming => My(r) # s
      BY <3>1, <3>5, <1>c
    <3>7. at'[t] \in Streaming => i # 0
      BY <3>3, <1>b DEF Opened, Streaming
    <3>8. \A r \in Thread : r # t /\ at[r] \in Streaming => file'[My(r)].fp # 0
      BY <3>4, <3>6, <1>c
    <3>9. QED
      BY <2>a, <3>4, <3>5, <3>7, <3>8
  <2>7. CASE Close(t)
    <3>1. PICK k \in Field : Closes(t, k)
      BY <2>7, CloseEffect
    <3>2. PICK s \in FileSlot : s = unit[t][k]
      BY <3>1 DEF Closes
    <3>3. at[t] \notin Locked /\ at' = at
      BY <2>7 DEF Close, Locked
    <3>4. CASE file[s].ref_cnt <= 1 /\ Alters(s, 0, FALSE, 0, None, Cut)
      <4>1. file[s].lock = None
        BY <2>7, <3>2, <3>4, <1>a, LastUserAlone
      <4>2. \A r \in Thread : at[r] \in Streaming => My(r) # s
        BY <4>1, <1>c, ThreadAssumption
      <4>3. \A r \in FileSlot : r # s => file'[r].fp = file[r].fp
        BY <3>4 DEF Alters
      <4>4. QED
        BY <2>a, <3>3, <4>2, <4>3, <1>b, <1>c
    <3>5. CASE Alters(s, file[s].fp, file[s].full, file[s].ref_cnt - 1, file[s].lock,
                      file[s].file_name)
      <4>1. \A r \in FileSlot : file'[r].fp = file[r].fp
        BY <3>5 DEF Alters
      <4>2. QED
        BY <2>b, <3>3, <4>1, <1>b
    <3>6. QED
      BY <3>1, <3>2, <3>4, <3>5 DEF Closes
  <2>8. CASE Lock(t) \/ Unlock(t) \/ Write(t)
    <3>1. PICK s : s = My(t)
      OBVIOUS
    <3>2. s \in FileSlot
      BY <2>8, <3>1, LockEffect
    <3>3. PICK x : Alters(s, file[s].fp, file[s].full, file[s].ref_cnt, x,
                          file[s].file_name)
      BY <2>8, <3>1, LockEffect
    <3>4. \A r \in FileSlot : file'[r].fp = file[r].fp
      BY <3>3 DEF Alters
    <3>5. at'[t] \in BackTo \cup {"remove", "check"}
      BY <2>8, <1>b DEF Lock, Unlock, Write, Go
    <3>6. at'[t] \notin Streaming
      BY <3>5 DEF BackTo, Streaming
    <3>7. QED
      BY <2>b, <3>4, <3>6
  <2>9. QED
    BY <1>2, <2>2, <2>3, <2>4, <2>5, <2>6, <2>7, <2>8 DEF Work, Idles
<1>3. QED
  BY <1>1, <1>2 DEF LogNext

(* What makes the slots safe to use: RefCnt alone does not show that a     *)
(* thread is still a user of the slot whose lock it has.                   *)
HeldInv == LogTypeOK /\ PlaceInv /\ FpInv /\ RefCnt /\ LockInv

(* Every slot is free, every unit empty when the program starts.           *)
LEMMA HeldInit == LogInit => HeldInv
<1> SUFFICES ASSUME LogInit PROVE HeldInv
  OBVIOUS
<1>1. program \in Programs /\ program.slots \in Nat
  BY ProgramAssumption DEF LogInit
<1>2. /\ at = [t \in Thread |-> "idle"] /\ unit = [t \in Thread |-> [k \in Field |-> 0]]
      /\ cur = [t \in Thread |-> 0] /\ rotated = [t \in Thread |-> FALSE]
      /\ back = [t \in Thread |-> "idle"]
  BY DEF LogInit
<1>3. inode = <<>> /\ dir = [x \in Path |-> 0] /\ file = [s \in FileSlot |-> Unused]
  BY DEF LogInit
<1>4. Unused \in Entries /\ Unused.fp = 0 /\ Unused.ref_cnt = 0 /\ Unused.lock = None
  BY DEF Unused, Entries
<1>5. inode \in Seq([base : File, size : Nat]) /\ Len(inode) = 0
  BY <1>3
<1>6. LogTypeOK
  <2>1. file \in [FileSlot -> Entries] /\ \A s \in FileSlot : file[s].fp <= Len(inode)
    BY <1>3, <1>4, <1>5
  <2>2. dir \in [Path -> 0..Len(inode)]
    BY <1>3, <1>5
  <2>3. /\ unit \in [Thread -> [Field -> 0..program.slots]] /\ cur \in [Thread -> Nat]
        /\ rotated \in [Thread -> BOOLEAN]
    BY <1>1, <1>2
  <2>4. at \in [Thread -> Where] /\ back \in [Thread -> BackTo]
    BY <1>2 DEF Where, BackTo
  <2>5. /\ stolen \in BOOLEAN /\ raced \in BOOLEAN
        /\ unlinked \in Nat /\ written \subseteq File \X Nat \X Nat
    BY DEF LogInit
  <2>6. QED
    BY <1>1, <1>5, <2>1, <2>2, <2>3, <2>4, <2>5 DEF LogTypeOK, Where, BackTo
<1>7. PlaceInv
  <2>1. \A t \in Thread : Held(t) = {} /\ at[t] = "idle"
    BY <1>2 DEF Held
  <2>2. QED
    BY <2>1 DEF PlaceInv, PlaceOK, Writing, Locked
<1>8. FpInv
  BY <1>2 DEF FpInv, Streaming
<1>9. RefCnt
  <2>1. \A s \in FileSlot : s # 0
    BY <1>1 DEF FileSlot
  <2>2. \A s \in FileSlot : Users(s) = {}
    BY <1>2, <2>1 DEF Users
  <2>3. QED
    BY <1>3, <1>4, <2>2, FS_EmptySet DEF RefCnt
<1>10. LockInv
  <2>1. \A t \in Thread : at[t] \notin Locked
    BY <1>2 DEF Locked
  <2>2. \A s \in FileSlot : file[s].lock = None
    BY <1>3, <1>4
  <2>3. QED
    BY <2>1, <2>2, ThreadAssumption DEF LockInv
<1>11. QED
  BY <1>6, <1>7, <1>8, <1>9, <1>10 DEF HeldInv

(* Every step keeps the invariant, conjunct by conjunct.                   *)
LEMMA HeldStep == HeldInv /\ [LogNext]_logVars => HeldInv'
<1>1. ASSUME HeldInv, LogNext
      PROVE  HeldInv'
  <2>1. LogTypeOK /\ PlaceInv /\ FpInv /\ RefCnt /\ LockInv
    BY <1>1 DEF HeldInv
  <2>2. LogTypeOK'
    BY <1>1, <2>1, LogTypeStep
  <2>3. PlaceInv'
    BY <1>1, <2>1, PlaceStep
  <2>4. FpInv'
    BY <1>1, <2>1, FpStep
  <2>5. RefCnt'
    BY <1>1, <2>1, RefCntStep
  <2>6. LockInv'
    BY <1>1, <2>1, LockStep
  <2>7. QED
    BY <2>2, <2>3, <2>4, <2>5, <2>6 DEF HeldInv
<1>2. ASSUME HeldInv, UNCHANGED logVars
      PROVE  HeldInv'
  <2>0. /\ UNCHANGED <<program, file, dir, inode, at, unit, cur, rotated, back, unlinked,
                       written, stolen, raced>>
        /\ FileSlot' = FileSlot
    BY <1>2 DEF logVars, calls, FileSlot
  <2>1. LogTypeOK'
    BY <1>2, <2>0 DEF HeldInv, LogTypeOK, Path, Entries
  <2>2. PlaceInv'
    BY <1>2, <2>0 DEF HeldInv, PlaceInv, PlaceOK, Held, Fields, Plan
  <2>3. FpInv' /\ LockInv'
    BY <1>2, <2>0 DEF HeldInv, FpInv, LockInv, My
  <2>4. RefCnt'
    <3>1. \A s : Users(s)' = Users(s)
      BY <2>0 DEF Users
    <3>2. QED
      BY <1>2, <2>0, <3>1 DEF HeldInv, RefCnt
  <2>5. QED
    BY <2>1, <2>2, <2>3, <2>4 DEF HeldInv
<1>3. QED
  BY <1>1, <1>2

(* The invariant implies what is promised of the slots.                    *)
LEMMA HeldSlots == HeldInv => SlotsHeld
<1> SUFFICES ASSUME HeldInv PROVE SlotsHeld
  OBVIOUS
<1>1. LogTypeOK /\ PlaceInv /\ RefCnt /\ LockInv
  BY DEF HeldInv
<1>2. ASSUME ~stolen, NEW t \in Thread, at[t] \in Locked
      PROVE  file[My(t)].lock = t /\ file[My(t)].ref_cnt > 0
  <2>1. My(t) \in FileSlot /\ file[My(t)].lock = t /\ <<t, cur[t]>> \in Users(My(t))
    BY <1>1, <1>2, LockedUser
  <2>2. PICK s \in FileSlot : s = My(t)
    BY <2>1
  <2>3. file[s].ref_cnt = Cardinality(Users(s)) /\ Users(s) # {}
    BY <1>1, <1>2, <2>1, <2>2 DEF RefCnt
  <2>4. Cardinality(Users(s)) \in Nat /\ Cardinality(Users(s)) # 0
    BY <2>3, UsersFinite
  <2>5. file[s].ref_cnt > 0
    BY <2>3, <2>4
  <2>6. QED
    BY <2>1, <2>2, <2>5
<1>3. InUse
  BY <1>2 DEF InUse
<1>4. QED
  BY <1>1, <1>3 DEF SlotsHeld

(* For any number of threads, files and slots, however openings fail half  *)
(* way, streams are lost and units are closed: until a slot in use is      *)
(* given away, ul_open_file_unit and ul_closefile count the users of every *)
(* slot correctly, and a thread in ul_vwritelog_buff holds the lock of a   *)
(* slot that is still its own.                                             *)
THEOREM SlotsAlwaysHeld == LogSpec => []SlotsHeld
<1>1. LogInit => HeldInv
  BY HeldInit
<1>2. HeldInv /\ [LogNext]_logVars => HeldInv'
  BY HeldStep
<1>3. HeldInv => SlotsHeld
  BY HeldSlots
<1>4. QED
  BY <1>1, <1>2, <1>3, PTL DEF LogSpec

\* The file whose log the stream of slot s is of.
Base(s) == inode[file[s].fp].base

(* A name leads to an inode that was made for its log.                     *)
DirInv == \A x \in Path : dir[x] # 0 => inode[dir[x]].base = x[1]

(* The log that a field of a unit is for and the stream of its slot agree. *)
UnitInv ==
    ~stolen => \A t \in Thread, k \in Field :
        unit[t][k] # 0 /\ file[unit[t][k]].fp # 0 => Base(unit[t][k]) = Plan(t)[k]

(* A slot with a stream has that file's name, unless a rotation has just   *)
(* cut it.                                                                 *)
CutInv ==
    ~stolen => \A s \in FileSlot : file[s].fp # 0 =>
        \/ file[s].file_name = Base(s)
        \/ /\ file[s].file_name = Cut /\ ~program.split
           /\ file[s].lock # None /\ at[file[s].lock] = "rename"

(* The inode that ul_open_file returns was made for the log opened.        *)
LEMMA OpenedBase ==
    ASSUME LogTypeOK, DirInv, NEW f \in File, NEW i, Opened(f, i)
    PROVE  i # 0 /\ inode'[i].base = f
<1>1. Log(f) \in Path /\ Log(f)[1] = f
  BY LogPath DEF Log
<1>2. i # 0
  BY DEF Opened
<1>3. CASE dir[Log(f)] # 0
  BY <1>1, <1>2, <1>3 DEF Opened, DirInv
<1>4. CASE dir[Log(f)] = 0
  BY <1>2, <1>4 DEF Opened
<1>5. QED
  BY <1>2, <1>3, <1>4

(* Names move only between the log, the .tmp and the parts of one file.    *)
LEMMA DirStep ==
    ASSUME LogTypeOK, PlaceInv, FpInv, DirInv, LogNext
    PROVE  DirInv'
<1>0. /\ dir \in [Path -> 0..Len(inode)] /\ Len(inode) \in Nat /\ Path' = Path
      /\ \A j \in 1..Len(inode) : inode'[j].base = inode[j].base
  BY LastingStep, SameProgram DEF Lasting, LogTypeOK
<1>1. \A x \in Path : dir[x] # 0 => inode'[dir[x]].base = x[1]
  <2>1. \A x \in Path : dir[x] # 0 => dir[x] \in 1..Len(inode)
    BY <1>0
  <2>2. QED
    BY <2>1, <1>0 DEF DirInv
<1>a. ASSUME \A x \in Path : dir'[x] = dir[x] \/ dir'[x] = 0
      PROVE  DirInv'
  BY <1>0, <1>1, <1>a DEF DirInv
<1>b. ASSUME NEW f \in File, NEW i, Opened(f, i)
      PROVE  DirInv'
  <2>1. i # 0 /\ inode'[i].base = f
    BY <1>b, OpenedBase
  <2>2. dir'[Log(f)] = i /\ \A x \in Path : x # Log(f) => dir'[x] = dir[x]
    BY <1>b DEF Opened
  <2>3. Log(f)[1] = f
    BY DEF Log
  <2>4. QED
    BY <2>1, <2>2, <2>3, <1>0, <1>1 DEF DirInv
<1>2. ASSUME NEW f \in File, Unlink(f)
      PROVE  DirInv'
  BY <1>0, <1>2, <1>a DEF Unlink
<1>3. ASSUME NEW t \in Thread, OpenNew(t)
      PROVE  DirInv'
  <2>1. Mine(t) \in File /\ \E i : Opened(Mine(t), i)
    BY <1>3, OpenFacts, OpenNewEffect DEF OpenNew
  <2>2. QED
    BY <2>1, <1>b
<1>4. ASSUME NEW t \in Thread, Restat(t) \/ Reopen(t)
      PROVE  DirInv'
  <2>1. Mine(t) \in File
    BY <1>4, MyFacts DEF Restat, Reopen, Writing, Locked
  <2>2. dir' = dir \/ \E i : Opened(Mine(t), i)
    BY <1>4, StreamEffect
  <2>3. QED
    BY <2>1, <2>2, <1>a, <1>b
<1>5. ASSUME NEW t \in Thread, Rename(t)
      PROVE  DirInv'
  <2>1. PICK f : f = Mine(t)
    OBVIOUS
  <2>2. PICK x \in Path : Renamed(f, x)
    BY <1>5, <2>1, RenameEffect
  <2>3. f \in File
    BY <1>5, <2>1, MyFacts DEF Rename, Writing, Locked
  <2>4. Log(f) \in Path /\ Log(f)[1] = f
    BY <2>3, LogPath DEF Log
  <2>5. \A y \in Path : dir'[y] # 0 => inode'[dir'[y]].base = y[1]
    BY <2>2, <2>4, <1>1 DEF Renamed
  <2>6. QED
    BY <2>5, <1>0 DEF DirInv
<1>6. ASSUME NEW t \in Thread, RemoveTmp(t)
      PROVE  DirInv'
  BY <1>0, <1>6, <1>a DEF RemoveTmp
<1>7. ASSUME NEW t \in Thread,
             \/ Share(t) \/ OpenFails(t) \/ Start(t) \/ Lock(t) \/ Unlock(t) \/ ul_check(t)
             \/ CutName(t) \/ Write(t) \/ Close(t) \/ Freed(t) \/ ul_openlog(t)
             \/ ul_closelog(t) \/ \E k \in Field : ul_writelog(t, k)
      PROVE  DirInv'
  <2>1. dir' = dir
    BY <1>7 DEF Share, OpenFails, Start, Lock, Unlock, ul_check, CutName, Write, Close, Freed,
                ul_openlog, ul_closelog, ul_writelog
  <2>2. QED
    BY <2>1, <1>a
<1>8. QED
  BY <1>2, <1>3, <1>4, <1>5, <1>6, <1>7 DEF LogNext, Work

(* A thread past the check of fp: its slot, its stream, its file.          *)
LEMMA StreamFacts ==
    ASSUME HeldInv, UnitInv, ~stolen, NEW t \in Thread, at[t] \in Streaming
    PROVE  /\ My(t) \in FileSlot /\ file[My(t)].lock = t /\ file[My(t)].fp # 0
           /\ Mine(t) \in File /\ Base(My(t)) = Mine(t)
<1>1. at[t] \in Locked /\ LogTypeOK /\ PlaceInv /\ LockInv /\ FpInv
  BY DEF Streaming, Locked, HeldInv
<1>2. My(t) \in FileSlot /\ file[My(t)].lock = t /\ cur[t] \in Field
  BY <1>1, LockedUser
<1>3. file[My(t)].fp # 0 /\ Mine(t) \in File
  BY <1>1, MyFacts DEF FpInv, Writing
<1>4. unit[t][cur[t]] # 0
  BY <1>1, <1>2, ProgramFacts DEF My
<1>5. Base(My(t)) = Mine(t)
  BY <1>2, <1>3, <1>4 DEF UnitInv, My, Mine
<1>6. QED
  BY <1>2, <1>3, <1>5

\* What becomes of the stream of slot q when thread t acts.
Fate(t, q) ==
    \/ file'[q].fp = 0
    \/ file'[q].fp = file[q].fp /\ Base(q)' = Base(q)
    \/ OpenNew(t) /\ file[q].fp = 0 /\ Users(q) = {}
       /\ Base(q)' = Mine(t) /\ file'[q].file_name = Mine(t)
    \/ /\ (Restat(t) \/ Reopen(t)) /\ q = My(t) /\ file[q].fp # 0
       /\ Base(q)' = Mine(t) /\ Base(q) = Mine(t)

(* A stream is kept, closed, opened in a free slot, or replaced by its own *)
(* thread.                                                                 *)
LEMMA FateStep ==
    ASSUME HeldInv, UnitInv, DirInv, LogNext, ~stolen', NEW t \in Thread,
           \/ Work(t) \/ ul_openlog(t) \/ ul_closelog(t)
           \/ \E k \in Field : ul_writelog(t, k)
    PROVE  \A q \in FileSlot : Fate(t, q)
<1>a. ~stolen /\ LogTypeOK /\ PlaceInv /\ FpInv /\ RefCnt
  BY DEF LogNext, HeldInv
<1>b. \A q \in FileSlot : file'[q].fp = file[q].fp /\ file[q].fp # 0 => Base(q)' = Base(q)
  <2>1. \A j \in 1..Len(inode) : inode'[j].base = inode[j].base
    BY <1>a, LastingStep DEF Lasting
  <2>2. \A q \in FileSlot : file[q].fp # 0 => file[q].fp \in 1..Len(inode)
    BY <1>a, SlotEntry
  <2>3. QED
    BY <2>1, <2>2 DEF Base
<1>c. \A q \in FileSlot : file'[q].fp = file[q].fp => Fate(t, q)
  BY <1>b DEF Fate
<1>1. CASE Idles(t)
  BY <1>1, <1>a, <1>c, IdlesFile
<1>2. CASE Share(t)
  <2>1. PICK s \in FileSlot :
          Alters(s, file[s].fp, file[s].full, file[s].ref_cnt + 1, file[s].lock,
                 file[s].file_name)
    BY <1>2, <1>a, ShareEffect
  <2>2. \A q \in FileSlot : file'[q].fp = file[q].fp
    BY <2>1 DEF Alters
  <2>3. QED
    BY <2>2, <1>c
<1>3. CASE OpenNew(t)
  <2>1. PICK s \in FileSlot, i \in Nat :
          /\ s \in Free /\ Opened(Mine(t), i) /\ Alters(s, i, FALSE, 1, None, Mine(t))
          /\ stolen' = (stolen \/ file[s].ref_cnt > 0)
    BY <1>3, <1>a, OpenNewEffect
  <2>2. Mine(t) \in File
    BY <1>3, <1>a, OpenFacts DEF OpenNew
  <2>3. inode'[i].base = Mine(t)
    BY <2>1, <2>2, <1>a, OpenedBase
  <2>4. /\ file'[s].fp = i /\ file'[s].file_name = Mine(t) /\ file[s].fp = 0
        /\ \A q \in FileSlot : q # s => file'[q].fp = file[q].fp
    BY <2>1 DEF Alters, Free
  <2>5. Base(s)' = Mine(t)
    BY <2>3, <2>4 DEF Base
  <2>6. Users(s) = {}
    <3>1. ~(file[s].ref_cnt > 0) /\ file[s].ref_cnt \in Nat
      BY <2>1, <1>a, SlotEntry
    <3>2. file[s].ref_cnt = 0
      BY <3>1
    <3>3. QED
      BY <3>2, <1>a, UsersFinite DEF RefCnt
  <2>7. Fate(t, s)
    BY <1>3, <2>4, <2>5, <2>6 DEF Fate
  <2>8. QED
    BY <2>4, <2>7, <1>c
<1>4. CASE Restat(t) \/ Reopen(t)
  <2>1. PICK s : s = My(t)
    OBVIOUS
  <2>2. PICK i \in Nat :
          /\ i = 0 \/ Opened(Mine(t), i)
          /\ Alters(s, i, file[s].full, file[s].ref_cnt, file[s].lock, file[s].file_name)
    BY <1>4, <2>1, <1>a, StreamEffect
  <2>3. at[t] \in Streaming
    BY <1>4 DEF Restat, Reopen, Streaming
  <2>4. s \in FileSlot /\ file[s].fp # 0 /\ Mine(t) \in File /\ Base(s) = Mine(t)
    BY <2>1, <2>3, <1>a, StreamFacts
  <2>5. file'[s].fp = i /\ \A q \in FileSlot : q # s => file'[q].fp = file[q].fp
    BY <2>2 DEF Alters
  <2>6. i # 0 => Base(s)' = Mine(t)
    <3>1. i # 0 => inode'[i].base = Mine(t)
      BY <2>2, <2>4, <1>a, OpenedBase
    <3>2. QED
      BY <3>1, <2>5 DEF Base
  <2>7. Fate(t, s)
    BY <1>4, <2>1, <2>4, <2>5, <2>6 DEF Fate
  <2>8. QED
    BY <2>5, <2>7, <1>c
<1>5. CASE Lock(t) \/ Unlock(t) \/ Write(t)
  <2>1. PICK s : s = My(t)
    OBVIOUS
  <2>2. PICK x : Alters(s, file[s].fp, file[s].full, file[s].ref_cnt, x, file[s].file_name)
    BY <1>5, <2>1, <1>a, LockEffect
  <2>3. \A q \in FileSlot : file'[q].fp = file[q].fp
    BY <2>2 DEF Alters
  <2>4. QED
    BY <2>3, <1>c
<1>6. CASE CutName(t) \/ Rename(t)
  <2>1. PICK s : s = My(t)
    OBVIOUS
  <2>2. PICK x : Alters(s, file[s].fp, file[s].full, file[s].ref_cnt, file[s].lock, x)
    BY <1>6, <2>1, <1>a, NameEffect
  <2>3. \A q \in FileSlot : file'[q].fp = file[q].fp
    BY <2>2 DEF Alters
  <2>4. QED
    BY <2>3, <1>c
<1>7. CASE Close(t)
  <2>1. PICK k \in Field : Closes(t, k)
    BY <1>7, <1>a, CloseEffect
  <2>2. PICK s \in FileSlot : s = unit[t][k]
    BY <2>1 DEF Closes
  <2>3. \A q \in FileSlot : file'[q].fp = file[q].fp \/ file'[q].fp = 0
    BY <2>1, <2>2 DEF Closes, Alters
  <2>4. QED
    BY <2>3, <1>c DEF Fate
<1>8. QED
  BY <1>1, <1>2, <1>3, <1>4, <1>5, <1>6, <1>7 DEF Work, Idles

(* A unit is pointed only to a slot with the stream of the file it asked   *)
(* for.                                                                    *)
LEMMA UnitStep ==
    ASSUME HeldInv, UnitInv, CutInv, DirInv, LogNext
    PROVE  UnitInv'
<1>0. SUFFICES ASSUME ~stolen', NEW r \in Thread, NEW j \in Field, NEW q,
                      q = unit'[r][j], q # 0, file'[q].fp # 0
               PROVE  Base(q)' = Plan(r)[j]
  BY SameProgram DEF UnitInv
<1>a. /\ ~stolen /\ LogTypeOK /\ PlaceInv /\ FpInv /\ RefCnt
      /\ unit \in [Thread -> [Field -> 0..program.slots]]
  BY DEF LogNext, HeldInv, LogTypeOK
<1>b. unit[r][j] # 0 => unit[r][j] \in FileSlot
  BY <1>a, ProgramFacts
<1>1. ASSUME NEW f \in File, Unlink(f)
      PROVE  Base(q)' = Plan(r)[j]
  <2>1. UNCHANGED <<file, inode, unit>>
    BY <1>1 DEF Unlink
  <2>2. QED
    BY <2>1, <1>0, <1>a DEF UnitInv, Base
<1>2. ASSUME NEW t \in Thread,
             \/ Work(t) \/ ul_openlog(t) \/ ul_closelog(t)
             \/ \E k \in Field : ul_writelog(t, k)
      PROVE  Base(q)' = Plan(r)[j]
  <2>1. CASE unit[r][j] = q
    <3>1. q \in FileSlot
      BY <1>0, <1>b, <2>1
    <3>2. Fate(t, q)
      BY <1>0, <1>2, <3>1, FateStep
    <3>3. <<r, j>> \in Users(q)
      BY <2>1, UserIs
    <3>4. file[q].fp # 0 => Base(q) = Plan(r)[j]
      BY <1>0, <1>a, <2>1 DEF UnitInv
    <3>5. QED
      BY <3>2, <3>3, <3>4, <1>0 DEF Fate
  <2>2. CASE unit[r][j] # q
    <3>1. CASE Share(t)
      <4>1. PICK s \in FileSlot :
              /\ s \in Found(Mine(t)) /\ Point(t, s)
              /\ Alters(s, file[s].fp, file[s].full, file[s].ref_cnt + 1, file[s].lock,
                        file[s].file_name)
        BY <3>1, <1>a, ShareEffect
      <4>2. at[t] = "open"
        BY <3>1 DEF Share
      <4>3. Mine(t) \in File
        BY <4>2, <1>a, OpenFacts
      <4>4. r = t /\ j = cur[t] /\ q = s
        BY <1>0, <1>a, <2>2, <4>1, <4>2, PointEffect
      <4>5. file[s].fp # 0 /\ file[s].file_name = Mine(t) /\ file'[s].fp = file[s].fp
        BY <4>1 DEF Found, Alters
      <4>6. Base(s) = Mine(t)
        BY <4>3, <4>5, <1>a, ThreadAssumption DEF CutInv
      <4>7. Fate(t, s)
        BY <1>0, <1>2, FateStep
      <4>8. Base(s)' = Mine(t)
        BY <3>1, <4>2, <4>5, <4>6, <4>7 DEF Fate, Restat, Reopen
      <4>9. QED
        BY <4>4, <4>8 DEF Mine
    <3>2. CASE OpenNew(t)
      <4>1. PICK s \in FileSlot, i \in Nat :
              /\ Opened(Mine(t), i) /\ Point(t, s) /\ Alters(s, i, FALSE, 1, None, Mine(t))
        BY <3>2, <1>a, OpenNewEffect
      <4>2. at[t] = "open"
        BY <3>2 DEF OpenNew
      <4>3. Mine(t) \in File
        BY <4>2, <1>a, OpenFacts
      <4>4. r = t /\ j = cur[t] /\ q = s
        BY <1>0, <1>a, <2>2, <4>1, <4>2, PointEffect
      <4>5. inode'[i].base = Mine(t) /\ file'[s].fp = i
        BY <4>1, <4>3, <1>a, OpenedBase DEF Alters
      <4>6. QED
        BY <4>4, <4>5 DEF Mine, Base
    <3>3. CASE Close(t)
      <4>1. PICK k \in Field : unit' = [unit EXCEPT ![t][k] = 0]
        BY <3>3, <1>a, CloseEffect DEF Closes
      <4>2. unit'[r][j] = unit[r][j] \/ unit'[r][j] = 0
        BY <4>1, <1>a
      <4>3. QED
        BY <4>2, <1>0, <2>2
    <3>4. CASE unit' = unit
      BY <3>4, <1>0, <2>2
    <3>5. QED
      <4>1. CASE Idles(t)
        BY <4>1, <3>4, <1>a, IdlesFile
      <4>2. CASE \/ Lock(t) \/ Unlock(t) \/ Write(t) \/ CutName(t) \/ Rename(t) \/ Restat(t)
                 \/ Reopen(t)
        BY <4>2, <3>4 DEF Lock, Unlock, Write, CutName, Rename, Restat, Reopen
      <4>3. QED
        BY <1>2, <3>1, <3>2, <3>3, <4>1, <4>2 DEF Work, Idles
  <2>3. QED
    BY <2>1, <2>2
<1>3. QED
  BY <1>1, <1>2 DEF LogNext

\* What CutInv says of slot q.
Named(q) ==
    file[q].fp # 0 =>
        \/ file[q].file_name = Base(q)
        \/ /\ file[q].file_name = Cut /\ ~program.split
           /\ file[q].lock # None /\ at[file[q].lock] = "rename"

(* A slot that keeps its stream, its name and its lock is still named      *)
(* after a step of a thread that is not renaming.                          *)
LEMMA NamedStays ==
    ASSUME LogTypeOK, LogNext, NEW t \in Thread, Alone(t), at[t] # "rename",
           NEW q \in FileSlot, Named(q),
           file'[q].file_name = file[q].file_name, file'[q].lock = file[q].lock,
           file'[q].fp = 0 \/ (file'[q].fp = file[q].fp /\ Base(q)' = Base(q))
    PROVE  Named(q)'
<1>1. program' = program
  BY SameProgram
<1>2. file[q].lock \in Thread \cup {None}
  BY SlotEntry
<1>3. file[q].lock # None /\ at[file[q].lock] = "rename" => at'[file[q].lock] = "rename"
  BY <1>2 DEF Alone
<1>4. QED
  BY <1>1, <1>3 DEF Named

(* A slot's name is cut only by the rotation that holds its lock.          *)
LEMMA CutStep ==
    ASSUME HeldInv, UnitInv, CutInv, DirInv, LogNext
    PROVE  CutInv'
<1>0. SUFFICES ASSUME ~stolen', NEW q \in FileSlot
               PROVE  Named(q)'
  BY SameProgram DEF CutInv, Named
<1>a. /\ ~stolen /\ LogTypeOK /\ PlaceInv /\ FpInv /\ RefCnt /\ LockInv
      /\ program' = program /\ DOMAIN at = Thread
  BY SameProgram DEF LogNext, HeldInv, LogTypeOK
<1>b. Named(q)
  BY <1>a DEF CutInv, Named
<1>1. ASSUME NEW f \in File, Unlink(f)
      PROVE  Named(q)'
  <2>1. UNCHANGED <<file, inode, at, program>>
    BY <1>1 DEF Unlink
  <2>2. QED
    BY <2>1, <1>b DEF Named, Base
<1>2. ASSUME NEW t \in Thread,
             \/ Work(t) \/ ul_openlog(t) \/ ul_closelog(t)
             \/ \E k \in Field : ul_writelog(t, k)
      PROVE  Named(q)'
  <2>1. Alone(t)
    BY <1>2, <1>a, OthersStay DEF Alone
  <2>2. Fate(t, q)
    BY <1>0, <1>2, FateStep
  <2>a. file'[q].fp = 0 => Named(q)'
    BY DEF Named
  <2>b. ASSUME at[t] # "rename", ~OpenNew(t), ~Restat(t), ~Reopen(t),
               file'[q].file_name = file[q].file_name, file'[q].lock = file[q].lock
        PROVE  Named(q)'
    <3>1. file'[q].fp = 0 \/ (file'[q].fp = file[q].fp /\ Base(q)' = Base(q))
      BY <2>2, <2>b DEF Fate
    <3>2. QED
      BY <2>1, <2>b, <3>1, <1>a, <1>b, NamedStays
  <2>3. CASE Idles(t)
    <3>1. file' = file
      BY <2>3, <1>a, IdlesFile
    <3>2. \/ at[t] # "rename" /\ ~OpenNew(t) /\ ~Restat(t) /\ ~Reopen(t)
          \/ OpenFails(t)
      BY <2>3 DEF Idles, OpenFails, Start, ul_check, RemoveTmp, Freed, ul_openlog, ul_closelog,
                  ul_writelog, OpenNew, Restat, Reopen
    <3>3. CASE OpenFails(t)
      <4>1. at[t] # "rename" /\ file' = file /\ inode' = inode
        BY <3>3 DEF OpenFails
      <4>2. Base(q)' = Base(q)
        BY <4>1 DEF Base
      <4>3. QED
        BY <2>1, <4>1, <4>2, <1>a, <1>b, NamedStays
    <3>4. QED
      BY <2>b, <3>1, <3>2, <3>3
  <2>4. CASE Share(t)
    <3>1. PICK s \in FileSlot :
            Alters(s, file[s].fp, file[s].full, file[s].ref_cnt + 1, file[s].lock,
                   file[s].file_name)
      BY <2>4, <1>a, ShareEffect
    <3>2. file'[q].file_name = file[q].file_name /\ file'[q].lock = file[q].lock
      BY <3>1 DEF Alters
    <3>3. at[t] # "rename" /\ inode' = inode
      BY <2>4 DEF Share
    <3>4. file'[q].fp = file[q].fp
      BY <3>1 DEF Alters
    <3>5. Base(q)' = Base(q)
      BY <3>3, <3>4 DEF Base
    <3>6. QED
      BY <2>1, <3>2, <3>3, <3>4, <3>5, <1>a, <1>b, NamedStays
  <2>5. CASE OpenNew(t)
    <3>1. PICK s \in FileSlot, i \in Nat :
            Opened(Mine(t), i) /\ Alters(s, i, FALSE, 1, None, Mine(t))
      BY <2>5, <1>a, OpenNewEffect
    <3>2. at[t] = "open"
      BY <2>5 DEF OpenNew
    <3>3. CASE q = s
      <4>1. Mine(t) \in File
        BY <3>2, <1>a, OpenFacts
      <4>2. inode'[i].base = Mine(t)
        BY <3>1, <4>1, <1>a, OpenedBase
      <4>3. file'[q].fp = i /\ file'[q].file_name = Mine(t)
        BY <3>1, <3>3 DEF Alters
      <4>4. QED
        BY <4>2, <4>3 DEF Named, Base
    <3>4. CASE q # s
      <4>1. file'[q] = file[q]
        BY <3>1, <3>4 DEF Alters
      <4>2. file[q].fp # 0 => Base(q)' = Base(q)
        BY <2>2, <3>2, <4>1 DEF Fate, Restat, Reopen
      <4>3. QED
        BY <2>1, <2>a, <3>2, <4>1, <4>2, <1>a, <1>b, NamedStays
    <3>5. QED
      BY <3>3, <3>4
  <2>6. CASE Restat(t) \/ Reopen(t)
    <3>1. PICK s : s = My(t)
      OBVIOUS
    <3>2. PICK i \in Nat :
            Alters(s, i, file[s].full, file[s].ref_cnt, file[s].lock, file[s].file_name)
      BY <2>6, <3>1, <1>a, StreamEffect
    <3>3. at[t] \in Streaming /\ at[t] # "rename" /\ ~OpenNew(t)
      BY <2>6 DEF Restat, Reopen, Streaming, OpenNew
    <3>4. s \in FileSlot /\ file[s].fp # 0 /\ Base(s) = Mine(t) /\ file[s].lock = t
      BY <3>1, <3>3, <1>a, StreamFacts
    <3>5. file[s].file_name = Mine(t)
      BY <3>3, <3>4, <1>a DEF CutInv
    <3>6. CASE q = s
      <4>1. file'[q].file_name = Mine(t)
        BY <3>2, <3>5, <3>6 DEF Alters
      <4>2. file'[q].fp # 0 => Base(q)' = Mine(t)
        BY <2>2, <3>3, <3>4, <3>6 DEF Fate
      <4>3. QED
        BY <4>1, <4>2 DEF Named
    <3>7. CASE q # s
      <4>1. file'[q] = file[q]
        BY <3>2, <3>7 DEF Alters
      <4>2. file[q].fp # 0 => Base(q)' = Base(q)
        BY <2>2, <3>1, <3>3, <3>7, <4>1 DEF Fate
      <4>3. QED
        BY <2>1, <2>a, <3>3, <4>1, <4>2, <1>a, <1>b, NamedStays
    <3>8. QED
      BY <3>6, <3>7
  <2>7. CASE CutName(t) \/ Rename(t)
    <3>1. PICK s : s = My(t)
      OBVIOUS
    <3>2. PICK x : /\ CutName(t) => x = Cut
                   /\ Rename(t) => x = Mine(t)
                   /\ Alters(s, file[s].fp, file[s].full, file[s].ref_cnt, file[s].lock, x)
      BY <2>7, <3>1, <1>a, NameEffect
    <3>3. at[t] \in Streaming /\ ~OpenNew(t) /\ ~Restat(t) /\ ~Reopen(t)
      BY <2>7 DEF CutName, Rename, Streaming, OpenNew, Restat, Reopen
    <3>4. s \in FileSlot /\ file[s].fp # 0 /\ Base(s) = Mine(t) /\ file[s].lock = t
      BY <3>1, <3>3, <1>a, StreamFacts
    <3>5. file'[q].fp = file[q].fp /\ file'[q].lock = file[q].lock
      BY <3>2 DEF Alters
    <3>6. file[q].fp # 0 => Base(q)' = Base(q)
      BY <2>2, <3>3, <3>5 DEF Fate
    <3>7. CASE q = s
      <4>1. file'[q].file_name = x
        BY <3>2, <3>7 DEF Alters
      <4>2. CASE Rename(t)
        BY <3>2, <3>4, <3>5, <3>6, <3>7, <4>1, <4>2 DEF Named
      <4>3. CASE CutName(t)
        <5>1. at[t] = "cut" /\ at'[t] = "rename"
          BY <4>3, <1>a DEF CutName, Go
        <5>2. ~program.split
          BY <5>1, <1>a DEF PlaceInv, PlaceOK
        <5>3. QED
          BY <3>2, <3>4, <3>5, <3>7, <4>1, <4>3, <5>1, <5>2, <1>a, ThreadAssumption DEF Named
      <4>4. QED
        BY <2>7, <4>2, <4>3
    <3>8. CASE q # s
      <4>1. file'[q] = file[q]
        BY <3>2, <3>8 DEF Alters
      <4>2. file[q].lock # t
        BY <3>1, <3>8, <1>a DEF LockInv
      <4>3. file[q].lock \in Thread \cup {None}
        BY <1>a, SlotEntry
      <4>4. file[q].lock # None => at'[file[q].lock] = at[file[q].lock]
        BY <2>1, <4>2, <4>3 DEF Alone
      <4>5. QED
        BY <3>6, <4>1, <4>4, <1>a, <1>b DEF Named
    <3>9. QED
      BY <3>7, <3>8
  <2>8. CASE Lock(t) \/ Unlock(t) \/ Write(t)
    <3>1. PICK s : s = My(t)
      OBVIOUS
    <3>2. PICK x : Alters(s, file[s].fp, file[s].full, file[s].ref_cnt, x,
                          file[s].file_name)
      BY <2>8, <3>1, <1>a, LockEffect
    <3>3. at[t] # "rename" /\ ~OpenNew(t) /\ ~Restat(t) /\ ~Reopen(t)
      BY <2>8 DEF Lock, Unlock, Write, OpenNew, Restat, Reopen
    <3>4. file'[q].fp = file[q].fp /\ file'[q].file_name = file[q].file_name
      BY <3>2 DEF Alters
    <3>5. file[q].fp # 0 => Base(q)' = Base(q)
      BY <2>2, <3>3, <3>4 DEF Fate
    <3>6. CASE q = s
      <4>1. file[s].lock = None \/ file[s].lock = t
        BY <2>8, <3>1, <3>6, <1>a, LockedUser DEF Lock, Unlock, Write, Locked
      <4>2. file[q].fp # 0 => file[q].file_name = Base(q)
        BY <3>3, <3>6, <4>1, <1>b DEF Named
      <4>3. QED
        BY <3>4, <3>5, <4>2 DEF Named
    <3>7. CASE q # s
      <4>1. file'[q] = file[q]
        BY <3>2, <3>7 DEF Alters
      <4>2. QED
        BY <2>b, <3>3, <4>1
    <3>8. QED
      BY <3>6, <3>7
  <2>9. CASE Close(t)
    <3>1. PICK k \in Field : Closes(t, k)
      BY <2>9, <1>a, CloseEffect
    <3>2. PICK s \in FileSlot : s = unit[t][k]
      BY <3>1 DEF Closes
    <3>3. \/ file'[q].fp = 0
          \/ file'[q].file_name = file[q].file_name /\ file'[q].lock = file[q].lock
      BY <3>1, <3>2 DEF Closes, Alters
    <3>4. at[t] # "rename" /\ ~OpenNew(t) /\ ~Restat(t) /\ ~Reopen(t)
      BY <2>9 DEF Close, OpenNew, Restat, Reopen
    <3>5. QED
      BY <2>a, <2>b, <3>3, <3>4
  <2>10. QED
    BY <1>2, <2>3, <2>4, <2>5, <2>6, <2>7, <2>8, <2>9 DEF Work, Idles
<1>3. QED
  BY <1>1, <1>2 DEF LogNext

(* Neither race is ever undone.                                            *)
LEMMA SaneBefore ==
    ASSUME LogNext, Sane'
    PROVE  Sane
<1>1. raced' = raced \/ raced' = (raced \/ \E r \in Thread : at[r] = "rename" /\ ~program.split)
  BY DEF LogNext, Work, Unlink, Share, OpenNew, OpenFails, Start, Lock, Unlock, ul_check,
         Restat, CutName, Rename, Reopen, Write, RemoveTmp, Close, Freed, ul_openlog,
         ul_closelog, ul_writelog
<1>2. ~stolen
  BY DEF LogNext
<1>3. ~raced'
  BY DEF Sane
<1>4. ~raced
  BY <1>1, <1>3, Zenon
<1>5. QED
  BY <1>2, <1>4 DEF Sane

(* A file that is opened anew has no stream: only a cut name could hide    *)
(* one from the scan of ul_open_file_unit.                                 *)
LEMMA OpenNewAlone ==
    ASSUME HeldInv, CutInv, LogNext, Sane', NEW t \in Thread, OpenNew(t),
           NEW q \in FileSlot, file[q].fp # 0
    PROVE  Base(q) # Mine(t)
<1>1. ~stolen
  BY DEF LogNext
<1>2. ~\E r \in Thread : at[r] = "rename" /\ ~program.split
  BY DEF OpenNew, Sane
<1>3. file[q].lock \in Thread \cup {None}
  BY SlotEntry DEF HeldInv
<1>4. file[q].file_name = Base(q)
  BY <1>1, <1>2, <1>3 DEF CutInv
<1>5. file[q].file_name # Mine(t)
  BY DEF OpenNew, Found
<1>6. QED
  BY <1>4, <1>5

(* Streams are opened only for a file that has none, and a stream that is  *)
(* replaced is of the same file.                                           *)
LEMMA OneStep ==
    ASSUME HeldInv, UnitInv, CutInv, DirInv, OneStream, LogNext
    PROVE  OneStream'
<1>0. SUFFICES ASSUME Sane', NEW q \in FileSlot, NEW p \in FileSlot, q # p,
                      file'[q].fp # 0, file'[p].fp # 0, Base(q)' = Base(p)'
               PROVE  FALSE
  BY SameProgram DEF OneStream, Base
<1>a. Sane /\ ~stolen /\ ~stolen' /\ LogTypeOK /\ PlaceInv
  BY <1>0, SaneBefore DEF LogNext, HeldInv, Sane
<1>b. ~(file[q].fp # 0 /\ file[p].fp # 0 /\ Base(q) = Base(p))
  BY <1>0, <1>a DEF OneStream, Base
<1>1. ASSUME NEW f \in File, Unlink(f)
      PROVE  FALSE
  <2>1. UNCHANGED <<file, inode>>
    BY <1>1 DEF Unlink
  <2>2. QED
    BY <2>1, <1>0, <1>b DEF Base
<1>2. ASSUME NEW t \in Thread,
             \/ Work(t) \/ ul_openlog(t) \/ ul_closelog(t)
             \/ \E k \in Field : ul_writelog(t, k)
      PROVE  FALSE
  <2>1. Fate(t, q) /\ Fate(t, p)
    BY <1>a, <1>2, FateStep
  <2>2. CASE ~OpenNew(t)
    BY <2>1, <2>2, <1>0, <1>b DEF Fate
  <2>3. CASE OpenNew(t)
    <3>1. PICK s \in FileSlot, i \in Nat :
            Opened(Mine(t), i) /\ Alters(s, i, FALSE, 1, None, Mine(t))
      BY <2>3, <1>a, OpenNewEffect
    <3>2. at[t] = "open" /\ ~Restat(t) /\ ~Reopen(t)
      BY <2>3 DEF OpenNew, Restat, Reopen
    <3>3. Base(s)' = Mine(t)
      <4>1. Mine(t) \in File
        BY <3>2, <1>a, OpenFacts
      <4>2. inode'[i].base = Mine(t) /\ file'[s].fp = i
        BY <3>1, <4>1, <1>a, OpenedBase DEF Alters
      <4>3. QED
        BY <4>2 DEF Base
    <3>4. ASSUME NEW y \in FileSlot, y # s, file'[y].fp # 0, Fate(t, y)
          PROVE  file[y].fp # 0 /\ Base(y)' = Base(y) /\ Base(y) # Mine(t)
      <4>1. file[y].fp # 0
        BY <3>1, <3>4 DEF Alters
      <4>2. Base(y)' = Base(y)
        BY <4>1, <3>2, <3>4 DEF Fate
      <4>3. QED
        BY <4>1, <4>2, <1>0, <2>3, OpenNewAlone
    <3>5. CASE q # s /\ p # s
      BY <3>4, <3>5, <2>1, <1>0, <1>b
    <3>6. CASE q = s
      BY <3>3, <3>4, <3>6, <2>1, <1>0
    <3>7. CASE p = s
      BY <3>3, <3>4, <3>7, <2>1, <1>0
    <3>8. QED
      BY <3>5, <3>6, <3>7
  <2>4. QED
    BY <2>2, <2>3
<1>3. QED
  BY <1>1, <1>2 DEF LogNext

(* Two threads past the check of fp rotate or write different logs.        *)
LEMMA Apart ==
    ASSUME HeldInv, UnitInv, OneStream, Sane, NEW r \in Thread, NEW t \in Thread, r # t,
           at[r] \in Streaming, at[t] \in Streaming
    PROVE  My(r) # My(t) /\ Mine(r) # Mine(t)
<1>1. ~stolen
  BY DEF Sane
<1>2. PICK p, q : p = My(r) /\ q = My(t)
  OBVIOUS
<1>3. /\ p \in FileSlot /\ file[p].lock = r /\ file[p].fp # 0 /\ Base(p) = Mine(r)
      /\ q \in FileSlot /\ file[q].lock = t /\ file[q].fp # 0 /\ Base(q) = Mine(t)
  BY <1>1, <1>2, StreamFacts
<1>4. p # q
  BY <1>3
<1>5. QED
  BY <1>2, <1>3, <1>4 DEF OneStream, Base

\* A thread is between the renaming of slot q's file and its opening.
Rotating(q) == file[q].lock # None /\ at[file[q].lock] = "reopen"

(* The log's name leads to the inode that the stream of slot q writes to,  *)
(* or to none while the file is rotated or after it was removed.           *)
Linked(q) ==
    file[q].fp # 0 =>
        /\ dir[Log(Base(q))] \in {0, file[q].fp}
        /\ dir[Log(Base(q))] = 0 => unlinked > 0 \/ Rotating(q)
LinkInv == Sane => \A q \in FileSlot : Linked(q)

(* Who opens the file again does not find it.                              *)
GoneInv == Sane => \A t \in Thread : at[t] \in {"restat", "reopen"} => dir[Log(Mine(t))] = 0

(* Who prints an entry has room for it.                                    *)
RoomInv ==
    Sane => \A t \in Thread : at[t] = "write" => inode[file[My(t)].fp].size + 1 < MaxSize

(* A rotation is ended by nobody but the thread that makes it.             *)
LEMMA RotatingStays ==
    ASSUME LogTypeOK, NEW t \in Thread, Alone(t), NEW q \in FileSlot, Rotating(q),
           file'[q].lock = file[q].lock, at[t] # "reopen" \/ file[q].lock # t
    PROVE  Rotating(q)'
<1>1. file[q].lock \in Thread
  BY SlotEntry DEF Rotating
<1>2. file[q].lock # t
  BY DEF Rotating
<1>3. at'[file[q].lock] = at[file[q].lock]
  BY <1>1, <1>2 DEF Alone
<1>4. QED
  BY <1>3 DEF Rotating

(* A slot whose stream, lock and name in the directory stay is linked.     *)
LEMMA LinkedStays ==
    ASSUME LogTypeOK, NEW t \in Thread, Alone(t), NEW q \in FileSlot, Linked(q),
           file'[q].fp = file[q].fp, Base(q)' = Base(q),
           dir'[Log(Base(q))] = dir[Log(Base(q))], unlinked' = unlinked,
           Rotating(q) => Rotating(q)'
    PROVE  Linked(q)'
<1>1. PICK b : b = Base(q)
  OBVIOUS
<1>2. Base(q)' = b /\ dir'[Log(b)] = dir[Log(b)]
  BY <1>1
<1>3. Log(Base(q))' = Log(b)
  BY <1>2 DEF Log
<1>4. file[q].fp # 0 => dir[Log(b)] \in {0, file[q].fp}
                        /\ (dir[Log(b)] = 0 => unlinked > 0 \/ Rotating(q))
  BY <1>1 DEF Linked
<1>5. QED
  BY <1>2, <1>3, <1>4 DEF Linked

(* Only these steps of a thread change where a log's name leads.           *)
LEMMA LogsStay ==
    ASSUME LogTypeOK, PlaceInv, NEW t \in Thread,
           \/ Work(t) \/ ul_openlog(t) \/ ul_closelog(t)
           \/ \E k \in Field : ul_writelog(t, k),
           NEW g \in File
    PROVE  /\ unlinked' = unlinked
           /\ dir'[Log(g)] # dir[Log(g)] =>
                 g = Mine(t) /\ (OpenNew(t) \/ Restat(t) \/ Reopen(t) \/ Rename(t))
<1>0. unlinked' = unlinked
  BY DEF Work, Share, OpenNew, OpenFails, Start, Lock, Unlock, ul_check, Restat, CutName, Rename,
         Reopen, Write, RemoveTmp, Close, Freed, ul_openlog, ul_closelog, ul_writelog, calls
<1>a. Log(g) \in Path /\ Log(g)[1] = g
  BY LogPath DEF Log
<1>b. ASSUME NEW f, NEW i, Opened(f, i), g # f
      PROVE  dir'[Log(g)] = dir[Log(g)]
  <2>1. Log(g) # Log(f)
    BY <1>b DEF Log
  <2>2. QED
    BY <2>1, <1>a, <1>b DEF Opened
<1>1. CASE OpenNew(t)
  <2>1. \E i : Opened(Mine(t), i)
    BY <1>1, OpenNewEffect
  <2>2. QED
    BY <1>0, <1>1, <1>b, <2>1
<1>2. CASE Restat(t) \/ Reopen(t)
  <2>1. dir' = dir \/ \E i : Opened(Mine(t), i)
    BY <1>2, StreamEffect
  <2>2. QED
    BY <1>0, <1>2, <1>b, <2>1
<1>3. CASE Rename(t)
  <2>1. PICK f : f = Mine(t)
    OBVIOUS
  <2>2. PICK x \in Path : Renamed(f, x)
    BY <1>3, <2>1, RenameEffect
  <2>3. ASSUME g # f
        PROVE  dir'[Log(g)] = dir[Log(g)]
    <3>1. Log(g) # Log(f) /\ Log(g) # x
      BY <2>2, <2>3, <1>a DEF Renamed, Log
    <3>2. QED
      BY <3>1, <2>2, <1>a DEF Renamed
  <2>4. QED
    BY <1>0, <1>3, <2>1, <2>3
<1>4. CASE RemoveTmp(t)
  <2>1. PICK x : x = Tmp(Mine(t)) /\ dir' = [dir EXCEPT ![x] = 0]
    BY <1>4 DEF RemoveTmp
  <2>2. Log(g) # x
    BY <2>1 DEF Log, Tmp
  <2>3. dir \in [Path -> 0..Len(inode)]
    BY DEF LogTypeOK
  <2>4. QED
    BY <1>0, <1>a, <2>1, <2>2, <2>3
<1>5. CASE \/ Share(t) \/ OpenFails(t) \/ Start(t) \/ Lock(t) \/ Unlock(t) \/ ul_check(t)
           \/ CutName(t) \/ Write(t) \/ Close(t) \/ Freed(t) \/ ul_openlog(t)
           \/ ul_closelog(t) \/ \E k \in Field : ul_writelog(t, k)
  <2>1. dir' = dir
    BY <1>5 DEF Share, OpenFails, Start, Lock, Unlock, ul_check, CutName, Write, Close, Freed,
                ul_openlog, ul_closelog, ul_writelog
  <2>2. QED
    BY <1>0, <2>1
<1>6. QED
  BY <1>1, <1>2, <1>3, <1>4, <1>5 DEF Work

(* While slot q keeps a stream its rotation ends with Reopen only.         *)
LEMMA RotatingKept ==
    ASSUME HeldInv, ~stolen, NEW t \in Thread,
           \/ Work(t) \/ ul_openlog(t) \/ ul_closelog(t)
           \/ \E k \in Field : ul_writelog(t, k),
           NEW q \in FileSlot, file[q].fp # 0, file'[q].fp # 0, Rotating(q)
    PROVE  Rotating(q)' \/ (Reopen(t) /\ q = My(t))
<1>a. LogTypeOK /\ PlaceInv /\ LockInv
  BY DEF HeldInv
<1>b. Alone(t)
  BY <1>a, OthersStay DEF Alone
<1>c. ASSUME file'[q].lock = file[q].lock, at[t] # "reopen" \/ file[q].lock # t
      PROVE  Rotating(q)'
  BY <1>a, <1>b, <1>c, RotatingStays
<1>1. CASE Idles(t)
  <2>1. file' = file
    BY <1>1, <1>a, IdlesFile
  <2>2. at[t] # "reopen"
    BY <1>1 DEF Idles, OpenFails, Start, ul_check, RemoveTmp, Freed, ul_openlog, ul_closelog,
                ul_writelog
  <2>3. QED
    BY <2>1, <2>2, <1>c
<1>2. CASE Share(t)
  <2>1. PICK s \in FileSlot :
          Alters(s, file[s].fp, file[s].full, file[s].ref_cnt + 1, file[s].lock,
                 file[s].file_name)
    BY <1>2, <1>a, ShareEffect
  <2>2. file'[q].lock = file[q].lock
    BY <2>1 DEF Alters
  <2>3. at[t] # "reopen"
    BY <1>2 DEF Share
  <2>4. QED
    BY <2>2, <2>3, <1>c
<1>3. CASE OpenNew(t)
  <2>1. PICK s \in FileSlot, i \in Nat : s \in Free /\ Alters(s, i, FALSE, 1, None, Mine(t))
    BY <1>3, <1>a, OpenNewEffect
  <2>2. file'[q].lock = file[q].lock
    BY <2>1 DEF Alters, Free
  <2>3. at[t] # "reopen"
    BY <1>3 DEF OpenNew
  <2>4. QED
    BY <2>2, <2>3, <1>c
<1>4. CASE Restat(t) \/ Reopen(t)
  <2>1. PICK s : s = My(t)
    OBVIOUS
  <2>2. PICK i \in Nat :
          Alters(s, i, file[s].full, file[s].ref_cnt, file[s].lock, file[s].file_name)
    BY <1>4, <2>1, <1>a, StreamEffect
  <2>3. file'[q].lock = file[q].lock
    BY <2>2 DEF Alters
  <2>4. CASE q = My(t)
    <3>1. at[t] \in Locked
      BY <1>4 DEF Restat, Reopen, Locked
    <3>2. file[q].lock = t
      BY <2>4, <3>1, <1>a DEF LockInv
    <3>3. at[t] = "reopen"
      BY <3>2 DEF Rotating
    <3>4. Reopen(t)
      BY <1>4, <3>3 DEF Restat
    <3>5. QED
      BY <2>4, <3>4
  <2>5. CASE q # My(t)
    <3>1. file[q].lock # t
      BY <2>5, <1>a DEF LockInv
    <3>2. QED
      BY <3>1, <2>3, <1>c
  <2>6. QED
    BY <2>4, <2>5
<1>5. CASE Lock(t) \/ Unlock(t) \/ Write(t)
  <2>1. PICK s : s = My(t)
    OBVIOUS
  <2>2. PICK x : Alters(s, file[s].fp, file[s].full, file[s].ref_cnt, x, file[s].file_name)
    BY <1>5, <2>1, <1>a, LockEffect
  <2>3. at[t] # "reopen"
    BY <1>5 DEF Lock, Unlock, Write
  <2>4. q # s
    <3>1. file[s].lock = None \/ file[s].lock = t
      BY <1>5, <2>1, <1>a, LockedUser DEF Lock, Unlock, Write, Locked
    <3>2. QED
      BY <3>1, <2>3 DEF Rotating
  <2>5. file'[q].lock = file[q].lock
    BY <2>2, <2>4 DEF Alters
  <2>6. QED
    BY <2>3, <2>5, <1>c
<1>6. CASE CutName(t) \/ Rename(t)
  <2>1. PICK s : s = My(t)
    OBVIOUS
  <2>2. PICK x : Alters(s, file[s].fp, file[s].full, file[s].ref_cnt, file[s].lock, x)
    BY <1>6, <2>1, <1>a, NameEffect
  <2>3. file'[q].lock = file[q].lock
    BY <2>2 DEF Alters
  <2>4. at[t] # "reopen"
    BY <1>6 DEF CutName, Rename
  <2>5. QED
    BY <2>3, <2>4, <1>c
<1>7. CASE Close(t)
  <2>1. PICK k \in Field : Closes(t, k)
    BY <1>7, <1>a, CloseEffect
  <2>2. PICK s \in FileSlot : s = unit[t][k]
    BY <2>1 DEF Closes
  <2>3. file'[q].lock = file[q].lock
    BY <2>1, <2>2 DEF Closes, Alters
  <2>4. at[t] # "reopen"
    BY <1>7 DEF Close
  <2>5. QED
    BY <2>3, <2>4, <1>c
<1>8. QED
  BY <1>1, <1>2, <1>3, <1>4, <1>5, <1>6, <1>7 DEF Work, Idles

(* A stream and the name of its log part only when the file is rotated or  *)
(* removed.                                                                *)
LEMMA LinkStep ==
    ASSUME HeldInv, UnitInv, CutInv, DirInv, OneStream, LinkInv, LogNext
    PROVE  LinkInv'
<1>0. SUFFICES ASSUME Sane', NEW q \in FileSlot, file'[q].fp # 0
               PROVE  Linked(q)'
  BY SameProgram DEF LinkInv, Linked
<1>a. /\ Sane /\ ~stolen /\ ~stolen' /\ LogTypeOK /\ PlaceInv /\ FpInv /\ RefCnt /\ LockInv
      /\ Linked(q) /\ DOMAIN at = Thread
  BY <1>0, SaneBefore DEF LogNext, HeldInv, Sane, LinkInv, LogTypeOK
<1>b. file[q].fp # 0 => Base(q) \in File
  <2>1. file[q].fp # 0 => file[q].fp \in 1..Len(inode)
    BY <1>a, SlotEntry
  <2>2. inode \in Seq(Inode)
    BY <1>a DEF LogTypeOK, Inode
  <2>3. file[q].fp # 0 => inode[file[q].fp] \in Inode
    BY <2>1, <2>2
  <2>4. QED
    BY <2>3 DEF Base, Inode
<1>1. ASSUME NEW f \in File, Unlink(f)
      PROVE  Linked(q)'
  <2>1. /\ UNCHANGED <<file, inode, at>> /\ unlinked' = unlinked + 1
        /\ dir' = [dir EXCEPT ![Log(f)] = 0]
    BY <1>1 DEF Unlink
  <2>2. file[q].fp # 0 /\ Base(q)' = Base(q)
    BY <2>1, <1>0 DEF Base
  <2>3. PICK b \in File : b = Base(q)
    BY <2>2, <1>b
  <2>4. Log(b) \in Path /\ dir \in [Path -> 0..Len(inode)] /\ unlinked \in Nat
    BY <1>a, LogPath DEF LogTypeOK
  <2>5. unlinked' > 0
    BY <2>1, <2>4
  <2>6. dir[Log(b)] \in {0, file[q].fp}
    BY <1>a, <2>2, <2>3 DEF Linked
  <2>7. dir'[Log(b)] \in {0, file[q].fp}
    BY <2>1, <2>4, <2>6
  <2>8. Log(Base(q))' = Log(b)
    BY <2>2, <2>3 DEF Log
  <2>9. QED
    BY <2>1, <2>5, <2>7, <2>8 DEF Linked
<1>2. ASSUME NEW t \in Thread,
             \/ Work(t) \/ ul_openlog(t) \/ ul_closelog(t)
             \/ \E k \in Field : ul_writelog(t, k)
      PROVE  Linked(q)'
  <2>1. Fate(t, q)
    BY <1>a, <1>2, FateStep
  <2>2. Alone(t)
    BY <1>2, <1>a, OthersStay DEF Alone
  <2>a. ASSUME NEW i \in Nat, Opened(Mine(t), i), file'[q].fp = i, Base(q)' = Mine(t)
        PROVE  Linked(q)'
    <3>1. PICK b : b = Mine(t)
      OBVIOUS
    <3>2. Log(Base(q))' = Log(b) /\ dir'[Log(b)] = i
      BY <2>a, <3>1 DEF Opened, Log
    <3>3. QED
      BY <2>a, <3>2, <1>0 DEF Linked
  <2>b. ASSUME file'[q].fp = file[q].fp, Base(q)' = Base(q),
               Base(q) # Mine(t) \/ ~(OpenNew(t) \/ Restat(t) \/ Reopen(t) \/ Rename(t)),
               Reopen(t) => q # My(t)
        PROVE  Linked(q)'
    <3>1. file[q].fp # 0 /\ Base(q) \in File
      BY <2>b, <1>0, <1>b
    <3>2. dir'[Log(Base(q))] = dir[Log(Base(q))] /\ unlinked' = unlinked
      BY <1>2, <1>a, <2>b, <3>1, LogsStay
    <3>3. Rotating(q) => Rotating(q)'
      BY <1>0, <1>2, <1>a, <2>b, <3>1, RotatingKept
    <3>4. QED
      BY <2>2, <2>b, <3>2, <3>3, <1>a, LinkedStays
  <2>3. CASE OpenNew(t)
    <3>1. PICK s \in FileSlot, i \in Nat :
            Opened(Mine(t), i) /\ Alters(s, i, FALSE, 1, None, Mine(t))
      BY <2>3, <1>a, OpenNewEffect
    <3>2. at[t] = "open" /\ ~Restat(t) /\ ~Reopen(t)
      BY <2>3 DEF OpenNew, Restat, Reopen
    <3>3. CASE q = s
      <4>1. Mine(t) \in File
        BY <3>2, <1>a, OpenFacts
      <4>2. inode'[i].base = Mine(t) /\ file'[q].fp = i
        BY <3>1, <3>3, <4>1, <1>a, OpenedBase DEF Alters
      <4>3. Base(q)' = Mine(t)
        BY <4>2 DEF Base
      <4>4. QED
        BY <3>1, <4>2, <4>3, <2>a
    <3>4. CASE q # s
      <4>1. file'[q].fp = file[q].fp
        BY <3>1, <3>4 DEF Alters
      <4>2. Base(q)' = Base(q) /\ Base(q) # Mine(t)
        BY <4>1, <3>2, <2>1, <2>3, <1>0, OpenNewAlone DEF Fate
      <4>3. QED
        BY <4>1, <4>2, <3>2, <2>b
    <3>5. QED
      BY <3>3, <3>4
  <2>4. CASE Restat(t) \/ Reopen(t) \/ Rename(t)
    <3>1. PICK s : s = My(t)
      OBVIOUS
    <3>2. at[t] \in Streaming /\ ~OpenNew(t)
      BY <2>4 DEF Restat, Reopen, Rename, Streaming, OpenNew
    <3>3. s \in FileSlot /\ file[s].fp # 0 /\ Base(s) = Mine(t) /\ file[s].lock = t
      BY <3>1, <3>2, <1>a, StreamFacts
    <3>4. CASE q # s
      <4>1. file'[q].fp = file[q].fp /\ Base(q)' = Base(q) /\ file[q].fp # 0
        BY <2>1, <3>1, <3>2, <3>4, <1>0 DEF Fate
      <4>2. Base(q) # Mine(t)
        BY <4>1, <3>3, <3>4, <1>a DEF OneStream, Base
      <4>3. QED
        BY <4>1, <4>2, <3>1, <3>4, <2>b
    <3>5. CASE q = s /\ (Restat(t) \/ Reopen(t))
      <4>1. PICK i \in Nat :
              /\ i = 0 \/ Opened(Mine(t), i)
              /\ Alters(s, i, file[s].full, file[s].ref_cnt, file[s].lock, file[s].file_name)
        BY <3>1, <3>5, <1>a, StreamEffect
      <4>2. file'[q].fp = i /\ i # 0
        BY <3>5, <4>1, <1>0 DEF Alters
      <4>3. Base(q)' = Mine(t)
        BY <2>1, <3>2, <3>3, <3>5, <1>0 DEF Fate
      <4>4. QED
        BY <4>1, <4>2, <4>3, <2>a
    <3>6. CASE q = s /\ Rename(t)
      <4>1. PICK b : b = Mine(t)
        OBVIOUS
      <4>2. dir'[Log(b)] = 0
        BY <3>6, <4>1, <1>a, RenameEffect DEF Renamed
      <4>3. at' = [at EXCEPT ![t] = "reopen"] /\ ~Restat(t) /\ ~Reopen(t)
        BY <3>6 DEF Rename, Go, Restat, Reopen
      <4>4. Base(q)' = b
        BY <2>1, <3>2, <3>3, <3>6, <4>1, <4>3, <1>0 DEF Fate
      <4>5. file'[q].lock = t
        BY <3>1, <3>3, <3>6, <1>a, NameEffect DEF Alters
      <4>6. Rotating(q)'
        BY <4>3, <4>5, <1>a, ThreadAssumption DEF Rotating
      <4>7. Log(Base(q))' = Log(b)
        BY <4>4 DEF Log
      <4>8. QED
        BY <4>2, <4>6, <4>7 DEF Linked
    <3>7. QED
      BY <2>4, <3>4, <3>5, <3>6
  <2>5. CASE ~(OpenNew(t) \/ Restat(t) \/ Reopen(t) \/ Rename(t))
    <3>1. file'[q].fp = file[q].fp /\ Base(q)' = Base(q)
      BY <2>1, <2>5, <1>0 DEF Fate
    <3>2. QED
      BY <3>1, <2>5, <2>b
  <2>6. QED
    BY <2>3, <2>4, <2>5
<1>3. QED
  BY <1>1, <1>2 DEF LogNext

(* The ways into Restat, Reopen and Write.                                 *)
LEMMA Enters ==
    ASSUME LogTypeOK, PlaceInv, NEW t \in Thread,
           \/ Work(t) \/ ul_openlog(t) \/ ul_closelog(t)
           \/ \E k \in Field : ul_writelog(t, k),
           at'[t] \in {"restat", "reopen", "write"}
    PROVE  /\ cur' = cur /\ unit' = unit
           /\ at'[t] = "restat" => ul_check(t)
           /\ at'[t] = "reopen" => Rename(t)
           /\ at'[t] = "write" => ul_check(t) \/ Restat(t) \/ Reopen(t)
<1>a. DOMAIN at = Thread /\ back[t] \in BackTo
  BY DEF LogTypeOK, BackTo
<1>1. CASE Share(t) \/ OpenNew(t)
  <2>1. at[t] = "open" /\ Go(t, IF cur[t] = Len(Plan(t)) THEN "start" ELSE "open")
    BY <1>1 DEF Share, OpenNew, Point
  <2>2. QED
    BY <2>1, <1>a DEF Go
<1>2. CASE Start(t) \/ \E k \in Field : ul_writelog(t, k)
  <2>1. PICK k \in Fields(t), then \in BackTo : CallWrite(t, k, then)
    BY <1>2, CallEffect
  <2>2. at'[t] = then \/ at'[t] = "lock"
    BY <2>1, <1>a DEF CallWrite, Go
  <2>3. QED
    BY <2>2 DEF BackTo
<1>3. CASE OpenFails(t) \/ Lock(t) \/ CutName(t) \/ Freed(t) \/ ul_openlog(t) \/ ul_closelog(t)
  <2>1. at'[t] \in {"undo", "check", "rename", "idle", "open", "end"}
    BY <1>3, <1>a DEF OpenFails, Lock, CutName, Freed, ul_openlog, ul_closelog, Go
  <2>2. QED
    BY <2>1
<1>4. CASE Unlock(t) \/ Write(t) \/ RemoveTmp(t)
  <2>1. at'[t] \in BackTo \cup {"remove"}
    BY <1>4, <1>a DEF Unlock, Write, RemoveTmp, Go
  <2>2. QED
    BY <2>1 DEF BackTo
<1>5. CASE Close(t)
  BY <1>5 DEF Close
<1>6. CASE ul_check(t)
  <2>1. at'[t] # "reopen" /\ cur' = cur /\ unit' = unit
    BY <1>6, <1>a DEF ul_check, Sized, Go
  <2>2. QED
    BY <1>6, <2>1
<1>7. CASE Restat(t) \/ Reopen(t)
  <2>1. at'[t] \in {"unlock", "write", "rename", "cut"} /\ cur' = cur /\ unit' = unit
    BY <1>7, <1>a, StreamEffect
  <2>2. QED
    BY <1>7, <2>1
<1>8. CASE Rename(t)
  BY <1>8, <1>a DEF Rename, Go
<1>9. QED
  BY <1>1, <1>2, <1>3, <1>4, <1>5, <1>6, <1>7, <1>8 DEF Work

(* Nobody makes the file that another thread is about to open again.       *)
LEMMA GoneStep ==
    ASSUME HeldInv, UnitInv, CutInv, DirInv, OneStream, GoneInv, LogNext
    PROVE  GoneInv'
<1>0. SUFFICES ASSUME Sane', NEW r \in Thread, at'[r] \in {"restat", "reopen"}
               PROVE  dir'[Log(Mine(r))'] = 0
  BY DEF GoneInv
<1>a. /\ Sane /\ ~stolen /\ LogTypeOK /\ PlaceInv /\ dir \in [Path -> 0..Len(inode)]
      /\ at[r] \in {"restat", "reopen"} => dir[Log(Mine(r))] = 0
  BY <1>0, SaneBefore DEF LogNext, HeldInv, GoneInv, LogTypeOK
<1>b. cur'[r] = cur[r] => Log(Mine(r))' = Log(Mine(r))
  BY SameProgram DEF Log, Mine
<1>1. ASSUME NEW f \in File, Unlink(f)
      PROVE  dir'[Log(Mine(r))'] = 0
  <2>1. at' = at /\ cur' = cur /\ dir' = [dir EXCEPT ![Log(f)] = 0]
    BY <1>1 DEF Unlink
  <2>2. Mine(r) \in File
    BY <2>1, <1>0, <1>a, MyFacts DEF Writing, Locked
  <2>3. Log(Mine(r)) \in Path
    BY <2>2, LogPath
  <2>4. QED
    BY <2>1, <2>3, <1>0, <1>a, <1>b
<1>2. ASSUME NEW t \in Thread,
             \/ Work(t) \/ ul_openlog(t) \/ ul_closelog(t)
             \/ \E k \in Field : ul_writelog(t, k)
      PROVE  dir'[Log(Mine(r))'] = 0
  <2>1. CASE r = t
    <3>1. cur' = cur /\ ((ul_check(t) /\ at'[t] = "restat") \/ Rename(t))
      BY <1>0, <1>2, <1>a, <2>1, Enters
    <3>2. CASE ul_check(t) /\ at'[t] = "restat"
      <4>1. dir' = dir /\ DOMAIN at = Thread
        BY <3>2, <1>a DEF ul_check, LogTypeOK
      <4>2. dir[Log(Mine(t))] = 0
        BY <3>2, <4>1 DEF ul_check, Sized, Go
      <4>3. QED
        BY <4>1, <4>2, <3>1, <2>1, <1>b
    <3>3. CASE Rename(t)
      <4>1. dir'[Log(Mine(t))] = 0
        BY <3>3, <1>a, RenameEffect DEF Renamed
      <4>2. QED
        BY <4>1, <3>1, <2>1, <1>b
    <3>4. QED
      BY <3>1, <3>2, <3>3
  <2>2. CASE r # t
    <3>1. at'[r] = at[r] /\ cur'[r] = cur[r]
      BY <1>2, <1>a, <2>2, OthersStay
    <3>2. at[r] \in Streaming
      BY <1>0, <3>1 DEF Streaming
    <3>3. PICK p : p = My(r)
      OBVIOUS
    <3>4. p \in FileSlot /\ file[p].fp # 0 /\ Base(p) = Mine(r) /\ Mine(r) \in File
      BY <3>2, <3>3, <1>a, StreamFacts
    <3>5. OpenNew(t) => Mine(r) # Mine(t)
      BY <3>4, <1>0, OpenNewAlone
    <3>6. Restat(t) \/ Reopen(t) \/ Rename(t) => Mine(r) # Mine(t)
      <4>1. Restat(t) \/ Reopen(t) \/ Rename(t) => at[t] \in Streaming
        BY DEF Restat, Reopen, Rename, Streaming
      <4>2. QED
        BY <4>1, <3>2, <2>2, <1>a, Apart
    <3>7. dir'[Log(Mine(r))] = dir[Log(Mine(r))]
      BY <1>2, <1>a, <3>4, <3>5, <3>6, LogsStay
    <3>8. QED
      BY <3>1, <3>7, <1>0, <1>a, <1>b
  <2>3. QED
    BY <2>1, <2>2
<1>3. QED
  BY <1>1, <1>2 DEF LogNext

(* Nobody else prints to the inode that a thread prints to, and the size   *)
(* that ul_check reads is that of the stream.                              *)
LEMMA RoomStep ==
    ASSUME HeldInv, UnitInv, CutInv, DirInv, OneStream, LinkInv, GoneInv, RoomInv, LogNext
    PROVE  RoomInv'
<1>0. SUFFICES ASSUME Sane', NEW r \in Thread, at'[r] = "write"
               PROVE  inode'[file'[My(r)'].fp].size + 1 < MaxSize
  BY DEF RoomInv
<1>a. /\ Sane /\ ~stolen /\ ~stolen' /\ LogTypeOK /\ PlaceInv /\ FpInv /\ RefCnt /\ LockInv
      /\ at[r] = "write" => inode[file[My(r)].fp].size + 1 < MaxSize
  BY <1>0, SaneBefore DEF LogNext, HeldInv, RoomInv, Sane
<1>1. ASSUME NEW f \in File, Unlink(f)
      PROVE  inode'[file'[My(r)'].fp].size + 1 < MaxSize
  <2>1. UNCHANGED <<at, cur, unit, file, inode>>
    BY <1>1 DEF Unlink
  <2>2. QED
    BY <2>1, <1>0, <1>a DEF My
<1>2. ASSUME NEW t \in Thread,
             \/ Work(t) \/ ul_openlog(t) \/ ul_closelog(t)
             \/ \E k \in Field : ul_writelog(t, k)
      PROVE  inode'[file'[My(r)'].fp].size + 1 < MaxSize
  <2>1. CASE r = t
    <3>1. cur' = cur /\ unit' = unit /\ (ul_check(t) \/ Restat(t) \/ Reopen(t))
      BY <1>0, <1>2, <1>a, <2>1, Enters
    <3>2. PICK s : s = My(t)
      OBVIOUS
    <3>3. My(r)' = s
      BY <2>1, <3>1, <3>2 DEF My
    <3>4. CASE ul_check(t)
      <4>1. at[t] = "check" /\ inode' = inode /\ file' = file
        BY <3>4, <1>a, CheckEffect DEF ul_check
      <4>2. PICK d : d = dir[Log(Mine(t))]
        OBVIOUS
      <4>3. file[s].fp # 0 /\ d # 0 /\ inode[d].size + 1 < MaxSize
        <5>1. DOMAIN at = Thread
          BY <1>a DEF LogTypeOK
        <5>2. QED
          BY <3>2, <3>4, <4>2, <5>1, <1>0, <2>1 DEF ul_check, Sized, Go
      <4>4. s \in FileSlot /\ cur[t] \in Field
        BY <3>2, <4>1, <1>a, LockedUser DEF Locked
      <4>5. s # 0
        BY <4>4, <1>a, ProgramFacts
      <4>6. Base(s) = Mine(t)
        BY <3>2, <4>3, <4>4, <4>5, <1>a DEF UnitInv, My, Mine
      <4>7. d = file[s].fp
        BY <4>2, <4>3, <4>4, <4>6, <1>a DEF LinkInv, Linked
      <4>8. QED
        BY <3>3, <4>1, <4>3, <4>7
    <3>5. CASE Restat(t) \/ Reopen(t)
      <4>1. PICK i \in Nat :
              /\ \/ i = 0 /\ at' = [at EXCEPT ![t] = "unlock"]
                 \/ Opened(Mine(t), i)
              /\ Alters(s, i, file[s].full, file[s].ref_cnt, file[s].lock, file[s].file_name)
        BY <3>2, <3>5, <1>a, StreamEffect
      <4>2. Opened(Mine(t), i)
        <5>1. DOMAIN at = Thread
          BY <1>a DEF LogTypeOK
        <5>2. at' # [at EXCEPT ![t] = "unlock"]
          BY <5>1, <1>0, <2>1
        <5>3. QED
          BY <4>1, <5>2
      <4>3. dir[Log(Mine(t))] = 0
        BY <3>5, <1>a DEF GoneInv, Restat, Reopen
      <4>4. inode'[i] = [base |-> Mine(t), size |-> 0]
        BY <4>2, <4>3 DEF Opened
      <4>5. file'[s].fp = i
        BY <4>1 DEF Alters
      <4>6. inode'[i].size + 1 < MaxSize
        BY <4>4, FileBounds
      <4>7. QED
        BY <3>3, <4>5, <4>6
    <3>6. QED
      BY <3>1, <3>4, <3>5
  <2>2. CASE r # t
    <3>1. at'[r] = at[r] /\ cur'[r] = cur[r] /\ unit'[r] = unit[r]
      BY <1>2, <1>a, <2>2, OthersStay
    <3>2. at[r] \in Streaming /\ at[r] = "write"
      BY <1>0, <3>1 DEF Streaming
    <3>3. PICK p : p = My(r)
      OBVIOUS
    <3>4. p \in FileSlot /\ file[p].fp # 0 /\ Base(p) = Mine(r) /\ My(r)' = p
      BY <3>1, <3>2, <3>3, <1>a, StreamFacts DEF My
    <3>5. file'[p].fp # 0
      <4>1. FpInv'
        BY <1>a, FpStep
      <4>2. QED
        BY <4>1, <3>1, <3>2, <3>4, <1>a DEF FpInv
    <3>6. ASSUME at[t] \in Streaming
          PROVE  My(t) # p /\ Mine(t) # Mine(r)
      BY <3>6, <3>2, <3>3, <2>2, <1>a, Apart
    <3>7. file'[p].fp = file[p].fp
      <4>1. Fate(t, p)
        BY <3>4, <1>2, <1>a, FateStep
      <4>2. Restat(t) \/ Reopen(t) => at[t] \in Streaming
        BY DEF Restat, Reopen, Streaming
      <4>3. QED
        BY <4>1, <4>2, <3>4, <3>5, <3>6 DEF Fate
    <3>8. PICK j \in 1..Len(inode) : j = file[p].fp
      BY <3>4, <1>a, SlotEntry
    <3>9. inode'[j] = inode[j]
      <4>1. CASE Write(t)
        <5>1. at[t] \in Streaming
          BY <4>1 DEF Write, Streaming
        <5>2. PICK i : i = file[My(t)].fp
          OBVIOUS
        <5>3. inode[i].base = Mine(t)
          BY <5>1, <5>2, <1>a, StreamFacts DEF Base
        <5>4. inode[j].base = Mine(r)
          BY <3>4, <3>8 DEF Base
        <5>5. i # j
          BY <5>1, <5>3, <5>4, <3>6
        <5>6. Printed(i)
          BY <4>1, <5>2, <1>a, WriteEffect
        <5>7. QED
          BY <5>5, <5>6 DEF Printed
      <4>2. CASE OpenNew(t) \/ Restat(t) \/ Reopen(t)
        <5>1. inode' = inode \/ \E f, i : Opened(f, i)
          BY <4>2, <1>a, OpenNewEffect, StreamEffect
        <5>2. QED
          BY <5>1 DEF Opened
      <4>3. CASE ~(Write(t) \/ OpenNew(t) \/ Restat(t) \/ Reopen(t))
        <5>1. inode' = inode
          BY <1>2, <4>3 DEF Work, Share, OpenFails, Start, Lock, Unlock, ul_check, CutName, Rename,
                     RemoveTmp, Close, Freed, ul_openlog, ul_closelog, ul_writelog
        <5>2. QED
          BY <5>1
      <4>4. QED
        BY <4>1, <4>2, <4>3
    <3>10. inode[j].size + 1 < MaxSize
      BY <3>2, <3>3, <3>8, <1>a
    <3>11. QED
      BY <3>4, <3>7, <3>8, <3>9, <3>10
  <2>3. QED
    BY <2>1, <2>2
<1>3. QED
  BY <1>1, <1>2 DEF LogNext

(* What keeps every log on one stream and every stream on its log.         *)
FileInv ==
    /\ HeldInv /\ DirInv /\ UnitInv /\ CutInv
    /\ OneStream /\ LinkInv /\ GoneInv /\ RoomInv

(* Nothing is open when the program starts.                                *)
LEMMA FileInit == LogInit => FileInv
<1> SUFFICES ASSUME LogInit PROVE FileInv
  OBVIOUS
<1>1. HeldInv
  BY HeldInit
<1>2. \A t \in Thread : at[t] = "idle" /\ \A k \in Field : unit[t][k] = 0
  BY DEF LogInit
<1>3. \A s \in FileSlot : file[s].fp = 0
  BY DEF LogInit, Unused
<1>4. \A x \in Path : dir[x] = 0
  BY DEF LogInit
<1>5. DirInv
  BY <1>4 DEF DirInv
<1>6. UnitInv /\ GoneInv /\ RoomInv
  BY <1>2 DEF UnitInv, GoneInv, RoomInv
<1>7. CutInv /\ OneStream /\ LinkInv
  BY <1>3 DEF CutInv, OneStream, LinkInv, Linked
<1>8. QED
  BY <1>1, <1>5, <1>6, <1>7 DEF FileInv

(* Every step keeps the invariant, conjunct by conjunct.                   *)
LEMMA FileStep == FileInv /\ [LogNext]_logVars => FileInv'
<1>1. ASSUME FileInv, LogNext
      PROVE  FileInv'
  <2>1. /\ HeldInv /\ DirInv /\ UnitInv /\ CutInv /\ OneStream /\ LinkInv /\ GoneInv /\ RoomInv
        /\ LogTypeOK /\ PlaceInv /\ FpInv
    BY <1>1 DEF FileInv, HeldInv
  <2>2. HeldInv'
    BY <1>1, <2>1, HeldStep
  <2>3. DirInv'
    BY <1>1, <2>1, DirStep
  <2>4. UnitInv'
    BY <1>1, <2>1, UnitStep
  <2>5. CutInv'
    BY <1>1, <2>1, CutStep
  <2>6. OneStream'
    BY <1>1, <2>1, OneStep
  <2>7. LinkInv'
    BY <1>1, <2>1, LinkStep
  <2>8. GoneInv'
    BY <1>1, <2>1, GoneStep
  <2>9. RoomInv'
    BY <1>1, <2>1, RoomStep
  <2>10. QED
    BY <2>2, <2>3, <2>4, <2>5, <2>6, <2>7, <2>8, <2>9 DEF FileInv
<1>2. ASSUME FileInv, UNCHANGED logVars
      PROVE  FileInv'
  <2>0. /\ UNCHANGED <<program, file, dir, inode, at, unit, cur, unlinked, stolen, raced>>
        /\ FileSlot' = FileSlot /\ Path' = Path
    BY <1>2 DEF logVars, calls, FileSlot, Path
  <2>1. /\ HeldInv /\ DirInv /\ UnitInv /\ CutInv /\ OneStream /\ LinkInv /\ GoneInv /\ RoomInv
    BY <1>2 DEF FileInv
  <2>2. HeldInv'
    BY <1>2, <2>1, HeldStep
  <2>3. DirInv'
    BY <2>0, <2>1 DEF DirInv
  <2>4. UnitInv'
    BY <2>0, <2>1 DEF UnitInv, Base, Plan
  <2>5. CutInv'
    BY <2>0, <2>1 DEF CutInv, Base
  <2>6. OneStream'
    BY <2>0, <2>1 DEF OneStream, Sane
  <2>7. LinkInv'
    BY <2>0, <2>1 DEF LinkInv, Linked, Rotating, Base, Sane, Log
  <2>8. GoneInv'
    BY <2>0, <2>1 DEF GoneInv, Sane, Mine, Plan, Log
  <2>9. RoomInv'
    BY <2>0, <2>1 DEF RoomInv, Sane, My
  <2>10. QED
    BY <2>2, <2>3, <2>4, <2>5, <2>6, <2>7, <2>8, <2>9 DEF FileInv
<1>3. QED
  BY <1>1, <1>2

(* A thread that prints has its lock, so nobody else is rotating its file. *)
LEMMA FileLands == FileInv => RightFile
<1> SUFFICES ASSUME FileInv PROVE RightFile
  OBVIOUS
<1>1. OneStream /\ HeldInv /\ UnitInv
  BY DEF FileInv
<1>2. ASSUME Sane, unlinked = 0, NEW t \in Thread, at[t] = "write"
      PROVE  file[My(t)].fp = dir[Log(Mine(t))]
  <2>1. PICK s : s = My(t)
    OBVIOUS
  <2>2. s \in FileSlot /\ file[s].lock = t /\ file[s].fp # 0 /\ Base(s) = Mine(t)
    BY <1>1, <1>2, <2>1, StreamFacts DEF Streaming, Sane
  <2>3. ~Rotating(s)
    BY <1>2, <2>2 DEF Rotating
  <2>4. Linked(s)
    BY <1>2, <2>2 DEF FileInv, LinkInv
  <2>5. ~(unlinked > 0)
    BY <1>2
  <2>6. dir[Log(Base(s))] = file[s].fp
    BY <2>2, <2>3, <2>4, <2>5 DEF Linked
  <2>7. QED
    BY <2>1, <2>2, <2>6
<1>3. Lands
  BY <1>2 DEF Lands
<1>4. QED
  BY <1>1, <1>3 DEF RightFile

(* Whoever rotates a file and whoever opens it meanwhile: unless a cut     *)
(* name was read, every log has one stream, and what a thread prints goes  *)
(* into the file that bears the log's name at that moment.                 *)
THEOREM AlwaysRightFile == LogSpec => []RightFile
<1>1. LogInit => FileInv
  BY FileInit
<1>2. FileInv /\ [LogNext]_logVars => FileInv'
  BY FileStep
<1>3. FileInv => RightFile
  BY FileLands
<1>4. QED
  BY <1>1, <1>2, <1>3, PTL DEF LogSpec

(* Splitting moves files, and loses none: an inode that has a name of its  *)
(* log keeps one, whatever a thread does.                                  *)
LEMMA NamesLast ==
    ASSUME LogTypeOK, PlaceInv, program.split, NEW t \in Thread,
           \/ Work(t) \/ ul_openlog(t) \/ ul_closelog(t)
           \/ \E k \in Field : ul_writelog(t, k),
           NEW x \in Path, dir[x] # 0
    PROVE  \E y \in Path : y[1] = x[1] /\ dir'[y] = dir[x]
<1>a. ASSUME NEW f \in File, NEW i, Opened(f, i)
      PROVE  dir'[x] = dir[x]
  BY <1>a DEF Opened
<1>1. CASE OpenNew(t)
  <2>1. Mine(t) \in File /\ \E i : Opened(Mine(t), i)
    BY <1>1, OpenFacts, OpenNewEffect DEF OpenNew
  <2>2. QED
    BY <2>1, <1>a
<1>2. CASE Restat(t) \/ Reopen(t)
  <2>1. Mine(t) \in File
    BY <1>2, MyFacts DEF Restat, Reopen, Writing, Locked
  <2>2. dir' = dir \/ \E i : Opened(Mine(t), i)
    BY <1>2, StreamEffect
  <2>3. QED
    BY <2>1, <2>2, <1>a
<1>3. CASE Rename(t)
  <2>1. PICK f : f = Mine(t)
    OBVIOUS
  <2>2. PICK y \in Path : Renamed(f, y)
    BY <1>3, <2>1, RenameEffect
  <2>3. Log(f)[1] = f
    BY DEF Log
  <2>4. CASE x = Log(f)
    BY <2>2, <2>3, <2>4 DEF Renamed
  <2>5. CASE x # Log(f)
    <3>1. dir'[x] = dir[x]
      BY <2>2, <2>5 DEF Renamed
    <3>2. QED
      BY <3>1
  <2>6. QED
    BY <2>4, <2>5
<1>4. CASE RemoveTmp(t)
  BY <1>4 DEF RemoveTmp, PlaceInv, PlaceOK
<1>5. CASE \/ Share(t) \/ OpenFails(t) \/ Start(t) \/ Lock(t) \/ Unlock(t) \/ ul_check(t)
           \/ CutName(t) \/ Write(t) \/ Close(t) \/ Freed(t) \/ ul_openlog(t)
           \/ ul_closelog(t) \/ \E k \in Field : ul_writelog(t, k)
  <2>1. dir' = dir
    BY <1>5 DEF Share, OpenFails, Start, Lock, Unlock, ul_check, CutName, Write, Close, Freed,
                ul_openlog, ul_closelog, ul_writelog
  <2>2. QED
    BY <2>1
<1>6. QED
  BY <1>1, <1>2, <1>3, <1>4, <1>5 DEF Work

\* Entry w is in a file that still has a name of its log.
Kept(w) ==
    /\ w[2] \in 1..Len(inode) /\ inode[w[2]].size >= w[3]
    /\ \E x \in Path : x[1] = w[1] /\ dir[x] = w[2]

(* KeptAll, in terms of names.                                             *)
KeptInv == program.split /\ Sane /\ unlinked = 0 => \A w \in written : Kept(w)

(* What was printed stays, and what is printed lands under the log's name. *)
LEMMA KeptStep ==
    ASSUME FileInv, KeptInv, LogNext
    PROVE  KeptInv'
<1>0. SUFFICES ASSUME program.split, Sane', unlinked' = 0, NEW w \in written'
               PROVE  Kept(w)'
  BY SameProgram DEF KeptInv
<1>a. /\ HeldInv /\ UnitInv /\ RightFile /\ ~stolen /\ Sane
      /\ LogTypeOK /\ PlaceInv /\ FpInv /\ Path' = Path
  BY <1>0, FileLands, SaneBefore, SameProgram DEF FileInv, HeldInv, LogNext
<1>b. dir \in [Path -> 0..Len(inode)] /\ unlinked \in Nat /\ written \subseteq File \X Nat \X Nat
  BY <1>a DEF LogTypeOK
<1>c. Lasting
  BY <1>a, LastingStep
<1>1. ASSUME NEW f \in File, Unlink(f)
      PROVE  FALSE
  <2>1. unlinked' = unlinked + 1
    BY <1>1 DEF Unlink
  <2>2. QED
    BY <2>1, <1>0, <1>b
<1>2. ASSUME NEW t \in Thread,
             \/ Work(t) \/ ul_openlog(t) \/ ul_closelog(t)
             \/ \E k \in Field : ul_writelog(t, k)
      PROVE  Kept(w)'
  <2>0. unlinked = 0
    <3>1. unlinked' = unlinked
      BY <1>2 DEF Work, Share, OpenNew, OpenFails, Start, Lock, Unlock, ul_check, Restat, CutName,
                  Rename, Reopen, Write, RemoveTmp, Close, Freed, ul_openlog, ul_closelog,
                  ul_writelog, calls
    <3>2. QED
      BY <3>1, <1>0
  <2>1. CASE w \in written
    <3>1. Kept(w)
      BY <1>0, <1>a, <2>0, <2>1 DEF KeptInv
    <3>2. PICK i, z : i = w[2] /\ z = w[3]
      OBVIOUS
    <3>3. i \in 1..Len(inode) /\ inode[i].size >= z /\ z \in Nat
      BY <3>1, <3>2, <2>1, <1>b DEF Kept
    <3>4. PICK x \in Path : x[1] = w[1] /\ dir[x] = i
      BY <3>1, <3>2 DEF Kept
    <3>5. i # 0 /\ i \in 1..Len(inode')
      BY <3>3, <1>c DEF Lasting
    <3>6. inode'[i].size >= z
      <4>1. inode[i].size \in Nat
        <5>1. inode \in Seq(Inode)
          BY <1>a DEF LogTypeOK, Inode
        <5>2. inode[i] \in Inode
          BY <5>1, <3>3
        <5>3. QED
          BY <5>2 DEF Inode
      <4>2. inode'[i].size \in Nat /\ inode'[i].size >= inode[i].size
        BY <3>3, <1>c DEF Lasting
      <4>3. QED
        BY <4>1, <4>2, <3>3
    <3>7. \E y \in Path : y[1] = x[1] /\ dir'[y] = dir[x]
      BY <1>0, <1>2, <1>a, <3>4, <3>5, NamesLast
    <3>8. QED
      BY <3>2, <3>4, <3>5, <3>6, <3>7, <1>a DEF Kept
  <2>2. CASE w \notin written
    <3>1. Write(t)
      <4>1. ~Write(t) => written' = written
        BY <1>2 DEF Work, Share, OpenNew, OpenFails, Start, Lock, Unlock, ul_check, Restat, CutName,
                    Rename, Reopen, RemoveTmp, Close, Freed, ul_openlog, ul_closelog, ul_writelog
      <4>2. QED
        BY <4>1, <1>0, <2>2
    <3>2. PICK f, i : f = Mine(t) /\ i = file[My(t)].fp
      OBVIOUS
    <3>3. w = <<f, i, inode[i].size + 1>> /\ dir' = dir /\ at[t] = "write"
      BY <3>1, <3>2, <2>2, <1>0 DEF Write
    <3>4. Printed(i)
      BY <3>1, <3>2, <1>a, WriteEffect
    <3>5. f \in File
      BY <3>2, <3>3, <1>a, MyFacts DEF Writing, Locked
    <3>6. dir[Log(f)] = i
      BY <3>2, <3>3, <1>a, <2>0 DEF RightFile, Lands
    <3>7. Log(f) \in Path /\ Log(f)[1] = f
      BY <3>5, LogPath DEF Log
    <3>8. i \in 1..Len(inode') /\ inode'[i].size >= inode[i].size + 1
      BY <3>4 DEF Printed
    <3>9. QED
      BY <3>3, <3>6, <3>7, <3>8, <1>a DEF Kept
  <2>3. QED
    BY <2>1, <2>2
<1>3. QED
  BY <1>1, <1>2 DEF LogNext

(* An entry is printed only where there is room, and the full mark is set  *)
(* by nobody.                                                              *)
LEMMA BoundedStep ==
    ASSUME FileInv, Bounded, LogNext
    PROVE  Bounded'
<1>0. SUFFICES ASSUME Sane'
               PROVE  /\ \A i \in 1..Len(inode') : inode'[i].size < MaxSize
                      /\ \A s \in FileSlot : ~file'[s].full
  <2>1. inode' \in Seq(Inode)
    <3>1. LogTypeOK /\ PlaceInv /\ FpInv
      BY DEF FileInv, HeldInv
    <3>2. QED
      BY <3>1, LastingStep DEF Lasting, NamesType
  <2>2. DOMAIN inode' = 1..Len(inode')
    BY <2>1
  <2>3. QED
    BY <2>2, SameProgram DEF Bounded
<1>a. /\ HeldInv /\ UnitInv /\ RoomInv /\ ~stolen /\ Sane
      /\ LogTypeOK /\ PlaceInv /\ FpInv
  BY <1>0, SaneBefore DEF FileInv, HeldInv, LogNext
<1>b. \A i \in 1..Len(inode) : inode[i].size < MaxSize
  <2>1. inode \in Seq(Inode)
    BY <1>a DEF LogTypeOK, Inode
  <2>2. DOMAIN inode = 1..Len(inode)
    BY <2>1
  <2>3. QED
    BY <2>2, <1>a DEF Bounded
<1>c. \A s \in FileSlot : ~file[s].full
  BY <1>a DEF Bounded
<1>1. \A i \in 1..Len(inode') : inode'[i].size < MaxSize
  <2>a. ASSUME NEW f, NEW j, Opened(f, j)
        PROVE  \A i \in 1..Len(inode') : inode'[i].size < MaxSize
    <3>1. CASE dir[Log(f)] # 0
      BY <2>a, <3>1, <1>b DEF Opened
    <3>2. CASE dir[Log(f)] = 0
      <4>1. /\ j = Len(inode) + 1 /\ Len(inode') = j
            /\ inode'[j] = [base |-> f, size |-> 0]
            /\ \A i \in 1..Len(inode) : inode'[i] = inode[i]
        BY <2>a, <3>2 DEF Opened
      <4>2. inode'[j].size < MaxSize
        BY <4>1, FileBounds
      <4>3. Len(inode) \in Nat
        BY <1>a, LastingStep DEF Lasting
      <4>4. \A i \in 1..Len(inode') : i \in 1..Len(inode) \/ i = j
        BY <4>1, <4>3
      <4>5. QED
        BY <4>1, <4>2, <4>4, <1>b
    <3>3. QED
      BY <3>1, <3>2
  <2>1. ASSUME NEW t \in Thread, Write(t)
        PROVE  \A i \in 1..Len(inode') : inode'[i].size < MaxSize
    <3>1. PICK j : j = file[My(t)].fp
      OBVIOUS
    <3>2. Printed(j)
      BY <2>1, <3>1, <1>a, WriteEffect
    <3>3. inode[j].size + 1 < MaxSize
      BY <2>1, <3>1, <1>a DEF Write, RoomInv
    <3>4. inode'[j].size < MaxSize
      BY <3>2, <3>3 DEF Printed
    <3>5. QED
      BY <3>2, <3>4, <1>b DEF Printed
  <2>2. ASSUME NEW t \in Thread, OpenNew(t) \/ Restat(t) \/ Reopen(t)
        PROVE  \A i \in 1..Len(inode') : inode'[i].size < MaxSize
    <3>1. inode' = inode \/ \E f, j : Opened(f, j)
      BY <2>2, <1>a, OpenNewEffect, StreamEffect
    <3>2. QED
      BY <3>1, <2>a, <1>b
  <2>3. CASE inode' = inode
    BY <2>3, <1>b
  <2>4. QED
    BY <2>1, <2>2, <2>3
       DEF LogNext, Work, Unlink, Share, OpenFails, Start, Lock, Unlock, ul_check, CutName, Rename,
           RemoveTmp, Close, Freed, ul_openlog, ul_closelog, ul_writelog
<1>2. ASSUME NEW q \in FileSlot
      PROVE  ~file'[q].full
  <2>1. ASSUME NEW f \in File, Unlink(f)
        PROVE  ~file'[q].full
    BY <2>1, <1>c DEF Unlink
  <2>2. ASSUME NEW t \in Thread,
               \/ Work(t) \/ ul_openlog(t) \/ ul_closelog(t)
               \/ \E k \in Field : ul_writelog(t, k)
        PROVE  ~file'[q].full
    <3>1. CASE Idles(t)
      BY <3>1, <1>a, <1>c, IdlesFile
    <3>2. CASE Share(t)
      <4>1. PICK s \in FileSlot :
              Alters(s, file[s].fp, file[s].full, file[s].ref_cnt + 1, file[s].lock,
                     file[s].file_name)
        BY <3>2, <1>a, ShareEffect
      <4>2. QED
        BY <4>1, <1>c DEF Alters
    <3>3. CASE OpenNew(t)
      <4>1. PICK s \in FileSlot, i \in Nat : Alters(s, i, FALSE, 1, None, Mine(t))
        BY <3>3, <1>a, OpenNewEffect
      <4>2. QED
        BY <4>1, <1>c DEF Alters
    <3>4. CASE Restat(t) \/ Reopen(t)
      <4>1. PICK s : s = My(t)
        OBVIOUS
      <4>2. PICK i \in Nat :
              Alters(s, i, file[s].full, file[s].ref_cnt, file[s].lock, file[s].file_name)
        BY <3>4, <4>1, <1>a, StreamEffect
      <4>3. QED
        BY <4>2, <1>c DEF Alters
    <3>5. CASE Lock(t) \/ Unlock(t) \/ Write(t)
      <4>1. PICK s : s = My(t)
        OBVIOUS
      <4>2. PICK x : Alters(s, file[s].fp, file[s].full, file[s].ref_cnt, x, file[s].file_name)
        BY <3>5, <4>1, <1>a, LockEffect
      <4>3. QED
        BY <4>2, <1>c DEF Alters
    <3>6. CASE CutName(t) \/ Rename(t)
      <4>1. PICK s : s = My(t)
        OBVIOUS
      <4>2. PICK x : Alters(s, file[s].fp, file[s].full, file[s].ref_cnt, file[s].lock, x)
        BY <3>6, <4>1, <1>a, NameEffect
      <4>3. QED
        BY <4>2, <1>c DEF Alters
    <3>7. CASE Close(t)
      <4>1. PICK k \in Field : Closes(t, k)
        BY <3>7, <1>a, CloseEffect
      <4>2. PICK s \in FileSlot : s = unit[t][k]
        BY <4>1 DEF Closes
      <4>3. file'[q].full = FALSE \/ file'[q].full = file[q].full
        BY <4>1, <4>2 DEF Closes, Alters
      <4>4. QED
        BY <4>3, <1>c
    <3>8. QED
      BY <2>2, <3>1, <3>2, <3>3, <3>4, <3>5, <3>6, <3>7 DEF Work, Idles
  <2>3. QED
    BY <2>1, <2>2 DEF LogNext
<1>3. QED
  BY <1>1, <1>2

(* Nothing is written and no file is there when the program starts.        *)
LEMMA SoundInit == LogInit => KeptInv /\ Bounded
<1> SUFFICES ASSUME LogInit PROVE KeptInv /\ Bounded
  OBVIOUS
<1>1. written = {} /\ inode = <<>> /\ \A s \in FileSlot : ~file[s].full
  BY DEF LogInit, Unused
<1>2. QED
  BY <1>1 DEF KeptInv, Bounded

(* KeptInv is what KeptAll says.                                           *)
LEMMA KeptIs == LogTypeOK /\ KeptInv => KeptAll
<1> SUFFICES ASSUME LogTypeOK, KeptInv, program.split, Sane, unlinked = 0, NEW w \in written
             PROVE  /\ w[2] \in DOMAIN inode /\ inode[w[2]].size >= w[3]
                    /\ \E k \in 0..(1 + MaxPart) : dir[<<w[1], k>>] = w[2]
  BY DEF KeptAll
<1>1. Kept(w)
  BY DEF KeptInv
<1>2. DOMAIN inode = 1..Len(inode)
  <2>1. inode \in Seq(Inode)
    BY DEF LogTypeOK, Inode
  <2>2. QED
    BY <2>1
<1>3. PICK x \in Path : x[1] = w[1] /\ dir[x] = w[2]
  BY <1>1 DEF Kept
<1>4. x = <<x[1], x[2]>> /\ x[2] \in 0..(1 + MaxPart)
  BY DEF Path
<1>5. QED
  BY <1>1, <1>2, <1>3, <1>4 DEF Kept

(* However many threads write and rotate, no log file reaches max_size and *)
(* none is marked full; and with UL_LOGSIZESPLIT every entry printed stays *)
(* under a name of its log.                                                *)
THEOREM FilesAlwaysSound == LogSpec => []FilesSound
<1>1. LogInit => FileInv /\ KeptInv /\ Bounded
  BY FileInit, SoundInit
<1>2. FileInv /\ KeptInv /\ Bounded /\ [LogNext]_logVars => FileInv' /\ KeptInv' /\ Bounded'
  <2>1. ASSUME FileInv, KeptInv, Bounded, LogNext
        PROVE  FileInv' /\ KeptInv' /\ Bounded'
    BY <2>1, FileStep, KeptStep, BoundedStep
  <2>2. ASSUME FileInv, KeptInv, Bounded, UNCHANGED logVars
        PROVE  FileInv' /\ KeptInv' /\ Bounded'
    <3>0. /\ UNCHANGED <<program, file, dir, inode, unlinked, written, stolen, raced>>
          /\ FileSlot' = FileSlot /\ Path' = Path
      BY <2>2 DEF logVars, calls, FileSlot, Path
    <3>1. KeptInv'
      BY <2>2, <3>0 DEF KeptInv, Kept, Sane
    <3>2. Bounded'
      BY <2>2, <3>0 DEF Bounded, Sane
    <3>3. QED
      BY <2>2, <3>1, <3>2, FileStep
  <2>3. QED
    BY <2>1, <2>2
<1>3. FileInv /\ KeptInv /\ Bounded => FilesSound
  <2>1. FileInv => LogTypeOK
    BY DEF FileInv, HeldInv
  <2>2. QED
    BY <2>1, KeptIs DEF FilesSound
<1>4. QED
  BY <1>1, <1>2, <1>3, PTL DEF LogSpec
-----------------------------------------------------------------------------
(* The table in shared memory.                                             *)

\* Where a process can be.
Place == {"off", "attach", "wait", "claim", "sign", "post", "open", "cwait", "cctrl", "cdata",
          "cpost"}

(* The semaphore and what SEM_UNDO would add to it belong together: it is  *)
(* 1 while nothing is to be undone, and otherwise exactly one process has  *)
(* something to undo.  A process that found the table full keeps its 1     *)
(* outside the locked part, so the parts of SemKept alone do not do.       *)
SemInv ==
    /\ sem \in {-1, 0, 1} /\ adj \in [Proc -> {0, 1}] /\ pc \in [Proc -> Place]
    /\ apc \in {"none", "semget", "semop", "cleanctrl", "cleandata", "done", "free", "wipe"}
    /\ apc \in {"none", "semget"} => sem = -1
    /\ apc = "semop" => sem = 0
    /\ apc \in {"none", "semget", "semop"} => \A p \in Proc : adj[p] = 0
    /\ apc \notin {"none", "semget", "semop"} => sem \in {0, 1}
    /\ apc \notin {"none", "semget", "semop"} /\ sem = 0 => \E p \in Proc : adj[p] = 1
    /\ sem = 1 => \A p \in Proc : adj[p] = 0
    /\ \A p, q \in Proc : adj[p] = 1 /\ adj[q] = 1 => p = q
    /\ \A p \in Proc : Inside(p) => adj[p] = 1
    /\ \A p \in Proc : pc[p] \in {"off", "attach", "wait"} => adj[p] = 0

(* What the semaphore is worth follows. *)
LEMMA SemInvKept == SemInv => SemKept
<1> SUFFICES ASSUME SemInv PROVE SemKept
  OBVIOUS
<1>1. ASSUME NEW p \in Proc, NEW q \in Proc, p # q, Inside(p) PROVE adj[q] = 0
  BY <1>1 DEF SemInv
<1>2. \A p \in Proc : Inside(p) => adj[p] = 1
  BY DEF SemInv
<1>3. ASSUME apc \notin {"none", "semget", "semop"}
      PROVE  sem = IF \E p \in Proc : adj[p] = 1 THEN 0 ELSE 1
  BY <1>3 DEF SemInv
<1> QED BY <1>1, <1>2, <1>3 DEF SemKept

(* Before the semaphore exists nothing is to be undone. *)
LEMMA SemInit == Init => SemInv
BY DEF Init, SemInv, Inside, Place

(* The administration's only steps on the semaphore create it and post it  *)
(* once, before any process can have taken it.                             *)
LEMMA AdminSem == SemInv /\ (Admin \/ \E n \in Name : cleanshm(n)) => SemInv'
<1> SUFFICES ASSUME SemInv, Admin \/ \E n \in Name : cleanshm(n) PROVE SemInv'
  OBVIOUS
<1>1. CASE CreateShm
  BY <1>1 DEF CreateShm, SemInv, proc, Inside
<1>2. CASE CreateSem
  BY <1>2 DEF CreateSem, SemInv, proc, Inside
<1>3. CASE FirstPost
  BY <1>3 DEF FirstPost, SemInv, proc, Inside
<1>4. CASE CleanAllCtrl \/ CleanAllData
  BY <1>4 DEF CleanAllCtrl, CleanAllData, SemInv, proc, Inside
<1>5. CASE CleanCtrl \/ CleanData \/ \E n \in Name : cleanshm(n)
  BY <1>5 DEF CleanCtrl, CleanData, cleanshm, SemInv, proc, Inside
<1> QED BY <1>1, <1>2, <1>3, <1>4, <1>5 DEF Admin

(* A process that moves without touching the semaphore, and not into the   *)
(* locked part or out of it, keeps SemInv.                                 *)
LEMMA MovesSem ==
    ASSUME SemInv, NEW p \in Proc, NEW where \in Place, Goto(p, where),
           sem' = sem, adj' = adj, apc' = apc,
           where \in {"claim", "sign", "post", "cctrl", "cdata", "cpost"} => Inside(p),
           where \in {"off", "attach", "wait"} => adj[p] = 0
    PROVE  SemInv'
<1>1. pc' \in [Proc -> Place] /\ pc'[p] = where /\ \A q \in Proc : q # p => pc'[q] = pc[q]
  BY DEF SemInv, Goto
<1>2. \A q \in Proc : Inside(q)' => adj'[q] = 1
  BY <1>1 DEF SemInv, Inside
<1>3. \A q \in Proc : pc'[q] \in {"off", "attach", "wait"} => adj'[q] = 0
  BY <1>1 DEF SemInv
<1> QED BY <1>1, <1>2, <1>3 DEF SemInv

(* A process takes the semaphore only while nobody has anything to undo,   *)
(* and what it then has to undo is what it took.                           *)
LEMMA AcquireSem == ASSUME SemInv, NEW p \in Proc, Acquire(p) PROVE SemInv'
<1>1. /\ sem = 1 /\ sem' = 0 /\ adj' = [adj EXCEPT ![p] = @ + 1] /\ apc' = apc
      /\ pc[p] \in {"wait", "cwait"}
  BY DEF Acquire, SemInv, rest
<1>2. \A q \in Proc : adj[q] = 0
  BY <1>1 DEF SemInv
<1>3. adj' \in [Proc -> {0, 1}] /\ adj'[p] = 1 /\ \A q \in Proc : q # p => adj'[q] = 0
  BY <1>1, <1>2 DEF SemInv
<1>4. PICK where \in {"claim", "cctrl"} : pc' = [pc EXCEPT ![p] = where]
  BY Zenon DEF Acquire, Goto
<1>5. pc' \in [Proc -> Place] /\ pc'[p] = where /\ \A q \in Proc : q # p => pc'[q] = pc[q]
  BY <1>4 DEF SemInv, Place
<1>6. \A q \in Proc : q # p => ~Inside(q)
  BY <1>2 DEF SemInv
<1>7. \A q \in Proc : Inside(q)' => adj'[q] = 1
  BY <1>3, <1>5, <1>6 DEF Inside
<1>8. \A q \in Proc : pc'[q] \in {"off", "attach", "wait"} => adj'[q] = 0
  BY <1>3, <1>4, <1>5
<1>9. apc \notin {"none", "semget", "semop"}
  BY <1>1 DEF SemInv
<1>10. apc' \in {"cleanctrl", "cleandata", "done", "free", "wipe"}
  BY <1>1, <1>9 DEF SemInv
<1> QED BY <1>1, <1>3, <1>5, <1>7, <1>8, <1>10 DEF SemInv

(* Giving back one's own 1, by a post or by dying, leaves nothing to undo. *)
LEMMA GiveBackSem ==
    ASSUME SemInv, NEW p \in Proc, NEW where \in {"open", "off"}, Goto(p, where),
           sem' = sem + adj[p], adj' = [adj EXCEPT ![p] = 0], apc' = apc
    PROVE  SemInv'
<1>1. pc' \in [Proc -> Place] /\ pc'[p] = where /\ \A q \in Proc : q # p => pc'[q] = pc[q]
  BY DEF SemInv, Goto, Place
<1>2. adj' \in [Proc -> {0, 1}] /\ adj'[p] = 0 /\ \A q \in Proc : q # p => adj'[q] = adj[q]
  BY DEF SemInv
<1>3. \A q \in Proc : Inside(q)' => adj'[q] = 1
  BY <1>1, <1>2 DEF SemInv, Inside
<1>4. \A q \in Proc : pc'[q] \in {"off", "attach", "wait"} => adj'[q] = 0
  BY <1>1, <1>2 DEF SemInv
<1>5. CASE adj[p] = 0
  <2>1. adj' = adj /\ sem' = sem
    BY <1>5 DEF SemInv
  <2> QED BY <2>1, <1>1, <1>3, <1>4 DEF SemInv
<1>6. CASE adj[p] = 1
  <2>1. apc \notin {"none", "semget", "semop"} /\ sem = 0 /\ sem' = 1
    BY <1>6 DEF SemInv
  <2>2. \A q \in Proc : adj'[q] = 0
    BY <1>2, <1>6 DEF SemInv
  <2> QED BY <1>1, <1>2, <1>3, <1>4, <2>1, <2>2 DEF SemInv
<1> QED BY <1>5, <1>6 DEF SemInv

(* A step of a process. *)
LEMMA ProcSem ==
    ASSUME SemInv, NEW p \in Proc,
           \/ Call(p) \/ Acquire(p) \/ closelog(p) \/ Die(p)
           \/ \E n \in Name : openlog(p, n)
           \/ \E x \in Item : assign(p, x) \/ setval(p, x) \/ addval(p, x)
    PROVE  SemInv'
<1>1. CASE Attach(p)
  <2>1. sem' = sem /\ adj' = adj /\ apc' = apc
    BY <1>1 DEF Attach, rest
  <2>2. pc[p] = "attach" /\ \E where \in {"wait", "open"} : Goto(p, where)
    BY <1>1, Zenon DEF Attach
  <2>3. adj[p] = 0
    BY <2>2 DEF SemInv
  <2> QED BY <2>1, <2>2, <2>3, MovesSem DEF Place
<1>2. CASE Claim(p)
  <2>1. sem' = sem /\ adj' = adj /\ apc' = apc /\ Inside(p)
    BY <1>2 DEF Claim, rest, Inside
  <2>2. \E where \in {"sign", "open"} : Goto(p, where)
    BY <1>2, Zenon DEF Claim
  <2> QED BY <2>1, <2>2, MovesSem DEF Place
<1>11. CASE Sign(p)
  <2>1. sem' = sem /\ adj' = adj /\ apc' = apc /\ Inside(p) /\ Goto(p, "post")
    BY <1>11 DEF Sign, rest, Inside
  <2> QED BY <2>1, MovesSem DEF Place
<1>3. CASE Post(p)
  <2>1. pc[p] \in {"post", "cpost"} /\ apc' = apc
    BY <1>3 DEF Post, rest
  <2>2. adj[p] = 1
    BY <2>1 DEF SemInv, Inside
  <2>3. sem' = sem + adj[p] /\ adj' = [adj EXCEPT ![p] = 0]
    BY <1>3, <2>2 DEF Post
  <2>4. \E where \in {"open", "off"} : Goto(p, where)
    BY <1>3, Zenon DEF Post
  <2> QED BY <2>1, <2>3, <2>4, GiveBackSem
<1>4. CASE CloseCtrl(p)
  <2>1. sem' = sem /\ adj' = adj /\ apc' = apc /\ Inside(p) /\ Goto(p, "cdata")
    BY <1>4 DEF CloseCtrl, rest, Inside
  <2> QED BY <2>1, MovesSem DEF Place
<1>5. CASE CloseData(p)
  <2>1. sem' = sem /\ adj' = adj /\ apc' = apc /\ Inside(p) /\ Goto(p, "cpost")
    BY <1>5 DEF CloseData, rest, Inside
  <2> QED BY <2>1, MovesSem DEF Place
<1>6. CASE Acquire(p)
  BY <1>6, AcquireSem
<1>7. CASE closelog(p)
  <2>1. sem' = sem /\ adj' = adj /\ apc' = apc
    BY <1>7 DEF closelog, rest
  <2>2. CASE sem >= 0
    <3>1. Goto(p, "cwait")
      BY <1>7, <2>2 DEF closelog
    <3> QED BY <2>1, <3>1, MovesSem DEF Place
  <2>3. CASE ~(sem >= 0)
    <3>1. Goto(p, "off")
      BY <1>7, <2>3 DEF closelog
    <3>2. adj[p] = 0
      BY <2>3 DEF SemInv
    <3> QED BY <2>1, <3>1, <3>2, MovesSem DEF Place
  <2> QED BY <2>2, <2>3
<1>8. CASE Die(p)
  <2>1. sem' = sem + adj[p] /\ adj' = [adj EXCEPT ![p] = 0] /\ apc' = apc /\ Goto(p, "off")
    BY <1>8 DEF Die
  <2> QED BY <2>1, GiveBackSem
<1>9. CASE \E n \in Name : openlog(p, n)
  <2>1. sem' = sem /\ adj' = adj /\ apc' = apc /\ Goto(p, "attach") /\ pc[p] = "off"
    BY <1>9 DEF openlog
  <2>2. adj[p] = 0
    BY <2>1 DEF SemInv
  <2> QED BY <2>1, <2>2, MovesSem DEF Place
<1>10. CASE \E x \in Item : assign(p, x) \/ setval(p, x) \/ addval(p, x)
  <2>1. sem' = sem /\ adj' = adj /\ apc' = apc /\ pc' = pc
    BY <1>10 DEF assign, setval, addval, Set, proc
  <2> QED BY <2>1 DEF SemInv, Inside
<1> QED BY <1>1, <1>2, <1>3, <1>4, <1>5, <1>6, <1>7, <1>8, <1>9, <1>10, <1>11 DEF Call

(* Every step keeps the semaphore. *)
LEMMA NextSem == SemInv /\ [Next]_vars => SemInv'
<1> SUFFICES ASSUME SemInv, [Next]_vars PROVE SemInv'
  OBVIOUS
<1>1. CASE UNCHANGED vars
  BY <1>1 DEF vars, proc, SemInv, Inside
<1>2. CASE Next
  <2>1. CASE Quiet
    BY <2>1, <1>1 DEF Quiet
  <2> QED BY <1>2, <2>1, AdminSem, ProcSem DEF Next
<1> QED BY <1>1, <1>2

(* However processes die between the two semop() of ul_openshm and         *)
(* ul_closeshm, and however many there are, the semaphore stays what it    *)
(* must be.                                                                *)
THEOREM SemaphoreKept == Spec => []SemKept
<1>1. Init => SemInv
  BY SemInit
<1>2. SemInv /\ [Next]_vars => SemInv'
  BY NextSem
<1>3. SemInv => SemKept
  BY SemInvKept
<1> QED BY <1>1, <1>2, <1>3, PTL DEF Spec
-----------------------------------------------------------------------------
(* The table's names, and the name under which a process claims a slot,    *)
(* are of their types, and a process about to sign a slot finds its name   *)
(* in no other; with that UniqueName is inductive.                         *)
Live == {"attach", "wait", "claim", "sign"}
Signing ==
    \A p \in Proc : pc[p] = "sign" =>
        cp[p] \in Slot /\ \A s \in Slot : ctrl[s] = name[p] => s = cp[p]
NameInv ==
    /\ ctrl \in [Slot -> Name \cup {Null, Zero}] /\ name \in [Proc -> Name \cup {Zero}]
    /\ pc \in [Proc -> Place] /\ cp \in [Proc -> Slot \cup {0}]
    /\ \A p \in Proc : pc[p] \in Live => name[p] \in Name
    /\ Signing
    /\ UniqueName

(* The memory of a new segment holds no name. *)
LEMMA NameInit == Init => NameInv
BY NamesAssumption DEF Init, NameInv, UniqueName, Signing, Slot, Place, Live

(* A step that frees slots, or leaves the table, keeps names unique. *)
LEMMA FreedNames ==
    ASSUME NameInv, setup' = setup, ctrl' \in [Slot -> Name \cup {Null, Zero}],
           \A s \in Slot : ctrl'[s] = ctrl[s] \/ ctrl'[s] = Null,
           \A q \in Proc : pc'[q] = "sign" =>
               pc[q] = "sign" /\ cp'[q] = cp[q] /\ name'[q] = name[q]
    PROVE  UniqueName' /\ Signing'
<1>1. Slot' = Slot
  BY DEF Slot
<1>2. UniqueName'
  BY <1>1, NamesAssumption DEF NameInv, UniqueName
<1>3. ASSUME NEW q \in Proc, pc'[q] = "sign"
      PROVE  cp'[q] \in Slot /\ \A s \in Slot : ctrl'[s] = name'[q] => s = cp'[q]
  <2>1. /\ pc[q] = "sign" /\ cp'[q] = cp[q] /\ name'[q] = name[q] /\ name[q] # Null
    BY <1>3, NamesAssumption DEF NameInv, Live
  <2> QED BY <2>1 DEF NameInv, Signing
<1> QED BY <1>1, <1>2, <1>3 DEF Signing

(* The administration only frees slots. *)
LEMMA AdminNames == NameInv /\ (Admin \/ \E n \in Name : cleanshm(n)) => NameInv'
<1> SUFFICES ASSUME NameInv, Admin \/ \E n \in Name : cleanshm(n) PROVE NameInv'
  OBVIOUS
<1>1. setup' = setup /\ pc' = pc /\ name' = name /\ cp' = cp /\ Slot' = Slot
  BY DEF Admin, CreateShm, CreateSem, FirstPost, CleanAllCtrl, CleanAllData, CleanCtrl,
         CleanData, cleanshm, proc, Slot
<1>2. /\ ctrl' \in [Slot -> Name \cup {Null, Zero}]
      /\ \A s \in Slot : ctrl'[s] = ctrl[s] \/ ctrl'[s] = Null
  <2>1. CASE CleanAllCtrl
    BY <2>1 DEF CleanAllCtrl
  <2>2. CASE CleanCtrl
    BY <2>2 DEF CleanCtrl, NameInv
  <2>3. CASE \/ CreateShm \/ CreateSem \/ FirstPost \/ CleanAllData \/ CleanData
             \/ \E n \in Name : cleanshm(n)
    BY <2>3 DEF CreateShm, CreateSem, FirstPost, CleanAllData, CleanData, cleanshm, table, NameInv
  <2> QED BY <2>1, <2>2, <2>3 DEF Admin
<1>3. UniqueName' /\ Signing'
  BY <1>1, <1>2, FreedNames
<1> QED BY <1>1, <1>2, <1>3 DEF NameInv

(* Whoever claims a slot will write a name that is nowhere else: its own   *)
(* slot if it has one, and a free one only if it has none.                 *)
LEMMA ClaimNames == ASSUME SemInv, NameInv, NEW p \in Proc, Claim(p) PROVE NameInv'
<1>1. /\ setup' = setup /\ name' = name /\ ctrl' = ctrl /\ pc[p] = "claim" /\ Slot' = Slot
      /\ \E where \in {"sign", "open"} : pc' = [pc EXCEPT ![p] = where]
  BY Zenon DEF Claim, rest, Slot, Goto
<1>2. name[p] \in Name
  BY <1>1 DEF NameInv, Live
<1>3. /\ pc' \in [Proc -> Place] /\ \A q \in Proc : pc'[q] \in Live => name'[q] \in Name
      /\ \A q \in Proc : q # p => pc'[q] = pc[q]
  BY <1>1, <1>2 DEF NameInv, Place, Live
<1>4. UniqueName'
  BY <1>1 DEF NameInv, UniqueName
<1>5. \A q \in Proc : q # p => pc[q] # "sign"
  BY <1>1 DEF SemInv, Inside
<1>6. CASE Goto(p, "open") /\ cp' = cp
  <2>1. \A q \in Proc : pc'[q] # "sign"
    BY <1>1, <1>3, <1>5, <1>6 DEF Goto, NameInv
  <2> QED BY <1>1, <1>3, <1>4, <1>6, <2>1 DEF NameInv, Signing
<1>7. ASSUME NEW s \in Slot, First(s, IF Own(p) # {} THEN Own(p) ELSE FreeSlots),
             cp' = [cp EXCEPT ![p] = s]
      PROVE  NameInv'
  <2>1. \A r \in Slot : ctrl[r] = name[p] => r = s
    <3>1. CASE Own(p) # {}
      <4>1. ctrl[s] = name[p]
        BY <1>7, <3>1 DEF First, Own
      <4> QED BY <4>1, <1>2 DEF NameInv, UniqueName
    <3>2. CASE Own(p) = {}
      BY <3>2 DEF Own
    <3> QED BY <3>1, <3>2
  <2>2. cp' \in [Proc -> Slot \cup {0}] /\ cp'[p] = s
    BY <1>7 DEF NameInv
  <2>3. Signing'
    BY <1>1, <1>3, <1>5, <2>1, <2>2 DEF Signing
  <2> QED BY <1>1, <1>3, <1>4, <2>2, <2>3 DEF NameInv
<1> QED BY <1>6, <1>7 DEF Claim

(* Whoever signs writes its name where it is or nowhere else. *)
LEMMA SignNames == ASSUME SemInv, NameInv, NEW p \in Proc, Sign(p) PROVE NameInv'
<1>1. /\ setup' = setup /\ name' = name /\ cp' = cp /\ pc[p] = "sign" /\ Slot' = Slot
      /\ pc' = [pc EXCEPT ![p] = "post"] /\ ctrl' = [ctrl EXCEPT ![cp[p]] = name[p]]
  BY DEF Sign, rest, Slot, Goto
<1>2. name[p] \in Name /\ cp[p] \in Slot /\ \A s \in Slot : ctrl[s] = name[p] => s = cp[p]
  BY <1>1 DEF NameInv, Live, Signing
<1>3. /\ ctrl' \in [Slot -> Name \cup {Null, Zero}] /\ ctrl'[cp[p]] = name[p]
      /\ \A r \in Slot : r # cp[p] => ctrl'[r] = ctrl[r]
  BY <1>1, <1>2 DEF NameInv
<1>4. UniqueName'
  BY <1>1, <1>2, <1>3 DEF NameInv, UniqueName
<1>5. \A q \in Proc : q # p => pc[q] # "sign"
  BY <1>1 DEF SemInv, Inside
<1>6. /\ pc' \in [Proc -> Place] /\ \A q \in Proc : pc'[q] # "sign"
      /\ \A q \in Proc : pc'[q] \in Live => name'[q] \in Name
  BY <1>1, <1>5 DEF NameInv, Place, Live
<1> QED BY <1>1, <1>3, <1>4, <1>6 DEF NameInv, Signing

(* Any other step of a process leaves the table's names or frees a slot. *)
LEMMA ProcNames ==
    ASSUME SemInv, NameInv, NEW p \in Proc,
           \/ Call(p) \/ Acquire(p) \/ closelog(p) \/ Die(p)
           \/ \E n \in Name : openlog(p, n)
           \/ \E x \in Item : assign(p, x) \/ setval(p, x) \/ addval(p, x)
    PROVE  NameInv'
<1>1. ASSUME NEW where \in Place, Goto(p, where), UNCHANGED <<setup, ctrl, name, cp>>,
             where \in Live => pc[p] \in Live, where # "sign"
      PROVE  NameInv'
  <2>1. pc' \in [Proc -> Place] /\ pc'[p] = where /\ \A q \in Proc : q # p => pc'[q] = pc[q]
    BY <1>1 DEF NameInv, Goto
  <2>2. \A q \in Proc : pc'[q] \in Live => name'[q] \in Name
    BY <1>1, <2>1 DEF NameInv
  <2>3. UniqueName' /\ Signing'
    <3>1. ctrl \in [Slot -> Name \cup {Null, Zero}]
      BY DEF NameInv
    <3> QED BY <1>1, <2>1, <3>1, FreedNames
  <2> QED BY <1>1, <2>1, <2>2, <2>3 DEF NameInv, Slot
<1>2. CASE Attach(p)
  <2>1. name' = name /\ setup' = setup /\ ctrl' = ctrl /\ cp' = cp /\ pc[p] \in Live
    BY <1>2 DEF Attach, rest, Live
  <2>2. \E where \in {"wait", "open"} : Goto(p, where)
    BY <1>2, Zenon DEF Attach
  <2> QED BY <1>1, <2>1, <2>2 DEF Place
<1>3. CASE Claim(p) \/ Sign(p)
  BY <1>3, ClaimNames, SignNames
<1>4. CASE Post(p)
  <2>1. name' = name /\ setup' = setup /\ ctrl' = ctrl /\ cp' = cp
    BY <1>4 DEF Post, rest, table
  <2>2. \E where \in {"open", "off"} : Goto(p, where)
    BY <1>4, Zenon DEF Post
  <2> QED BY <1>1, <2>1, <2>2 DEF Place, Live
<1>5. CASE CloseCtrl(p)
  <2>1. /\ name' = name /\ setup' = setup
        /\ pc' \in [Proc -> Place] /\ pc'[p] = "cdata" /\ \A q \in Proc : q # p => pc'[q] = pc[q]
    BY <1>5 DEF CloseCtrl, rest, Goto, NameInv, Place
  <2>2. /\ ctrl' \in [Slot -> Name \cup {Null, Zero}]
        /\ \A s \in Slot : ctrl'[s] = ctrl[s] \/ ctrl'[s] = Null
    BY <1>5 DEF CloseCtrl, NameInv
  <2>3. cp' \in [Proc -> Slot \cup {0}] /\ \A q \in Proc : q # p => cp'[q] = cp[q]
    BY <1>5 DEF CloseCtrl, NameInv
  <2>4. UniqueName' /\ Signing'
    BY <2>1, <2>2, <2>3, FreedNames
  <2> QED BY <2>1, <2>2, <2>3, <2>4 DEF NameInv, Slot, Live
<1>6. CASE CloseData(p)
  <2>1. name' = name /\ setup' = setup /\ ctrl' = ctrl /\ cp' = cp /\ Goto(p, "cpost")
    BY <1>6 DEF CloseData, rest
  <2> QED BY <1>1, <2>1 DEF Place, Live
<1>7. CASE Acquire(p)
  <2>1. name' = name /\ setup' = setup /\ ctrl' = ctrl /\ cp' = cp
    BY <1>7 DEF Acquire, rest, table
  <2>2. CASE pc[p] = "wait"
    <3>1. Goto(p, "claim")
      BY <1>7, <2>2 DEF Acquire
    <3> QED BY <1>1, <2>1, <2>2, <3>1 DEF Place, Live
  <2>3. CASE pc[p] = "cwait"
    <3>1. Goto(p, "cctrl")
      BY <1>7, <2>3 DEF Acquire
    <3> QED BY <1>1, <2>1, <3>1 DEF Place, Live
  <2> QED BY <1>7, <2>2, <2>3 DEF Acquire
<1>8. CASE closelog(p)
  <2>1. name' = name /\ setup' = setup /\ ctrl' = ctrl /\ cp' = cp
    BY <1>8 DEF closelog, rest, table
  <2>2. \E where \in {"cwait", "off"} : Goto(p, where)
    BY <1>8, Zenon DEF closelog
  <2> QED BY <1>1, <2>1, <2>2 DEF Place, Live
<1>9. CASE Die(p)
  <2>1. setup' = setup /\ ctrl' = ctrl
    BY <1>9 DEF Die, table
  <2>2. /\ pc' \in [Proc -> Place] /\ pc'[p] = "off"
        /\ \A q \in Proc : q # p => pc'[q] = pc[q]
    BY <1>9 DEF Die, NameInv, Place, Goto
  <2>3. /\ name' \in [Proc -> Name \cup {Zero}]
        /\ \A q \in Proc : q # p => name'[q] = name[q]
    BY <1>9 DEF Die, NameInv
  <2>4. \A q \in Proc : pc'[q] \in Live => name'[q] \in Name
    BY <2>2, <2>3 DEF NameInv, Live
  <2>5. cp' \in [Proc -> Slot \cup {0}] /\ \A q \in Proc : q # p => cp'[q] = cp[q]
    BY <1>9 DEF Die, NameInv
  <2>6. UniqueName' /\ Signing'
    <3>1. ctrl \in [Slot -> Name \cup {Null, Zero}]
      BY DEF NameInv
    <3> QED BY <2>1, <2>2, <2>3, <2>5, <3>1, FreedNames
  <2> QED BY <2>1, <2>2, <2>3, <2>4, <2>5, <2>6 DEF NameInv, Slot
<1>10. CASE \E n \in Name : openlog(p, n)
  <2>1. PICK n \in Name : openlog(p, n)
    BY <1>10
  <2>2. setup' = setup /\ ctrl' = ctrl /\ cp' = cp
    BY <2>1 DEF openlog, table
  <2>3. pc' \in [Proc -> Place] /\ pc'[p] = "attach" /\ \A q \in Proc : q # p => pc'[q] = pc[q]
    BY <2>1 DEF openlog, NameInv, Place, Goto
  <2>4. /\ name' \in [Proc -> Name \cup {Zero}] /\ name'[p] = n
        /\ \A q \in Proc : q # p => name'[q] = name[q]
    BY <2>1 DEF openlog, NameInv
  <2>5. \A q \in Proc : pc'[q] \in Live => name'[q] \in Name
    BY <2>3, <2>4 DEF NameInv
  <2>6. UniqueName' /\ Signing'
    <3>1. ctrl \in [Slot -> Name \cup {Null, Zero}]
      BY DEF NameInv
    <3> QED BY <2>2, <2>3, <2>4, <3>1, FreedNames
  <2> QED BY <2>2, <2>3, <2>4, <2>5, <2>6 DEF NameInv, Slot
<1>11. CASE \E x \in Item : assign(p, x) \/ setval(p, x) \/ addval(p, x)
  <2>1. name' = name /\ setup' = setup /\ ctrl' = ctrl /\ cp' = cp /\ pc' = pc
    BY <1>11 DEF assign, setval, addval, Set, proc
  <2> QED BY <2>1 DEF NameInv, UniqueName, Signing, Slot
<1> QED BY <1>2, <1>3, <1>4, <1>5, <1>6, <1>7, <1>8, <1>9, <1>10, <1>11 DEF Call

(* Every step keeps names unique. *)
LEMMA NextNames == SemInv /\ NameInv /\ [Next]_vars => NameInv'
<1> SUFFICES ASSUME SemInv, NameInv, [Next]_vars PROVE NameInv'
  OBVIOUS
<1>1. CASE UNCHANGED vars
  BY <1>1 DEF vars, proc, NameInv, UniqueName, Signing, Slot
<1>2. CASE Next
  <2>1. CASE Quiet
    BY <2>1, <1>1 DEF Quiet
  <2> QED BY <1>2, <2>1, AdminNames, ProcNames DEF Next
<1> QED BY <1>1, <1>2

(* A monitor finds at most one entry of a name, whatever processes start,  *)
(* crash and start again under it, in a table of any size.                 *)
THEOREM NamesUnique == Spec => []UniqueName
<1>1. Init => SemInv /\ NameInv
  BY SemInit, NameInit
<1>2. (SemInv /\ NameInv) /\ [Next]_vars => (SemInv /\ NameInv)'
  BY NextSem, NextNames
<1>3. SemInv /\ NameInv => UniqueName
  BY DEF NameInv
<1> QED BY <1>1, <1>2, <1>3, PTL DEF Spec
-----------------------------------------------------------------------------
(* A nonempty set of natural numbers has a least member, which is its Min. *)
LEMMA LeastNat ==
    ASSUME NEW S \in SUBSET Nat, S # {}
    PROVE  Min(S) \in S /\ \A y \in S : Min(S) <= y
<1> DEFINE R == {ss \in Nat \X Nat : ss[1] < ss[2]}
<1>1. OpToRel(<,Nat) = R
  BY Zenon DEF OpToRel
<1>2. \E x \in S : \A y \in S : ~(<<y, x>> \in R)
  BY <1>1, NatLessThanWellFounded, WFMin
<1>3. \E x \in S : \A y \in S : x <= y
  <2>1. \A a, b \in Nat : a < b => <<a, b>> \in R
    OBVIOUS
  <2> HIDE DEF R
  <2>2. PICK x \in S : \A y \in S : ~(<<y, x>> \in R)
    BY <1>2
  <2>3. \A y \in S : ~(y < x)
    BY <2>1, <2>2
  <2>4. \A y \in S : x <= y
    BY <2>3
  <2> QED BY <2>4
<1> QED BY <1>3 DEF Min

\* A process in one of these has its slot, if it got one.
Owning == {"sign", "post", "open", "cwait", "cctrl"}

\* The table has not been cleaned yet.
Making == {"none", "semget", "semop", "cleanctrl"}

\* What the bounds in TypeOK rest on.
Counts == \A p \in Proc : opens[p] <= opened /\ Len(mine[p]) <= NItems

(* ctrl_ptr and data_ptr go together, and a process outside of open and    *)
(* close has none: they are set in Claim and cleared on the way out.       *)
Pointers ==
    /\ \A p \in Proc : pc[p] \notin Owning \cup {"cdata"} => dp[p] = 0
    /\ \A p \in Proc : cp[p] = IF pc[p] \in Owning THEN dp[p] ELSE 0
    /\ \A p \in Proc : Alive(p) => name[p] \in Name
    /\ apc \in Making => /\ \A s \in Slot : ctrl[s] = Zero /\ Clean(s)
                         /\ \A p \in Proc : dp[p] = 0

(* What the slot a process' data_ptr leads to may carry: its name, before  *)
(* it has signed perhaps none yet, and between the two halves of           *)
(* ul_closeshm none; unless the name was removed under the process.        *)
Titles(p) == (IF pc[p] \in Owning THEN {name[p]} ELSE {Null})
                \cup (IF pc[p] = "sign" THEN {Null} ELSE {})
Owners ==
    "same" \notin setup.habits =>
        /\ \A p, q \in Proc : p # q /\ Alive(p) /\ Alive(q) => name[p] # name[q]
        /\ \A p \in Proc : dp[p] # 0 /\ dp[p] \notin robbed => ctrl[dp[p]] \in Titles(p)

\* One entry of item_str, and a slot's data.
Entry == [name : Item \cup {Null, Zero}, value : -1..MaxValue]
Row == [1..NItems -> Entry]

\* The slots, bounds and types that the setup gives.
LEMMA SameBounds ==
    ASSUME setup' = setup
    PROVE  Slot' = Slot /\ MaxOpens' = MaxOpens /\ MaxValue' = MaxValue /\ Row' = Row
BY DEF Slot, MaxOpens, MaxValue, Row, Entry

\* The setup never changes, nor what it gives.
LEMMA SameSetup ==
    ASSUME [Next]_vars PROVE setup' = setup /\ Slot' = Slot /\ MaxOpens' = MaxOpens
<1>1. setup' = setup
  <2>1. CASE Admin \/ \E n \in Name : cleanshm(n)
    BY <2>1 DEF Admin, CreateShm, CreateSem, FirstPost, CleanAllCtrl, CleanAllData, CleanCtrl,
                CleanData, cleanshm
  <2>2. CASE Quiet \/ UNCHANGED vars
    BY <2>2 DEF Quiet, vars
  <2>3. ASSUME NEW p \in Proc, Call(p) \/ Acquire(p) \/ closelog(p) \/ Die(p)
        PROVE  setup' = setup
    BY <2>3 DEF Call, Attach, Claim, Sign, Post, CloseCtrl, CloseData, Acquire, closelog, Die,
                rest
  <2>4. ASSUME NEW p \in Proc, \/ \E n \in Name : openlog(p, n)
                               \/ \E x \in Item : assign(p, x) \/ setval(p, x) \/ addval(p, x)
        PROVE  setup' = setup
    BY <2>4 DEF openlog, assign, setval, addval, Set
  <2> QED BY <2>1, <2>2, <2>3, <2>4 DEF Next
<1> QED BY <1>1, SameBounds

\* The setups' numbers.
LEMMA SetupNumbers ==
    ASSUME setup \in Setups
    PROVE  /\ setup.slots \in Nat \ {0} /\ MaxOpens \in Nat /\ MaxValue \in Nat
           /\ Slot = 1..setup.slots
BY SetupAssumption DEF MaxOpens, MaxValue, Slot

(* A cleaned slot is clean. *)
LEMMA EmptyClean == \A k \in 1..NItems : Empty[k].name \notin Item
BY NamesAssumption DEF Empty

(* A cleaned slot is of the right type. *)
LEMMA EmptyRow == setup \in Setups => Empty \in Row
BY SetupNumbers DEF Empty, Row, Entry

(* The parts of TypeOK that SemInv and NameInv leave, and that there is a  *)
(* slot to clean while one is being cleaned.                               *)
RestType ==
    /\ setup \in Setups /\ key \in BOOLEAN /\ cleaning \in 0..setup.slots
    /\ data \in [Slot -> Row]
    /\ cp \in [Proc -> 0..setup.slots] /\ dp \in [Proc -> 0..setup.slots]
    /\ mine \in [Proc -> Seq(Item)] /\ opens \in [Proc -> 0..MaxOpens]
    /\ opened \in 0..MaxOpens /\ want \in [Proc -> [Item -> 0..MaxValue]]
    /\ torn \subseteq Slot /\ robbed \subseteq Slot
    /\ apc \in {"free", "wipe"} => cleaning \in Slot
    /\ Counts

(* They make TypeOK. *)
LEMMA TypeFromParts == SemInv /\ NameInv /\ RestType => TypeOK
BY DEF SemInv, NameInv, RestType, TypeOK, Place, Row, Entry

(* And hold at first. *)
LEMMA RestTypeInit == Init => RestType
<1> SUFFICES ASSUME Init PROVE RestType
  OBVIOUS
<1>1. setup.slots \in Nat \ {0} /\ MaxOpens \in Nat /\ MaxValue \in Nat /\ setup \in Setups
  BY SetupNumbers DEF Init
<1>2. [k \in 1..NItems |-> [name |-> Zero, value |-> 0]] \in Row
  BY <1>1, BoundAssumption DEF Row, Entry
<1>3. /\ data \in [Slot -> Row] /\ key \in BOOLEAN /\ cleaning \in 0..setup.slots
      /\ torn \subseteq Slot /\ robbed \subseteq Slot /\ apc = "none"
  <2>1. key \in BOOLEAN
    BY DEF Init
  <2>2. /\ cleaning \in 0..setup.slots /\ torn \subseteq Slot /\ robbed \subseteq Slot
        /\ apc = "none"
    BY <1>1 DEF Init
  <2>3. data \in [Slot -> Row]
    BY <1>2 DEF Init
  <2> QED BY <2>1, <2>2, <2>3
<1>4. /\ cp \in [Proc -> 0..setup.slots] /\ dp \in [Proc -> 0..setup.slots]
      /\ opens \in [Proc -> 0..MaxOpens] /\ opened \in 0..MaxOpens
  BY <1>1 DEF Init
<1>5. mine \in [Proc -> Seq(Item)] /\ want \in [Proc -> [Item -> 0..MaxValue]]
  BY <1>1, BoundAssumption DEF Init
<1>6. Counts
  BY BoundAssumption DEF Init, Counts
<1> QED BY <1>1, <1>3, <1>4, <1>5, <1>6 DEF RestType

(* A step that changes the pointers, the items and the counts of nobody.   *)
LEMMA SameRest ==
    ASSUME RestType, UNCHANGED <<setup, cp, dp, mine, opens, opened, want>>,
           key' \in BOOLEAN, cleaning' \in 0..setup.slots, data' \in [Slot -> Row],
           torn' \subseteq Slot, robbed' \subseteq Slot,
           apc' \in {"free", "wipe"} => cleaning' \in Slot
    PROVE  RestType'
BY SameBounds DEF RestType, Counts

(* The administration's steps and those of calls keep types. *)
LEMMA AdminRest == RestType /\ (Admin \/ \E n \in Name : cleanshm(n)) => RestType'
<1> SUFFICES ASSUME RestType, Admin \/ \E n \in Name : cleanshm(n) PROVE RestType'
  OBVIOUS
<1>0. /\ UNCHANGED <<setup, cp, dp, mine, opens, opened, want>>
      /\ key \in BOOLEAN /\ cleaning \in 0..setup.slots /\ data \in [Slot -> Row]
      /\ torn \subseteq Slot /\ robbed \subseteq Slot /\ Empty \in Row
      /\ setup.slots \in Nat /\ Slot = 1..setup.slots
      /\ apc \in {"free", "wipe"} => cleaning \in Slot
  BY EmptyRow, SetupNumbers
     DEF Admin, CreateShm, CreateSem, FirstPost, CleanAllCtrl, CleanAllData, CleanCtrl, CleanData,
         cleanshm, proc, RestType
<1>1. key' \in BOOLEAN
  <2>1. key' = TRUE \/ key' = key
    BY DEF Admin, CreateShm, CreateSem, FirstPost, CleanAllCtrl, CleanAllData, CleanCtrl,
           CleanData, cleanshm, table
  <2> QED BY <2>1, <1>0
<1>2. /\ cleaning' \in 0..setup.slots /\ torn' \subseteq Slot /\ robbed' \subseteq Slot
      /\ apc' \in {"free", "wipe"} => cleaning' \in Slot
  <2>1. CASE \E n \in Name : cleanshm(n)
    BY <2>1, <1>0 DEF cleanshm
  <2>2. CASE CleanCtrl
    BY <2>2, <1>0 DEF CleanCtrl
  <2>3. CASE CleanData
    BY <2>3, <1>0 DEF CleanData
  <2>4. CASE CreateShm \/ CreateSem \/ FirstPost \/ CleanAllCtrl \/ CleanAllData
    <3>1. UNCHANGED <<cleaning, torn, robbed>> /\ apc' \notin {"free", "wipe"}
      BY <2>4 DEF CreateShm, CreateSem, FirstPost, CleanAllCtrl, CleanAllData
    <3> QED BY <3>1, <1>0
  <2> QED BY <2>1, <2>2, <2>3, <2>4 DEF Admin
<1>3. data' \in [Slot -> Row]
  <2>1. \/ data' = data \/ data' = [s \in Slot |-> Empty]
        \/ data' = [data EXCEPT ![cleaning] = Empty]
    BY DEF Admin, CreateShm, CreateSem, FirstPost, CleanAllCtrl, CleanAllData, CleanCtrl,
           CleanData, cleanshm, table
  <2> QED BY <2>1, <1>0
<1> QED BY <1>0, <1>1, <1>2, <1>3, SameRest

(* The steps of a process keep types. *)
LEMMA ProcRest ==
    ASSUME RestType, NameInv, NEW p \in Proc,
           \/ Call(p) \/ Acquire(p) \/ closelog(p) \/ Die(p)
           \/ \E n \in Name : openlog(p, n)
           \/ \E x \in Item : assign(p, x) \/ setval(p, x) \/ addval(p, x)
    PROVE  RestType'
<1>0. /\ key \in BOOLEAN /\ cleaning \in 0..setup.slots /\ data \in [Slot -> Row]
      /\ torn \subseteq Slot /\ robbed \subseteq Slot /\ Empty \in Row
      /\ apc \in {"free", "wipe"} => cleaning \in Slot
      /\ setup.slots \in Nat /\ Slot = 1..setup.slots
  BY EmptyRow, SetupNumbers DEF RestType
<1>1. CASE Attach(p)
  <2>1. /\ UNCHANGED <<setup, apc, robbed, cp, dp, mine, opens, opened, want, cleaning, torn, data>>
    BY <1>1 DEF Attach, rest
  <2>2. key' \in BOOLEAN
    BY <1>0, <1>1, Zenon DEF Attach
  <2> QED BY <1>0, <2>1, <2>2, SameRest
<1>2. CASE Claim(p)
  <2>1. UNCHANGED <<setup, apc, robbed, mine, opens, opened, want, cleaning, torn, key>>
    BY <1>2 DEF Claim, rest
  <2>2. cp' \in [Proc -> 0..setup.slots] /\ dp' \in [Proc -> 0..setup.slots]
    <3>1. \/ \E s \in Slot : cp' = [cp EXCEPT ![p] = s] /\ dp' = [dp EXCEPT ![p] = s]
          \/ cp' = cp /\ dp' = dp
      BY <1>2 DEF Claim
    <3>2. cp \in [Proc -> 0..setup.slots] /\ dp \in [Proc -> 0..setup.slots]
      BY DEF RestType
    <3>3. ASSUME NEW s \in Slot, cp' = [cp EXCEPT ![p] = s], dp' = [dp EXCEPT ![p] = s]
          PROVE  cp' \in [Proc -> 0..setup.slots] /\ dp' \in [Proc -> 0..setup.slots]
      BY <1>0, <3>2, <3>3
    <3> QED BY <3>1, <3>2, <3>3
  <2>3. data' \in [Slot -> Row]
    <3>1. \/ data' = data \/ \E s \in Slot : data' = [data EXCEPT ![s] = Empty]
      BY <1>2 DEF Claim
    <3> QED BY <3>1, <1>0
  <2> QED BY <1>0, <2>1, <2>2, <2>3, SameBounds DEF RestType, Counts
<1>11. CASE Sign(p)
  <2>1. UNCHANGED <<setup, apc, robbed, cp, dp, mine, opens, opened, want, cleaning, torn, data, key>>
    BY <1>11 DEF Sign, rest
  <2> QED BY <1>0, <2>1, SameRest
<1>3. CASE Post(p) \/ Acquire(p) \/ closelog(p)
  <2>1. UNCHANGED <<setup, apc, robbed, cp, dp, mine, opens, opened, want, cleaning, torn, data, key>>
    BY <1>3 DEF Post, Acquire, closelog, rest, table
  <2> QED BY <1>0, <2>1, SameRest
<1>4. CASE CloseCtrl(p)
  <2>1. UNCHANGED <<setup, apc, robbed, dp, mine, opens, opened, want, cleaning, torn, data, key>>
    BY <1>4 DEF CloseCtrl, rest
  <2>2. cp' \in [Proc -> 0..setup.slots]
    BY <1>0, <1>4 DEF CloseCtrl, RestType
  <2> QED BY <1>0, <2>1, <2>2, SameBounds DEF RestType, Counts
<1>5. CASE CloseData(p)
  <2>1. UNCHANGED <<setup, apc, robbed, cp, mine, opens, opened, want, cleaning, torn, key>>
    BY <1>5 DEF CloseData, rest
  <2>2. dp' \in [Proc -> 0..setup.slots] /\ data' \in [Slot -> Row]
    <3>1. dp' = [dp EXCEPT ![p] = 0] /\ dp \in [Proc -> 0..setup.slots]
      BY <1>5 DEF CloseData, RestType
    <3>2. data' = data \/ data' = [data EXCEPT ![dp[p]] = Empty]
      BY <1>5 DEF CloseData
    <3>3. dp' \in [Proc -> 0..setup.slots]
      BY <1>0, <3>1
    <3>4. data \in [Slot -> Row] /\ Empty \in Row
      BY <1>0
    <3>5. data' \in [Slot -> Row]
      BY <3>2, <3>4
    <3> QED BY <3>3, <3>5
  <2> QED BY <1>0, <2>1, <2>2, SameBounds DEF RestType, Counts
<1>6. CASE Die(p)
  <2>1. UNCHANGED <<setup, apc, robbed, opened, cleaning, data, key>>
    BY <1>6 DEF Die, table
  <2>2. /\ cp' = [cp EXCEPT ![p] = 0] /\ dp' = [dp EXCEPT ![p] = 0]
        /\ mine' = [mine EXCEPT ![p] = <<>>] /\ opens' = [opens EXCEPT ![p] = 0]
        /\ want' = [want EXCEPT ![p] = [x \in Item |-> 0]]
        /\ torn' = torn \/ (dp[p] # 0 /\ torn' = torn \cup {dp[p]})
    BY <1>6 DEF Die
  <2>3. /\ cp' \in [Proc -> 0..setup.slots] /\ dp' \in [Proc -> 0..setup.slots]
        /\ torn' \subseteq Slot
    <3>1. cp \in [Proc -> 0..setup.slots] /\ dp \in [Proc -> 0..setup.slots]
      BY DEF RestType
    <3>2. cp' \in [Proc -> 0..setup.slots] /\ dp' \in [Proc -> 0..setup.slots]
      BY <1>0, <2>2, <3>1
    <3>3. torn' = torn \/ (dp[p] # 0 /\ torn' = torn \cup {dp[p]})
      BY <2>2
    <3>4. dp[p] # 0 => dp[p] \in Slot
      BY <1>0, <3>1
    <3>5. torn' \subseteq Slot
      BY <1>0, <3>3, <3>4
    <3> QED BY <3>2, <3>5
  <2>4. mine' \in [Proc -> Seq(Item)] /\ want' \in [Proc -> [Item -> 0..MaxValue]]
    BY <2>2, SetupNumbers DEF RestType
  <2>5. opens' \in [Proc -> 0..MaxOpens]
    BY <2>2, SetupNumbers DEF RestType
  <2>6. \A q \in Proc : opens'[q] <= opened /\ Len(mine'[q]) <= NItems
    <3>1. \A q \in Proc : opens'[q] = opens[q] \/ opens'[q] = 0
      BY <2>2 DEF RestType
    <3>2. \A q \in Proc : mine'[q] = mine[q] \/ mine'[q] = <<>>
      BY <2>2 DEF RestType
    <3>3. /\ opened \in Nat /\ NItems \in Nat /\ Len(<<>>) = 0
          /\ \A q \in Proc : opens[q] <= opened /\ Len(mine[q]) <= NItems
      BY SetupNumbers, BoundAssumption DEF RestType, Counts
    <3> QED BY <3>1, <3>2, <3>3
  <2> QED BY <1>0, <2>1, <2>3, <2>4, <2>5, <2>6, SameBounds DEF RestType, Counts
<1>7. CASE \E n \in Name : openlog(p, n)
  <2>1. /\ UNCHANGED <<setup, apc, robbed, cp, dp, mine, want, cleaning, torn, data, key>>
        /\ opened' = opened + 1 /\ opened < MaxOpens
        /\ opens' = [opens EXCEPT ![p] = @ + 1]
    BY <1>7 DEF openlog, table
  <2>2. /\ opens \in [Proc -> 0..MaxOpens] /\ opened \in 0..MaxOpens /\ MaxOpens \in Nat
        /\ \A q \in Proc : opens[q] <= opened
    BY SetupNumbers DEF RestType, Counts
  <2>3. opened' \in 0..MaxOpens
    BY <2>1, <2>2
  <2>4. \A q \in Proc : opens'[q] <= opened' /\ opens'[q] \in Nat
    BY <2>1, <2>2
  <2>5. opens' \in [Proc -> 0..MaxOpens]
    BY <2>1, <2>2, <2>3, <2>4
  <2> QED BY <1>0, <2>1, <2>3, <2>4, <2>5, SameBounds DEF RestType, Counts
<1>8. ASSUME NEW x \in Item, assign(p, x) PROVE RestType'
  <2>1. /\ UNCHANGED <<setup, apc, robbed, cp, dp, opens, opened, cleaning, torn, key>>
        /\ mine' = [mine EXCEPT ![p] = Append(@, x)] /\ Len(mine[p]) < NItems
        /\ data' = [data EXCEPT ![dp[p]][Len(mine'[p])] = [name |-> x, value |-> 0]]
        /\ want' = want \/ want' = [want EXCEPT ![p][x] = 0]
    BY <1>8 DEF assign
  <2>2. mine[p] \in Seq(Item) /\ mine \in [Proc -> Seq(Item)] /\ NItems \in Nat
    BY BoundAssumption DEF RestType
  <2>3. /\ mine' \in [Proc -> Seq(Item)] /\ mine'[p] = Append(mine[p], x)
        /\ \A q \in Proc : q # p => mine'[q] = mine[q]
    BY <2>1, <2>2
  <2>4. \A q \in Proc : Len(mine'[q]) <= NItems
    BY <2>1, <2>2, <2>3 DEF RestType, Counts
  <2>5. want' \in [Proc -> [Item -> 0..MaxValue]]
    <3>1. want \in [Proc -> [Item -> 0..MaxValue]] /\ 0 \in 0..MaxValue
      BY SetupNumbers DEF RestType
    <3>2. CASE want' = want
      BY <3>1, <3>2
    <3>3. CASE want' = [want EXCEPT ![p][x] = 0]
      BY <3>1, <3>3
    <3> QED BY <2>1, <3>2, <3>3
  <2>6. data' \in [Slot -> Row]
    <3>1. [name |-> x, value |-> 0] \in Entry
      BY SetupNumbers DEF Entry, RestType
    <3>2. \A r \in Row : [r EXCEPT ![Len(mine'[p])] = [name |-> x, value |-> 0]] \in Row
      BY <3>1 DEF Row
    <3> QED BY <1>0, <2>1, <3>2
  <2> QED BY <1>0, <2>1, <2>3, <2>4, <2>5, <2>6, SameBounds DEF RestType, Counts
<1>9. ASSUME NEW x \in Item, NEW v \in 0..MaxValue, Set(p, x, v) PROVE RestType'
  <2>1. /\ UNCHANGED <<setup, apc, robbed, cp, dp, mine, opens, opened, cleaning, torn, key>>
        /\ data' = [data EXCEPT ![dp[p]][getid(p, x)].value = v]
        /\ want' = [want EXCEPT ![p][x] = v]
    BY <1>9 DEF Set, proc
  <2>2. want' \in [Proc -> [Item -> 0..MaxValue]]
    BY <2>1 DEF RestType
  <2>3. data' \in [Slot -> Row]
    <3>0. MaxValue \in Nat
      BY SetupNumbers DEF RestType
    <3>1. \A e \in Entry : [e EXCEPT !.value = v] \in Entry
      BY <3>0 DEF Entry
    <3>2. \A r \in Row : [r EXCEPT ![getid(p, x)].value = v] \in Row
      BY <3>1 DEF Row
    <3> QED BY <1>0, <2>1, <3>2
  <2> QED BY <1>0, <2>1, <2>2, <2>3, SameBounds DEF RestType, Counts
<1>10. ASSUME NEW x \in Item, setval(p, x) \/ addval(p, x) PROVE RestType'
  <2>1. \E v \in 0..MaxValue : Set(p, x, v)
    BY <1>10, SetupNumbers DEF setval, addval, RestType
  <2> QED BY <1>9, <2>1
<1> QED BY <1>1, <1>2, <1>3, <1>4, <1>5, <1>6, <1>7, <1>8, <1>10, <1>11 DEF Call

(* Every step keeps types. *)
LEMMA NextRest == RestType /\ NameInv /\ [Next]_vars => RestType'
<1> SUFFICES ASSUME RestType, NameInv, [Next]_vars PROVE RestType'
  OBVIOUS
<1>1. CASE UNCHANGED vars
  BY <1>1, SameBounds DEF vars, proc, RestType, Counts
<1>2. CASE Next
  <2>1. CASE Quiet
    BY <2>1, <1>1 DEF Quiet
  <2> QED BY <1>2, <2>1, AdminRest, ProcRest DEF Next
<1> QED BY <1>1, <1>2

(* Pointers, owners and clean free slots hold together. *)
SlotInv == Pointers /\ Owners /\ FreeClean

(* They say that two processes never have one slot: both would own its     *)
(* name, or be at "sign" or between the halves of ul_closeshm, where only  *)
(* one can be.                                                             *)
LEMMA OwnersExclusive == SemInv /\ NameInv /\ RestType /\ SlotInv => Exclusive
<1> SUFFICES ASSUME SemInv, NameInv, RestType, SlotInv, "same" \notin setup.habits,
                    NEW p \in Proc, NEW q \in Proc, p # q, dp[p] # 0, dp[p] \notin robbed,
                    dp[p] = dp[q]
             PROVE  FALSE
  BY DEF Exclusive
<1>1. \A r \in {p, q} : /\ pc[r] \in Owning \/ pc[r] = "cdata"
                        /\ Alive(r) /\ name[r] \in Name /\ name[r] # Null
  BY NamesAssumption DEF SlotInv, Pointers, Alive, Owning
<1>2. name[p] # name[q]
  BY <1>1 DEF SlotInv, Owners
<1>3. ctrl[dp[p]] \in Titles(p) /\ ctrl[dp[p]] \in Titles(q)
  BY DEF SlotInv, Owners
<1>4. \A r \in {p, q} : Inside(r) \/ ctrl[dp[p]] = name[r]
  BY <1>1, <1>3 DEF Titles, Owning, Inside
<1>5. \A r \in {p, q} : ctrl[dp[p]] \in {name[r], Null}
  BY <1>3 DEF Titles
<1>6. Inside(p) /\ Inside(q)
  BY <1>1, <1>2, <1>4, <1>5
<1> QED BY <1>6 DEF SemInv

(* A process that moves and leaves its pointers, its name and the table,   *)
(* and either owns before and after or has no slot.                        *)
LEMMA SlotMoves ==
    ASSUME SlotInv, NEW p \in Proc, NEW where \in Place \ {"cdata", "sign"}, pc \in [Proc -> Place],
           pc' = [pc EXCEPT ![p] = where], pc[p] \notin {"off", "cdata", "sign"},
           UNCHANGED <<setup, apc, ctrl, data, cleaning, name, cp, dp, torn, robbed>>,
           dp[p] = 0 \/ (pc[p] \in Owning /\ where \in Owning)
    PROVE  SlotInv'
<1>1. pc'[p] = where /\ \A q \in Proc : q # p => pc'[q] = pc[q]
  OBVIOUS
<1>2. \A q \in Proc : Alive(q)' => Alive(q)
  BY <1>1 DEF Alive
<1>3. \A q \in Proc : dp[q] # 0 => (pc'[q] \in Owning <=> pc[q] \in Owning)
  BY <1>1
<1>4. \A q \in Proc : pc[q] = "cdata" => pc'[q] = "cdata"
  BY <1>1
<1>5. Pointers'
  <2>1. \A q \in Proc : pc'[q] \notin Owning \cup {"cdata"} => dp[q] = 0
    BY <1>1 DEF SlotInv, Pointers
  <2>2. \A q \in Proc : cp[q] = IF pc'[q] \in Owning THEN dp[q] ELSE 0
    BY <1>3 DEF SlotInv, Pointers
  <2>3. \A q \in Proc : Alive(q)' => name[q] \in Name
    BY <1>2 DEF SlotInv, Pointers
  <2>4. apc \in Making => /\ \A s \in Slot : ctrl[s] = Zero /\ Clean(s)
                          /\ \A q \in Proc : dp[q] = 0
    BY DEF SlotInv, Pointers
  <2> QED BY <2>1, <2>2, <2>3, <2>4 DEF Pointers, Slot, Clean
<1>6. Owners'
  <2>1. \A q \in Proc : dp[q] # 0 => (pc'[q] = "sign" <=> pc[q] = "sign")
    BY <1>1
  <2>2. \A q \in Proc : dp[q] # 0 => Titles(q)' = Titles(q)
    BY <1>3, <2>1 DEF Titles
  <2> QED BY <1>2, <2>2 DEF SlotInv, Owners
<1>7. FreeClean'
  BY <1>4 DEF SlotInv, FreeClean, Slot, Clean
<1> QED BY <1>5, <1>6, <1>7 DEF SlotInv

(* Whoever claims a slot finds in it its own name or none.                 *)
LEMMA ClaimSlots ==
    ASSUME SemInv, NameInv, RestType, SlotInv, NEW p \in Proc, Claim(p)
    PROVE  SlotInv'
<1>0. /\ pc[p] = "claim" /\ UNCHANGED <<setup, apc, ctrl, cleaning, name, torn, robbed>>
      /\ pc \in [Proc -> Place] /\ Slot' = Slot
  BY DEF Claim, rest, SemInv, Slot
<1>1. name[p] \in Name /\ dp[p] = 0 /\ cp[p] = 0
  BY <1>0 DEF SlotInv, Pointers, Alive, Owning
<1>2. CASE Goto(p, "open") /\ UNCHANGED <<data, cp, dp>>
  BY <1>0, <1>1, <1>2, SlotMoves DEF Goto, Place
<1>3. ASSUME NEW s \in Slot, First(s, IF Own(p) # {} THEN Own(p) ELSE FreeSlots),
             cp' = [cp EXCEPT ![p] = s], dp' = [dp EXCEPT ![p] = s],
             data' = (IF Own(p) # {} THEN [data EXCEPT ![s] = Empty] ELSE data),
             Goto(p, "sign")
      PROVE  SlotInv'
  <2>1. ctrl[s] = name[p] \/ ctrl[s] = Null
    BY <1>3 DEF First, Own, FreeSlots
  <2>2. apc \notin Making
    BY <1>1, <2>1, NamesAssumption DEF SlotInv, Pointers, Null, Zero
  <2>3. pc'[p] = "sign" /\ \A q \in Proc : q # p => pc'[q] = pc[q]
    BY <1>0, <1>3 DEF Goto
  <2>4. /\ cp'[p] = s /\ dp'[p] = s
        /\ \A q \in Proc : q # p => cp'[q] = cp[q] /\ dp'[q] = dp[q]
    BY <1>3 DEF RestType
  <2>5. \A r \in Slot : data'[r] = data[r] \/ data'[r] = Empty
    BY <1>3 DEF RestType
  <2>6. \A q \in Proc : Alive(q)' <=> Alive(q)
    BY <1>0, <2>3 DEF Alive
  <2>7. Pointers'
    <3>1. \A q \in Proc : pc'[q] \notin Owning \cup {"cdata"} => dp'[q] = 0
      BY <2>3, <2>4 DEF SlotInv, Pointers, Owning
    <3>2. \A q \in Proc : cp'[q] = IF pc'[q] \in Owning THEN dp'[q] ELSE 0
      BY <2>3, <2>4 DEF SlotInv, Pointers, Owning
    <3>3. \A q \in Proc : Alive(q)' => name'[q] \in Name
      BY <1>0, <2>6 DEF SlotInv, Pointers
    <3> QED BY <1>0, <2>2, <3>1, <3>2, <3>3 DEF Pointers
  <2>8. Owners'
    <3> SUFFICES ASSUME "same" \notin setup.habits PROVE Owners'
      BY <1>0 DEF Owners
    <3>1. ctrl'[dp'[p]] \in Titles(p)'
      BY <1>0, <2>1, <2>3, <2>4 DEF Titles, Owning
    <3>2. \A q \in Proc : q # p => Titles(q)' = Titles(q)
      BY <1>0, <2>3 DEF Titles
    <3> QED BY <1>0, <2>4, <2>6, <3>1, <3>2 DEF SlotInv, Owners
  <2>9. FreeClean'
    <3>1. \A r \in Slot : Clean(r) => Clean(r)'
      BY <2>5, EmptyClean DEF Clean
    <3>2. \A q \in Proc : pc[q] # "cdata"
      BY <1>0 DEF SemInv, Inside
    <3> QED BY <1>0, <3>1, <3>2 DEF SlotInv, FreeClean
  <2> QED BY <2>7, <2>8, <2>9 DEF SlotInv
<1> QED BY <1>2, <1>3 DEF Claim

(* A process signs a slot that nobody else has, or that was taken from     *)
(* somebody.                                                               *)
LEMMA SignSlots ==
    ASSUME SemInv, NameInv, RestType, SlotInv, NEW p \in Proc, Sign(p)
    PROVE  SlotInv'
<1>0. /\ pc[p] = "sign" /\ UNCHANGED <<setup, apc, data, cleaning, name, cp, dp, torn, robbed>>
      /\ pc \in [Proc -> Place] /\ Slot' = Slot
      /\ pc' = [pc EXCEPT ![p] = "post"] /\ ctrl' = [ctrl EXCEPT ![cp[p]] = name[p]]
  BY DEF Sign, rest, SemInv, Slot, Goto
<1>1. /\ name[p] \in Name /\ name[p] # Null /\ dp[p] \in Slot /\ cp[p] = dp[p]
      /\ dp[p] # 0
  <2>1. cp[p] \in Slot
    BY <1>0 DEF NameInv, Signing
  <2>2. \A r \in Slot : r # 0
    BY SetupNumbers DEF RestType
  <2> QED BY <1>0, <2>1, <2>2, NamesAssumption DEF SlotInv, Pointers, Alive, Owning
<1>2. pc'[p] = "post" /\ \A q \in Proc : q # p => pc'[q] = pc[q]
  BY <1>0
<1>3. ctrl'[dp[p]] = name[p] /\ \A r \in Slot : r # dp[p] => ctrl'[r] = ctrl[r]
  BY <1>0, <1>1 DEF NameInv
<1>4. \A q \in Proc : Alive(q)' <=> Alive(q)
  BY <1>0, <1>2 DEF Alive
<1>5. Pointers'
  <2>1. apc \notin Making
    BY <1>1 DEF SlotInv, Pointers
  <2>2. \A q \in Proc : pc'[q] \notin Owning \cup {"cdata"} => dp'[q] = 0
    BY <1>0, <1>2 DEF SlotInv, Pointers, Owning
  <2>3. \A q \in Proc : cp'[q] = IF pc'[q] \in Owning THEN dp'[q] ELSE 0
    BY <1>0, <1>2 DEF SlotInv, Pointers, Owning
  <2> QED BY <1>0, <1>4, <2>1, <2>2, <2>3 DEF SlotInv, Pointers
<1>6. Owners'
  <2> SUFFICES ASSUME "same" \notin setup.habits PROVE Owners'
    BY <1>0 DEF Owners
  <2>1. Exclusive /\ \A q \in Proc : dp[q] # 0 => dp[q] \in Slot
    BY OwnersExclusive, SetupNumbers DEF RestType
  <2>2. ASSUME NEW q \in Proc, dp[q] # 0, dp[q] \notin robbed PROVE ctrl'[dp[q]] \in Titles(q)'
    <3>1. CASE q = p
      BY <1>0, <1>2, <1>3, <3>1 DEF Titles, Owning
    <3>2. CASE q # p
      <4>1. dp[q] # dp[p]
        BY <2>1, <2>2, <3>2 DEF Exclusive
      <4>2. ctrl'[dp[q]] = ctrl[dp[q]] /\ Titles(q)' = Titles(q)
        BY <1>0, <1>2, <1>3, <2>1, <2>2, <3>2, <4>1 DEF Titles
      <4> QED BY <2>2, <4>2 DEF SlotInv, Owners
    <3> QED BY <3>1, <3>2
  <2> QED BY <1>0, <1>4, <2>2 DEF SlotInv, Owners
<1>7. FreeClean'
  <2>1. \A q \in Proc : pc[q] # "cdata"
    BY <1>0 DEF SemInv, Inside
  <2>2. \A r \in Slot : ctrl'[r] = Null => ctrl[r] = Null
    BY <1>1, <1>3
  <2> QED BY <1>0, <2>1, <2>2 DEF SlotInv, FreeClean, Clean
<1> QED BY <1>5, <1>6, <1>7 DEF SlotInv

(* The two halves of ul_closeshm: the slot that loses its name is the one  *)
(* whose items are wiped next.                                             *)
LEMMA CloseSlots ==
    ASSUME SemInv, NameInv, RestType, SlotInv, NEW p \in Proc, CloseCtrl(p) \/ CloseData(p)
    PROVE  SlotInv'
<1>0. /\ UNCHANGED <<setup, apc, cleaning, name, torn, robbed>> /\ pc \in [Proc -> Place]
      /\ Slot' = Slot /\ pc[p] \in {"cctrl", "cdata"}
  BY DEF CloseCtrl, CloseData, rest, SemInv, Slot
<1>1. \A q \in Proc : q # p => pc[q] # "cdata"
  BY <1>0 DEF SemInv, Inside
<1>2. \A q \in Proc : dp[q] # 0 => dp[q] \in Slot
  BY SetupNumbers DEF RestType
<1>3. ASSUME "same" \notin setup.habits
      PROVE  \A q \in Proc : q # p /\ dp[q] # 0 /\ dp[q] \notin robbed => dp[q] # dp[p]
  <2>1. Exclusive
    BY OwnersExclusive
  <2> QED BY <1>3, <2>1 DEF Exclusive
<1>4. apc \in Making => dp[p] = 0 /\ cp[p] = 0
  BY DEF SlotInv, Pointers
<1>5. CASE CloseCtrl(p)
  <2>1. /\ pc[p] = "cctrl" /\ cp[p] = dp[p] /\ data' = data /\ dp' = dp
        /\ ctrl' = (IF cp[p] = 0 THEN ctrl ELSE [ctrl EXCEPT ![cp[p]] = Null])
        /\ cp' = [cp EXCEPT ![p] = 0] /\ pc' = [pc EXCEPT ![p] = "cdata"]
    BY <1>5 DEF CloseCtrl, Goto, SlotInv, Pointers, Owning
  <2>2. pc'[p] = "cdata" /\ \A q \in Proc : q # p => pc'[q] = pc[q]
    BY <1>0, <2>1
  <2>3. cp'[p] = 0 /\ \A q \in Proc : q # p => cp'[q] = cp[q]
    BY <2>1 DEF RestType
  <2>4. /\ \A r \in Slot : r # dp[p] => ctrl'[r] = ctrl[r]
        /\ dp[p] # 0 => ctrl'[dp[p]] = Null
        /\ dp[p] = 0 => ctrl' = ctrl
    BY <1>2, <2>1 DEF NameInv
  <2>5. \A q \in Proc : Alive(q)' <=> Alive(q)
    BY <2>1, <2>2 DEF Alive
  <2>6. Pointers'
    <3>1. \A q \in Proc : pc'[q] \notin Owning \cup {"cdata"} => dp'[q] = 0
      BY <2>1, <2>2 DEF SlotInv, Pointers
    <3>2. \A q \in Proc : cp'[q] = IF pc'[q] \in Owning THEN dp'[q] ELSE 0
      BY <2>1, <2>2, <2>3 DEF SlotInv, Pointers, Owning
    <3>3. \A q \in Proc : Alive(q)' => name'[q] \in Name
      BY <1>0, <2>5 DEF SlotInv, Pointers
    <3>4. apc' \in Making => /\ \A s \in Slot' : ctrl'[s] = Zero /\ Clean(s)'
                             /\ \A q \in Proc : dp'[q] = 0
      BY <1>0, <1>4, <2>1, <2>4 DEF SlotInv, Pointers, Clean
    <3> QED BY <3>1, <3>2, <3>3, <3>4 DEF Pointers
  <2>7. ASSUME "same" \notin setup.habits PROVE Owners' /\ FreeClean'
    <3>1. ASSUME NEW q \in Proc, dp[q] # 0, dp[q] \notin robbed
          PROVE  ctrl'[dp[q]] \in Titles(q)'
      <4>1. CASE q = p
        BY <2>2, <2>4, <3>1, <4>1 DEF Titles, Owning
      <4>2. CASE q # p
        <5>1. dp[q] # dp[p] /\ dp[q] \in Slot /\ ctrl[dp[q]] \in Titles(q)
          BY <1>2, <1>3, <2>7, <3>1, <4>2 DEF SlotInv, Owners
        <5>2. ctrl'[dp[q]] = ctrl[dp[q]] /\ Titles(q)' = Titles(q)
          BY <1>0, <2>2, <2>4, <4>2, <5>1 DEF Titles
        <5> QED BY <5>1, <5>2
      <4> QED BY <4>1, <4>2
    <3>2. \A q, r \in Proc : q # r /\ Alive(q)' /\ Alive(r)' => name'[q] # name'[r]
      BY <1>0, <2>5, <2>7 DEF SlotInv, Owners
    <3>3. ASSUME NEW r \in Slot, ctrl'[r] = Null, r \notin torn \cup robbed,
                 ~(apc = "wipe" /\ r = cleaning)
          PROVE  Clean(r)' \/ \E q \in Proc : pc'[q] = "cdata" /\ dp'[q] = r
      <4>1. CASE r = dp[p]
        BY <2>1, <2>2, <4>1
      <4>2. CASE r # dp[p]
        <5>1. Clean(r) \/ \E q \in Proc : pc[q] = "cdata" /\ dp[q] = r
          BY <2>4, <2>7, <3>3, <4>2 DEF SlotInv, FreeClean
        <5> QED BY <1>1, <2>1, <4>2, <5>1 DEF Clean
      <4> QED BY <4>1, <4>2
    <3> QED BY <1>0, <2>1, <3>1, <3>2, <3>3 DEF Owners, FreeClean
  <2>8. "same" \in setup.habits => Owners' /\ FreeClean'
    BY <1>0 DEF Owners, FreeClean
  <2> QED BY <2>6, <2>7, <2>8 DEF SlotInv
<1>6. CASE CloseData(p)
  <2>1. /\ pc[p] = "cdata" /\ cp[p] = 0 /\ cp' = cp /\ ctrl' = ctrl
        /\ data' = (IF dp[p] = 0 THEN data ELSE [data EXCEPT ![dp[p]] = Empty])
        /\ dp' = [dp EXCEPT ![p] = 0] /\ pc' = [pc EXCEPT ![p] = "cpost"]
    BY <1>6 DEF CloseData, Goto, SlotInv, Pointers, Owning
  <2>2. pc'[p] = "cpost" /\ \A q \in Proc : q # p => pc'[q] = pc[q]
    BY <1>0, <2>1
  <2>3. dp'[p] = 0 /\ \A q \in Proc : q # p => dp'[q] = dp[q]
    BY <2>1 DEF RestType
  <2>4. /\ \A r \in Slot : r # dp[p] => data'[r] = data[r]
        /\ dp[p] # 0 => data'[dp[p]] = Empty
        /\ dp[p] = 0 => data' = data
    BY <1>2, <2>1 DEF RestType
  <2>5. \A q \in Proc : Alive(q)' <=> Alive(q)
    BY <2>1, <2>2 DEF Alive
  <2>6. Pointers'
    <3>1. \A q \in Proc : pc'[q] \notin Owning \cup {"cdata"} => dp'[q] = 0
      BY <2>2, <2>3 DEF SlotInv, Pointers
    <3>2. \A q \in Proc : cp'[q] = IF pc'[q] \in Owning THEN dp'[q] ELSE 0
      BY <2>1, <2>2, <2>3 DEF SlotInv, Pointers, Owning
    <3>3. \A q \in Proc : Alive(q)' => name'[q] \in Name
      BY <1>0, <2>5 DEF SlotInv, Pointers
    <3>4. apc' \in Making => /\ \A s \in Slot' : ctrl'[s] = Zero /\ Clean(s)'
                             /\ \A q \in Proc : dp'[q] = 0
      BY <1>0, <1>4, <2>1, <2>3, <2>4 DEF SlotInv, Pointers, Clean
    <3> QED BY <3>1, <3>2, <3>3, <3>4 DEF Pointers
  <2>7. ASSUME "same" \notin setup.habits PROVE Owners' /\ FreeClean'
    <3>1. ASSUME NEW q \in Proc, dp'[q] # 0, dp'[q] \notin robbed
          PROVE  ctrl'[dp'[q]] \in Titles(q)'
      <4>1. q # p /\ dp'[q] = dp[q] /\ pc'[q] = pc[q]
        BY <2>2, <2>3, <3>1
      <4> QED BY <1>0, <2>1, <2>7, <3>1, <4>1 DEF SlotInv, Owners, Titles
    <3>2. \A q, r \in Proc : q # r /\ Alive(q)' /\ Alive(r)' => name'[q] # name'[r]
      BY <1>0, <2>5, <2>7 DEF SlotInv, Owners
    <3>3. ASSUME NEW r \in Slot, ctrl'[r] = Null, r \notin torn \cup robbed,
                 ~(apc = "wipe" /\ r = cleaning)
          PROVE  Clean(r)'
      <4>1. CASE r = dp[p]
        <5>1. data'[r] = Empty
          BY <2>4, <4>1, SetupNumbers DEF RestType
        <5> QED BY <5>1, EmptyClean DEF Clean
      <4>2. CASE r # dp[p]
        <5>1. Clean(r)
          BY <1>1, <2>1, <2>7, <3>3, <4>2 DEF SlotInv, FreeClean
        <5> QED BY <2>4, <4>2, <5>1 DEF Clean
      <4> QED BY <4>1, <4>2
    <3> QED BY <1>0, <3>1, <3>2, <3>3 DEF Owners, FreeClean
  <2>8. "same" \in setup.habits => Owners' /\ FreeClean'
    BY <1>0 DEF Owners, FreeClean
  <2> QED BY <2>6, <2>7, <2>8 DEF SlotInv
<1> QED BY <1>5, <1>6

(* A process that dies keeps its name in the table, and a slot it was just *)
(* leaving is torn.                                                        *)
LEMMA DieSlots ==
    ASSUME SemInv, NameInv, RestType, SlotInv, NEW p \in Proc, Die(p)
    PROVE  SlotInv'
<1>0. /\ UNCHANGED <<setup, apc, ctrl, data, cleaning, robbed>> /\ Slot' = Slot
      /\ pc \in [Proc -> Place] /\ name \in [Proc -> Name \cup {Zero}]
  BY DEF Die, table, SemInv, NameInv, Slot
<1>1. /\ torn' = (IF pc[p] = "cdata" /\ dp[p] # 0 THEN torn \cup {dp[p]} ELSE torn)
      /\ pc' = [pc EXCEPT ![p] = "off"] /\ name' = [name EXCEPT ![p] = Zero]
      /\ cp' = [cp EXCEPT ![p] = 0] /\ dp' = [dp EXCEPT ![p] = 0]
  BY DEF Die, Goto
<1>2. /\ pc'[p] = "off" /\ cp'[p] = 0 /\ dp'[p] = 0
      /\ \A q \in Proc : q # p =>
            pc'[q] = pc[q] /\ name'[q] = name[q] /\ cp'[q] = cp[q] /\ dp'[q] = dp[q]
  BY <1>0, <1>1 DEF RestType
<1>3. \A q \in Proc : Alive(q)' => q # p /\ Alive(q)
  BY <1>2 DEF Alive
<1>4. Pointers'
  <2>1. \A q \in Proc : pc'[q] \notin Owning \cup {"cdata"} => dp'[q] = 0
    BY <1>2 DEF SlotInv, Pointers
  <2>2. \A q \in Proc : cp'[q] = IF pc'[q] \in Owning THEN dp'[q] ELSE 0
    BY <1>2 DEF SlotInv, Pointers, Owning
  <2>3. \A q \in Proc : Alive(q)' => name'[q] \in Name
    BY <1>2, <1>3 DEF SlotInv, Pointers
  <2>4. apc' \in Making => /\ \A s \in Slot' : ctrl'[s] = Zero /\ Clean(s)'
                           /\ \A q \in Proc : dp'[q] = 0
    BY <1>0, <1>2 DEF SlotInv, Pointers, Clean
  <2> QED BY <2>1, <2>2, <2>3, <2>4 DEF Pointers
<1>5. Owners'
  <2>1. \A q \in Proc : dp'[q] # 0 => dp'[q] = dp[q] /\ Titles(q)' = Titles(q)
    BY <1>2 DEF Titles
  <2>2. \A q \in Proc : Alive(q)' => name'[q] = name[q]
    BY <1>2, <1>3
  <2> QED BY <1>0, <1>3, <2>1, <2>2 DEF SlotInv, Owners
<1>6. FreeClean'
  <2> SUFFICES ASSUME "same" \notin setup.habits, NEW r \in Slot, ctrl[r] = Null,
                      r \notin torn' \cup robbed, ~(apc = "wipe" /\ r = cleaning)
               PROVE  Clean(r) \/ \E q \in Proc : pc'[q] = "cdata" /\ dp'[q] = r
    BY <1>0 DEF FreeClean, Clean
  <2>1. r \notin torn \cup robbed /\ ~(pc[p] = "cdata" /\ dp[p] = r)
    <3>1. r # 0
      BY SetupNumbers DEF RestType
    <3> QED BY <1>1, <3>1
  <2>2. Clean(r) \/ \E q \in Proc : pc[q] = "cdata" /\ dp[q] = r
    BY <2>1 DEF SlotInv, FreeClean
  <2> QED BY <1>2, <2>1, <2>2
<1> QED BY <1>4, <1>5, <1>6 DEF SlotInv

(* A process opens under a name nobody alive has, and without a slot. *)
LEMMA OpenSlots ==
    ASSUME SemInv, NameInv, RestType, SlotInv, NEW p \in Proc, NEW n \in Name, openlog(p, n)
    PROVE  SlotInv'
<1>0. /\ UNCHANGED <<setup, apc, ctrl, data, cleaning, cp, dp, torn, robbed>> /\ Slot' = Slot
      /\ pc \in [Proc -> Place] /\ name \in [Proc -> Name \cup {Zero}] /\ pc[p] = "off"
      /\ pc' = [pc EXCEPT ![p] = "attach"] /\ name' = [name EXCEPT ![p] = n]
      /\ "same" \in setup.habits \/ \A q \in Proc : Alive(q) => name[q] # n
  BY DEF openlog, table, SemInv, NameInv, Slot, Goto
<1>1. /\ pc'[p] = "attach" /\ name'[p] = n
      /\ \A q \in Proc : q # p => pc'[q] = pc[q] /\ name'[q] = name[q]
  BY <1>0
<1>2. dp[p] = 0 /\ cp[p] = 0
  BY <1>0 DEF SlotInv, Pointers, Owning
<1>3. \A q \in Proc : q # p => (Alive(q)' <=> Alive(q))
  BY <1>1 DEF Alive
<1>4. Pointers'
  <2>1. \A q \in Proc : pc'[q] \notin Owning \cup {"cdata"} => dp'[q] = 0
    BY <1>0, <1>1, <1>2 DEF SlotInv, Pointers
  <2>2. \A q \in Proc : cp'[q] = IF pc'[q] \in Owning THEN dp'[q] ELSE 0
    BY <1>0, <1>1, <1>2 DEF SlotInv, Pointers, Owning
  <2>3. \A q \in Proc : Alive(q)' => name'[q] \in Name
    BY <1>1, <1>3 DEF SlotInv, Pointers
  <2>4. apc' \in Making => /\ \A s \in Slot' : ctrl'[s] = Zero /\ Clean(s)'
                           /\ \A q \in Proc : dp'[q] = 0
    BY <1>0 DEF SlotInv, Pointers, Clean
  <2> QED BY <2>1, <2>2, <2>3, <2>4 DEF Pointers
<1>5. Owners'
  <2>1. \A q \in Proc : dp[q] # 0 => Titles(q)' = Titles(q)
    BY <1>0, <1>1, <1>2 DEF Titles
  <2>2. "same" \notin setup.habits =>
           \A q, r \in Proc : q # r /\ Alive(q)' /\ Alive(r)' => name'[q] # name'[r]
    BY <1>0, <1>1, <1>3 DEF SlotInv, Owners
  <2> QED BY <1>0, <2>1, <2>2 DEF SlotInv, Owners
<1>6. FreeClean'
  BY <1>0, <1>1, <1>2 DEF SlotInv, FreeClean, Clean
<1> QED BY <1>4, <1>5, <1>6 DEF SlotInv

(* A process exports into its own slot, which is not a free one. *)
LEMMA ExportSlots ==
    ASSUME SemInv, NameInv, RestType, SlotInv, NEW p \in Proc,
           \E x \in Item : assign(p, x) \/ setval(p, x) \/ addval(p, x)
    PROVE  SlotInv'
<1>0. /\ UNCHANGED <<setup, apc, ctrl, cleaning, pc, name, cp, dp, torn, robbed>> /\ Slot' = Slot
      /\ pc[p] = "open" /\ dp[p] # 0
      /\ \A r \in Slot : r # dp[p] => data'[r] = data[r]
  BY DEF assign, setval, addval, Set, proc, Slot, RestType
<1>1. apc \notin Making
  BY <1>0 DEF SlotInv, Pointers
<1>2. Pointers'
  BY <1>0, <1>1 DEF SlotInv, Pointers, Alive
<1>3. Owners'
  BY <1>0 DEF SlotInv, Owners, Alive, Titles
<1>4. FreeClean'
  <2> SUFFICES ASSUME "same" \notin setup.habits, NEW r \in Slot, ctrl[r] = Null,
                      r \notin torn \cup robbed, ~(apc = "wipe" /\ r = cleaning)
               PROVE  Clean(r)' \/ \E q \in Proc : pc[q] = "cdata" /\ dp[q] = r
    BY <1>0 DEF FreeClean
  <2>1. dp[p] \notin robbed => ctrl[dp[p]] \in Name
    BY <1>0 DEF SlotInv, Owners, Titles, Pointers, Owning, Alive
  <2>2. data'[r] = data[r]
    BY <1>0, <2>1, NamesAssumption
  <2> QED BY <2>2 DEF SlotInv, FreeClean, Clean
<1> QED BY <1>2, <1>3, <1>4 DEF SlotInv
(* The administration makes the table before anybody can have a slot, and  *)
(* later, when it takes a name from a slot that a process uses, notes it.  *)
LEMMA AdminSlots ==
    ASSUME NameInv, RestType, SlotInv, Admin \/ \E n \in Name : cleanshm(n)
    PROVE  SlotInv'
<1>0. UNCHANGED <<setup, pc, name, cp, dp>> /\ Slot' = Slot
  BY DEF Admin, CreateShm, CreateSem, FirstPost, CleanAllCtrl, CleanAllData, CleanCtrl, CleanData,
         cleanshm, proc, Slot
<1>1. \A r \in Slot : r # 0
  BY SetupNumbers DEF RestType
<1>2. \A q \in Proc : dp[q] # 0 => dp[q] \in Slot
  BY SetupNumbers DEF RestType
<1>3. CASE CreateShm \/ CreateSem \/ FirstPost
  <2>1. UNCHANGED <<ctrl, data, cleaning, torn, robbed>> /\ apc' # "wipe" /\ apc \in Making
    BY <1>3 DEF CreateShm, CreateSem, FirstPost, table, Making
  <2> QED BY <1>0, <2>1 DEF SlotInv, Pointers, Owners, Titles, FreeClean, Clean, Alive
<1>4. CASE CleanAllCtrl
  <2>1. /\ UNCHANGED <<data, cleaning, torn, robbed>> /\ apc \in Making /\ apc' = "cleandata"
        /\ ctrl' = [s \in Slot |-> Null]
    BY <1>4 DEF CleanAllCtrl, Making
  <2>2. /\ \A s \in Slot : Clean(s)' /\ ctrl'[s] = Null
        /\ \A q \in Proc : dp'[q] = 0
    BY <1>0, <2>1 DEF SlotInv, Pointers, Clean
  <2> QED BY <1>0, <2>1, <2>2 DEF SlotInv, Pointers, Owners, Titles, FreeClean, Alive, Making
<1>5. CASE CleanAllData
  <2>1. /\ UNCHANGED <<ctrl, cleaning, torn, robbed>> /\ apc = "cleandata" /\ apc' = "done"
        /\ data' = [s \in Slot |-> Empty]
    BY <1>5 DEF CleanAllData
  <2>2. \A s \in Slot : Clean(s)'
    BY <2>1, EmptyClean DEF Clean
  <2>3. Pointers'
    BY <1>0, <2>1 DEF SlotInv, Pointers, Alive, Making
  <2>4. Owners'
    BY <1>0, <2>1 DEF SlotInv, Owners, Titles, Alive
  <2>5. FreeClean'
    BY <1>0, <2>2 DEF FreeClean
  <2> QED BY <2>3, <2>4, <2>5 DEF SlotInv
<1>6. CASE CleanData
  <2>1. /\ UNCHANGED <<ctrl, robbed>> /\ cleaning' = 0 /\ cleaning \in Slot
        /\ apc = "wipe" /\ apc' = "done"
        /\ data' = [data EXCEPT ![cleaning] = Empty] /\ torn' = torn \ {cleaning}
    BY <1>6 DEF CleanData, RestType
  <2>2. data'[cleaning] = Empty /\ \A r \in Slot : r # cleaning => data'[r] = data[r]
    BY <2>1 DEF RestType
  <2>3. ASSUME NEW r \in Slot, Clean(r) \/ r = cleaning PROVE Clean(r)'
    BY <2>2, <2>3, EmptyClean DEF Clean
  <2>4. Pointers'
    BY <1>0, <2>1, <2>3 DEF SlotInv, Pointers, Alive, Making
  <2>5. Owners'
    BY <1>0, <2>1 DEF SlotInv, Owners, Titles, Alive
  <2>6. FreeClean'
    BY <1>0, <2>1, <2>3 DEF SlotInv, FreeClean
  <2> QED BY <2>4, <2>5, <2>6 DEF SlotInv
<1>7. CASE \E n \in Name : cleanshm(n)
  <2>1. UNCHANGED <<ctrl, data, torn, robbed>> /\ apc = "done" /\ apc' = "free"
    BY <1>7 DEF cleanshm, table
  <2> QED BY <1>0, <2>1
          DEF SlotInv, Pointers, Owners, Titles, FreeClean, Clean, Alive, Making
<1>8. CASE CleanCtrl
  <2>1. /\ UNCHANGED <<data, cleaning, torn>> /\ apc = "free" /\ apc' = "wipe"
        /\ cleaning \in Slot /\ ctrl' = [ctrl EXCEPT ![cleaning] = Null]
        /\ robbed' = IF Used(cleaning) THEN robbed \cup {cleaning} ELSE robbed
    BY <1>8 DEF CleanCtrl, RestType
  <2>2. ctrl'[cleaning] = Null /\ \A r \in Slot : r # cleaning => ctrl'[r] = ctrl[r]
    BY <2>1 DEF NameInv
  <2>3. Pointers'
    BY <1>0, <2>1 DEF SlotInv, Pointers, Alive, Making
  <2>4. Owners'
    <3> SUFFICES ASSUME "same" \notin setup.habits PROVE Owners'
      BY <1>0 DEF Owners
    <3>1. ASSUME NEW q \in Proc, dp[q] # 0, dp[q] \notin robbed' PROVE ctrl'[dp[q]] \in Titles(q)
      <4>1. dp[q] \notin robbed /\ ctrl[dp[q]] \in Titles(q) /\ dp[q] \in Slot
        BY <1>2, <2>1, <3>1 DEF SlotInv, Owners
      <4>2. CASE dp[q] # cleaning
        BY <2>2, <4>1, <4>2
      <4>3. CASE dp[q] = cleaning
        <5>1. ~Used(cleaning)
          BY <2>1, <3>1, <4>3
        <5>2. pc[q] = "sign" \/ pc[q] \notin Owning
          BY <4>3, <5>1 DEF Used, SlotInv, Pointers
        <5> QED BY <2>2, <4>3, <5>2 DEF Titles
      <4> QED BY <4>2, <4>3
    <3> QED BY <1>0, <3>1 DEF SlotInv, Owners, Titles, Alive
  <2>5. FreeClean'
    BY <1>0, <2>1, <2>2 DEF SlotInv, FreeClean, Clean
  <2> QED BY <2>3, <2>4, <2>5 DEF SlotInv
<1> QED BY <1>3, <1>4, <1>5, <1>6, <1>7, <1>8 DEF Admin

(* The moves of a process between its changes to the table. *)
LEMMA CallSlots ==
    ASSUME SemInv, NameInv, RestType, SlotInv, NEW p \in Proc,
           Attach(p) \/ Acquire(p) \/ Post(p) \/ closelog(p)
    PROVE  SlotInv'
<1>0. /\ UNCHANGED <<setup, apc, ctrl, data, cleaning, name, cp, dp, torn, robbed>>
      /\ pc \in [Proc -> Place]
      /\ pc[p] \in {"attach", "wait", "cwait", "post", "cpost", "open"}
  BY DEF Attach, Acquire, Post, closelog, rest, table, SemInv
<1>1. pc[p] \in {"attach", "wait", "cpost"} => dp[p] = 0
  BY DEF SlotInv, Pointers, Owning
<1>2. CASE Attach(p)
  <2>1. pc[p] = "attach" /\ \E where \in {"wait", "open"} : pc' = [pc EXCEPT ![p] = where]
    BY <1>2, Zenon DEF Attach, Goto
  <2> QED BY <1>0, <1>1, <2>1, SlotMoves DEF Place
<1>3. CASE Acquire(p)
  <2>1. \/ pc[p] = "wait" /\ pc' = [pc EXCEPT ![p] = "claim"]
        \/ pc[p] = "cwait" /\ pc' = [pc EXCEPT ![p] = "cctrl"]
    BY <1>3 DEF Acquire, Goto
  <2> QED BY <1>0, <1>1, <2>1, SlotMoves DEF Place, Owning
<1>4. CASE Post(p)
  <2>1. \/ pc[p] = "post" /\ pc' = [pc EXCEPT ![p] = "open"]
        \/ pc[p] = "cpost" /\ pc' = [pc EXCEPT ![p] = "off"]
    BY <1>4 DEF Post, Goto
  <2> QED BY <1>0, <1>1, <2>1, SlotMoves DEF Place, Owning
<1>5. CASE closelog(p)
  <2>1. pc[p] = "open" /\ pc' = [pc EXCEPT ![p] = IF sem >= 0 THEN "cwait" ELSE "off"]
    BY <1>5 DEF closelog, Goto
  <2>2. CASE sem >= 0
    BY <1>0, <2>1, <2>2, SlotMoves DEF Place, Owning
  <2>3. CASE ~(sem >= 0)
    <3>1. apc \in Making
      BY <2>3 DEF SemInv, Making
    <3>2. dp[p] = 0
      BY <3>1 DEF SlotInv, Pointers
    <3> QED BY <1>0, <2>1, <2>3, <3>2, SlotMoves DEF Place
  <2> QED BY <2>2, <2>3
<1> QED BY <1>2, <1>3, <1>4, <1>5

(* Every step keeps pointers, owners and free slots. *)
LEMMA NextSlots == SemInv /\ NameInv /\ RestType /\ SlotInv /\ [Next]_vars => SlotInv'
<1> SUFFICES ASSUME SemInv, NameInv, RestType, SlotInv, [Next]_vars PROVE SlotInv'
  OBVIOUS
<1>1. CASE UNCHANGED vars
  BY <1>1 DEF vars, proc, SlotInv, Pointers, Owners, Titles, FreeClean, Clean, Alive, Slot
<1>2. CASE Next
  <2>1. CASE Quiet
    BY <2>1, <1>1 DEF Quiet
  <2> QED BY <1>2, <2>1, AdminSlots, CallSlots, ClaimSlots, SignSlots, CloseSlots, DieSlots, OpenSlots,
             ExportSlots DEF Next, Call
<1> QED BY <1>1, <1>2

(* The empty table of a new segment. *)
LEMMA SlotsInit == Init => SlotInv
<1> SUFFICES ASSUME Init PROVE SlotInv
  OBVIOUS
<1>1. \A s \in Slot : ctrl[s] = Zero /\ Clean(s)
  BY NamesAssumption DEF Init, Clean
<1>2. \A p \in Proc : pc[p] = "off" /\ cp[p] = 0 /\ dp[p] = 0
  BY DEF Init
<1> QED BY <1>1, <1>2 DEF SlotInv, Pointers, Owners, FreeClean, Alive, Owning, Null, Zero

(* A slot belongs to one process from a clean start to a clean end, for    *)
(* any table and any number of processes that crash, restart, find the     *)
(* table full or still being made, and are cleaned up after; unless the    *)
(* slot's name was removed while a process used it.                        *)
THEOREM SlotsAlwaysKept == Spec => []SlotsKept
<1> DEFINE ShmInv == SemInv /\ NameInv /\ RestType /\ SlotInv
<1>1. Init => ShmInv
  BY SemInit, NameInit, RestTypeInit, SlotsInit
<1>2. ShmInv /\ [Next]_vars => ShmInv'
  BY NextSem, NextNames, NextRest, NextSlots
<1>3. ShmInv => SlotsKept
  BY TypeFromParts, OwnersExclusive DEF SlotsKept, SlotInv
<1> QED BY <1>1, <1>2, <1>3, PTL DEF Spec
-----------------------------------------------------------------------------
(* What ul_log_getid finds is the first place of a name.                   *)
Places(m, x) == {k \in 1..Len(m) : m[k] = x}

(* The least member, given one. *)
LEMMA MinIs ==
    ASSUME NEW S \in SUBSET Nat, NEW n \in S, \A y \in S : n <= y
    PROVE  Min(S) = n
<1>1. Min(S) \in S /\ Min(S) <= n
  BY LeastNat
<1>2. Min(S) \in Nat /\ n \in Nat /\ n <= Min(S)
  BY <1>1
<1> QED BY <1>1, <1>2

(* A name that is there has a first place. *)
LEMMA FirstPlace ==
    ASSUME NEW m \in Seq(Item), NEW x \in ToSet(m)
    PROVE  /\ Min(Places(m, x)) \in 1..Len(m) /\ m[Min(Places(m, x))] = x
           /\ \A k \in 1..Len(m) : m[k] = x => Min(Places(m, x)) <= k
<1>1. Places(m, x) \in SUBSET Nat /\ Places(m, x) # {}
  BY DEF Places, ToSet
<1>2. Min(Places(m, x)) \in Places(m, x) /\ \A k \in Places(m, x) : Min(Places(m, x)) <= k
  BY <1>1, LeastNat
<1> QED BY <1>2 DEF Places

(* Appending a name moves no first place, and a new name's is the end. *)
LEMMA PlaceAppended ==
    ASSUME NEW m \in Seq(Item), NEW x \in Item
    PROVE  /\ \A y \in ToSet(m) : Min(Places(Append(m, x), y)) = Min(Places(m, y))
           /\ x \notin ToSet(m) => Min(Places(Append(m, x), x)) = Len(m) + 1
           /\ ToSet(Append(m, x)) = ToSet(m) \cup {x}
<1> DEFINE n == Append(m, x)
<1>1. /\ n \in Seq(Item) /\ Len(n) = Len(m) + 1 /\ n[Len(m) + 1] = x /\ Len(m) \in Nat
      /\ \A k \in 1..Len(m) : n[k] = m[k]
  OBVIOUS
<1> HIDE DEF n
<1>2. ToSet(n) = ToSet(m) \cup {x}
  <2>1. ToSet(n) = {n[k] : k \in 1..Len(n)} /\ ToSet(m) = {m[k] : k \in 1..Len(m)}
    BY <1>1 DEF ToSet
  <2> QED BY <1>1, <2>1
<1>3. ASSUME NEW y \in ToSet(m) PROVE Min(Places(n, y)) = Min(Places(m, y))
  <2>1. /\ Min(Places(m, y)) \in 1..Len(m) /\ m[Min(Places(m, y))] = y
        /\ \A k \in 1..Len(m) : m[k] = y => Min(Places(m, y)) <= k
    BY FirstPlace
  <2>2. Min(Places(m, y)) \in Places(n, y) /\ \A k \in Places(n, y) : Min(Places(m, y)) <= k
    <3> DEFINE a == Min(Places(m, y))
    <3>1. a \in 1..Len(m) /\ m[a] = y /\ \A k \in 1..Len(m) : m[k] = y => a <= k
      BY <2>1
    <3> HIDE DEF a
    <3>2. a \in 1..Len(n) /\ n[a] = y /\ \A k \in 1..Len(n) : n[k] = y => a <= k
      BY <1>1, <3>1
    <3>3. a \in Places(n, y) /\ \A k \in Places(n, y) : a <= k
      BY <3>2 DEF Places
    <3> QED BY <3>3 DEF a
  <2>3. Places(n, y) \in SUBSET Nat
    BY DEF Places
  <2> QED BY <2>2, <2>3, MinIs
<1>4. ASSUME x \notin ToSet(m) PROVE Min(Places(n, x)) = Len(m) + 1
  <2>1. \A k \in 1..Len(m) : m[k] # x
    BY <1>4 DEF ToSet
  <2>2. Places(n, x) \in SUBSET Nat /\ Len(m) + 1 \in Places(n, x)
    BY <1>1 DEF Places
  <2>3. \A k \in Places(n, x) : Len(m) + 1 <= k
    BY <1>1, <2>1 DEF Places
  <2> QED BY <2>2, <2>3, MinIs
<1> QED BY <1>2, <1>3, <1>4 DEF n

(* A process' slot shows its items in the order in which it assigned them, *)
(* nothing after them, and at each one's first place its value.            *)
Layout(p) ==
    /\ \A k \in 1..NItems : IF k <= Len(mine[p]) THEN data[dp[p]][k].name = mine[p][k]
                                                 ELSE data[dp[p]][k].name \notin Item
    /\ \A x \in ToSet(mine[p]) : data[dp[p]][Min(Places(mine[p], x))].value = want[p][x]

\* Nobody shares a name, nobody cleans, and the table was made before.
Undisturbed == setup.habits \cap {"same", "clean", "early"} = {}

(* The layout, and what it starts from: a process that opens the log for   *)
(* the first time has assigned nothing.                                    *)
Laid ==
    Undisturbed =>
        /\ cleaning = 0 /\ apc \notin {"free", "wipe"} /\ robbed = {}
        /\ \A p \in Proc : Alive(p) => apc = "done" /\ opens[p] # 0
        /\ \A p \in Proc : opens[p] = 0 \/ (opens[p] = 1 /\ pc[p] \in Live) => mine[p] = <<>>
        /\ \A p \in Proc :
              torn = {} /\ opens[p] = 1 /\ pc[p] \in Owning /\ dp[p] # 0 => Layout(p)

(* It is what a monitor reads. *)
LEMMA LaidExported == RestType /\ SlotInv /\ Laid => Exported
<1> SUFFICES ASSUME RestType, SlotInv, Laid, Undisturbed, torn = {},
                    NEW p \in Proc, pc[p] = "open", opens[p] = 1, dp[p] # 0
             PROVE  /\ ctrl[dp[p]] = name[p]
                    /\ {data[dp[p]][k].name : k \in 1..NItems} \cap Item = ToSet(mine[p])
                    /\ \A x \in ToSet(mine[p]) : getval(dp[p], x) = want[p][x]
  BY Zenon DEF Exported, Undisturbed
<1>1. Layout(p)
  BY DEF Laid, Owning
<1>2. ctrl[dp[p]] = name[p]
  BY DEF Laid, SlotInv, Owners, Titles, Owning, Undisturbed
<1>3. mine[p] \in Seq(Item) /\ Len(mine[p]) <= NItems /\ Len(mine[p]) \in Nat /\ NItems \in Nat
  BY BoundAssumption DEF RestType, Counts
<1>4. ToSet(mine[p]) = {mine[p][k] : k \in 1..Len(mine[p])} /\ ToSet(mine[p]) \subseteq Item
  BY <1>3 DEF ToSet
<1>5. {data[dp[p]][k].name : k \in 1..NItems} \cap Item = ToSet(mine[p])
  <2>1. ASSUME NEW k \in 1..NItems, data[dp[p]][k].name \in Item
        PROVE  data[dp[p]][k].name \in ToSet(mine[p])
    BY <1>1, <1>3, <1>4, <2>1 DEF Layout
  <2>2. ASSUME NEW k \in 1..Len(mine[p])
        PROVE  k \in 1..NItems /\ data[dp[p]][k].name = mine[p][k]
    BY <1>1, <1>3 DEF Layout
  <2> QED BY <1>4, <2>1, <2>2
<1>6. ASSUME NEW x \in ToSet(mine[p]) PROVE getval(dp[p], x) = want[p][x]
  <2>1. x \in Item
    BY <1>4
  <2>2. {k \in 1..NItems : data[dp[p]][k].name = x} = Places(mine[p], x)
    BY <1>1, <1>3, <2>1 DEF Layout, Places
  <2> QED BY <1>1, <2>2 DEF Layout, getval
<1> QED BY <1>2, <1>5, <1>6

(* A layout that nobody touches stays. *)
LEMMA SameLayout ==
    ASSUME NEW q \in Proc, Layout(q), mine'[q] = mine[q], want'[q] = want[q], dp'[q] = dp[q],
           data'[dp[q]] = data[dp[q]]
    PROVE  Layout(q)'
BY DEF Layout, Places
(* A process that takes a slot, its own or a free one, finds it clean. *)
LEMMA ClaimLaid ==
    ASSUME SemInv, NameInv, RestType, SlotInv, Laid, Exclusive', NEW p \in Proc, Claim(p)
    PROVE  Laid'
<1> SUFFICES ASSUME Undisturbed PROVE Laid'
  BY DEF Laid, Undisturbed, Claim, rest
<1>0. /\ pc[p] = "claim" /\ UNCHANGED <<setup, apc, cleaning, opened, want, torn, robbed, mine, opens>>
      /\ ctrl' = ctrl
      /\ pc \in [Proc -> Place] /\ cleaning = 0 /\ apc \notin {"free", "wipe"} /\ robbed = {}
      /\ \E where \in {"sign", "open"} : pc' = [pc EXCEPT ![p] = where]
  BY Zenon DEF Claim, rest, SemInv, Goto, Laid
<1>1. /\ \A q \in Proc : q # p => pc'[q] = pc[q]
      /\ pc'[p] \in {"sign", "open"}
  BY <1>0
<1>2. /\ \A q \in Proc : Alive(q)' => Alive(q)
      /\ \A q \in Proc : pc'[q] \in Live => pc[q] \in Live
  BY <1>0, <1>1 DEF Alive, Live
<1>3. /\ \A q \in Proc : Alive(q)' => apc' = "done" /\ opens'[q] # 0
      /\ \A q \in Proc : opens'[q] = 0 \/ (opens'[q] = 1 /\ pc'[q] \in Live) => mine'[q] = <<>>
  BY <1>0, <1>2 DEF Laid
<1>4. ASSUME NEW q \in Proc, torn' = {}, opens'[q] = 1, pc'[q] \in Owning, dp'[q] # 0
      PROVE  Layout(q)'
  <2>1. CASE UNCHANGED <<data, cp, dp>>
    <3>1. dp[p] = 0
      BY <1>0 DEF SlotInv, Pointers, Owning
    <3>2. q # p /\ Layout(q)
      BY <1>0, <1>1, <1>4, <2>1, <3>1 DEF Laid
    <3> QED BY <1>0, <2>1, <3>2, SameLayout
  <2>2. ASSUME NEW s \in Slot, First(s, IF Own(p) # {} THEN Own(p) ELSE FreeSlots),
               dp' = [dp EXCEPT ![p] = s],
               data' = (IF Own(p) # {} THEN [data EXCEPT ![s] = Empty] ELSE data)
        PROVE  Layout(q)'
    <3>0. /\ dp'[p] = s /\ \A r \in Slot : r # s => data'[r] = data[r]
          /\ \A r \in Proc : r # p => dp'[r] = dp[r]
      BY <2>2 DEF RestType
    <3>1. CASE q # p
      <4>1. dp[q] = dp'[q] /\ dp[q] \in Slot /\ Layout(q)
        BY <1>0, <1>1, <1>4, <3>0, <3>1, SetupNumbers DEF RestType, Laid
      <4>2. s # 0 /\ dp'[q] # s
        <5>1. s # 0
          BY SetupNumbers DEF RestType
        <5>2. setup.habits \cap {"same"} = {}
          BY DEF Undisturbed
        <5>3. \A a, b \in Proc : a # b /\ dp'[a] # 0 => dp'[a] # dp'[b]
          BY <1>0, <5>2 DEF Exclusive
        <5> QED BY <3>0, <3>1, <5>1, <5>3
      <4> QED BY <1>0, <3>0, <4>1, <4>2, SameLayout
    <3>2. CASE q = p
      <4>1. mine'[p] = <<>>
        BY <1>0, <1>4, <3>2 DEF Laid, Live
      <4>2. \A k \in 1..NItems : data'[s][k].name \notin Item
        <5>1. CASE Own(p) # {}
          <6>1. data'[s] = Empty
            BY <2>2, <5>1 DEF RestType
          <6> QED BY <6>1, EmptyClean
        <5>2. CASE Own(p) = {}
          <6>1. ctrl[s] = Null /\ data' = data
            BY <2>2, <5>2 DEF First, FreeSlots
          <6>2. s \notin torn \cup robbed /\ apc # "wipe"
            BY <1>0, <1>4
          <6>3. \A r \in Proc : pc[r] # "cdata"
            BY <1>0 DEF SemInv, Inside
          <6> QED BY <6>1, <6>2, <6>3 DEF SlotInv, FreeClean, Clean, Undisturbed
        <5> QED BY <5>1, <5>2
      <4>3. Len(<<>>) = 0 /\ ToSet(<<>>) = {}
        BY DEF ToSet
      <4> QED BY <3>0, <3>2, <4>1, <4>2, <4>3 DEF Layout
    <3> QED BY <3>1, <3>2
  <2> QED BY <2>1, <2>2 DEF Claim
<1> QED BY <1>0, <1>3, <1>4 DEF Laid

(* A process exports at its own places of its own slot. *)
LEMMA ExportLaid ==
    ASSUME SemInv, NameInv, RestType, SlotInv, Laid, NEW p \in Proc,
           \E x \in Item : assign(p, x) \/ setval(p, x) \/ addval(p, x)
    PROVE  Laid'
<1>0. /\ UNCHANGED <<setup, apc, cleaning, pc, dp, opens, torn, robbed>>
      /\ pc[p] = "open" /\ dp[p] # 0
      /\ \A r \in Slot : r # dp[p] => data'[r] = data[r]
      /\ \A q \in Proc : q # p => mine'[q] = mine[q] /\ want'[q] = want[q]
  BY DEF assign, setval, addval, Set, proc, RestType
<1> SUFFICES ASSUME Undisturbed PROVE Laid'
  BY <1>0 DEF Laid, Undisturbed
<1>1. Exclusive /\ \A q \in Proc : dp[q] # 0 => dp[q] \in Slot
  BY OwnersExclusive, SetupNumbers DEF RestType
<1>2. /\ \A q \in Proc : Alive(q)' => apc' = "done" /\ opens'[q] # 0
      /\ \A q \in Proc : opens'[q] = 0 \/ (opens'[q] = 1 /\ pc'[q] \in Live) => mine'[q] = <<>>
  <2>1. Alive(p) /\ pc[p] \notin Live
    BY <1>0 DEF Alive, Live
  <2>2. opens[p] # 0
    BY <2>1 DEF Laid
  <2> QED BY <1>0, <2>1, <2>2 DEF Laid, Alive
<1>3. ASSUME NEW q \in Proc, q # p, torn = {}, opens[q] = 1, pc[q] \in Owning, dp[q] # 0
      PROVE  Layout(q)'
  <2>1. dp[q] # dp[p] /\ Layout(q)
    BY <1>0, <1>1, <1>3 DEF Exclusive, Undisturbed, Laid
  <2> QED BY <1>0, <1>1, <1>3, <2>1, SameLayout
<1>4. ASSUME torn = {}, opens[p] = 1 PROVE Layout(p)'
  <2>0. Layout(p)
    BY <1>0, <1>4 DEF Laid, Owning
  <2>1. /\ mine[p] \in Seq(Item) /\ Len(mine[p]) \in Nat /\ Len(mine[p]) <= NItems /\ NItems \in Nat
        /\ data[dp[p]] \in Row /\ dp[p] \in Slot /\ want \in [Proc -> [Item -> 0..MaxValue]]
    BY <1>0, <1>1, BoundAssumption DEF RestType, Counts
  <2>m. ToSet(mine[p]) \subseteq Item
    BY <2>1 DEF ToSet
  <2>2. ASSUME NEW x \in Item, assign(p, x) PROVE Layout(p)'
    <3> DEFINE m == Append(mine[p], x)  n == Len(mine[p]) + 1
    <3>1. /\ mine'[p] = m /\ Len(mine[p]) < NItems
          /\ data' = [data EXCEPT ![dp[p]][Len(mine'[p])] = [name |-> x, value |-> 0]]
          /\ want' = (IF x \in ToSet(mine[p]) THEN want ELSE [want EXCEPT ![p][x] = 0])
      BY <2>2 DEF assign, RestType
    <3>2. /\ m \in Seq(Item) /\ Len(m) = n /\ m[n] = x /\ n \in 1..NItems
          /\ \A k \in 1..Len(mine[p]) : m[k] = mine[p][k]
      BY <2>1, <3>1
    <3>3. /\ \A y \in ToSet(mine[p]) : Min(Places(m, y)) = Min(Places(mine[p], y))
          /\ x \notin ToSet(mine[p]) => Min(Places(m, x)) = n
          /\ ToSet(m) = ToSet(mine[p]) \cup {x}
      BY <2>1, PlaceAppended
    <3>4. \A y \in ToSet(mine[p]) : Min(Places(mine[p], y)) \in 1..Len(mine[p])
      BY <2>1, FirstPlace
    <3> HIDE DEF m
    <3>5. data'[dp[p]] = [data[dp[p]] EXCEPT ![n] = [name |-> x, value |-> 0]]
      BY <2>1, <3>1, <3>2 DEF RestType
    <3>6. /\ data'[dp[p]][n] = [name |-> x, value |-> 0]
          /\ \A k \in 1..NItems : k # n => data'[dp[p]][k] = data[dp[p]][k]
      BY <2>1, <3>2, <3>5 DEF Row
    <3>7. \A k \in 1..NItems : IF k <= n THEN data'[dp[p]][k].name = m[k]
                                         ELSE data'[dp[p]][k].name \notin Item
      <4> TAKE k \in 1..NItems
      <4>1. CASE k = n
        BY <3>2, <3>6, <4>1
      <4>2. CASE k < n
        <5>1. k \in 1..Len(mine[p]) /\ k <= Len(mine[p]) /\ k <= n /\ k # n
          BY <2>1, <4>2
        <5>2. data'[dp[p]][k].name = data[dp[p]][k].name /\ data[dp[p]][k].name = mine[p][k]
          BY <2>0, <3>6, <5>1 DEF Layout
        <5> QED BY <3>2, <5>1, <5>2
      <4>3. CASE k > n
        <5>1. ~(k <= Len(mine[p])) /\ ~(k <= n) /\ k # n
          BY <2>1, <4>3
        <5>2. data'[dp[p]][k].name = data[dp[p]][k].name /\ data[dp[p]][k].name \notin Item
          BY <2>0, <3>6, <5>1 DEF Layout
        <5> QED BY <5>1, <5>2
      <4>4. k = n \/ k < n \/ k > n
        <5>1. n \in Int /\ k \in Int
          BY <2>1
        <5> HIDE DEF n
        <5> QED BY <5>1
      <4> QED BY <4>1, <4>2, <4>3, <4>4
    <3>8. ASSUME NEW y \in ToSet(m) PROVE data'[dp[p]][Min(Places(m, y))].value = want'[p][y]
      <4>1. CASE y \in ToSet(mine[p])
        <5>1. want'[p][y] = want[p][y]
          BY <2>1, <2>m, <3>1, <4>1
        <5>2. Min(Places(m, y)) \in 1..NItems /\ Min(Places(m, y)) # n
          <6> DEFINE a == Min(Places(mine[p], y))
          <6>1. a \in 1..Len(mine[p]) /\ Min(Places(m, y)) = a
            BY <3>3, <3>4, <4>1
          <6> HIDE DEF a
          <6>2. a \in 1..NItems /\ a # n
            BY <2>1, <6>1
          <6> QED BY <6>1, <6>2
        <5>3. data'[dp[p]][Min(Places(m, y))] = data[dp[p]][Min(Places(mine[p], y))]
          BY <3>3, <3>6, <4>1, <5>2
        <5> QED BY <2>0, <4>1, <5>1, <5>3 DEF Layout
      <4>2. CASE y \notin ToSet(mine[p])
        <5>1. y = x /\ want'[p][x] = 0
          BY <2>1, <3>1, <3>3, <4>2
        <5> QED BY <3>3, <3>6, <4>2, <5>1
      <4> QED BY <4>1, <4>2
    <3>9. mine'[p] = m /\ Len(m) = n /\ dp' = dp
      BY <1>0, <3>1, <3>2
    <3> HIDE DEF n
    <3> QED BY <3>7, <3>8, <3>9 DEF Layout
  <2>3. ASSUME NEW x \in Item, NEW v, Set(p, x, v) PROVE Layout(p)'
    <3> DEFINE n == Min(Places(mine[p], x))
    <3>1. /\ mine' = mine /\ x \in ToSet(mine[p])
          /\ data' = [data EXCEPT ![dp[p]][n].value = v]
          /\ want' = [want EXCEPT ![p][x] = v]
      BY <2>3 DEF Set, proc, getid, Places
    <3>2. n \in 1..Len(mine[p]) /\ mine[p][n] = x
      BY <2>1, <3>1, FirstPlace
    <3>3. \A y \in ToSet(mine[p]) : /\ Min(Places(mine[p], y)) \in 1..Len(mine[p])
                                    /\ mine[p][Min(Places(mine[p], y))] = y
      BY <2>1, FirstPlace
    <3> HIDE DEF n
    <3>4. n \in 1..NItems /\ data'[dp[p]] = [data[dp[p]] EXCEPT ![n].value = v]
      BY <2>1, <3>1, <3>2 DEF RestType
    <3>5. /\ data'[dp[p]][n] = [data[dp[p]][n] EXCEPT !.value = v]
          /\ \A k \in 1..NItems : k # n => data'[dp[p]][k] = data[dp[p]][k]
      BY <2>1, <3>4 DEF Row
    <3>6. data[dp[p]][n] \in Entry
      BY <2>1, <3>4 DEF Row
    <3>7. data'[dp[p]][n].value = v /\ data'[dp[p]][n].name = data[dp[p]][n].name
      BY <3>5, <3>6 DEF Entry
    <3>8. \A k \in 1..NItems : data'[dp[p]][k].name = data[dp[p]][k].name
      BY <3>5, <3>7
    <3>9. ASSUME NEW y \in ToSet(mine[p])
          PROVE  data'[dp[p]][Min(Places(mine[p], y))].value = want'[p][y]
      <4>1. CASE y = x
        BY <2>1, <3>1, <3>7, <4>1 DEF n
      <4>2. CASE y # x
        <5>1. want'[p][y] = want[p][y]
          BY <2>1, <2>m, <3>1, <4>2
        <5>2. Min(Places(mine[p], y)) \in 1..NItems /\ Min(Places(mine[p], y)) # n
          <6>1. Min(Places(mine[p], y)) # n
            BY <3>2, <3>3, <4>2
          <6> DEFINE a == Min(Places(mine[p], y))
          <6>2. a \in 1..Len(mine[p])
            BY <3>3
          <6> HIDE DEF a
          <6>3. a \in 1..NItems
            BY <2>1, <6>2
          <6> QED BY <6>1, <6>3 DEF a
        <5> QED BY <2>0, <3>5, <5>1, <5>2 DEF Layout
      <4> QED BY <4>1, <4>2
    <3> QED BY <1>0, <2>0, <3>1, <3>8, <3>9 DEF Layout
  <2> QED BY <2>2, <2>3 DEF setval, addval
<1>5. cleaning' = 0 /\ apc' \notin {"free", "wipe"} /\ robbed' = {}
  BY <1>0 DEF Laid
<1> QED BY <1>0, <1>2, <1>3, <1>4, <1>5 DEF Laid
(* A process that dies leaves the others' items alone, and forgets its own. *)
LEMMA DieLaid ==
    ASSUME SemInv, RestType, Laid, NEW p \in Proc, Die(p)
    PROVE  Laid'
<1>0. /\ UNCHANGED <<setup, apc, data, cleaning, robbed>> /\ pc \in [Proc -> Place]
      /\ torn \subseteq torn'
      /\ pc' = [pc EXCEPT ![p] = "off"] /\ opens' = [opens EXCEPT ![p] = 0]
      /\ mine' = [mine EXCEPT ![p] = <<>>] /\ dp' = [dp EXCEPT ![p] = 0]
      /\ want' = [want EXCEPT ![p] = [x \in Item |-> 0]]
  BY DEF Die, Goto, table, SemInv
<1> SUFFICES ASSUME Undisturbed PROVE Laid'
  BY <1>0 DEF Laid, Undisturbed
<1>1. /\ pc'[p] = "off" /\ opens'[p] = 0 /\ mine'[p] = <<>> /\ dp'[p] = 0
      /\ \A q \in Proc : q # p => /\ pc'[q] = pc[q] /\ opens'[q] = opens[q]
                                  /\ mine'[q] = mine[q] /\ dp'[q] = dp[q] /\ want'[q] = want[q]
  BY <1>0 DEF RestType
<1>2. \A q \in Proc : Alive(q)' => q # p /\ Alive(q)
  BY <1>1 DEF Alive
<1>3. /\ \A q \in Proc : Alive(q)' => apc' = "done" /\ opens'[q] # 0
      /\ \A q \in Proc : opens'[q] = 0 \/ (opens'[q] = 1 /\ pc'[q] \in Live) => mine'[q] = <<>>
  BY <1>0, <1>1, <1>2 DEF Laid
<1>4. ASSUME NEW q \in Proc, torn' = {}, opens'[q] = 1, pc'[q] \in Owning, dp'[q] # 0
      PROVE  Layout(q)'
  <2>1. q # p /\ torn = {}
    BY <1>0, <1>1, <1>4
  <2>2. Layout(q)
    BY <1>1, <1>4, <2>1 DEF Laid
  <2> QED BY <1>0, <1>1, <2>1, <2>2, SameLayout
<1>5. cleaning' = 0 /\ apc' \notin {"free", "wipe"} /\ robbed' = {}
  BY <1>0 DEF Laid
<1> QED BY <1>3, <1>4, <1>5 DEF Laid

(* The halves of ul_closeshm touch the caller's slot only. *)
LEMMA CloseLaid ==
    ASSUME SemInv, NameInv, RestType, SlotInv, Laid, NEW p \in Proc, CloseCtrl(p) \/ CloseData(p)
    PROVE  Laid'
<1>0. /\ UNCHANGED <<setup, apc, cleaning, torn, robbed, mine, want, opens>>
      /\ pc \in [Proc -> Place] /\ pc[p] \in {"cctrl", "cdata"}
      /\ \E where \in {"cdata", "cpost"} : pc' = [pc EXCEPT ![p] = where]
      /\ dp' = dp \/ dp' = [dp EXCEPT ![p] = 0]
      /\ data' = data \/ data' = [data EXCEPT ![dp[p]] = Empty]
  BY DEF CloseCtrl, CloseData, rest, Goto, SemInv
<1> SUFFICES ASSUME Undisturbed PROVE Laid'
  BY <1>0 DEF Laid, Undisturbed
<1>1. /\ pc'[p] \in {"cdata", "cpost"}
      /\ \A q \in Proc : q # p => pc'[q] = pc[q] /\ dp'[q] = dp[q]
      /\ \A r \in Slot : r # dp[p] => data'[r] = data[r]
  BY <1>0 DEF RestType
<1>2. /\ \A q \in Proc : Alive(q)' => Alive(q)
      /\ \A q \in Proc : pc'[q] \in Live => pc[q] \in Live
  BY <1>0, <1>1 DEF Alive, Live
<1>3. /\ \A q \in Proc : Alive(q)' => apc' = "done" /\ opens'[q] # 0
      /\ \A q \in Proc : opens'[q] = 0 \/ (opens'[q] = 1 /\ pc'[q] \in Live) => mine'[q] = <<>>
  BY <1>0, <1>2 DEF Laid
<1>4. ASSUME NEW q \in Proc, torn' = {}, opens'[q] = 1, pc'[q] \in Owning, dp'[q] # 0
      PROVE  Layout(q)'
  <2>1. q # p
    BY <1>1, <1>4 DEF Owning
  <2>2. Layout(q) /\ dp[q] \in Slot /\ dp[q] # 0
    BY <1>0, <1>1, <1>4, <2>1, SetupNumbers DEF Laid, RestType
  <2>3. dp[q] # dp[p]
    <3>1. Exclusive /\ setup.habits \cap {"same"} = {}
      BY OwnersExclusive DEF Undisturbed
    <3>2. robbed = {}
      BY DEF Laid
    <3> QED BY <2>1, <2>2, <3>1, <3>2 DEF Exclusive
  <2> QED BY <1>0, <1>1, <2>1, <2>2, <2>3, SameLayout
<1>5. cleaning' = 0 /\ apc' \notin {"free", "wipe"} /\ robbed' = {}
  BY <1>0 DEF Laid
<1> QED BY <1>3, <1>4, <1>5 DEF Laid

(* Opening for the first time, after the table was made. *)
LEMMA OpenLaid ==
    ASSUME SemInv, RestType, Laid, NEW p \in Proc, NEW n \in Name, openlog(p, n)
    PROVE  Laid'
<1>0. /\ UNCHANGED <<setup, apc, data, cleaning, dp, mine, want, torn, robbed>>
      /\ pc \in [Proc -> Place] /\ pc' = [pc EXCEPT ![p] = "attach"]
      /\ opens' = [opens EXCEPT ![p] = @ + 1] /\ (Made \/ "early" \in setup.habits)
  BY DEF openlog, table, SemInv, Goto
<1> SUFFICES ASSUME Undisturbed PROVE Laid'
  BY <1>0 DEF Laid, Undisturbed
<1>1. /\ pc'[p] = "attach" /\ opens'[p] = opens[p] + 1 /\ opens[p] \in Nat
      /\ \A q \in Proc : q # p => pc'[q] = pc[q] /\ opens'[q] = opens[q]
  BY <1>0, SetupNumbers DEF RestType
<1>2. apc = "done" /\ cleaning = 0 /\ robbed = {}
  BY <1>0 DEF Undisturbed, Laid, Made
<1>3. \A q \in Proc : Alive(q)' => apc' = "done" /\ opens'[q] # 0
  BY <1>0, <1>1, <1>2 DEF Laid, Alive
<1>4. \A q \in Proc : opens'[q] = 0 \/ (opens'[q] = 1 /\ pc'[q] \in Live) => mine'[q] = <<>>
  BY <1>0, <1>1 DEF Laid
<1>5. ASSUME NEW q \in Proc, torn' = {}, opens'[q] = 1, pc'[q] \in Owning, dp'[q] # 0
      PROVE  Layout(q)'
  <2>1. q # p
    BY <1>1, <1>5 DEF Owning
  <2>2. Layout(q)
    BY <1>0, <1>1, <1>5, <2>1 DEF Laid
  <2> QED BY <1>0, <2>2, SameLayout
<1> QED BY <1>0, <1>2, <1>3, <1>4, <1>5 DEF Laid

(* The moves of a process between its changes to the table. *)
LEMMA CallLaid ==
    ASSUME SemInv, SlotInv, Laid, NEW p \in Proc,
           Attach(p) \/ Acquire(p) \/ Sign(p) \/ Post(p) \/ closelog(p)
    PROVE  Laid'
<1>0. /\ UNCHANGED <<setup, apc, data, cleaning, dp, mine, want, torn, robbed, opens>>
      /\ pc \in [Proc -> Place]
      /\ pc[p] \in {"attach", "wait", "cwait", "sign", "post", "cpost", "open"}
  BY DEF Attach, Acquire, Sign, Post, closelog, rest, table, SemInv
<1>1. \E where \in {"wait", "open", "claim", "post", "cctrl", "off", "cwait"} :
         /\ pc' = [pc EXCEPT ![p] = where]
         /\ where \in Live => pc[p] \in Live
         /\ where \in Owning => pc[p] \in Owning \/ pc[p] = "attach"
  BY <1>0, Zenon DEF Attach, Acquire, Sign, Post, closelog, Goto, Live, Owning
<1> SUFFICES ASSUME Undisturbed PROVE Laid'
  BY <1>0 DEF Laid, Undisturbed
<1>2. /\ \A q \in Proc : q # p => pc'[q] = pc[q]
      /\ pc'[p] \in Live => pc[p] \in Live
      /\ pc'[p] \in Owning => pc[p] \in Owning \/ pc[p] = "attach"
  BY <1>0, <1>1
<1>3. \A q \in Proc : Alive(q)' => Alive(q)
  BY <1>0, <1>2 DEF Alive
<1>4. /\ \A q \in Proc : Alive(q)' => apc' = "done" /\ opens'[q] # 0
      /\ \A q \in Proc : opens'[q] = 0 \/ (opens'[q] = 1 /\ pc'[q] \in Live) => mine'[q] = <<>>
  BY <1>0, <1>2, <1>3 DEF Laid
<1>5. ASSUME NEW q \in Proc, torn' = {}, opens'[q] = 1, pc'[q] \in Owning, dp'[q] # 0
      PROVE  Layout(q)'
  <2>1. pc[q] = "attach" => dp[q] = 0
    BY DEF SlotInv, Pointers, Owning
  <2>2. Layout(q)
    BY <1>0, <1>2, <1>5, <2>1 DEF Laid
  <2> QED BY <1>0, <2>2, SameLayout
<1>6. cleaning' = 0 /\ apc' \notin {"free", "wipe"} /\ robbed' = {}
  BY <1>0 DEF Laid
<1> QED BY <1>4, <1>5, <1>6 DEF Laid

(* Nothing the administration does meets a process. *)
LEMMA AdminLaid ==
    ASSUME RestType, Laid, Admin \/ \E n \in Name : cleanshm(n)
    PROVE  Laid'
<1>0. UNCHANGED <<setup, pc, dp, mine, want, opens>>
  BY DEF Admin, CreateShm, CreateSem, FirstPost, CleanAllCtrl, CleanAllData, CleanCtrl, CleanData,
         cleanshm, proc
<1> SUFFICES ASSUME Undisturbed PROVE Laid'
  BY <1>0 DEF Laid, Undisturbed
<1>1. /\ cleaning = 0 /\ robbed = {}
      /\ ~CleanCtrl /\ ~CleanData /\ ~(\E n \in Name : cleanshm(n))
  BY DEF Laid, Undisturbed, CleanCtrl, CleanData, cleanshm
<1>2. /\ apc # "done" /\ cleaning' = 0 /\ apc' \notin {"free", "wipe"} /\ robbed' = {}
  BY <1>1 DEF Admin, CreateShm, CreateSem, FirstPost, CleanAllCtrl, CleanAllData
<1>3. \A p \in Proc : ~Alive(p)
  BY <1>2 DEF Laid
<1> QED BY <1>0, <1>2, <1>3 DEF Laid, Alive, Owning

(* Every step keeps the layout. *)
LEMMA NextLaid ==
    ASSUME SemInv, NameInv, RestType, SlotInv, Laid, Exclusive', [Next]_vars
    PROVE  Laid'
<1>1. CASE UNCHANGED vars
  <2>1. UNCHANGED <<setup, apc, data, cleaning, pc, dp, mine, want, torn, robbed, opens>>
    BY <1>1 DEF vars, proc
  <2>2. ASSUME NEW q \in Proc, Layout(q) PROVE Layout(q)'
    BY <2>1, <2>2, SameLayout
  <2> QED BY <2>1, <2>2 DEF Laid, Undisturbed, Alive
<1>2. CASE Next
  <2>1. CASE Quiet
    BY <2>1, <1>1 DEF Quiet
  <2> QED BY <1>2, <2>1, AdminLaid, CallLaid, ClaimLaid, CloseLaid, DieLaid, OpenLaid,
             ExportLaid DEF Next, Call
<1> QED BY <1>1, <1>2

(* Before anybody opens the log. *)
LEMMA LaidInit == Init => Laid
<1> SUFFICES ASSUME Init PROVE Laid
  OBVIOUS
<1>1. /\ cleaning = 0 /\ apc = "none" /\ robbed = {}
      /\ \A p \in Proc : pc[p] = "off" /\ mine[p] = <<>>
  BY DEF Init
<1> QED BY <1>1 DEF Laid, Alive, Owning

(* A monitor reads of a process what it exported, for any number of        *)
(* processes, items and values, and any table.                             *)
THEOREM AlwaysExported == Spec => []Exported
<1> DEFINE ShmInv == SemInv /\ NameInv /\ RestType /\ SlotInv /\ Laid
<1>1. Init => ShmInv
  BY SemInit, NameInit, RestTypeInit, SlotsInit, LaidInit
<1>2. ShmInv /\ [Next]_vars => ShmInv'
  <2> SUFFICES ASSUME SemInv, NameInv, RestType, SlotInv, Laid, [Next]_vars PROVE ShmInv'
    OBVIOUS
  <2>1. SemInv' /\ NameInv' /\ RestType' /\ SlotInv'
    BY NextSem, NextNames, NextRest, NextSlots
  <2>2. (SemInv /\ NameInv /\ RestType /\ SlotInv => Exclusive)'
    BY OwnersExclusive, PTL
  <2>3. Laid'
    BY <2>1, <2>2, NextLaid
  <2> QED BY <2>1, <2>3
<1>3. ShmInv => Exported
  BY LaidExported
<1> QED BY <1>1, <1>2, <1>3, PTL DEF Spec
=============================================================================
