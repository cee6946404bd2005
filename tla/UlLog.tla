------------------------------- MODULE UlLog -------------------------------
(***************************************************************************)
(* The log files of ul_log: threads open a log unit of several files each  *)
(* (log, log.wf and self-defined ones), share the entries of g_file_array  *)
(* by file name and reference count, write under the entry's own lock and  *)
(* rotate a file that is full.  The table is guarded by file_lock, one     *)
(* file by its own lock; the two meet in fp and file_name, which rotation  *)
(* changes without file_lock.  An entry of the log is one unit of size     *)
(* (LOG_BUFF_SIZE_EX), files are counted in entries.                       *)
(***************************************************************************)
EXTENDS Integers, Sequences, FiniteSets

CONSTANTS Thread, File,
          MAX_SELF_DEF_LOG,  \* self-defined files of a log unit
          Programs,     \* programs and faults, see ProgramAssumption
          MaxSize,      \* max_size of every file, in entries
          MaxInode,     \* bound: files created
          MaxPart       \* bound: split parts of one file

Cut == ""                  \* file_name while its '/' is replaced by '\0'
None == ""                 \* nobody holds a lock

\* The pointers of a log unit: pf, pf_wf and spf.
Field == 1..(2 + MAX_SELF_DEF_LOG)

(* plans: the files of each thread's log unit, in the order opened.        *)
(* slots: LOG_FILE_NUM.  split: UL_LOGSIZESPLIT.  failing: fopen() may     *)
(* fail.  opens, writes: bounds; unlinks: how often somebody else removes  *)
(* a log file.                                                             *)
ASSUME ProgramAssumption ==
    \A p \in Programs :
        /\ p.plans \in [Thread -> Seq(File)]
        /\ \A t \in Thread : Len(p.plans[t]) \in 2..(2 + MAX_SELF_DEF_LOG)
        /\ p.slots \in Nat \ {0} /\ p.split \in BOOLEAN
        /\ p.failing \in BOOLEAN
        /\ p.opens \in Nat /\ p.writes \in Nat /\ p.unlinks \in Nat
ASSUME FileBounds ==
    /\ MaxSize \in Nat \ {0, 1} /\ MaxInode \in Nat /\ MaxPart \in Nat
    /\ MAX_SELF_DEF_LOG \in Nat
ASSUME ThreadAssumption == IsFiniteSet(Thread) /\ None \notin Thread /\ Cut \notin File

VARIABLES
    program,    \* the member of Programs this run is in
    file,       \* g_file_array; fp is the inode the stream writes to, 0 for NULL
    dir,        \* the inode of every file name, 0 for none
    inode,      \* what was created so far: the file it was created for, its size
    at,         \* where each thread is
    unit,       \* the slots its log unit points to, 0 for NULL
    cur,        \* the field of the unit it opens or writes
    rotated,    \* check_flag of its write is 1
    back,       \* where it goes on after the write
    openCalls, writes, unlinked,  \* calls so far
    written,    \* history: entries printed: the log meant, the inode, the place in it
    stolen,     \* history: an open took a slot that a log unit still uses
    raced       \* history: an open compared its name with one that was cut

calls == <<openCalls, writes, unlinked>>
logVars == <<program, file, dir, inode, at, unit, cur, rotated, back, calls, written,
             stolen, raced>>

FileSlot == 1..program.slots
Unused == [fp |-> 0, full |-> FALSE, ref_cnt |-> 0, lock |-> None, file_name |-> Cut]

(* The log of file f, its .tmp, and the dated names of its split parts.    *)
Log(f) == <<f, 0>>
Tmp(f) == <<f, 1>>
Part(f, k) == <<f, 1 + k>>
Path == File \X (0..(1 + MaxPart))

LogInit ==
    /\ program \in Programs
    /\ file = [s \in FileSlot |-> Unused]
    /\ dir = [x \in Path |-> 0] /\ inode = <<>>
    /\ at = [t \in Thread |-> "idle"] /\ unit = [t \in Thread |-> [k \in Field |-> 0]]
    /\ cur = [t \in Thread |-> 0] /\ rotated = [t \in Thread |-> FALSE]
    /\ back = [t \in Thread |-> "idle"]
    /\ openCalls = 0 /\ writes = 0 /\ unlinked = 0
    /\ written = {} /\ stolen = FALSE /\ raced = FALSE

Go(t, where) == at' = [at EXCEPT ![t] = where]
Plan(t) == program.plans[t]

(* The slot and the file thread t opens or writes. *)
My(t) == unit[t][cur[t]]
Mine(t) == Plan(t)[cur[t]]

\* The fields of thread t's unit that point to a slot; none without a unit.
Held(t) == {k \in Field : unit[t][k] # 0}

\* Where a scan in ascending order stops.
Lowest(S) == {s \in S : \A r \in S : s <= r}

(* ul_open_file(f, "a"): the existing file or a new one, in inode i.       *)
Opens(f, i) ==
    \/ dir[Log(f)] # 0 /\ i = dir[Log(f)] /\ UNCHANGED <<dir, inode>>
    \/ /\ dir[Log(f)] = 0 /\ Len(inode) < MaxInode
       /\ i = Len(inode) + 1
       /\ inode' = Append(inode, [base |-> f, size |-> 0])
       /\ dir' = [dir EXCEPT ![Log(f)] = i]
OpenMayFail == program.failing /\ UNCHANGED <<dir, inode>>
-----------------------------------------------------------------------------
(* ul_openlog() and ul_openlog_r() allocate the thread's log unit.         *)
ul_openlog(t) ==
    /\ at[t] = "idle" /\ Held(t) = {} /\ openCalls < program.opens
    /\ openCalls' = openCalls + 1
    /\ Go(t, "open") /\ cur' = [cur EXCEPT ![t] = 1]
    /\ UNCHANGED <<program, file, dir, inode, unit, rotated, back, writes, unlinked, written,
                   stolen, raced>>

\* The slots in which the scan of ul_open_file_unit recognises file f.
Found(f) == {s \in FileSlot : file[s].fp # 0 /\ file[s].file_name = f}
Free == {s \in FileSlot : file[s].fp = 0}

(* What ul_openlog_ex() does with slot s from ul_open_file_unit(). *)
Point(t, s) ==
    /\ unit' = [unit EXCEPT ![t][cur[t]] = s]
    /\ cur' = [cur EXCEPT ![t] = @ + 1]
    /\ Go(t, IF cur[t] = Len(Plan(t)) THEN "start" ELSE "open")

(* ul_open_file_unit(), under file_lock.  A slot counts as free when its   *)
(* stream is NULL.                                                         *)
Share(t) ==
    /\ at[t] = "open"
    /\ \E s \in Lowest(Found(Mine(t))) :
          /\ file' = [file EXCEPT ![s].ref_cnt = @ + 1]
          /\ Point(t, s)
    /\ UNCHANGED <<program, dir, inode, rotated, back, calls, written, stolen, raced>>

OpenNew(t) ==
    /\ at[t] = "open" /\ Found(Mine(t)) = {}
    /\ \E s \in Lowest(Free), i \in 1..MaxInode :
          /\ Opens(Mine(t), i)
          /\ file' = [file EXCEPT ![s] = [fp |-> i, full |-> FALSE, ref_cnt |-> 1,
                                          lock |-> None, file_name |-> Mine(t)]]
          /\ stolen' = (stolen \/ file[s].ref_cnt > 0)
          /\ Point(t, s)
    /\ raced' = (raced \/ \E r \in Thread : at[r] = "rename" /\ ~program.split)
    /\ UNCHANGED <<program, rotated, back, calls, written>>

\* Mutant: the files opened before the failing one stay open.
OpenFailsKeeps(t) ==
    /\ at[t] = "open" /\ Found(Mine(t)) = {}
    /\ Free = {} \/ program.failing
    /\ unit' = [unit EXCEPT ![t] = [k \in Field |-> 0]]
    /\ Go(t, "undo")
    /\ UNCHANGED <<program, file, dir, inode, cur, rotated, back, calls, written, stolen, raced>>

\* ERR_NOSPACE or ERR_OPENFILE: what was opened is closed again.
OpenFails(t) ==
    /\ at[t] = "open" /\ Found(Mine(t)) = {}
    /\ Free = {} \/ program.failing
    /\ Go(t, "undo")
    /\ UNCHANGED <<program, file, dir, inode, unit, cur, rotated, back, calls, written, stolen,
                   raced>>
-----------------------------------------------------------------------------
(* ul_openlog() ends with an entry in log and one in log.wf; so does       *)
(* ul_closelog() before it closes the files.                               *)
CallWrite(t, k, then) ==
    /\ cur' = [cur EXCEPT ![t] = k]
    /\ rotated' = [rotated EXCEPT ![t] = FALSE]
    /\ back' = [back EXCEPT ![t] = then]
    /\ Go(t, IF file[unit[t][k]].full THEN then ELSE "lock")

Start(t) ==
    /\ \/ at[t] = "start" /\ CallWrite(t, 1, "start wf")
       \/ at[t] = "start wf" /\ CallWrite(t, 2, "idle")
       \/ at[t] = "end" /\ CallWrite(t, 1, "end wf")
       \/ at[t] = "end wf" /\ CallWrite(t, 2, "close")
    /\ UNCHANGED <<program, file, dir, inode, unit, calls, written, stolen, raced>>

(* ul_writelog() of an event whose file is the k-th of the unit.  Without  *)
(* a unit the entry goes to stderr, whose slot is never checked.           *)
ul_writelog(t, k) ==
    /\ at[t] = "idle" /\ k \in Held(t) /\ writes < program.writes
    /\ writes' = writes + 1
    /\ CallWrite(t, k, "idle")
    /\ UNCHANGED <<program, file, dir, inode, unit, openCalls, unlinked, written, stolen, raced>>

\* Mutant: a write that cannot be made keeps the lock.
UnlockNot(t) ==
    /\ at[t] = "unlock"
    /\ Go(t, back[t])
    /\ UNCHANGED <<program, file, dir, inode, unit, cur, rotated, back, calls, written, stolen,
                   raced>>

(* ul_vwritelog_buff(): the file's lock. *)
Lock(t) ==
    /\ at[t] = "lock" /\ file[My(t)].lock = None
    /\ file' = [file EXCEPT ![My(t)].lock = t]
    /\ Go(t, "check")
    /\ UNCHANGED <<program, dir, inode, unit, cur, rotated, back, calls, written, stolen, raced>>

\* The write cannot be made: ul_vwritelog_buff unlocks and returns 0 all the same.
Unlock(t) ==
    /\ at[t] = "unlock"
    /\ file' = [file EXCEPT ![My(t)].lock = None]
    /\ Go(t, back[t])
    /\ UNCHANGED <<program, dir, inode, unit, cur, rotated, back, calls, written, stolen, raced>>

(* The decision of ul_check, for a file of the given size.  Every file is  *)
(* opened with UL_FILE_TRUNCATE, so one that has reached max_size is       *)
(* rotated, never marked UL_FILE_FULL.                                     *)
Sized(t, size) ==
    \/ /\ size + 1 >= MaxSize
       /\ Go(t, IF program.split THEN "rename" ELSE "cut") /\ UNCHANGED file
    \/ /\ size + 1 < MaxSize
       /\ Go(t, "write") /\ file' = [file EXCEPT ![My(t)].full = @ \/ size >= MaxSize]

ul_check(t) ==
    /\ at[t] = "check"
    /\ \/ file[My(t)].fp = 0 /\ Go(t, "unlock") /\ UNCHANGED file
       \/ file[My(t)].fp # 0 /\ dir[Log(Mine(t))] = 0 /\ Go(t, "restat") /\ UNCHANGED file
       \/ /\ file[My(t)].fp # 0 /\ dir[Log(Mine(t))] # 0
          /\ Sized(t, inode[dir[Log(Mine(t))]].size)
    /\ UNCHANGED <<program, dir, inode, unit, cur, rotated, back, calls, written, stolen, raced>>

(* stat() failed: the file is opened again, and its size is whatever the   *)
(* uninitialised struct stat says.                                         *)
Restat(t) ==
    /\ at[t] = "restat"
    /\ \/ /\ OpenMayFail
          /\ file' = [file EXCEPT ![My(t)].fp = 0] /\ Go(t, "unlock")
       \/ \E i \in 1..MaxInode, next \in {"write", IF program.split THEN "rename" ELSE "cut"} :
             /\ Opens(Mine(t), i)
             /\ file' = [file EXCEPT ![My(t)].fp = i] /\ Go(t, next)
    /\ UNCHANGED <<program, unit, cur, rotated, back, calls, written, stolen, raced>>

\* The name of the .tmp is made by cutting file_name in place.
CutName(t) ==
    /\ at[t] = "cut"
    /\ file' = [file EXCEPT ![My(t)].file_name = Cut]
    /\ Go(t, "rename")
    /\ UNCHANGED <<program, dir, inode, unit, cur, rotated, back, calls, written, stolen, raced>>

\* Mutant: the dated name is not made unique.
TargetSame(f) == IF program.split THEN {Part(f, 1)} ELSE {Tmp(f)}

(* Where the full file goes; parts of the same second are numbered.  None  *)
(* when all MaxPart numbers are taken.                                     *)
Target(f) ==
    IF program.split
    THEN {Part(f, k) : k \in Lowest({k \in 1..MaxPart : dir[Part(f, k)] = 0})}
    ELSE {Tmp(f)}

\* file_name is whole again; rename() and fclose().
Rename(t) ==
    /\ at[t] = "rename"
    /\ file' = [file EXCEPT ![My(t)].file_name = Mine(t)]
    /\ \/ dir[Log(Mine(t))] = 0 /\ UNCHANGED dir
       \/ /\ dir[Log(Mine(t))] # 0
          /\ \E x \in Target(Mine(t)) :
                dir' = [dir EXCEPT ![x] = dir[Log(Mine(t))], ![Log(Mine(t))] = 0]
    /\ Go(t, "reopen")
    /\ UNCHANGED <<program, inode, unit, cur, rotated, back, calls, written, stolen, raced>>

\* Mutant: the stream of the renamed file is kept.
ReopenNot(t) ==
    /\ at[t] = "reopen"
    /\ Go(t, "write")
    /\ \E i \in 1..MaxInode : Opens(Mine(t), i)
    /\ UNCHANGED <<program, file, rotated, unit, cur, back, calls, written, stolen, raced>>

Reopen(t) ==
    /\ at[t] = "reopen"
    /\ \/ /\ OpenMayFail
          /\ file' = [file EXCEPT ![My(t)].fp = 0] /\ Go(t, "unlock") /\ UNCHANGED rotated
       \/ \E i \in 1..MaxInode :
             /\ Opens(Mine(t), i)
             /\ file' = [file EXCEPT ![My(t)].fp = i] /\ Go(t, "write")
             /\ rotated' = [rotated EXCEPT ![t] = TRUE]
    /\ UNCHANGED <<program, unit, cur, back, calls, written, stolen, raced>>

\* fprintf(), fflush() and unlock.
Write(t) ==
    /\ at[t] = "write"
    /\ LET i == file[My(t)].fp
       IN  /\ inode' = [inode EXCEPT ![i].size = @ + 1]
           /\ written' = written \cup {<<Mine(t), i, inode[i].size + 1>>}
    /\ file' = [file EXCEPT ![My(t)].lock = None]
    /\ Go(t, IF rotated[t] /\ ~program.split THEN "remove" ELSE back[t])
    /\ UNCHANGED <<program, dir, unit, cur, rotated, back, calls, stolen, raced>>

\* remove(tmp_filename), after the lock was given back.
RemoveTmp(t) ==
    /\ at[t] = "remove"
    /\ dir' = [dir EXCEPT ![Tmp(Mine(t))] = 0]
    /\ Go(t, back[t])
    /\ UNCHANGED <<program, file, inode, unit, cur, rotated, back, calls, written, stolen, raced>>
-----------------------------------------------------------------------------
\* ul_closelog(), ul_closelog_r().
ul_closelog(t) ==
    /\ at[t] = "idle" /\ Held(t) # {}
    /\ Go(t, "end")
    /\ UNCHANGED <<program, file, dir, inode, unit, cur, rotated, back, calls, written, stolen,
                   raced>>

\* What ul_closefile() makes of a slot, under file_lock.
closefile(s) == IF file[s].ref_cnt <= 1 THEN Unused
                ELSE [file[s] EXCEPT !.ref_cnt = @ - 1]

(* ul_closelog_fd closes the fields in their order; ul_openlog_ex, when it *)
(* fails, the self-defined ones backwards and then pf and pf_wf.           *)
Sooner(t, j, k) == IF at[t] = "undo" /\ (j > 2 \/ k > 2) THEN j > k ELSE j < k

(* The files of the unit are closed one by one, then the unit is freed.    *)
Close(t) ==
    /\ at[t] \in {"close", "undo"}
    /\ \E k \in Held(t) :
          /\ \A j \in Held(t) \ {k} : Sooner(t, k, j)
          /\ file' = [file EXCEPT ![unit[t][k]] = closefile(unit[t][k])]
          /\ unit' = [unit EXCEPT ![t][k] = 0]
    /\ UNCHANGED <<program, dir, inode, at, cur, rotated, back, calls, written, stolen, raced>>

Freed(t) ==
    /\ at[t] \in {"close", "undo"} /\ Held(t) = {}
    /\ Go(t, "idle")
    /\ cur' = [cur EXCEPT ![t] = 0]
    /\ UNCHANGED <<program, file, dir, inode, unit, rotated, back, calls, written, stolen, raced>>

\* Somebody else removes a log file.
Unlink(f) ==
    /\ unlinked < program.unlinks /\ dir[Log(f)] # 0
    /\ unlinked' = unlinked + 1
    /\ dir' = [dir EXCEPT ![Log(f)] = 0]
    /\ UNCHANGED <<program, file, inode, at, unit, cur, rotated, back, openCalls, writes, written,
                   stolen, raced>>

Work(t) ==
    \/ Share(t) \/ OpenNew(t) \/ OpenFails(t) \/ Start(t) \/ Lock(t) \/ Unlock(t)
    \/ ul_check(t) \/ Restat(t) \/ CutName(t) \/ Rename(t) \/ Reopen(t) \/ Write(t)
    \/ RemoveTmp(t) \/ Close(t) \/ Freed(t)

(* Once a slot in use was given to another file nothing is promised; the   *)
(* model stops there.                                                      *)
LogNext ==
    /\ ~stolen
    /\ \/ \E f \in File : Unlink(f)
       \/ \E t \in Thread : \/ Work(t) \/ ul_openlog(t) \/ ul_closelog(t)
                            \/ \E k \in Field : ul_writelog(t, k)

LogSpec == LogInit /\ [][LogNext]_logVars

\* Threads inside a call are scheduled; mutexes are given to a waiting thread.
FairLogSpec == LogSpec /\ \A t \in Thread : WF_logVars(~stolen /\ Work(t))
-----------------------------------------------------------------------------
\* Inside the locked part of ul_vwritelog_buff.
Locked == {"check", "restat", "cut", "rename", "reopen", "write", "unlock"}

Entries == [fp : Nat, full : BOOLEAN, ref_cnt : Nat, lock : Thread \cup {None},
            file_name : File \cup {Cut}]

LogTypeOK ==
    /\ program \in Programs /\ stolen \in BOOLEAN /\ raced \in BOOLEAN
    /\ file \in [FileSlot -> Entries]
    /\ inode \in Seq([base : File, size : Nat])
    /\ \A s \in FileSlot : file[s].fp <= Len(inode)
    /\ dir \in [Path -> 0..Len(inode)]
    /\ unit \in [Thread -> [Field -> 0..program.slots]]
    /\ cur \in [Thread -> Nat] /\ rotated \in [Thread -> BOOLEAN]
    /\ at \in [Thread -> {"idle", "open", "undo", "start", "start wf", "lock", "remove", "end",
                          "end wf", "close"} \cup Locked]
    /\ back \in [Thread -> {"idle", "start wf", "end wf", "close"}]
    /\ unlinked \in Nat /\ written \subseteq File \X Nat \X Nat

\* The fields of log units that point to slot s.
Users(s) == {u \in Thread \X Field : unit[u[1]][u[2]] = s}

(* However openings fail half way and units are closed, ref_cnt of a slot  *)
(* is the number of log units that use it, and a slot nobody uses is free: *)
(* ul_closefile neither leaks a file nor closes one in use.                *)
RefCnt ==
    ~stolen => \A s \in FileSlot :
        /\ file[s].ref_cnt = Cardinality(Users(s))
        /\ Users(s) = {} => file[s] = Unused

(* A thread in the locked part of ul_vwritelog_buff owns the lock of a     *)
(* slot that its own unit still holds, whoever closes meanwhile.           *)
InUse ==
    ~stolen => \A t \in Thread :
        at[t] \in Locked => file[My(t)].lock = t /\ file[My(t)].ref_cnt > 0

(* ul_open_file_unit and ul_closefile count the users of a slot correctly, *)
(* and nobody's slot goes away while it writes.                            *)
SlotsHeld == LogTypeOK /\ RefCnt /\ InUse

\* Neither of the races over fp and file_name has happened.
Sane == ~stolen /\ ~raced

(* One open stream per file, unless an opening thread read the file_name   *)
(* that a rotation had cut, and opened the file again.                     *)
OneStream ==
    Sane => \A r, s \in FileSlot :
        file[r].fp # 0 /\ file[s].fp # 0 /\ inode[file[r].fp].base = inode[file[s].fp].base
            => r = s

(* An entry is printed into the file that has the log's name at that       *)
(* moment, not into one another thread has renamed.                        *)
Lands ==
    Sane /\ unlinked = 0 => \A t \in Thread :
        at[t] = "write" => file[My(t)].fp = dir[Log(Mine(t))]

(* Through rotations by several threads each log has one stream, and it is *)
(* that of the file with its name.                                         *)
RightFile == OneStream /\ Lands

(* With UL_LOGSIZESPLIT no entry is ever lost: every entry printed is in a *)
(* file that still bears the name of its log or of one of the parts, also  *)
(* when parts are made within one second.                                  *)
KeptAll ==
    program.split /\ Sane /\ unlinked = 0 => \A w \in written :
        /\ w[2] \in DOMAIN inode /\ inode[w[2]].size >= w[3]
        /\ \E k \in 0..(1 + MaxPart) : dir[<<w[1], k>>] = w[2]

(* A log file stays below max_size, however many threads write to it, and  *)
(* is never marked as full, which would refuse entries for good.           *)
Bounded ==
    Sane => /\ \A i \in DOMAIN inode : inode[i].size < MaxSize
            /\ \A s \in FileSlot : ~file[s].full

(* ul_check() moves a file away in time and destroys none of its entries   *)
(* when it splits.                                                         *)
FilesSound == KeptAll /\ Bounded

(* Every call of ul_openlog, ul_writelog and ul_closelog returns, whichever *)
(* way ul_check leaves the locked part.                                     *)
CallsReturn == \A t \in Thread : at[t] # "idle" ~> (at[t] = "idle" \/ stolen)
=============================================================================
