---------------------------- MODULE FileAppender ----------------------------
(***************************************************************************)
(* comlog's file appender, called by several logging threads at once.      *)
(* syncid(), under _lock, keeps the handle on the file that has the log    *)
(* file's name, cuts that file when it is full or its period is over, and  *)
(* keeps at most _quota_filenum files cut off by deleting the oldest, held *)
(* in the ring _ft.  The write itself happens after the unlock.            *)
(*                                                                         *)
(* A file is its inode number, which is also the name it gets when it is   *)
(* cut off and its place in time; 0 is no file, a closed handle, or a name *)
(* under which there is no file.  Sizes are in entries.                    *)
(***************************************************************************)
EXTENDS Integers, Sequences, FiniteSets

CONSTANTS Thread,      \* the logging threads
          Kinds,       \* the splite_type values to configure
          Limit,       \* log_size
          Setups       \* the environments to run in, see SetupAssumption

ASSUME ThreadAssumption == IsFiniteSet(Thread)
ASSUME SizeAssumption == Limit \in Nat \ {0}
ASSUME KindAssumption == Kinds \subseteq {"COM_TRUNCT", "COM_SIZECUT", "COM_DATECUT"}

(* faults: the calls that may fail, "move" for a file moved away; quota:   *)
(* _quota_filenum as configured, 0 for none; old: the most files that      *)
(* earlier runs of the program cut off; prints, inodes: bounds on the      *)
(* entries printed and the files ever created, the log file at least.      *)
ASSUME SetupAssumption ==
    \A s \in Setups : /\ s.faults \subseteq {"open", "rename", "write", "move"}
                      /\ s.quota \in Nat /\ s.old \in Nat
                      /\ s.prints \in Nat /\ s.inodes \in Nat /\ s.old < s.inodes

Free == "free"
ASSUME FreeAssumption == Free \notin Thread

VARIABLES
    setup,                   \* the member of Setups this run is in
    splite,                  \* _device.splite_type
    id, ino,                 \* the file _id is open on, the inode in _stat
    num, ft, ftsize, head,   \* _quota_filenum, _ft, _ftsize, _head
    file,                    \* the file that has the log file's name
    inodes,                  \* files created so far
    disk,                    \* the entries in each file
    cut,                     \* the files cut off that still exist
    gone, early,             \* history: files the quota deleted; cut before full
    lock,                    \* holder of _lock
    tpc, ent, mv,            \* per thread: where it is, its entry, mvfile
    prints,                  \* entries printed so far
    ok, failed               \* history: entries print() returned 0 for, -1 for

ring == <<num, ft, ftsize, head>>
fs == <<file, inodes, disk, cut, gone, early>>
thr == <<tpc, ent, mv>>
res == <<prints, ok, failed>>
vars == <<setup, splite, id, ino, ring, fs, lock, thr, res>>

Faults == setup.faults
Quota == setup.quota
MaxPrints == setup.prints
MaxInode == setup.inodes
Inode == 1..MaxInode

\* Before getAppender(): the directory holds the files of earlier runs.
Init ==
    /\ setup \in Setups
    /\ splite \in Kinds
    /\ id = 0 /\ ino = 0
    /\ num = -1 /\ ft = <<>> /\ ftsize = 0 /\ head = 0
    /\ file = 0
    /\ inodes \in 0..setup.old /\ cut = 1..inodes
    /\ disk = [f \in Inode |-> <<>>] /\ gone = {} /\ early = {}
    /\ lock = Free
    /\ tpc = [t \in Thread |-> "idle"]
    /\ ent = [t \in Thread |-> 0] /\ mv = [t \in Thread |-> 0]
    /\ prints = 0 /\ ok = {} /\ failed = {}
-----------------------------------------------------------------------------
\* The order cmp() gives to qsort().
NewestFirst(S) ==
    CHOOSE s \in [1..Cardinality(S) -> S] :
        \A i, j \in 1..Cardinality(S) : i < j => s[i] > s[j]

(* read_conf() and check_quota_first(): list the files cut off newest      *)
(* first, delete those beyond the quota, start at the oldest place.        *)
(* _ft[i] of the code is ft[i + 1].  A COM_TRUNCT device has no quota.     *)
check_quota_first ==
    LET n == IF splite = "COM_TRUNCT" THEN 0 ELSE Quota
        found == NewestFirst(cut)
        kept == IF Len(found) < n THEN Len(found) ELSE n
    IN  /\ num' = n
        /\ IF n = 0 THEN UNCHANGED <<ft, ftsize, head, cut, gone>>
           ELSE /\ ft' = [i \in 1..n |-> IF i <= kept THEN found[i] ELSE 0]
                /\ ftsize' = kept /\ head' = n - 1
                /\ cut' = {found[i] : i \in 1..kept}
                /\ gone' = cut \ cut'

\* getAppender(): syncid() opens the file, then the first quota check.
getAppender ==
    /\ num = -1
    /\ inodes' = inodes + 1 /\ file' = inodes + 1
    /\ id' = file' /\ ino' = file'
    /\ check_quota_first
    /\ UNCHANGED <<setup, splite, disk, early, lock, thr, res>>

\* Mutant: the head moves up.
check_quota_up(mvfile, there) ==
    /\ IF ftsize >= num
       THEN /\ cut' = there \ {ft[head + 1]} /\ gone' = gone \cup (there \cap {ft[head + 1]})
            /\ UNCHANGED ftsize
       ELSE ftsize' = ftsize + 1 /\ cut' = there /\ UNCHANGED gone
    /\ ft' = [ft EXCEPT ![head + 1] = mvfile]
    /\ head' = (head + 1) % num
    /\ UNCHANGED num

(* check_quota(mvfile, false): a full ring deletes the file at its head,   *)
(* whose place the file just cut off takes.                                *)
check_quota(mvfile, there) ==
    /\ IF ftsize >= num
       THEN /\ cut' = there \ {ft[head + 1]} /\ gone' = gone \cup (there \cap {ft[head + 1]})
            /\ UNCHANGED ftsize
       ELSE ftsize' = ftsize + 1 /\ cut' = there /\ UNCHANGED gone
    /\ ft' = [ft EXCEPT ![head + 1] = mvfile]
    /\ head' = IF head = 0 THEN num - 1 ELSE head - 1
    /\ UNCHANGED num
-----------------------------------------------------------------------------
Goto(t, where) == tpc' = [tpc EXCEPT ![t] = where]

print(t) ==
    /\ num >= 0 /\ tpc[t] = "idle" /\ prints < MaxPrints
    /\ prints' = prints + 1
    /\ ent' = [ent EXCEPT ![t] = prints']
    /\ Goto(t, "sync")
    /\ UNCHANGED <<setup, splite, id, ino, ring, fs, lock, mv, ok, failed>>

Stale == id = 0 \/ file = 0 \/ file # ino

\* Mutant: the file's state is looked at before the lock is taken.
SyncUnlocked(t) ==
    /\ tpc[t] = "sync"
    /\ \/ Stale /\ Goto(t, "close")
       \/ ~Stale /\ Len(disk[file]) >= Limit /\ Goto(t, "cut")
       \/ ~Stale /\ Len(disk[file]) < Limit /\ Goto(t, "write")
    /\ UNCHANGED <<setup, splite, id, ino, ring, fs, lock, ent, mv, res>>

(* syncid(): under _lock, compare the handle with the file that has the    *)
(* name, and see whether to cut: by size, or (when the period may be over) *)
(* by date.                                                                *)
Sync(t) ==
    /\ tpc[t] = "sync" /\ lock = Free
    /\ \/ Stale /\ Goto(t, "close") /\ lock' = t
       \/ /\ ~Stale /\ (Len(disk[file]) >= Limit \/ splite = "COM_DATECUT")
          /\ Goto(t, "cut") /\ lock' = t
       \/ ~Stale /\ Len(disk[file]) < Limit /\ Goto(t, "write") /\ UNCHANGED lock
    /\ UNCHANGED <<setup, splite, id, ino, ring, fs, ent, mv, res>>

\* save_backup() and check_quota(): when the rename fails, _ft gets the name
\* of a file that does not exist.
Cut(t) ==
    /\ tpc[t] = "cut"
    /\ \E name \in {file} \cup (IF "rename" \in Faults THEN {0} ELSE {}) :
          LET there == cut \cup ({name} \ {0})
          IN  /\ file' = IF name = 0 THEN file ELSE 0
              /\ mv' = [mv EXCEPT ![t] = name]
              /\ early' = IF name # 0 /\ Len(disk[name]) < Limit
                          THEN early \cup {name} ELSE early
              /\ IF num > 0 THEN check_quota(name, there)
                 ELSE cut' = there /\ UNCHANGED <<ring, gone>>
    /\ Goto(t, "close")
    /\ UNCHANGED <<setup, splite, id, ino, inodes, disk, lock, ent, res>>

\* open() closes the old handle first.
Close(t) ==
    /\ tpc[t] = "close"
    /\ id' = 0
    /\ Goto(t, "open")
    /\ UNCHANGED <<setup, splite, ino, ring, fs, lock, ent, mv, res>>

\* Where syncid() goes after it has unlocked.
Unlock(t, next) ==
    /\ lock' = Free
    /\ IF mv[t] # 0 /\ splite = "COM_TRUNCT"
       THEN Goto(t, IF next = "write" THEN "remove" ELSE "removeFail") /\ UNCHANGED mv
       ELSE Goto(t, next) /\ mv' = [mv EXCEPT ![t] = 0]

Open(t) ==
    /\ tpc[t] = "open"
    /\ \/ /\ file # 0 \/ inodes < MaxInode
          /\ inodes' = IF file = 0 THEN inodes + 1 ELSE inodes
          /\ file' = IF file = 0 THEN inodes + 1 ELSE file
          /\ id' = file' /\ ino' = file'
          /\ Unlock(t, "write")
       \/ /\ "open" \in Faults \/ (file = 0 /\ inodes = MaxInode)
          /\ Unlock(t, "fail")
          /\ UNCHANGED <<id, ino, inodes, file>>
    /\ UNCHANGED <<setup, splite, ring, disk, cut, gone, early, ent, res>>

\* remove(mvfile) after the unlock, whatever open() returned.
RemoveCut(t) ==
    /\ tpc[t] \in {"remove", "removeFail"}
    /\ cut' = cut \ {mv[t]}
    /\ mv' = [mv EXCEPT ![t] = 0]
    /\ Goto(t, IF tpc[t] = "remove" THEN "write" ELSE "fail")
    /\ UNCHANGED <<setup, splite, id, ino, ring, file, inodes, disk, gone, early, lock, ent, res>>

\* Mutant: a failed write counts as done.
WriteHopeful(t) ==
    /\ tpc[t] = "write"
    /\ disk' = IF id = 0 THEN disk ELSE [disk EXCEPT ![id] = Append(@, ent[t])]
    /\ ok' = ok \cup {ent[t]}
    /\ Goto(t, "idle") /\ ent' = [ent EXCEPT ![t] = 0]
    /\ UNCHANGED <<setup, splite, id, ino, ring, file, inodes, cut, gone, early, lock, mv, prints, failed>>

(* write(_id, ...) without _lock: another thread may have closed the       *)
(* handle, or opened it on the next file.                                  *)
Write(t) ==
    /\ tpc[t] = "write"
    /\ \/ /\ id # 0
          /\ disk' = [disk EXCEPT ![id] = Append(@, ent[t])]
          /\ ok' = ok \cup {ent[t]}
          /\ Goto(t, "idle") /\ ent' = [ent EXCEPT ![t] = 0]
       \/ /\ id = 0 \/ "write" \in Faults
          /\ Goto(t, "fail")
          /\ UNCHANGED <<disk, ok, ent>>
    /\ UNCHANGED <<setup, splite, id, ino, ring, file, inodes, cut, gone, early, lock, mv,
                   prints, failed>>

\* Mutant: print() tries again until it succeeds.
FailRetries(t) ==
    /\ tpc[t] = "fail" /\ lock = Free
    /\ id' = 0
    /\ Goto(t, "sync")
    /\ UNCHANGED <<setup, splite, ino, ring, fs, lock, ent, mv, res>>

\* print() after an error: close the handle under _lock, return -1.
Fail(t) ==
    /\ tpc[t] = "fail" /\ lock = Free
    /\ id' = 0
    /\ failed' = failed \cup {ent[t]}
    /\ Goto(t, "idle") /\ ent' = [ent EXCEPT ![t] = 0]
    /\ UNCHANGED <<setup, splite, ino, ring, fs, lock, mv, prints, ok>>

Printing(t) == Sync(t) \/ Cut(t) \/ Close(t) \/ Open(t) \/ RemoveCut(t) \/ Write(t) \/ Fail(t)

\* Another process moves the log file away.
MoveFile ==
    /\ "move" \in Faults /\ num >= 0 /\ file # 0
    /\ file' = 0
    /\ UNCHANGED <<setup, splite, id, ino, ring, inodes, disk, cut, gone, early, lock, thr, res>>

\* Every thread has logged what it had to.
Quiet == prints = MaxPrints /\ (\A t \in Thread : tpc[t] = "idle") /\ UNCHANGED vars

Next == getAppender \/ MoveFile \/ Quiet \/ \E t \in Thread : print(t) \/ Printing(t)

Spec == Init /\ [][Next]_vars

(* Each thread is scheduled; one that waits for _lock gets it in the end   *)
(* as the others release it.                                               *)
FairSpec == Spec /\ \A t \in Thread : WF_vars(Printing(t)) /\ SF_vars(Sync(t) \/ Fail(t))
-----------------------------------------------------------------------------
TypeOK ==
    /\ setup \in Setups /\ splite \in Kinds
    /\ id \in 0..MaxInode /\ ino \in 0..MaxInode /\ file \in 0..MaxInode
    /\ num \in -1..Quota
    /\ num > 0 => ft \in [1..num -> 0..MaxInode] /\ ftsize \in 0..num /\ head \in 0..(num - 1)
    /\ inodes \in 0..MaxInode /\ disk \in [Inode -> Seq(1..MaxPrints)]
    /\ cut \subseteq Inode /\ gone \subseteq Inode /\ early \subseteq Inode
    /\ lock \in Thread \cup {Free}
    /\ tpc \in [Thread -> {"idle", "sync", "cut", "close", "open", "remove",
                         "removeFail", "write", "fail"}]
    /\ ent \in [Thread -> 0..MaxPrints] /\ mv \in [Thread -> 0..MaxInode]
    /\ prints \in 0..MaxPrints
    /\ ok \subseteq 1..MaxPrints /\ failed \subseteq 1..MaxPrints

(* The ring never lets more files stand than the quota says, whatever      *)
(* earlier runs left and whichever threads do the cutting.                 *)
QuotaHolds == num > 0 => Cardinality(cut) <= num

(* What the quota deletes is always older than everything it keeps, from   *)
(* the files of earlier runs through many turns of the ring; and unless a  *)
(* rename fails (always, or because the file was moved away just then) it  *)
(* deletes only what it must.                                              *)
KeepsNewest ==
    /\ \A g \in gone, c \in cut : g < c
    /\ Faults \cap {"rename", "move"} = {} /\ gone # {} => Cardinality(cut) = num

(* The quota ring, with its wrapping head and whatever cuts fail, keeps    *)
(* as many files as it should and the newest ones.                         *)
QuotaKept == TypeOK /\ QuotaHolds /\ KeepsNewest

(* print() tells the truth: an entry it returned 0 for is in a file, once; *)
(* one it returned -1 for is in none.                                      *)
Truthful ==
    \A e \in 1..prints :
        LET places == {p \in Inode \X (1..MaxPrints) :
                          p[2] <= Len(disk[p[1]]) /\ disk[p[1]][p[2]] = e}
        IN  /\ e \in ok => Cardinality(places) = 1
            /\ e \in failed => places = {}

(* Threads that find the file full at the same time cut it once: no file   *)
(* cut by size is cut before it is full.                                   *)
CutOnce == splite # "COM_DATECUT" => early = {}

(* Although threads write after the unlock, a file outgrows the limit by   *)
(* no more than the entries of the other threads that were let through, as *)
(* long as no error closes the handle (which reopens without looking at    *)
(* the size).                                                              *)
Overshoot ==
    Faults = {} => \A f \in Inode : Len(disk[f]) <= Limit + Cardinality(Thread) - 1

(* Threads that write outside the lock of syncid() cut a file when it is   *)
(* full: neither again too early nor much too late.                        *)
CutInTime == CutOnce /\ Overshoot

(* Every print() returns, whatever fails and whoever holds the lock.       *)
PrintReturns == \A t \in Thread : (tpc[t] # "idle") ~> (tpc[t] = "idle")
=============================================================================
