------------------------- MODULE AsyncFileAppender -------------------------
(***************************************************************************)
(* comlog's asynchronous file appender: logging threads push formatted     *)
(* entries into an XSigQu (the bounded queue of XQueue plus a mutex, a     *)
(* condition variable and _isWorking); one writer thread takes batches out *)
(* of it, keeps the file handle in step with the log file and writes them; *)
(* the destructor stops the thread and drops what is left.                 *)
(*                                                                         *)
(* An entry is the number of its push.  The queue is its content front     *)
(* first, as proved in ContainersProofs: print pushes at the front and     *)
(* pop_backs takes from the back.  A file is an inode number with the      *)
(* entries in it; a handle is the inode it was opened on (a closed or      *)
(* unopened one is -1).                                                    *)
(***************************************************************************)
EXTENDS Integers, Sequences, FiniteSets, SequencesExt

CONSTANTS QueueSize,    \* AFILE_QUEUESIZE
          BatchSize,    \* AFILE_MAXREADITEMS
          Limit,        \* log_size, in entries: a file this long is cut
          SpliteTypes,  \* the splite_type values to configure
          FaultSets,    \* the sets of calls that may fail, of the five below
          MaxItems,     \* bound: prints
          MaxInode      \* bound: files ever created

ASSUME SizesAssumption ==
    /\ QueueSize \in Nat /\ QueueSize >= 2
    /\ BatchSize \in Nat \ {0}
    /\ Limit \in Nat \ {0}
    /\ MaxItems \in Nat /\ MaxInode \in Nat
    /\ MaxInode > MaxItems  \* one file per batch and the first one
ASSUME KindsAssumption ==
    /\ SpliteTypes \subseteq {"COM_TRUNCT", "COM_SIZECUT", "COM_DATECUT"}
    /\ FaultSets \subseteq SUBSET {"open", "rename", "writev", "thread", "move"}

VARIABLES
    run, stop,      \* _run, _stop: plain ints shared by writer and destructor
    isWorking,      \* _queue._isWorking
    queue,          \* the entries queued, newest first
    pushed,         \* entries accepted by print so far
    conf,           \* _device.splite_type, and the calls that may fail
    wpc,            \* where the writer thread is
    signaled,       \* the condition variable was signalled while it waited
    batch,          \* _readbuf, oldest first
    id, ino,        \* _id and the inode _stat remembers
    file,           \* the inode the log file name refers to, 0 for none
    inodes,         \* files created so far
    disk,           \* the entries in each file
    written, lost,  \* history: entries written, in order; entries dropped
    owner           \* where getAppender and the destructor are

wvars == <<wpc, signaled, batch>>
fvars == <<id, ino, file, inodes, disk>>
vars == <<run, stop, isWorking, queue, pushed, conf, wvars, fvars, written,
          lost, owner>>

Inode == 1..MaxInode
splite == conf.splite
Faults == conf.faults

Init ==
    /\ run = 0 /\ stop = 0 /\ isWorking = FALSE
    /\ queue = <<>> /\ pushed = 0
    /\ conf \in [splite : SpliteTypes, faults : FaultSets]
    /\ wpc = "none" /\ signaled = FALSE /\ batch = <<>>
    /\ id = -1 /\ ino = 0
    /\ file = 0 /\ inodes = 0
    /\ disk = [i \in Inode |-> <<>>]
    /\ written = <<>> /\ lost = {}
    /\ owner = "construct"
-----------------------------------------------------------------------------
(* open(): close the handle, open or create the file named `name' (0: it   *)
(* does not exist).  Success sets _run to 1, also while the destructor is  *)
(* stopping the thread.                                                    *)
OpenOn(name) ==
    /\ inodes' = IF name = 0 THEN inodes + 1 ELSE inodes
    /\ file' = IF name = 0 THEN inodes + 1 ELSE name
    /\ id' = file' /\ ino' = file'
    /\ run' = 1

OpenFails(name) ==
    /\ "open" \in Faults
    /\ file' = name
    /\ id' = -1
    /\ UNCHANGED <<ino, inodes, run>>

open(name, ok) == IF ok THEN OpenOn(name) ELSE OpenFails(name)

\* save_backup(): the name the log file has afterwards (none once renamed).
save_backup == {0} \cup (IF "rename" \in Faults THEN {file} ELSE {})

\* Mutant of syncid: it trusts its handle.
SyncidTrusting(ok) ==
    \/ id # -1 /\ ok /\ UNCHANGED <<fvars, run>>
    \/ id = -1 /\ open(file, ok) /\ UNCHANGED disk

\* Mutant: every kind of cut deletes the file it cut off.
SyncidTruncates(ok) ==
    \/ (id = -1 \/ file # ino) /\ open(file, ok) /\ UNCHANGED disk
    \/ /\ id # -1 /\ file = ino
       /\ Len(disk[file]) >= Limit \/ splite = "COM_DATECUT"
       /\ \E name \in save_backup :
             /\ open(name, ok)
             /\ disk' = IF name = 0 THEN [disk EXCEPT ![file] = <<>>] ELSE disk
    \/ id # -1 /\ file = ino /\ Len(disk[file]) < Limit
       /\ ok /\ UNCHANGED <<fvars, run>>

(* syncid(): make _id refer to the file that now has the log file's name   *)
(* and cut that file when it is full (or, by date, when its period is      *)
(* over).  A COM_TRUNCT device deletes the file cut off.                   *)
syncid(ok) ==
    \/ id = -1 /\ open(file, ok) /\ UNCHANGED disk
    \/ id # -1 /\ file # ino /\ open(file, ok) /\ UNCHANGED disk
    \/ /\ id # -1 /\ file = ino
       /\ \/ Len(disk[file]) >= Limit
          \/ splite = "COM_DATECUT"
       /\ \E name \in save_backup :
             /\ open(name, ok)
             /\ disk' = IF splite = "COM_TRUNCT" /\ name = 0
                        THEN [disk EXCEPT ![file] = <<>>] ELSE disk
    \/ id # -1 /\ file = ino /\ Len(disk[file]) < Limit
       /\ ok /\ UNCHANGED <<fvars, run>>

close == id' = -1 /\ UNCHANGED <<ino, file, inodes, disk>>
-----------------------------------------------------------------------------
(* getAppender(): open the file, create the queue, start the thread.  If a *)
(* step fails the object is deleted: without a handle _run is still 0, but *)
(* when only pthread_create fails the destructor takes the path that joins.*)
getAppender ==
    /\ owner = "construct"
    /\ UNCHANGED <<stop, queue, pushed, conf, signaled, batch, written, lost>>
    /\ \/ syncid(FALSE) /\ owner' = "drop" /\ UNCHANGED <<isWorking, wpc>>
       \/ /\ syncid(TRUE)
          /\ isWorking' = TRUE
          /\ wpc' = "top" /\ owner' = "use"
       \/ /\ "thread" \in Faults
          /\ syncid(TRUE)
          /\ isWorking' = TRUE
          /\ owner' = "stop" /\ UNCHANGED wpc

\* Mutant: the entry is pushed without a signal.
PrintSilent ==
    /\ owner = "use" /\ pushed < MaxItems /\ Len(queue) < QueueSize
    /\ pushed' = pushed + 1
    /\ queue' = <<pushed + 1>> \o queue
    /\ UNCHANGED <<run, stop, isWorking, conf, wvars, fvars, written,
                   lost, owner>>

(* print(), under the queue's mutex.  A full queue refuses the entry, which*)
(* print frees; the condition variable is signalled either way.            *)
print ==
    /\ owner = "use" /\ pushed < MaxItems
    /\ \/ /\ Len(queue) < QueueSize
          /\ pushed' = pushed + 1
          /\ queue' = <<pushed + 1>> \o queue
       \/ Len(queue) = QueueSize /\ UNCHANGED <<pushed, queue>>
    /\ signaled' = (wpc = "wait")
    /\ UNCHANGED <<run, stop, isWorking, conf, wpc, batch, fvars, written,
                   lost, owner>>
-----------------------------------------------------------------------------
(* The writer thread. *)

\* Mutant: the thread relies on _run alone.
TopRunOnly ==
    /\ wpc = "top" /\ run # 0
    /\ wpc' = "pop"
    /\ UNCHANGED <<run, stop, isWorking, queue, pushed, conf, signaled, batch,
                   fvars, written, lost, owner>>

\* writeData() up to pop_backs: spin while _run is 0, leave once _stop is set.
Top ==
    /\ wpc = "top" /\ run # 0
    /\ wpc' = IF stop = 1 THEN "exit" ELSE "pop"
    /\ UNCHANGED <<run, stop, isWorking, queue, pushed, conf, signaled, batch,
                   fvars, written, lost, owner>>

\* The entries pop_backs takes, in the order in which they were pushed.
Take ==
    LET n == IF Len(queue) < BatchSize THEN Len(queue) ELSE BatchSize
    IN  /\ batch' = Reverse(SubSeq(queue, Len(queue) - n + 1, Len(queue)))
        /\ queue' = SubSeq(queue, 1, Len(queue) - n)
        /\ wpc' = "got" /\ signaled' = FALSE

\* XSigQu::pop_backs: one timed wait if the queue is empty and in use.
PopBacks ==
    /\ wpc = "pop"
    /\ \/ queue = <<>> /\ isWorking /\ wpc' = "wait" /\ UNCHANGED <<queue, signaled, batch>>
       \/ (queue # <<>> \/ ~isWorking) /\ Take
    /\ UNCHANGED <<run, stop, isWorking, pushed, conf, fvars, written, lost, owner>>

Wake ==
    /\ wpc = "wait" /\ signaled
    /\ Take
    /\ UNCHANGED <<run, stop, isWorking, pushed, conf, fvars, written, lost, owner>>

\* AFILE_DEFPOPTO seconds passed, or a spurious wakeup.
Timeout ==
    /\ wpc = "wait" /\ ~signaled
    /\ Take
    /\ UNCHANGED <<run, stop, isWorking, pushed, conf, fvars, written, lost, owner>>

\* The test on `items' after pop_backs.
Got ==
    /\ wpc = "got"
    /\ wpc' = CASE batch # <<>> -> "sync"
                [] batch = <<>> /\ run = -1 -> "exit"
                [] OTHER -> "top"
    /\ UNCHANGED <<run, stop, isWorking, queue, pushed, conf, signaled, batch,
                   fvars, written, lost, owner>>

erasedata(dropped) == batch' = <<>> /\ lost' = lost \cup ToSet(dropped)

SyncFailed ==
    /\ wpc = "sync"
    /\ syncid(FALSE)
    /\ erasedata(batch)
    /\ wpc' = "top"
    /\ UNCHANGED <<stop, isWorking, queue, pushed, conf, signaled, written, owner>>

Synced ==
    /\ wpc = "sync"
    /\ syncid(TRUE)
    /\ wpc' = "write"
    /\ UNCHANGED <<stop, isWorking, queue, pushed, conf, signaled, batch, written,
                   lost, owner>>

\* writev() of n of the entries; erasedata frees the batch however many it took.
Writev(n) ==
    /\ wpc = "write"
    /\ n = Len(batch) \/ "writev" \in Faults
    /\ id \in Inode     \* a closed handle fails with EBADF
    /\ disk' = [disk EXCEPT ![id] = @ \o SubSeq(batch, 1, n)]
    /\ written' = written \o SubSeq(batch, 1, n)
    /\ erasedata(SubSeq(batch, n + 1, Len(batch)))
    /\ wpc' = "top"
    /\ UNCHANGED <<run, stop, isWorking, queue, pushed, conf, signaled, id, ino,
                   file, inodes, owner>>

Writer ==
    \/ Top \/ PopBacks \/ Wake \/ Got \/ SyncFailed \/ Synced
    \/ \E n \in 0..Len(batch) : Writev(n)
-----------------------------------------------------------------------------
(* ~AsyncFileAppender(), called by com_closelog's close_log once no other  *)
(* thread prints: com_wait_close waits for SendSvr queues only and the     *)
(* appender has no stop(), so nothing of this appender happens before it.  *)
CloseLog ==
    /\ owner = "use"
    /\ owner' = "stop"
    /\ UNCHANGED <<run, stop, isWorking, queue, pushed, conf, wvars, fvars,
                   written, lost>>

\* _run = -1 and _stop = 1, two plain stores.
StopRun ==
    /\ owner = "stop" /\ run # 0
    /\ run' = -1 /\ owner' = "stop2"
    /\ UNCHANGED <<stop, isWorking, queue, pushed, conf, wvars, fvars, written, lost>>

StopStop ==
    /\ owner = "stop2"
    /\ stop' = 1 /\ owner' = "signal"
    /\ UNCHANGED <<run, isWorking, queue, pushed, conf, wvars, fvars, written, lost>>

\* Under the queue's mutex: clear _isWorking and signal.
Signal ==
    /\ owner = "signal"
    /\ isWorking' = FALSE /\ signaled' = (wpc = "wait")
    /\ owner' = "join"
    /\ UNCHANGED <<run, stop, queue, pushed, conf, wpc, batch, fvars, written, lost>>

\* Mutant: the destructor does not wait for the thread.
JoinNotAwaited ==
    /\ owner = "join"
    /\ owner' = "drop"
    /\ UNCHANGED <<run, stop, isWorking, queue, pushed, conf, wvars, fvars,
                   written, lost>>

\* pthread_join.  With no thread started _tid is uninitialized: anything may
\* come of it, an error return or a call that never comes back.
Join ==
    /\ owner = "join"
    /\ \/ wpc = "exit" /\ owner' = "drop"
       \/ wpc = "none" /\ owner' \in {"drop", "hung"}
    /\ UNCHANGED <<run, stop, isWorking, queue, pushed, conf, wvars, fvars,
                   written, lost>>

\* close the handle, free what is queued, destroy the queue.
Drop ==
    /\ owner = "drop"
    /\ close
    /\ lost' = lost \cup ToSet(queue)
    /\ queue' = <<>>
    /\ owner' = "gone"
    /\ UNCHANGED <<run, stop, isWorking, pushed, conf, wvars, written>>

Owner == getAppender \/ StopRun \/ StopStop \/ Signal \/ Join \/ Drop
-----------------------------------------------------------------------------
\* Another process renames or removes the log file.
MoveFile ==
    /\ "move" \in Faults
    /\ file # 0 /\ owner # "gone"
    /\ file' = 0
    /\ UNCHANGED <<run, stop, isWorking, queue, pushed, conf, wvars, id, ino,
                   inodes, disk, written, lost, owner>>

\* The object no longer exists, or its owner hangs in pthread_join.
Finished == owner \in {"gone", "hung"} /\ UNCHANGED vars

Next == Owner \/ CloseLog \/ print \/ Writer \/ Timeout \/ MoveFile \/ Finished

Spec == Init /\ [][Next]_vars

(* The scheduler runs the writer and the closing thread; nothing is assumed*)
(* of the other threads, of the outside world or of the 5 s timeout.       *)
FairSpec == Spec /\ WF_vars(Writer) /\ WF_vars(Owner)
-----------------------------------------------------------------------------
TypeOK ==
    /\ run \in {0, 1, -1} /\ stop \in {0, 1} /\ isWorking \in BOOLEAN
    /\ queue \in Seq(1..MaxItems) /\ Len(queue) <= QueueSize
    /\ batch \in Seq(1..MaxItems) /\ Len(batch) <= BatchSize
    /\ pushed \in 0..MaxItems /\ conf \in [splite : SpliteTypes, faults : FaultSets]
    /\ wpc \in {"none", "top", "pop", "wait", "got", "sync", "write", "exit"}
    /\ signaled \in BOOLEAN
    /\ id \in Inode \cup {-1} /\ ino \in Inode \cup {0}
    /\ file \in Inode \cup {0} /\ inodes \in 0..MaxInode
    /\ disk \in [Inode -> Seq(1..MaxItems)]
    /\ written \in Seq(1..MaxItems) /\ lost \subseteq 1..MaxItems
    /\ owner \in {"construct", "use", "stop", "stop2", "signal", "join", "drop",
                  "gone", "hung"}

Increasing(s) == \A i, j \in 1..Len(s) : i < j => s[i] < s[j]

(* Every entry print accepted is written, in the writer's hands, queued or *)
(* dropped, and in only one of these; the order on the way from print to   *)
(* the file is the order of the pushes, also across batches and files.     *)
InOrderOnce ==
    LET pipeline == written \o batch \o Reverse(queue)
    IN  /\ Increasing(pipeline)
        /\ ToSet(pipeline) \cap lost = {}
        /\ ToSet(pipeline) \cup lost = 1..pushed

(* An entry that was written stays in some file in the order written, and  *)
(* in no other: cutting, renaming and reopening neither lose nor duplicate *)
(* entries unless the device deletes what it cuts off (COM_TRUNCT).        *)
OnDiskOnce ==
    /\ \A f \in Inode : Increasing(disk[f])
    /\ \A f, g \in Inode : f # g => ToSet(disk[f]) \cap ToSet(disk[g]) = {}
    /\ splite # "COM_TRUNCT" =>
          ToSet(written) = UNION {ToSet(disk[f]) : f \in Inode}

(* While the file can be opened and written nothing accepted is dropped    *)
(* before the appender is destroyed, whoever moves the file and however    *)
(* renaming fails.                                                         *)
OnlyFaultsDrop ==
    /\ Faults \cap {"open", "writev"} = {}
    /\ owner # "gone"
    => lost = {}

(* A file is cut before it outgrows its limit by more than one batch.      *)
FileBounded ==
    "rename" \notin Faults =>
        \A f \in Inode : Len(disk[f]) < Limit + BatchSize

(* From print() to the files every entry accepted is kept once and in      *)
(* order, lost only to I/O errors, in files that are cut in time.          *)
EntriesKept == TypeOK /\ InOrderOnce /\ OnDiskOnce /\ OnlyFaultsDrop /\ FileBounded

(* The destructor frees the queue and the handle only when no thread of    *)
(* the appender can touch them any more.                                   *)
NoUseAfterDrop == owner \in {"drop", "gone"} => wpc \in {"none", "exit"}

(* After syncid the handle is that of the file which has the log's name:   *)
(* a file another process moved away gets no further batch.                *)
HandleFollowsFile ==
    [][wpc = "sync" /\ wpc' = "write" => id' = file' /\ ino' = file']_vars

(* The destructor ends although the writer may set _run back to 1 while it *)
(* reopens the file, and without waiting for the 5 s timeout.              *)
DestructorEnds == (owner = "stop" /\ wpc # "none") ~> owner = "gone"

(* No entry stays queued for want of a signal: each one accepted is written*)
(* or dropped, without help from the timeout.                              *)
EntrySettled ==
    \A e \in 1..MaxItems : pushed >= e ~> e \in ToSet(written) \cup lost
=============================================================================
