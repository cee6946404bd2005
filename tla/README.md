# TLA+ models of tick, comlog and ul_log

This directory specifies the parts of the repository that carry logic of their
own: **tick** (`src/tick`), a relay that reads UDP packets and hands them to a
message bus through worker threads; **comlog** (`src/ullib/src/comlog`,
`src/ullib/include/comlog`), the logging library of ullib with its registry of
names and its file, asynchronous-file and network appenders; **ul_log**
(`src/ullib/src/ul_log.cpp`), the older log files of ullib and their table in
shared memory; and **ul_circle**, ullib's byte ring. Everything else in the
repository is stateless helper code, exercises, scripts, or third-party code
(glog, csapp, mpc, python-ad).

Run a model with `tlc -config X.cfg M`, a proof with `tlapm M.tla`.
`PROJECT.json` lists the runs, the source lines behind each definition, the
hazards of the code and the findings.

## Inventory

| part | state | operations | interacts with |
|---|---|---|---|
| XQueue / XSigQu (`xqueue.h`) | ring array, front, rear, size; mutex, condition, `_isWorking` | create, destroy, clear, push/pop at both ends, `pop_backs` | queue of the two asynchronous appenders |
| AsyncFileAppender | queue, `_run`, `_stop`, handle, inode, writer thread | getAppender, print, writeData, syncid, destructor | logging threads push, its thread writes; the file may be moved by others |
| FileAppender | handle, inode, last cut, quota ring `_ft`, `_lock` | getAppender, print, syncid, check_quota | called by all logging threads at once |
| NetAppender, SendSvr, NetAppenderSvr, CheckSvr | queue, server slots, `_now`, appenders' handles, `_run`, two locks | open, print/push, run (synchandle, senddata), checkalive, checkOver, stop | sending thread, check thread, log servers, backup appenders |
| comlog life cycle (`comlog.cpp`, `logcore.cpp`) | log switch, thread counter, closing flag with lock, per-thread category and key | com_openlog, com_closelog, com_openlog_r, com_closelog_r, com_writelog | main thread against logging threads |
| NameMg, xhash, Category, AppenderFactory, LogStat | hash chains, node blocks, tree of categories, two locks | get without a lock, set, getInstance, getAppender, createLogStat | every logging thread asks it for objects by name |
| comempool | per size: blocks, list of returned cells; list of big pieces | alloc, dealloc, reset | built for the queues of the appenders |
| ul_log files | `g_file_array` with reference counts and a lock per file, per-thread log units | ul_openlog, ul_writelog (with rotation or splitting), ul_closelog | threads share files by name; the file system |
| ul_log shared table | name and items of each slot in shared memory, a System V semaphore | createshm, cleanshm, ul_openshm, ul_closeshm, assign, setval, addval | processes that may die, an administrator, monitors |
| ul_circle | byte array, head, tail | pstCBinit, vCBfree, nCBput, nCBget, nCBlookup, lengths | one caller at a time |
| comsig | table of reloadable configurations | add, remove, reload | not modelled |
| tick server and workers | UDP socket, rio buffer, per-worker queue, mutex and pipe | RunProcess of both, TickRead*, SendMessage | clients, QBus |
| rio (`csapp.cc`) | read buffer | rio_readinitb, rio_readnb | tick server |

What is hard in this code, and what the properties are about:

* *threads and plain flags*: a destructor races with the thread it stops
  (AsyncFileAppender), a close with threads that begin to log (life cycle), a
  connection check with the thread that uses the connection (NetSender);
* *check, unlock, use*: FileAppender writes after it has unlocked;
* *no lock, or two*: readers of the registry take none, writers of one bucket
  link while they walk; ul_log's opening threads and rotating threads hold
  different locks over the same `fp` and `file_name`;
* *death of a process*: ul_log's semaphore operations carry SEM_UNDO, and a slot
  of the shared table outlives its owner until it is claimed by name again;
* *partial failure*: every open, rename, write, connect and send may fail
  between two steps of an operation;
* *boundaries*: wrapping pointers, full queues, full pipes, full tables, a quota
  ring, a file name tried again within one second;
* *framing*: the tick server reads a byte stream out of datagrams whose length
  fields may be wrong;
* *liveness*: entries and packets waiting for a signal, a byte or a lock.

## Modules

`XQueue` models the ring call by call (each is one critical section in the
code). `Deque` is what its users rely on: a bounded double-ended queue.
`ContainersProofs` holds the proofs, with those of the byte ring and of the pool.

`AsyncFileAppender` has three actors: logging threads (`print`), the writer
(`Top`, `PopBacks`, `Wake`/`Timeout`, `Got`, `Synced`/`SyncFailed`, `Writev`:
one action per stretch of `writeData` between two accesses to shared state) and
the owner (`getAppender`, then `CloseLog`, `StopRun`, `StopStop`, `Signal`,
`Join`, `Drop`, the destructor statement by statement, because its stores race
with the writer's). Its queue is the content of an XQueue. A file is an inode
with the entries in it; `FaultSets` are the combinations of calls that may fail.
`AsyncFileAppenderProofs` holds the proofs.

`FileAppender` has any number of logging threads; each `print` is the sequence
`Sync`, (`Cut`), `Close`, `Open`, (`RemoveCut`), `Write` or `Fail`, with `_lock`
held from `Sync` to the end of `Open` as in `syncid`, and not in `Write`. The
quota ring is `_ft`, `_ftsize`, `_head` as in the code. A file's number is its
inode, its backup name and its age. A date cut may be due at any `Sync`.
`FileAppenderProofs` holds the proofs.

`NetSender` models one SendSvr: `print` with the queue's mutex, the sending
thread (`PopBacks`, the loop of `synchandle` as `Skip`, `SameServer`,
`OtherServer`, `Reopen`, `Switch`, `TryAlive`, `GiveUp`, then `SendData` or
`Fail`), the check thread (`CheckTake` or `CheckIdle`, `CheckStart`, then
`CheckLook`, `CheckClear`, `CheckConnect`, `CheckTest` under `_lock`), and
closing (`WaitClose`, `checkOver`, `Over`, `Clear`, `Stop`, `Join`, `Destroy`).
`holder` is who has CheckSvr's lock: a pass of the check thread, which takes the
SendSvr's `_lock` inside it, or `checkOver`, which holds it while it waits for
the queue and releases it; `clear` takes it once more, and another pass of the
check thread may come before. `close_safe` is two actions, `Shut` and `Unset`, because the sender
runs it without the lock. A connection is the number of its `connect`, so a
handle shows which server gave it. `NetSenderProofs` holds the proofs.

`ComlogLifecycle` models the main thread's `com_openlog` and `com_closelog`
step by step against threads in `com_openlog_r`, `com_writelog` (through
`gethandle`) and `com_closelog_r`. A category is the epoch in which it was
made; `close_log` ends the epoch, so an older category is a dangling pointer.
The call of `com_closelog` (`CloseLog`) and the moment it has the lock of
`g_closing` (`Shut`) are apart. Each of the code's looks at the log switch is a
step of its own: in `com_writelog`, in `gethandle` (which may then turn it on,
`TurnOn`), in the `com_openlog_r` that a thread without a category calls
(`HasCategory`, `openlog_rInside`) and in `ul_openlog_r`, where that goes if a
close switched comlog off in between. `HabitSets` says how disciplined programs
are: whether threads call comlog while `com_openlog` runs ("early"), whether
uncounted calls overlap `com_closelog` ("hasty"), whether threads log without a
`com_openlog_r` of their own ("lazy") or after their `com_closelog_r`
("again").
`ComlogLifecycleProofs` holds the proofs.

`TickServer` has clients (`Arrive`), the server thread (`Poll`, the rio reads
`ReadMore`, `ReadEmpty`, `ReadAgain` with what the three `TickRead*` functions
do with their result, `Push`, `Notify`) and workers (`ReadByte`, `Pop`,
`Send`). Lengths are counted in 4-byte cells; a cell remembers its datagram, so
that an item shows where its parts come from. `MCTickServer` defines the sets
of datagrams, `TickServerProofs` holds the proofs.

`UlLogShm` has the administration (`CreateShm`, `CreateSem`, `FirstPost`, then
the two passes of cleaning; `cleanshm(n)`, `CleanCtrl` and `CleanData` look up,
free and wipe the slot of one name, of whatever process and at any time, without
the semaphore) and processes that run `openlog` (`Attach`, `Acquire`, `Claim`,
`Sign`, `Post`),
`assign`, `setval`, `addval`, `closelog` (`Acquire`, `CloseCtrl`, `CloseData`,
`Post`). `adj` is what the kernel will add to the semaphore when the process
ends, which `Die` does anywhere. A process that finds the table full does not
post, as in the code. `torn` remembers slots whose owner died between the two
halves of ul_closeshm, `robbed` those whose name a cleaning removed while a
process used them. `UlLogProofs` holds the proofs of this module and the next.

`UlLog` has threads that open a log unit file by file (`ul_openlog`, then
`Share`, `OpenNew` or `OpenFails` for each field, under file_lock; `Point` is what
ul_openlog_ex does with the slot), write (`Start` and `ul_writelog`, then `Lock`,
`ul_check`, `Restat`, `CutName`, `Rename`, `Reopen`, `Write`, `Unlock`,
`RemoveTmp`: one action per access to what other threads see) and close
(`ul_closelog`, `Close`, `Freed`; an opening that fails closes in the order of
ul_openlog_ex, at "undo"). `CutName` is the moment at
which rotation puts a 0 into `file_name`; a `Restat` or `Reopen` whose fopen()
fails leaves `fp` NULL, the mark of a free slot. In both cases an opening thread,
which holds only file_lock, is misled: it may open a file a second time (`raced`)
or take a slot in use (`stolen`). Both are history variables. After a theft two
units write into one slot in ways C does not define, and the model stops there.

`NameMg` has threads that call `getInstance`, `getAppender` and `createLogStat`
and the registry's `Get`/`Walk` (lock-free, one node at a time), `New`,
`SetNew`/`SetLink` under `_lock` and `SetFails`. A category's father is created
by the same code one frame up (`stk`). Names are constants with their `Father`
and `Bucket`; a name has one type, as the key of the code's table is type and
name. The chain of a bucket is the least set of nodes that is closed under
following pointers (`Linked`), so that it is right for any pointers, those of the
mutants included. Stores are seen in the order of the program, which x86
processors keep and the code, without barriers, relies on.

`UlCircle` models ul_circle call by call, with the memory behind the ring as part
of its array; `ByteQueue` is what `ul_circle.h` promises. `MemPool` models the
sizes in units of an int, the level table, each FixMem's blocks and returned
cells and the big list. reset() with two big pieces frees one of them twice
(`dlist_walk`): the model marks that (`broken`) and stops.

The MC modules define constants too large for a cfg. Several modules have a
constant `Setups`, the programs and environments to be explored: Init chooses
one, and every property is checked in all of them. In `MCContainers`, `subject`
says which of the three containers is exercised.

Operators whose comment begins with "Mutant" are plausible wrong versions of
the definition that follows them; with one put in place of that definition the
property named in `PROJECT.json` is violated.

## Runs

The invariants that the runs check are conjunctions of named parts, one for each
idea (`EntriesKept` of AsyncFileAppender is `TypeOK`, `InOrderOnce`,
`OnDiskOnce`, `OnlyFaultsDrop` and `FileBounded`); each part has its own comment
in its module.

| run | checks | bounds |
|---|---|---|
| `containers` | XQueue: types, shape, no unwritten slot read, refinement of Deque. UlCircle: no copy past the end, the free length fits, refinement of ByteQueue. MemPool: no cell given out twice or lost, none too small, no block before the others are full | ring of 3 slots, 2 values, batches up to 4; byte ring of 3 (4 cells), reserve 1 instead of 10; levels of 2, 3 and 4 units, 3 blocks, 3 big pieces: every wrap, every level, asking for more than there is |
| `asyncfile` | order and exactly-once from print to file, the handle fresh at each write, no use after the destructor, no loss without I/O errors, bounded files; the destructor ends, entries are settled | queue and batch 2, 4 entries (three batches, a cut, a full queue), once with every fault and once with the file only moved away |
| `tick` | resynchronisation, no double relay, bytes match items, no pop on empty, bounded queues, balance, FIFO; packets reach QBus | 3 datagrams of any of 8 kinds, or 4 to 5 of 2 kinds; socket buffer 2, 2 workers, pipes of 1 byte: a hung worker fills its pipe and blocks the server |
| `net` | socket in use undisturbed, each entry in one place; entries settled, a close ends once it waits for the check thread's lock | 2 servers, 2 connections beyond which connects fail; 2 appenders over a queue of 2, or one over a queue of 1: failover, reconnection, racing checks and a full queue happen |
| `file` | print() tells the truth, the quota is respected, the oldest files are deleted, one cut per full file, bounded overshoot; print() returns | 2 threads; every fault with quota 2 and 3 prints; no faults with quota 3, 4 old files and 5 prints, so that the ring turns more than once |
| `life` | no print through a freed category, none through NULL where threads open their logs by com_openlog_r or do not call while a close runs, the counter never rises during a close; com_closelog ends from its call on | 2 threads, 2 closes, a wait of 1 s, 4 programs: hasty, lazy, both, and with every habit |
| `ulshm` | the semaphore survives every death, one entry per name, one process per slot, free slots clean, monitors read what was set; no call waits for the dead | 2 processes, 2 names, 5 setups: room for all, one slot for two, cleaning at any time of one slot (three openings, so that an owner can come back and lose its slot) and of two with a failing shmat() and early starters, shared names |
| `ullog` | reference counts, no write through a freed slot, one stream per file, entries in the right file, none lost by splitting, files below max_size; calls return | 2 threads, max_size of 3 entries, 3 parts of a file, 6 programs: shared files split and rotated, a self-defined log with too few slots and with enough, failing fopen(), a file removed by somebody else |
| `namemg` | a lock-free get misses nothing registered before, one object per name, no deleted object in use, no branch twice, the registry owns what lives; calls return | 2 threads, 3 calls, a category with its father, an appender, 2 log states, all but one in one bucket, one node per block; with memory and without |

Deadlock is checked except where a bound ends the run: in `containers` (pool
exhausted or broken), `ullog` and `namemg` (all calls made).

Three further runs show a sentence of the repository that the code does not
keep; each is a `finding` of `PROJECT.json`:

* `net_handle`: an appender registered late sends with handle -1;
* `net_backup`: a failed send backs up entries with a wrong length;
* `life_count`: the counter is reset, or decremented once too often, while a
  thread is counted.

The limits of some properties are worth knowing. `Overshoot` is a property of
runs without faults: a handle that an error closed is reopened without a look
at the size, so each failed print lets a full file grow by one entry. And a
failing rename costs the oldest backup, for which reason `KeepsNewest` only
demands that nothing is deleted needlessly while renames succeed. In `ulshm`, a
process that found the table full keeps the semaphore until it ends: `CallReturns`
excludes waiting for it, and only for it. `SlotsKept` lets two processes share
a slot whose name a cleaning removed while one of them used it (the owner had
crashed, was looked up and came back before the removal, or never stopped),
since nothing in ul_log keeps that from happening; every other sharing violates
it. In the same way `LifeSafe` lets a thread print through NULL in programs that
are both hasty and lazy. `Exported` speaks of a process's
first ul_openlog: its list of items survives ul_closelog, and after a second
ul_openlog points at places that are not filled again.
A rotation in `ullog` waits when all `MaxPart` numbers are taken, which the
programs never reach. In `ullog` the properties hold until the first theft (`stolen`) and, those about
one stream and about sizes, until the first cut name is read (`raced`): the
hazard list names the lines. In `namemg` a registry without memory hands out
appenders it does not own, so `OneInstance` and `Owned` except that case.

## Fairness

Threads are scheduled (weak fairness of the writer, the sender, the check
thread, the server, each worker, each thread inside a call) and a `com_closelog`
that was called goes on. Nothing obliges a program to print, open or close, a
client to send, or a timeout to fire: what `asyncfile` shows holds without the
5 s timeout. Strong fairness is assumed only for taking a mutex that others hold
now and then: `TryAlive`, `checkOver` and `Clear` (the check thread sleeps 10 s between passes
without any lock; the strong fairness of `Sender` and `Closing` is weak at their
other steps), `Sync`/`Fail` of FileAppender, `Lock` and `Shut` of the life cycle
(threads hold the lock of g_closing for a few steps at a time), and `Acquire`
of UlLogShm (semop serves its waiters in turn). UlLog and NameMg need only weak
fairness of threads inside a call: their bounded programs stop asking for the
lock. Socket calls return because each has a timeout. A process that may die is
never obliged to, and the administration only goes on with what it began.

## Proofs

All for every value of the constants, from the named ASSUMEs alone. Each proof
module states its inductive invariant as a conjunction of named parts, proves
that every action keeps it, and derives the property from it; lemmas on sets,
sequences and arithmetic come first.

* **ContainersProofs**, the deque. `RingSafe`: `RingOK`, that is types, shape and no unwritten
  slot read. `RingShape` is the inductive part: rear is size + 1 slots after
  front modulo the capacity, and the slots between were written; the modulus is
  written as three possible differences, which keeps the arithmetic linear.
  Lemmas say which slot a position of the content lies in and that distinct
  positions lie in distinct slots. `RingImplementsDeque`: with `content` as
  refinement mapping, each ring call is the deque call of the same name. Assumes
  `CapacityAssumption` (create() refuses less than 2).
* **ContainersProofs**, the byte ring. `CircleAlwaysSafe` and `CircleImplementsByteQueue`:
  `CircleInv` is small (head and tail inside the array, nothing written behind
  it); the work is in the lemmas that a copy in two parts reads or fills exactly
  the cells that the queue's bytes have by counting from head modulo the length.
  A call of any length is the put, get or look of ByteQueue with as many bytes
  as the ring had room or bytes for.
* **ContainersProofs**, the pool. `PoolAlwaysSound` and `PoolGrowsWhenFull`, for
  every table of levels that grows (`PoolAssumption`; the recursive function
  `Grown` is unrolled over its 12 levels). `PoolInv` says of each level
  (`LevelOK`) that what users hold and the list of returned cells are disjoint
  and together exactly the cells cut off, and where cutting stands (`Rounds`):
  the blocks made after the current one are full, those made before it all full
  or all untouched since a reset. `Rounds` is what `PoolSound` leaves out, and
  the reason why a new block means that all others are full. `HeldOK` adds that
  the header of what is held leads `dealloc` back to the level it came from.
* **AsyncFileAppenderProofs.** `AInv` follows an entry: the queue holds
  the last numbers given, the batch the ones before, the files only earlier ones
  and in rising order (`Settled`, `Stored`, `OnDiskOnce`), which is why an entry
  cannot appear twice; `Handles` and `Names` tie the handle and its inode to the
  directory; `Phases` says at which places of the writer there is a batch and
  that it has ended when the appender is dropped. From it `EntriesAlwaysKept`, `NeverUsedAfterDrop`, and the action
  property `HandleAlwaysFollows`, for any set of faults and any sizes allowed by
  `SizesAssumption`.
* **FileAppenderProofs.** Three invariants over a common base (`BaseInv`: types,
  the lock's holder is the thread between Sync and Open, what each thread has in
  hand). `TruthInv`: an entry is in no file until its write and in one place
  afterwards, whatever the handle pointed to: `AlwaysTruthful`. `QuotaInv`: the
  ring `_ft` with its wrapping head lists the backups in order of age, and once
  it is full it is the whole quota: `QuotaAlwaysKept`; the first scan, which
  fills the ring from a directory with any number of old files, is the lemma
  `FirstScan`. `CutInv`: a file without faults outgrows its limit only by threads
  that were let through before it was full and have not written yet, and these
  are counted: `AlwaysCutInTime`. Needs a finite set of threads
  (`ThreadAssumption`).
* **NetSenderProofs.** `SockInv`: which of the sending and the check thread may
  change a slot at each point. The sender's slot is guarded although it takes no
  lock, because the check thread only connects slots that are not valid and only
  the sender makes its own slot invalid: `SocketAlwaysStable`. `EntryInv`: queue,
  batch and the sets of settled entries are disjoint and complete, and what is
  dropped was dropped by a closed appender: `EntriesAlwaysPlaced`.
* **TickServerProofs.** `TypeCorrect`: `TypeOK` is inductive once it says that
  the cells in anyone's hands were received and that rio_readnb holds no more
  than it was asked for. `BytesAndItemsMatch`: `BytesMatchItems`, inductive
  given `TypeOK`. `WorkersNeverPopEmpty` and `QueuesBounded` follow from it: the
  equation is the reason why neither needs a test in the code.
  `QueuesAlwaysSound` puts the four together as the invariant the run checks.
  `AlwaysResync` and `NeverDoubleRelay` rest on `ReaderInv` (each header is the
  start of a datagram, and while that one is well formed the reader is in step
  with it) and `FrontInv` (the datagrams of dealt items, those being read and
  those in the socket follow one another in the order of arrival).
  `AlwaysInTurn`: `OrderInv` and `TurnInv` count what was dealt to each worker
  against the server's turn.
* **ComlogLifecycleProofs.** `GateHolds`: `NoNewcomer`, an action property.
  `GateInv` adds what the property leaves out: a thread past the test of
  `g_closing` holds its lock and the flag is down, and the flag is up only
  between the two resets of com_closelog. `LifeAlwaysSafe`: `LifeInv` adds that
  the counter is at most the number of open threads and one (`CountInv`) and,
  while threads come and go in order and the wait's limit forced no close, that
  it is exactly that (`MainInv`) and that an open thread's category is of this
  epoch (`ThreadInv`); so a counter of 0 means that no category
  is in use when it is freed. A program with the other habits or a forced close is outside the property, as in
the run. Under the same conditions `NullInv`: a thread reaches its print without a category
only through `ul_openlog_r`, so it is uncounted and comlog was switched off during
its call; without hasty calls no uncounted thread is inside a call then, and
without lazy logging a thread has its category before it logs.
* **UlLogProofs**, the log files. `SlotsAlwaysHeld`: `HeldInv` adds to
  `SlotsHeld` how far a thread's unit is filled at each place in the code
  (`PlaceInv`), that a lock belongs to exactly the thread that is in the locked
  part with that slot (`LockInv`), and that whoever is past the test of fp has a
  stream (`FpInv`). Without them ref_cnt does not tell that the last user of a
  slot, when it closes, leaves nobody in the locked part: the thread inside would
  be a second user. `AlwaysRightFile`: `FileInv` adds that names and units lead to
  inodes of their own log (`DirInv`, `UnitInv`), that file_name is that of the
  stream except in a thread's `CutName` to `Rename` (`CutInv`), that the log's name
  leads to the stream's inode except during a rotation or after a removal
  (`LinkInv`), and that a thread about to open again finds no file (`GoneInv`). A
  second stream could only be opened by an `OpenNew` that did not recognise the
  file, which is what `raced` records; with one stream per log two threads that
  rotate or print have different logs (`Apart`), and none of them disturbs the
  other's names and sizes. `FilesAlwaysSound`: the size that ul_check reads by name
  is that of the stream it will print to (`RoomInv`), and a rename when splitting
  takes a free name, so an inode that had a name of its log keeps one (`KeptInv`).
  Assumes `ProgramAssumption`, `FileBounds` and `ThreadAssumption`: a log unit has
  at least log and log.wf, a file room for an entry, finitely many threads.
* **UlLogProofs**, the shared table. `SemaphoreKept`: `SemInv` says at each stage of a process
  whether it owes the semaphore, and that what is owed and what is there add up
  to one once the table was made; a process that found the table full owes it
  outside the locked part too, so `SemKept` alone is not inductive.
  `NamesUnique`: `NameInv` adds to `UniqueName` the types and that a process on
  its way to a claim has a name; a claim looks for the process's own name before it takes a free slot. Between
the look (`Claim`) and the store (`Sign`) no other claim can come, by the
semaphore; a cleaning, which takes none, can, but only removes names (`Signing`). `SlotsAlwaysKept`: `SlotInv` says where the pointers of a process lead at each
stage, that a slot in use and not in `robbed` bears the name its user's stage
gives it (`Titles`), so that two processes with different names have different
slots, and that a free slot is clean unless a death tore it, a cleaning robbed
it or is wiping it. `AlwaysExported` follows
  the item list of a process against its slot on top of that. All for any number
  of processes, names and slots, and any habits.
* **NameMgProofs.** `ChainInv` replaces pointers by numbers: all nodes of a
  bucket but the one being added are linked, each points to the next higher one
  of its bucket, a name is in one node, and the adder's `front` is the highest;
  the lemmas `LinkedIs`, `ValueIs` and `EndIs` show from it what a walk along the
  pointers finds. `WalkInv`: a walker has not passed the node it would have found
  when it began, since linking only adds behind the highest: `NeverMisses`.
  `ObjInv` follows the objects: one that is created and not yet registered is
  known to its creator only (`Private`), registered ones live, under one name
  each, and fathers are registered (`Shared`), the father is the one the name
  says (`Tree`), and under the factory's lock a name that was not found stays
  absent (`Factory`): `InstancesAlwaysSound`. With `Kept` (what lives is
  registered or in its creator's hands) the nodes are in bijection with the
  living objects once all calls have ended: `AlwaysOwned`. Assumes
  `NameAssumption` and `TypesAssumption`; threads, names, buckets and block size
  are arbitrary.

Only model-checked:

* liveness (`CloseEnds`, `CallReturns`, `CallsReturn`, `EntrySettled`, `Relayed`
  and the like): fairness is outside the prover.

Every invariant and every action property of the passing runs is proved.

## Not modelled

* Contents and formats: layouts, log levels and masks, the byte layout of
  loghead and of packets. tick reads of fewer than four bytes and lengths
  larger than its buffer are outside the model (cells are whole, datagrams
  small).
* Memory: allocation failures other than the registry's, descriptor numbers (a
  handle is the file it was opened on, so reuse of a number by another open() is
  not seen), destroy() of the pool.
* `createServer` failing after registration, a failing first quota scan,
  `reset`, `binprint`, `tryAppender`, `com_loadlog`, `com_resetlog`,
  `com_setdevices`.
* `dlist_walk`, which frees the first node of a list once per node (pool reset),
  beyond marking it; `ul_log_cleanshm` of one item or of a text buffer.
* Several SendSvrs in one CheckSvr: they share only its lock.
* ul_log: ul_log_monproc, ul_log_listproc and the text buffer of the shared
  table, output to stderr and syslog, the switch from ul_log to comlog.
* xhash's erase, save and load (no caller); Event and Layout (formatting in the
  calling thread); add and remove of a category's appenders; comsig.
* The other helpers of ullib (ul_url, ul_net, ul_string, ul_conf, ul_file,
  ul_pack, ul_thr, ul_udpdns): parsing, or wrappers of one system call, without
  state that a later call depends on.
* Third-party and generated code: glog (twice in the repository), csapp beyond
  rio, mpc, python-ad, the protobuf output. And the exercises (acm, topcoder,
  apue, unp, c, c++), each a program of its own. Together with the helpers these
  are the bulk of the repository's lines; the models cover the few thousand in
  which state, threads and failures meet.
* tick's configuration, start-up and destructors (main never returns).

## Plan

1. Done: XQueue, AsyncFileAppender, TickServer, NetSender, FileAppender,
   ComlogLifecycle, UlLogShm, UlLog, NameMg, UlCircle, MemPool, and the proofs
   above.
2. Next properties: sockets that stay open in no slot and handles of another
   server (NetSender), descriptor numbers reused after FileAppender's unlock.
3. Next operations: the failure paths of createServer and of the first quota
   scan, `reset`, `com_resetlog`.
4. Next compositions: AsyncFileAppender over the XQueue module itself; the life
   cycle with the registry it destroys.
