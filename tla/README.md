# A verification project for the PostgreSQL 16.1 server in this repository

TLA+ models of the server's synchronization and messaging primitives and of what is built directly on
them (barriers, message queues, checkpoints, the array of running transactions), checked with TLC on
small instances. For all of them but the array of running transactions the safety invariants are also
proved with TLAPS, for every instance. Paths below are relative to the repository; `backend/` is
`src/backend/`.

- [Inventory](#inventory): the parts of the system
- [Plan](#plan): which modules, in which order
- [Modules](#modules): how states and actions correspond to the code
- [Runs](#runs): what TLC checks, the bounds, the fairness
- [Findings](#findings): where code and comments disagree
- [Proofs](#proofs)
- [Limits](#limits)

## Inventory

The repository is the PostgreSQL 16.1 source with added comments. It also carries unrelated
programs (git, sqlite, liblmdb, mosquitto, HexEdit, winspy, repmgr, pglogical, pg_stat_monitor,
check_postgres, temporal), which are not part of the server and are left aside.

A server is a postmaster and many processes that share one memory segment. Every process owns a
`PGPROC` with a semaphore, a latch and list links. They synchronize in layers, and the order of the
plan follows them, because a model of an upper layer may use what the lower one was shown to
implement:

| Part | State | Operations | Hard behaviour | What makes it correct |
|---|---|---|---|---|
| Spinlocks (`s_lock.c`) | a byte | lock, unlock | back-off | taken as atomic sections here |
| **Latches** (`latch.c`) | `is_set`, `maybe_sleeping`, `owner_pid`; pending SIGURG | set, reset, wait, own, disown | memory order, signal handlers, a PGPROC that changes hands | no wakeup lost; work gets done |
| **Lightweight locks** (`lwlock.c`) | one atomic word, a wait list, a variable beside the lock | acquire, conditional, or-wait, wait-for/update variable, release, release all | queueing races with release, deferred wakeups, foreign semaphore posts | exclusion, nobody forgotten, semaphore counts kept |
| **Condition variables** (`condition_variable.c`) | wait list, one link per process, `cv_sleep_target` | prepare, sleep, timed sleep, cancel, signal, broadcast | sentinel of a broadcast, handlers inside a sleep, errors | no wakeup lost, broadcast complete and finite |
| **Shared invalidation** (`sinvaladt.c`, `sinval.c`) | ring buffer, per-backend positions and flags, private batch | attach, detach, insert, read, clean up, catch up | buffer overrun, unlocked flags, wraparound, recursion, errors | each backend processes all messages in order, or resets |
| **Process signals and barriers** (`procsignal.c`) | per-process flags, generations | join, leave, send, emit, absorb, wait | a process joins during an emit, a handler that fails, recycled slots | a waiter returns only when all absorbed, and does return |
| **Message queues** (`shm_mq.c`) | ring, two counters, detached flag | attach, send, receive, detach | detach against last bytes, worker that never starts, delayed publication | messages whole and in order, no loss before detach, nobody sleeps past a reason to go on |
| Heavyweight locks (`lock.c`, `proc.c`, `deadlock.c`) | lock table, queues | acquire, release, deadlock check | lock groups, soft edges, timeout against grant | no conflicting grants, every cycle broken |
| **Running transactions and snapshots** (`procarray.c`, `varsup.c`, `snapmgr.c`) | the array of ids, xmins, subtransaction caches, the lock-free list of group clearing | assign an id, take, reuse, export and import a snapshot, compute horizons, ask for an id, end, prepare | scans in shared mode, stores without the lock, a leader that clears for others | snapshots exact, horizons behind every snapshot, each group member cleared once |
| Group clog update (`clog.c`) | the same kind of list | join, lead, wake | list pop against push | each member recorded once |
| **Checkpointer, fsync queue** (`checkpointer.c`, `sync.c`, `md.c`) | three counters, request array, pending tables | request, absorb, compact, sync, unlink | failure, full queue, modulo compare, files dropped during a checkpoint | a completed checkpoint is durable; a request gets a checkpoint of its own |
| Synchronous replication (`syncrep.c`) | queues by LSN | wait, release, cancel | unlocked state read | a waiter is released only when its LSN is confirmed |
| NOTIFY (`async.c`) | SLRU queue, head, tails, positions | listen, notify, read, truncate | truncation against new listeners | every listener sees each notification |
| WAL (`xlog.c`, `xloginsert.c`) | insert position, insertion locks, flush position | insert, flush | holes while others insert | nothing flushed before it is inserted |
| SLRU, buffers (`slru.c`, `bufmgr.c`) | page states, pins | read, write, evict | I/O outside locks | a page is read once and never lost |
| Transactions, two-phase commit (`xact.c`, `twophase.c`) | states, files | begin, commit, prepare (their effect on the array is in `ProcArray`) | crash between steps | atomic outcome |
| Predicate locks (`predicate.c`) | conflict graph | | | serializability |
| Caches (`inval.c`, `relcache.c`) | | consume messages | | |
| Postmaster, replication, access methods, parser, planner, executor, commands, tools, contrib | | | large or sequential, or I/O | see `PROJECT.json` |

Bold parts are modelled. They interact as follows. A condition variable wakes through the process
latch, as do the lock manager, replication and message queues. `sinvaladt.c` takes two LWLocks and
sends a catchup signal through `procsignal.c`, whose handler sets the latch. `lwlock.c` sleeps on the
process semaphore, which group XID clearing also posts. WAL insertion uses the variable protocol of
`lwlock.c`. Interrupt handlers run inside condition variable sleeps, and transaction abort calls
`LWLockReleaseAll` and `ConditionVariableCancelSleep`. A barrier's waiters and checkpoint requesters
sleep on condition variables; message queues and the checkpointer wait on latches; the array of
transactions is under two LWLocks.

`PROJECT.json` lists every part, modelled or not, with the reason, and the hazards: the places where
something can go wrong that a test would hardly reach, each with the properties that cover it.

## Plan

Done, in this order:

1. `LWLock` with its abstract specification `RWLock`; proofs in `LWLockProofs` and, for the
   waiting side, `LWLockWaitProofs`.
2. `Sinval`, which takes its two locks as the readers-writer locks of `RWLock`; `SinvalProofs`.
3. `ConditionVariable`, which takes the latch as a Boolean; `ConditionVariableProofs`.
4. `Latch`, which justifies that Boolean; `LatchProofs`.
5. `ProcSignal`: signals and barriers without any lock; `ProcSignalProofs`.
6. `ShmMq`, the ring over latches, with its abstract specification `MsgChannel`; `ShmMqProofs`.
7. `Checkpointer`: requests, the fsync request queue and deferred unlinks; `CheckpointerProofs`.
8. `ProcArray`: ids, snapshots, horizons, group clearing and prepared transactions, over two locks
   taken as `RWLock`.

Next:

9. `SyncRep` and `Async`, whose hazards are listed without properties.
10. `Barrier` of parallel query; `WalInsert` over the variable protocol of `LWLock`; hot standby in
    `ProcArray`.
11. Heavyweight locks and the deadlock detector, the latter as operators checked against a reference
    definition (a cycle in the waits-for graph) over small graphs; two-phase commit over a crash; SLRU.

Theorems worth proving next: `FinishedIsDecided` and `GroupHasLeader` of `ProcArray`, then
`SnapshotIsExact` and `HorizonSafe`, whose invariant has to follow two scans at once.

## Modules

### LWLock, RWLock (`backend/storage/lmgr/lwlock.c`)

`lock->state` is one atomic word. The model keeps it in two variables that every action handles
together: `lockcount` (the holders' bits) and `flags`. `waiters`, `lwWaiting`, `sem`, `held`, and
`extraWaits` are the code's wait list, PGPROC fields, `held_lwlocks[]` and local counter; `wakeup`,
`iter` and `woke` are locals of `LWLockWakeup`, `wakee` the process whose semaphore it is about to
post. One action is one atomic operation on the word, one access to a field others read without the
wait-list lock, or one round of a loop over a list.

| Code | Actions |
|---|---|
| `LWLockAttemptLock` | `AttemptLock` (in `FirstAttempt`, `SecondAttempt`) |
| `LWLockQueueSelf` | `LWLockWaitListLock`, `QueueSetFlag`, `QueuePush` |
| `LWLockDequeueSelf` | `DequeueRemove`, `DequeueUnlock`, `DequeueReleaseOk`, `DequeueSleep` |
| `LWLockAcquire` loop | `Sleep`, `RetryReleaseOk`, `Return` |
| `LWLockConflictsWithVar`, `LWLockWaitForVar` | `LWLockConflictsWithVar`, `WaitForVarReleaseOk` |
| `LWLockUpdateVar`, `LWLockReleaseClearVar` | `UpdateVarSet`, `UpdateVarCollect`, `UpdateVarUnlock`, `ClearVar` |
| `LWLockRelease`, `LWLockReleaseAll` | `Release`, `Finished` |
| `LWLockWakeup` | `WakeupSkip`, `WakeupCollect`, `WakeupFlags`, `WakeClear`, `WakePost`, `WakeEnd` |
| group XID clearing (`procarray.c`) | `SpuriousPost`: a post that is not for the lock |

`MayWaitFor` is external: callers take LWLocks in an order that excludes deadlock, as lwlock.c itself
demands of them. `RWLock` is the promise to callers: sets of exclusive and shared holders, no word and
no queue. The refinement maps the winning compare-and-exchange to the acquisition and the atomic
subtraction to the release.

### Sinval (`backend/storage/ipc/sinvaladt.c`, `sinval.c`)

A message is its ordinal in the order of insertion; the code's counter `n` stands for ordinal
`base + n`, where `base` sums what wraparound has subtracted. `buffer` maps a slot of the ring to the
ordinal in it, so reading a slot that was overwritten is visible. `procState` is the array of the code.
`stack` holds the activations of `ReceiveSharedInvalidMessages`, because a callback may call it again;
`messages` and `nextmsg` are its static variables. `base`, `seen`, `lastLXID` and `sent` are history.

Insertion is `SendSharedInvalidMessages`, `LockForInsert`, `CleanupForInsert`, `WriteBuffer`,
`PublishMaxMsgNum`, `SetHasMessages`, `EndBatch`; reading is `TestHasMessages`, `AcquireReadLock`,
`FetchMaxMsgNum`, `ReadReset`, `ReadOne`, `ReadEnd`; the loop around it is `Invalidate`, `LoopAgain`,
`LoopEnds`, `PassOnCatchup`, `ReturnFromReceive`, with `Recurse`, `CallbackReturns` and `CallbackError`
for what a callback does. What is done under an exclusive lock and not read by others without it is
one step; the buffer, `maxMsgNum` and each `hasMessages` flag change in steps of their own.
`SignalForInsert` and `RelockForInsert` are the gap in which `SICleanupQueue` gives up its locks.

### ConditionVariable (`backend/storage/lmgr/condition_variable.c`)

One action is one critical section of `cv->mutex`, one latch operation or one test of the user's
condition. The predicate loop of the callers is part of the model (`TestCondition`, `Cancel`), since
the promise holds only inside it. `Interrupt` pushes the interrupted sleep on `frames`; the handler may
wait, signal or broadcast on any variable, as barrier handlers do; `Abort` is an ERROR and the cancel
in `AbortTransaction`. `WaitTimeout` and `AfterTimeout` are the timed sleep: whether time is left is a
free choice. A signal sets the latch of whoever it popped, the caller itself included; only the loop of
a broadcast skips its own sentinel. `owed` is history: the waiters that a broadcast found.

### Latch (`backend/storage/ipc/latch.c`)

`SetLatch`, `ResetLatch` and the wait on a latch in `WaitEventSetWait`, step by step, in the loop that
`latch.h` prescribes (its two patterns are the same cycle entered at different points). Memory is not
sequentially consistent: each process has a FIFO store buffer, `pg_memory_barrier` waits until it is
empty. Contexts are threads of control: the main programs, and one signal handler of each owner, which
suspends its process at any point and uses its buffer. `selfPipe` tells the builds apart: SIGURG read
from a signalfd, or handled by `latch_sigurg_handler`, which writes to a pipe only while `waiting`.
`GetProc`, `OwnLatch`, `DisownLatch` and `ReleaseProc` let one process after another own the PGPROC.

### ProcSignal (`backend/storage/ipc/procsignal.c`)

The slots are functions `pss_pid`, `pss_signalFlags`, `pss_barrierGeneration`, `pss_barrierCheckMask`;
one action is one access to one of them, since no lock protects them. What a barrier is about is a
version number (`shared`) of which each process may have cached an older value (`cached`); absorbing
drops the cached value. `settled` is the newest version whose wait has returned.

| Code | Actions |
|---|---|
| `ProcSignalInit` | `Start`, `ClearFlags`, `ClearMask`, `ReadGeneration`, `WriteGeneration`, `SetPid`, `Remember` |
| `CleanupProcSignalState` | `Exit`, `MaxGeneration`, `ClearPid` |
| `SendProcSignal` | `SendLookup`, `SendKill` |
| `EmitProcSignalBarrier` | `Publish` (the caller's change), `SetBit`, `Increment`, `NextSlot`, `ReadPid`, `SetFlag` |
| `WaitForProcSignalBarrier` | `WaitSlot` |
| `procsignal_sigusr1_handler` | `procsignal_sigusr1_handler`, `HandleBarrierInterrupt` |
| `ProcessProcSignalBarrier` | `Absorb`, `ReadGenerations`, `ExchangeMask`, `ProcessType`, `ProcessTypeLater`, `ProcessTypeError`, `ReportGeneration` |

A barrier function may succeed, ask to be called again or raise an ERROR. The handler interrupts its
process at any point. The pid that is signaled may have left; then nobody gets the signal.

### ShmMq, MsgChannel (`backend/storage/ipc/shm_mq.c`)

A cell of `mq_ring` is one unit of `MAXIMUM_ALIGNOF` bytes and says which part of which message is in
it, so overwriting unread data is visible. Sender and receiver are two threads of actions named after
the functions and the places in them (`Send...`, `Receive...`, `Internal...` for `shm_mq_wait_internal`,
`Detach...`); calls are made with and without `nowait` and repeated after `SHM_MQ_WOULD_BLOCK`. One of
the two is a background worker, with or without a handle that the leader can ask for its state; it may
never start, and either party may fail in the middle of a call, which detaches it. The postmaster signals
the leader when the worker starts and when it stops. The first signal arrives at once in the model: a
latch that is set so early is not what rescues a leader who sleeps later. `MsgChannel` is the
promise: a FIFO of whole messages that reports its end only when it is empty. The refinement takes as
`chan` the complete messages among what is published and not yet returned, so a message enters the
channel when the increment of `mq_bytes_written` that completes it is visible.

### Checkpointer (`backend/postmaster/checkpointer.c`, `storage/sync/sync.c`, parts of `md.c`, `bufmgr.c`, `xlog.c`, `dbcommands.c`)

The changes of a file are reduced to where they are (buffer, kernel, disk) and whether they were made
before or after the redo pointer of the latest checkpoint ("old", "new"). A relation has a first
segment, whose unlink is deferred, and others; all are dropped, re-created with the same number and
lose their database. The checkpointer's actions follow its main loop (`Loop...`, `BeginCheckpoint` ...
`BroadcastDone`), `CreateCheckPoint` (`SyncPreCheckpoint`, `SetRedo`, `BufferSyncMark`,
`SyncOneBuffer`, `CheckpointWriteDelay`, `ProcessSyncRequests` and its loop, `WriteRecord`,
`SyncPostCheckpoint`); those of a backend follow `FlushBuffer`, `register_dirty_segment`, `mdunlink`,
`dropdb` and `RequestCheckpoint`. `CompactCheckpointerRequestQueue` and `RememberSyncRequest` are
operators on the queue and the tables. Counters wrap: `ckpt_*` modulo `CTR_MODULUS`, cycle counters
modulo `CYCLE_MODULUS`.

An unlink may fail, which the code answers with a WARNING: `SyncPostCheckpoint` takes the entry for done
all the same (`UnlinkFiletag`), and `mdunlinkfork` leaves its loop, so that the segments after this one
stay too (`UnlinkFile`). Such a file is "left". `DropsDone` therefore does not promise that a file is
gone when `RequestCheckpoint` returns, only that its unlink has been tried and that no request for it is
still on its way; that is what a caller of `RequestCheckpoint` can count on. The name of a first
segment that is left is not taken again, as `GetNewRelFileNumber` tests whether the file exists; a later
drop of the relation or the database finds the file. That a new relation of the same number extends into
a further segment that was left is not modelled. Failures count as errors, of which a behaviour has at most `MaxFails`.

Abstractions: requests are `FORCE|WAIT`; checkpoints caused by time are skipped when no WAL was
written; `data_sync_retry` is on (off, a failed fsync is a PANIC); a condition variable is the set of
its sleepers, which `ConditionVariable` justifies; the latch is advertised together with the pid;
inserting a request and setting the latch are one step. A new file may take a name only when no drop is
under way and no cancel for that name is left in the queue: "OIDs must've wrapped around for that to
happen" (`md.c:263`), and the checkpointer absorbs the queue in the meantime. This is an assumption on
the surroundings that the code does not enforce, and durability rests on it. A file re-created while
the cancel of its predecessor is queued could be written by the checkpointer itself, whose sync request
goes into the table past the queue and is then cancelled by the older request. `owed` is history, the
files of which somebody may expect that they are gone; a file created again leaves it.

### ProcArray (`backend/storage/ipc/procarray.c`, `varsup.c`, parts of `snapmgr.c`, `xact.c`, `twophase.c`)

`procArray` is the sorted array of entries with the parallel arrays of `PROC_HDR` (`xids[]`,
`subxidStates[]`, `statusFlags[]`); `pgproc` holds the copies in the PGPROCs and `pgxactoff`. What is
done under `ProcArrayLock` in exclusive mode is one step. A scan in shared mode (`CollectXid`,
`HorizonEntry`) takes one step for each entry, because ids are stored and xmins set by others meanwhile;
the scan of `TransactionIdIsInProgress` is one step, because the id it looks for can neither come nor go
while the lock is held.

| Code | Actions |
|---|---|
| `ProcArrayAdd`, `ProcArrayRemove` | `StartBackend`, `InitProcessPhase2`, `ExitBackend`, `RemoveProcFromArray`, `MarkAsPrepared`, `RemovePrepared` |
| `GetNewTransactionId`, `SubTransSetParent` | `GetNewTransactionId`, `StoreTransactionId` |
| `GetSnapshotData` | `GetSnapshotData`, `CollectXid`, `SnapshotComplete`, `GetSnapshotDataReuse` |
| `SnapshotResetXmin`, `ExportSnapshot`, `ImportSnapshot` | `ReleaseSnapshot`, `ExportSnapshot`, `ImportSnapshot`, `CheckImportSource`, `InstallImportedXmin`, `RefuseImport` |
| `ComputeXidHorizons` | `ComputeXidHorizons`, `HorizonEntry`, `HorizonsComplete` |
| `TransactionIdIsInProgress` | `AnswerAtOnce`, `TransactionIdIsInProgress`, `ScanForXid`, `SearchSubTrans` |
| `ProcArrayEndTransaction` | `RecordTransactionEnd`, `EndWithoutXid`, `ClearVacuumFlag`, `ConditionalAcquire`, `EndTransaction` |
| `ProcArrayGroupClearXid` | `StartGroupClear`, `JoinGroup`, `Follow`, `LeaderLock`, `LeaderClear`, `LeaderWake`, `LeaderPost`, `LeaderDone` |
| `XidCacheRemoveRunningXids` | `AbortSubTransaction`, `XidCacheRemoveRunningXids` |
| `PREPARE`, `COMMIT PREPARED` | `PrepareTransaction`, `MarkAsPrepared`, `ProcArrayClearTransaction`, `FinishPreparedTransaction`, `LockToFinish`, `RemovePrepared` |

`completed` (the sets of ids that left the array, in order), `removed` and `truncated` (how far rows and
pg_subtrans may be gone) and the field `since` of a snapshot are history. `parent` has the direct parent of
a subtransaction, and `open` says in which ones a new one may be begun, so that the chains of pg_subtrans
are those of the code; `SubTransGetTopmostTransaction` follows them and stops before `TransactionXmin`,
which `GetSnapshotData` and an import set and `SnapshotResetXmin` leaves alone. `ParentsAsked` is what
it asks pg_subtrans for. A lookup of a truncated page raises an ERROR in the code; here it answers as if
the page were there, and `ParentsKept` says whether it happens. `GetNewTransactionId` reads `pgxactoff`
and `StoreTransactionId` stores at that offset in a later step, so that only `XidGenLock`
(`CanMoveEntries`) keeps the entries in place. Ids are counted without
wraparound, which the code's modulo comparison is equal to as long as the ids in use span less than half
the space. The store of the parent in pg_subtrans is one step with that of the id, as nobody can ask
for it in between. A VACUUM has no id.

## Runs

All runs finish in about two minutes on two cores, `checkpointer_sync`, the longest, in less than three.

| Run | Instance | Shows |
|---|---|---|
| `lwlock_queue` | 3 processes, 1 lock with a variable of 2 values, 3 waiting calls, 1 foreign post | exclusion, lists, semaphores, no lost wakeup, the variable protocol |
| `lwlock_live` | 3 processes, 1 lock | types, the refinement of `RWLock`, every call returns |
| `sinval_queue` | 3 processes in 2 slots, one of them send-only, ring of 2, wraparound at 2, 3 messages, nesting 2, errors, ids modulo 3 | nothing missed through overrun, reset, catchup, recursion and errors; slot reuse and local transaction ids |
| `cv_list` | 3 processes, 2 variables, 3 calls, nesting 1, 1 foreign latch set | lists, wakeups, complete broadcasts; loops and broadcasts end, with handlers inside sleeps |
| `latch_wakeup` | 2 successive owners, 2 setters, 2 sets besides those of the owners, both builds | no lost wakeup, assertions, work gets done |
| `procsignal_barrier` | 3 processes, 2 slots, 1 type; starts, barriers, signals and failures 4 together | no stale state after a wait, whoever is behind is told, waits end |
| `procsignal_join` | the same system | expected violation, see Findings |
| `shmmq_ring` | ring of 8 units, 2 messages of 1 or 6 units, worker on either side, with or without handle | refinement of `MsgChannel`, unread data intact, no lost wakeup, calls return |
| `checkpointer_sync` | 2 backends, 2 files, queue of 2, counters modulo 8 and 3; operations, changes, timed checkpoints and errors, failing unlinks among them, 3 together | checkpoints durable, requests honoured, unlinks tried in time and none too early, calls return |
| `procarray_snapshots` | 3 backends, 1 prepared transaction, 5 ids, cache of 1, 7 scenarios | snapshots exact and decided, horizons safe, group list, in-progress answers, calls return |
| `procarray_import` | the scenario of imports | expected violation, see Findings |
| `procarray_subtrans` | two snapshots of one transaction, subtransactions of two others, 6 ids | expected violation, see Findings |

Why the bounds are enough to be interesting. Three processes are the least with a holder, a sleeper
and a newcomer (LWLock), with two waiters and a broadcaster, which a sentinel needs (condition
variables), and with an emitter, a participant and one that takes over a slot (barriers).
`LW_VAL_EXCLUSIVE` is 4, the least above the number of processes. The ring of Sinval holds two
messages and the counters wrap at its size, so that overrun, reset, signals and wraparound all happen
within three messages; the real constants (4096, 4096 * 262144) only make these rarer. Ids and
messages of Sinval have nothing to do with each other, so a behaviour uses one of the two. A latch is
set by each new owner and twice more, so that any two of setter, second setter and handler interfere
with each other and with a change of owner; each of the dropped barriers of the mutants is noticed
within these bounds. A message of six units does not fit in the ring behind another one, so that it
wraps around, fills the ring before it is published and is received in parts. The checkpointer starts
with dirty pages and one before a wraparound of its counters, so that few operations suffice. The
scenarios of ProcArray say how often each backend may make each call; each is about one interaction
(two snapshots of one transaction and group clearing, cache overflow, three ending transactions,
VACUUM against readers, imports, prepared transactions, backends that join and leave), with all
interleavings of the backends. In "prepared" another transaction with a later id ends meanwhile, so that
`latestCompletedXid` passes the prepared one: with the id cleared before the dummy is in the array, TLC
finds `FinishedIsDecided` violated. In "connections" a backend leaves and comes back while others store
ids: without `XidGenLock` around the move of the entries, a store goes to the wrong entry and TLC finds
`FinishedIsDecided` violated.

The bounds are named constants: `MaxCalls`, `MaxTotal`, `MaxSpurious`, `MaxSend`, `MaxMsgs`,
`MaxDepth`, `MaxNesting`, `MaxSets`, `MaxEmits`, `MaxSends`, `MaxFails`, `MaxTimed`, `MaxOps`,
`MaxChanges`, `MaxXid`, `Scenarios`.

Symmetry over processes is used in `lwlock_queue` and `sinval_queue`, which check invariants and one
property of single steps and nothing temporal beyond. Deadlock is checked except in ProcSignal, where
every process may have exited for good; elsewhere the MC module has a `Stop` step for the states in
which the budget is used up and the system may rest, and nothing else excuses a stop. Types are
checked as a part of one structural invariant of each module (`NothingMissed`, `WaitLinkUsedOnce`,
`AssertionsHold` of Latch, `BehindIsTold`, `UnreadIntact`, `EntriesOneCycleOld`), and by `TypeOK`
itself for LWLock; `WaitListsWellFormed` includes the assertions of lwlock.c.

Every property has a mutant: a plausible wrong version of one definition (a dropped barrier, a missing
second attempt, a sentinel at the wrong end of the list) under which TLC finds the property violated.

Fairness, and what in the code justifies it:

- LWLock: weak fairness of each process's own steps, because the operating system schedules every
  process, and of ending a holding period, because code between acquire and release is short and an
  error releases all locks. No fairness for making calls.
- ConditionVariable: weak fairness of a process's own steps. Timeouts, interrupts and errors never
  have to happen, so they cannot be what rescues a waiter.
- Latch: weak fairness of every thread of control, of stores reaching memory and of SIGURG delivery.
  Timeouts, EINTR, sockets and exits never have to happen.
- ProcSignal: weak fairness of a process's steps inside a call, of signal delivery and of absorbing
  what is pending, since every process reaches `CHECK_FOR_INTERRUPTS`. Failures are bounded by
  `MaxFails`; a handler that fails for ever blocks the waiter in the code too. `WaitReturns` is stated
  for waits that do not meet the process of the finding below.
- ShmMq: weak fairness of each party inside a call and of repeating a call that would block when its
  latch is set, of the postmaster's starting or failing the worker and notifying the leader. Failures
  never have to happen. A leader without a handle may wait for ever for a worker that never attaches,
  as the comment of `shm_mq_wait_for_attach` says.
- Checkpointer: weak fairness of the checkpointer's and the backends' steps. It need not be woken by a
  timeout, so a request does not live on that.
- ProcArray: weak fairness of the steps of a backend inside a call. Transactions need not end and
  calls need not be made.

## Findings

- `procsignal_join`. A process that has read the barrier generation in `ProcSignalInit` and has not
  yet published its pid and `MyProcSignalSlot` when a barrier is emitted is left behind: it advertises
  the old generation and nothing tells it, although the comments in procsignal.c say that concurrency
  is not a problem and that new backends are woken. `WaitForProcSignalBarrier` waits for it until some
  later barrier. Nothing stale is used: `NoStaleState` holds.
- `procarray_import`. `ProcArrayInstallImportedXmin` takes the lock "so source xact can't end while
  we're doing this", but a source transaction without an id ends without the lock. A horizon that is
  computed between the test and the store passes the imported snapshot. In `procarray_snapshots` only
  transactions with an id export snapshots, and `HorizonSafe` holds.
- `procarray_subtrans`. A transaction takes a snapshot, others end, it takes a second one and releases the
  first. `SnapshotResetXmin` then advances `MyProc->xmin` and leaves `TransactionXmin` behind
  (`snapmgr.c:960`), although a comment says that the two are the same (`procarray.c:2178`). pg_subtrans
  is truncated up to the second snapshot's xmin. If that snapshot is overflowed, `XidInMVCCSnapshot` of a
  subtransaction that had ended before it was taken goes on from its parent, which is before the xmin, and
  asks pg_subtrans for what may be gone: "Can't ask about stuff that might not be around anymore"
  (`subtrans.c:155`) tests `TransactionXmin` only. What may be gone ends in an ERROR, not in a wrong
  answer: any id before the snapshot's xmin is as good as any other there, and `SnapshotIsExact` holds.

Remarks on comments, without a run: `shm_mq_sendv` reads `mq_receiver` (523) before it publishes the data
(541), so a receiver that attaches, looks and sleeps in between is not woken for data that was flushed,
although the comment at 562 says "The sender will set our process latch after more data has been written";
it goes on with the next flush or detach, and `NoLostWakeup` of ShmMq excepts this case with `missed`
(without the exception TLC finds it violated); `backend/storage/lmgr/README` says that waiters get an LWLock in
arrival order, but the compare-and-exchange ignores the queue; `LWLockAcquireOrWait` may return before
the lock was released, when a late wakeup of an earlier release ends its wait, and its caller tests
again; a catchup interrupt that arrives after the last read of `ReceiveSharedInvalidMessages` is
cleared at its end, with `signaled` still set, and the backend may then be reset where it could have
caught up.

## Proofs

Eight modules hold the proofs. Each EXTENDS its component's module (`LWLockWaitProofs` extends
`LWLockProofs`), defines an inductive invariant (`IInv`; `WInv` in `LWLockWaitProofs`) and proves `Init => IInv`, `IInv /\ [Next]_vars => IInv'` and `IInv => ...` for each property
below, for every value of the constants. The bounds of the runs (how many messages, emissions, calls
in calls) are constants too, so that the theorems hold for every such bound. All `IInv`s were first
checked with TLC on the instances of the runs.

### LWLockProofs

For any finite set of processes, any locks and any budget of foreign posts, assuming only `BackendsFit`
(fewer processes than `LW_VAL_EXCLUSIVE`, the `StaticAssertDecl` of lwlock.c) and the types in
`ConstantsAssumption`:

- `TypeCorrect`: `Spec => []TypeOK`, including that the holders' bits stay in range;
- `MutualExclusionHolds`: `Spec => []MutualExclusion`;
- `LockWordCorrect`: `Spec => []LockWordCountsHolders`;
- `ImplementsRWLock`: `Spec => RWSpec`, the refinement.

`MutualExclusion` is not inductive: whether a compare-and-exchange may succeed is decided by the word,
so the word has to be tied to the holders. The inductive invariant has four parts:

- the types;
- `ControlInv`: at each label the call record is one that leads there (an acquiring call, its lock and
  mode; a release holds what it releases);
- `HeldInv`: a process lists a lock at most once and does not acquire one it has;
- `WordInv`: the word is the weight of the holders, there is at most one exclusive holder, and none
  beside shared ones.

The argument has two layers. `HolderStep` says how one process joins or leaves the holders of one lock
while the word changes by its weight; `HolderStepWord` shows that this preserves `WordInv`, by
counting (`HoldersFinite`, cardinalities of the two sets). Then each action is either quiet, leaving
holders and word alone (`CallQuiet`, `QuietStepQuiet`, `QuietKeeps`), or a holder step (`AttemptStep`,
`ReleaseStep`; `ReturnStep` moves a holder from the call record to `held`). `DeleteAtType`,
`DeleteAtElements` and `DeleteAtMember` are about the shifted array. `NextIInv` puts the actions
together, and the refinement uses the same classification.

### LWLockWaitProofs

The waiting side of `LWLock`, under the same assumptions, for any finite set of processes, any locks
and any budget of foreign posts:

- `WaitListsHold`: `Spec => []WaitListsWellFormed`;
- `SemaphoresBalance`: `Spec => []SemaphoreBalanced`;
- `NoWakeupLost`: `Spec => []NoLostWakeup`;
- `VarWaitersUpToDate`: `Spec => []VarWaiterUpToDate`.

`WInv` is inductive relative to the `IInv` of `LWLockProofs`. That a sleeper is not forgotten depends on
what `LWLockWakeup` saw during its scan, on whom it took off the list, on how far these have come since,
and on who sets `LW_FLAG_RELEASE_OK` again; each of these is a part:

- `LockInv`: a wait list is locked by one process, and the word says so; `PlaceInv`: `lwWaiting` is set
  only between `LWLockQueueSelf` and the end of the wait;
- `ListInv`, `WakeupInv`: who is on a wait list, and who on whose list of processes to wake;
- `ScanInv`: a waker that will clear `LW_FLAG_RELEASE_OK` has on its own list a process in
  `LWLockAcquire`, which will set it again;
- `SortInv`: those who wait for the lock to be free are in front, so the scan, which stops at the first
  exclusive waiter, leaves none of them behind;
- `SemInv`: the balance of posts; `ReleaseOkInv`: `LW_FLAG_RELEASE_OK` is on or a woken process has yet
  to set it;
- `TryInv`: whoever must wait has a holder, or somebody who will try or wake, to wait for;
- `VarInv`: a waiter of `LWLockWaitForVar` has set `LW_FLAG_RELEASE_OK`, which stays, and waits for an
  exclusive holder that has not stored another value.

The proof has one predicate on steps for each part (`LockStep`, `ListsQuiet`, `ScanIdle`, `LwStep`,
`RelStep`, `TryStep`, `VarStep`), shown of every action once, with one leaf per action; from these each
part is preserved. `Frame` says what a step leaves alone of the other processes. `SemaphoreBalanced`
counts the processes about to post a semaphore, so `Proc` is finite.

### ConditionVariableProofs

For any processes and condition variables, any nesting of handlers and any spurious latch sets:

- `WaitLinkHolds`: `Spec => []WaitLinkUsedOnce`;
- `NoWakeupLost`: `Spec => []SleeperCanBeWoken`;
- `BroadcastComplete`: `Spec => []BroadcastReachesAll`.

`SleeperCanBeWoken` speaks of a process asleep, but whether it holds is decided when the process
prepares, tests and re-enqueues itself. So `WakeInv` follows it from `ConditionVariablePrepareToSleep`
on: it is on the list, or its latch is set or about to be, or it is about to look at the list.
`ControlInv` ties the place of a process to `cv_sleep_target` and its sentinel, `QueueInv` says who may
be on a list and that nobody is there twice. `OwedInv` is the heart of the broadcast: whoever it still
owes a wakeup is in front of its sentinel, so the sentinel's being popped, by whomever, means that
nobody is owed any more. The lemmas `AppendList`, `TailList` and `WithoutList` say what the three list
operations do to membership, uniqueness and this order.

### SinvalProofs

For any buffer size, thresholds, number of backends and depth of recursion, assuming
`WraparoundAssumption`: `MSGNUMWRAPAROUND` is a multiple of `MAXNUMMESSAGES` (as the comment at its
definition demands) and a batch fits in the buffer:

- `NothingIsMissed`: `Spec => []NothingMissed`;
- `ProcessedHolds`: `Spec => []ProcessedBeforeReturn`;
- `XidsConsecutiveHold`: `Spec => []VirtualXidsConsecutive`;
- `CleanupRoom`: `Spec => CleanupMakesRoom`, an action property.

The parts of the invariant: who owns which entry (`OwnInv`) and lock (`LockInv`); what a place says of
a process's own array and calls (`PlaceInv`); the order `minMsgNum <= nextMsgNum <= maxMsgNum` and the
distance between the ends (`CountInv`); the buffer holds the messages from `minMsgNum` on and those a
sender has written and not yet published (`BufferInv`); a receiver's position and the rest of its array
add up to what it has processed (`SeenInv`); `hasMessages` or a sender that has not come to the entry
yet accounts for every message ahead of a receiver (`FlagInv`); and what each unfinished call of
`ReceiveSharedInvalidMessages` has still to process (`CallInv`). `FlagInv` is what makes the unlocked
test of `hasMessages` sound. `ModNear` and `ModShift` are the arithmetic of the ring: two messages less
than a buffer apart do not share a slot, and the wraparound of the counters moves no message to
another slot. `CleanEffect` describes `SICleanupQueue`'s pass as a whole.

### ProcSignalProofs

For any processes, slots, barrier types, emissions, sends and failures:

- `NobodyIsStale`: `Spec => []NoStaleState`;
- `BehindGetsTold`: `Spec => []BehindIsTold`.

The waiter compares a number that a slot reports, so the number has to say something of the cache
of whoever has the slot. `OwnInv` gives a slot one owner, `CountInv` counts emissions that have yet to
increment, `GenInv` bounds each generation that was read or reported by the shared one, `EmitInv` is
about the locals of an emission, `LocalInv` about what a process has cached and failed to absorb.
`StaleInv` is the strengthening that matters: while a process has something cached that is older than a
barrier was emitted for, the generation it reports stays below that barrier's, and it has the
barrier's bit set, or has taken it over and not yet finished. `ToldInv` extends `BehindIsTold` to a
process that is still joining.

### ShmMqProofs

For any ring size (down to one cell), message lengths (zero included) and number of messages:

- `UnreadNeverOverwritten`: `Spec => []UnreadIntact`;
- `NobodySleepsOn`: `Spec => []NoLostWakeup`.

`UnreadIntact` needs the sender's local `available`, computed from counters that move on before the
copy, to be at most the room at the time of the copy (`RoomInv`), which needs the order of the read,
published and written positions (`PositionInv`), which in turn needs that the receiver never consumes
more than was published. That it cannot is a matter of the message format: it trusts the length word it
reads, so `FormatInv` says that the stream is messages one after another with their parts in order,
`SenderInv` where in a message the sender is, and `ReceiverInv` that the receiver reads at the
beginning of a message. `ModDifferent` and `ModContiguous` are the arithmetic of the ring; `CopyFits`,
`CopyEffect` and `CopyKeepsUnread` say what one contiguous copy does.

For `NoLostWakeup`, `WakeInv` lists what a party has seen before it comes to sleep (the other has not
detached, nobody attached, the worker lives, the ring is full, nothing more is published) and says of
each: it is still so, or the latch is set, or somebody is about to set it (`Pinged`). `PingStays` shows
that such a promise is kept by every step of the others, and `WakeDetached`, `WakeAttached`,
`WakeAlive`, `WakeRoom` and `WakeData` that each change makes one.

### LatchProofs

For any owners that follow one another, any setters and any number of times somebody makes work, in
both builds:

- `NoWakeupLost`: `Spec => []NoLostWakeup`;
- `AssertsHold`: `Spec => []AssertionsHold`, the types included.

Both are about flags that one process has stored and another may not see yet, so the invariant is about
store buffers. `BufferInv` says what a store in flight tells about where its process is: an `is_set`
that is to become TRUE belongs to somebody at the second barrier of `SetLatch`, one that is to become
FALSE to an owner at the barrier of `ResetLatch`, and so on. `Sees` is what a process would read from a
location, its own stores first; `SeesLoad` shows that it is what `Load` returns, `SeesAppend` and
`SeesTail` what a store and a flush do to it. `SeesInv` says what the owner sees of `maybe_sleeping`
and `owner_pid` at each label, and that an owner that blocks has its announcement in memory
(`Announced`); the Asserts follow, and that a PGPROC on the free list has no owner in memory, so that
`OwnLatch` does not end in a PANIC.

`NoLostWakeup` follows from two promises. `WorkInv`: while there is work and the owner has already
looked for it, `is_set` is TRUE or somebody is going to set it. `WakeInv`: while `is_set` is TRUE and
the owner blocks, a signal is on its way or a call of `SetLatch` has still to read `maybe_sleeping` and
`owner_pid`, or to send its signal (`CallWakes`: it then reads TRUE and the owner's pid). The barriers
of the code are what makes them inductive: without the one after the announcement, `Announced` fails at
`recheck`; without the first of `SetLatch`, work may be in flight behind a latch read as set; without
the second, `maybe_sleeping` may be read before `is_set` is in memory.

### CheckpointerProofs

For any backends and segments, any queue length (one included), any width of the counters, any number
of timed checkpoints and of I/O errors:

- `CheckpointsAreDurable`: `Spec => []CheckpointIsDurable`;
- `CancelsArrive`: `Spec => []CancelArrivesInTime`;
- `CyclesStayFresh`: `Spec => []EntriesOneCycleOld`, the types included;
- `UnlinksAreTimely`: `Spec => UnlinkTiming`, an action property;
- `RequestsAreHonoured`: `[]RequestHonoured`, if fewer checkpoints fail than `ckpt_failed` has values
  (2^32): after so many failures within one wait the comparison of `RequestCheckpoint` would find the
  counter where it was;
- `DropsAreDone`: `[]DropsDone`, if moreover fewer checkpoints fail or find nothing to do than a
  `CycleCtr` has values (2^16): an unlink request that was left behind that often would look as new as
  one of the current checkpoint. Unlinks may fail in it, see the module: what is proved is that the
  unlink of each file that was owed has been tried. `MaxFails` and `MaxTimed` bound these events. The run goes beyond the
  second hypothesis (modulus 3, up to two such checkpoints), so the hypothesis is sufficient, not exact.

A request may be with the backend that is about to forward it, in the queue, or in a table. The notion
that makes these cases one is `After(q, r, S)`: the queue contains `r` and behind it nothing of `S`.
`Wanted(f)` is "absorbing the queue leaves an entry for `f` that is not cancelled". The first sections
show what `ForwardSyncRequest` with `CompactCheckpointerRequestQueue` (`KeptFacts`, `ForwardView`) and
`AbsorbSyncRequests` (`AbsorbFacts`, `OpsView`, `UnlinksView`) do to them: compaction and absorption
leave `Wanted` alone, which is why compaction keeps the last of several equal requests. The parts of
`IInv`:

- `PlaceInv`, `CounterInv`: where a backend is and with which request; the three counters, and what a
  waiter knows of them;
- `FileInv`: only live files have changes, who does I/O on them, one drop at a time;
- `UnlinkInv`: a dropped first segment has exactly one unlink request, in one place; `FilterInv`: after
  the request of DROP DATABASE nothing of the database will be synced or unlinked any more;
- `CancelInv`: no sync is wanted for a file that is gone or about to go (`GoneInv`), for a first segment
  this checkpoint will unlink (`DueInv`), or at a retry (`RetryInv`); `ForgetInv`: no cancel is queued
  for a live file;
- `CycleInv`: entries have the current cycle, or the one before while a pass has not finished;
- `DurableInv`: what the kernel has is in the buffer still or `Wanted` (`FlushedInv`), and where the
  changes before the redo pointer are in each phase of the checkpoint (`OldInv`);
- `YoungInv`: unlink requests made after the redo pointer look new to this checkpoint.

`UnlinkTried` says what an unlink may do to a file: it is gone, or left behind.
`FailedInv` (what a waiter knows of `ckpt_failed`), `AgeInv` (unlink requests are sorted by age and no
older than the checkpoints that left them behind) and `OwedInv` serve the last two theorems.

The attempt to prove found two faults of an earlier version of the model, both beyond the bounds of the
run: the assumption on names that come back, described with the module above, was missing, which broke
`CheckpointIsDurable` with a queue of one, two timed checkpoints and three operations; and a file that
was dropped, created and dropped again was still owed to the first request. The queue operators were
folds; they are recursive functions now, of which a proof can use the defining equation.

### Only model-checked

- Liveness, and everything under fairness: out of the prover's reach.
- `ChannelSpec`, the refinement of `MsgChannel` by `ShmMq`: its mapping selects the complete messages
  of the stream with `SelectSeq`, whose meaning for every stream takes induction over data.
- `WaitReturns` of ProcSignal and the other action properties no theorem names.
- The invariants of ProcArray: not attempted. They relate a scan in progress to what has completed since
  it began, and `HorizonSafe` two scans of different backends.

## Limits

- Memory is sequentially consistent except in `Latch`, which uses store buffers (x86). Weaker machines
  also reorder loads; that is not modelled.
- Critical sections of spinlocks are single steps.
- LWLock leaves out tranche names and statistics, which have no part in the protocol.
- Sinval: `SendProcSignal` sets the flag of the process that has the slot now; that the pid may have
  been reused is not modelled. `BackendIdGetProc` and `BackendIdGetTransactionIds` only read.
- Latch: kqueue, Windows, sockets as event sources with data, wait event sets as containers, local
  latches and postmaster death are left out; a failing `epoll_wait`, which raises an ERROR, too.
- ProcSignal: one type of barrier in the instance, a pid is never used twice, and the flags of other
  signals are one flag.
- ShmMq: how `shm_mq_sendv` gathers a part from several vectors is left out; a message is one vector.
- Checkpointer: one page per file; restartpoints, the background writer, `MAX_SIGNAL_TRIES` running
  out, the wait for `delayChkpt`, and the error of `mdcreate`'s own fsync are left out. So are a failing
  truncate of a dropped file (after which the code goes on) and a failing `rmtree` of DROP DATABASE.
- ProcArray: hot standby, replication slots, `GlobalVis*`, `ProcArrayInstallRestoredXmin` for parallel
  workers, a VACUUM that gets an id, lists of virtual transactions, id wraparound, the limits at which
  `GetNewTransactionId` warns or refuses, and the ERROR of a lookup in a truncated pg_subtrans are left
  out.
- Two hazards have no property yet, in code that is not modelled: the order of unlinking a waiter and
  setting its state at `syncrep.c:906`, and `async.c:2191`.
- Everything listed `not_modelled` in `PROJECT.json`.
