------------------------------- MODULE LWLock -------------------------------
(***************************************************************************)
(* PostgreSQL's lightweight locks (backend/storage/lmgr/lwlock.c).         *)
(*                                                                         *)
(* lock->state is one atomic 32-bit word.  It is modelled by two variables *)
(* that every action reads and writes together: lockcount, the bits under  *)
(* LW_LOCK_MASK (shared holders count 1 each, an exclusive holder counts   *)
(* LW_VAL_EXCLUSIVE), and flags, the set of LW_FLAG_* bits that are on.    *)
(* One action is one atomic operation on that word, one access to a field  *)
(* another process reads without the wait-list lock (lwWaiting, the        *)
(* semaphore), or one iteration of a loop over a wait list; accesses that  *)
(* only the wait-list lock's holder can make are joined to such a step.    *)
(* Memory is sequentially consistent: the barriers in the code are there   *)
(* to make it so for these fields.                                         *)
(***************************************************************************)
EXTENDS Integers, Sequences, FiniteSets

CONSTANTS
  Proc,               \* processes that own a PGPROC
  Locks,              \* LWLocks, numbered as in MainLWLockArray
  VarLocks,           \* the locks whose callers use the variable protocol
  Values,             \* values of the uint64 variable beside such a lock
  LW_VAL_EXCLUSIVE,   \* the exclusive holder's weight in lock->state
  MAX_SIMUL_LWLOCKS,  \* size of held_lwlocks[]
  MaxSpurious         \* bound: foreign semaphore posts a process receives

NoLock == 0
NoVal  == -1
NoProc == "NoProc"
InitVal == 0          \* insertingAt = 0 in XLOGShmemInit

ASSUME ConstantsAssumption ==
  /\ IsFiniteSet(Proc)
  /\ NoProc \notin Proc
  /\ Locks \subseteq Nat \ {NoLock}
  /\ VarLocks \subseteq Locks
  /\ Values \subseteq Nat /\ InitVal \in Values
  /\ MAX_SIMUL_LWLOCKS \in Nat
  /\ MaxSpurious \in Nat

(* StaticAssertDecl(LW_VAL_EXCLUSIVE > MAX_BACKENDS) in lwlock.c.          *)
ASSUME BackendsFit ==
  /\ LW_VAL_EXCLUSIVE \in Nat
  /\ Cardinality(Proc) < LW_VAL_EXCLUSIVE

LW_EXCLUSIVE       == "LW_EXCLUSIVE"
LW_SHARED          == "LW_SHARED"
LW_WAIT_UNTIL_FREE == "LW_WAIT_UNTIL_FREE"
LockModes == {LW_EXCLUSIVE, LW_SHARED}

LW_WS_NOT_WAITING    == "LW_WS_NOT_WAITING"
LW_WS_WAITING        == "LW_WS_WAITING"
LW_WS_PENDING_WAKEUP == "LW_WS_PENDING_WAKEUP"
WaitStates == {LW_WS_NOT_WAITING, LW_WS_WAITING, LW_WS_PENDING_WAKEUP}

HAS_WAITERS == "LW_FLAG_HAS_WAITERS"
RELEASE_OK  == "LW_FLAG_RELEASE_OK"
LOCKED      == "LW_FLAG_LOCKED"
Flags == {HAS_WAITERS, RELEASE_OK, LOCKED}

VARIABLES
  \* shared, one per lock
  lockcount,  \* lock->state & LW_LOCK_MASK
  flags,      \* the LW_FLAG_* bits of lock->state
  waiters,    \* lock->waiters, the wait list
  var,        \* the uint64 variable kept beside the lock
  \* shared, one per process (fields of PGPROC)
  lwWaiting,
  sem,        \* count of the process's semaphore
  \* private to a process
  pc,         \* where it is; "idle" outside lwlock.c
  call,       \* the call it is in: operation, lock, mode and value argument
  held,       \* held_lwlocks[0 .. num_held_lwlocks - 1]
  extraWaits, \* absorbed wakeups to give back
  newval,     \* *newval of LWLockWaitForVar; NoVal when it will return true
  iter,       \* position of the loop over lock->waiters in LWLockWakeup
  woke,       \* wokeup_somebody (and ~new_release_ok) in LWLockWakeup
  wakeup,     \* the local list of processes to wake
  wakee,      \* process whose lwWaiting was cleared but whose semaphore was not posted
  spurious    \* foreign posts of the semaphore so far

lockVars  == <<lockcount, flags, waiters, var>>
procVars  == <<lwWaiting, sem, spurious>>
waitLocal == <<extraWaits, newval>>
wakeLocal == <<iter, woke, wakeup, wakee>>
vars == <<lockVars, procVars, pc, call, held, waitLocal, wakeLocal>>

(***************************************************************************)
(* Control points                                                          *)
(***************************************************************************)
Acquiring    == {"LWLockAcquire", "LWLockAcquireOrWait"}
Releasing    == {"LWLockRelease", "LWLockReleaseAll"}
Ops == Acquiring \cup Releasing \cup
         {"none", "LWLockConditionalAcquire", "LWLockWaitForVar", "LWLockUpdateVar",
          "LWLockReleaseClearVar"}

QueuePcs   == {"qlock", "qflag", "qpush"}
DequeuePcs == {"dlock", "dremove", "dunlock", "drelok", "dsleep"}
VarPcs     == {"vtest1", "vlock1", "vval1", "vrelok", "vtest2", "vlock2", "vval2"}
WakePcs    == {"wlock", "wscan", "wcas", "wake", "wsem"}
Pcs == {"idle", "try1", "try2", "sleep", "relok", "acquired", "failed", "vreturn",
        "ulock", "uset", "ucollect", "clock", "cset", "rel"}
       \cup QueuePcs \cup DequeuePcs \cup VarPcs \cup WakePcs

NoCall == [op |-> "none", lock |-> NoLock, mode |-> LW_SHARED, val |-> NoVal]

Lk(p) == call[p].lock
Go(p, to) == pc' = [pc EXCEPT ![p] = to]

(* proc->lwWaitMode: the mode LWLockQueueSelf was called with.  It is read *)
(* only while the process is on a wait list, i.e. during that same call.   *)
LwWaitMode(p) ==
  IF call[p].op = "LWLockAcquire" THEN call[p].mode ELSE LW_WAIT_UNTIL_FREE

(* The sequence s without its i-th element.                                *)
DeleteAt(s, i) == [j \in 1 .. Len(s) - 1 |-> IF j < i THEN s[j] ELSE s[j + 1]]

Position(s, x) == CHOOSE i \in 1 .. Len(s) : s[i] = x

(* LWLockInitialize for every lock; no process is in a call.               *)
Init ==
  /\ lockcount  = [l \in Locks |-> 0]
  /\ flags      = [l \in Locks |-> {RELEASE_OK}]
  /\ waiters    = [l \in Locks |-> << >>]
  /\ var        = [l \in Locks |-> InitVal]
  /\ lwWaiting  = [p \in Proc |-> LW_WS_NOT_WAITING]
  /\ sem        = [p \in Proc |-> 0]
  /\ pc         = [p \in Proc |-> "idle"]
  /\ call       = [p \in Proc |-> NoCall]
  /\ held       = [p \in Proc |-> << >>]
  /\ extraWaits = [p \in Proc |-> 0]
  /\ newval     = [p \in Proc |-> NoVal]
  /\ iter       = [p \in Proc |-> 1]
  /\ woke       = [p \in Proc |-> FALSE]
  /\ wakeup     = [p \in Proc |-> << >>]
  /\ wakee      = [p \in Proc |-> NoProc]
  /\ spurious   = [p \in Proc |-> 0]

(***************************************************************************)
(* Calls.  LWLocks have no deadlock detection, so callers take them in a   *)
(* fixed order and never take one they hold.                               *)
(***************************************************************************)
MayWaitFor(p, l) == \A i \in 1 .. Len(held[p]) : held[p][i].lock < l

HeldIndex(p, l) ==
  CHOOSE i \in 1 .. Len(held[p]) :
    /\ held[p][i].lock = l
    /\ \A j \in 1 .. Len(held[p]) : held[p][j].lock = l => j <= i

LWLockHeldByMe(p, l) == \E i \in 1 .. Len(held[p]) : held[p][i].lock = l

LWLockHeldByMeInMode(p, l, m) ==
  \E i \in 1 .. Len(held[p]) : held[p][i] = [lock |-> l, mode |-> m]

Begin(p, to, c) ==
  /\ pc[p] = "idle"
  /\ call' = [call EXCEPT ![p] = c]
  /\ Go(p, to)
  /\ UNCHANGED <<lockVars, procVars, held, waitLocal, wakeLocal>>

(* LWLockAcquire; with held_lwlocks[] full it raises an ERROR instead,     *)
(* which CallReleaseAll covers.                                            *)
CallAcquire(p) ==
  \E l \in Locks, m \in LockModes :
    /\ MayWaitFor(p, l)
    /\ Len(held[p]) < MAX_SIMUL_LWLOCKS
    /\ Begin(p, "try1", [op |-> "LWLockAcquire", lock |-> l, mode |-> m, val |-> NoVal])

(* LWLockConditionalAcquire never waits, so it may come in any order.      *)
CallConditionalAcquire(p) ==
  \E l \in Locks, m \in LockModes :
    /\ ~LWLockHeldByMe(p, l)
    /\ Len(held[p]) < MAX_SIMUL_LWLOCKS
    /\ Begin(p, "try1",
             [op |-> "LWLockConditionalAcquire", lock |-> l, mode |-> m, val |-> NoVal])

(* LWLockAcquireOrWait is used for locks without a variable (WALWriteLock).*)
CallAcquireOrWait(p) ==
  \E l \in Locks \ VarLocks, m \in LockModes :
    /\ MayWaitFor(p, l)
    /\ Len(held[p]) < MAX_SIMUL_LWLOCKS
    /\ Begin(p, "try1", [op |-> "LWLockAcquireOrWait", lock |-> l, mode |-> m, val |-> NoVal])

CallWaitForVar(p) ==
  \E l \in VarLocks, v \in Values :
    /\ MayWaitFor(p, l)
    /\ Begin(p, "vtest1",
             [op |-> "LWLockWaitForVar", lock |-> l, mode |-> LW_SHARED, val |-> v])

CallUpdateVar(p) ==
  \E l \in VarLocks, v \in Values :
    /\ LWLockHeldByMeInMode(p, l, LW_EXCLUSIVE)
    /\ Begin(p, "ulock",
             [op |-> "LWLockUpdateVar", lock |-> l, mode |-> LW_SHARED, val |-> v])

CallReleaseClearVar(p) ==
  \E l \in VarLocks, v \in Values :
    /\ LWLockHeldByMeInMode(p, l, LW_EXCLUSIVE)
    /\ Begin(p, "clock",
             [op |-> "LWLockReleaseClearVar", lock |-> l, mode |-> LW_SHARED, val |-> v])

CallRelease(p) ==
  \E l \in Locks :
    /\ LWLockHeldByMe(p, l)
    /\ Begin(p, "rel", [op |-> "LWLockRelease", lock |-> l, mode |-> LW_SHARED, val |-> NoVal])

(* Error recovery: an ERROR was raised in the code that holds the locks.   *)
CallReleaseAll(p) ==
  /\ held[p] # << >>
  /\ Begin(p, "rel", [op |-> "LWLockReleaseAll", lock |-> held[p][Len(held[p])].lock,
                      mode |-> LW_SHARED, val |-> NoVal])

(***************************************************************************)
(* LWLockAttemptLock: the compare-and-exchange that succeeds.              *)
(***************************************************************************)
(* Mutants of LockFree: one bit pattern too many; readers not seen.        *)
LockFreeOffByOne(l, m) ==
  IF m = LW_EXCLUSIVE THEN lockcount[l] = 0 ELSE lockcount[l] <= LW_VAL_EXCLUSIVE

LockFreeIgnoresReaders(l, m) == lockcount[l] < LW_VAL_EXCLUSIVE

LockFree(l, m) ==
  IF m = LW_EXCLUSIVE THEN lockcount[l] = 0 ELSE lockcount[l] < LW_VAL_EXCLUSIVE

(* Mutant of Weight: an exclusive holder sets the next bit.                *)
WeightNextBit(m) == IF m = LW_EXCLUSIVE THEN 2 * LW_VAL_EXCLUSIVE ELSE 1

Weight(m) == IF m = LW_EXCLUSIVE THEN LW_VAL_EXCLUSIVE ELSE 1

AttemptLock(p, from, got, mustwait) ==
  /\ pc[p] = from
  /\ \/ /\ LockFree(Lk(p), call[p].mode)
        /\ lockcount' = [lockcount EXCEPT ![Lk(p)] = @ + Weight(call[p].mode)]
        /\ Go(p, got)
     \/ /\ ~LockFree(Lk(p), call[p].mode)
        /\ Go(p, mustwait)
        /\ UNCHANGED lockcount
  /\ UNCHANGED <<flags, waiters, var, procVars, call, held, waitLocal, wakeLocal>>

FirstAttempt(p) ==
  AttemptLock(p, "try1", "acquired",
              IF call[p].op = "LWLockConditionalAcquire" THEN "failed" ELSE "qlock")

(* Mutants of SecondAttempt: its result ignored; no LWLockDequeueSelf.     *)
SecondAttemptIgnored(p) == AttemptLock(p, "try2", "sleep", "sleep")

SecondAttemptStaysQueued(p) == AttemptLock(p, "try2", "acquired", "sleep")

SecondAttempt(p) == AttemptLock(p, "try2", "dlock", "sleep")

(***************************************************************************)
(* The wait-list lock: a spinlock in a bit of lock->state.                 *)
(***************************************************************************)
WaitListLock(p, from, to) ==
  /\ pc[p] = from
  /\ LOCKED \notin flags[Lk(p)]
  /\ flags' = [flags EXCEPT ![Lk(p)] = @ \cup {LOCKED}]
  /\ Go(p, to)
  /\ UNCHANGED <<lockcount, waiters, var, procVars, call, held, waitLocal, wakeLocal>>

LWLockWaitListLock(p) ==
  \/ WaitListLock(p, "qlock", "qflag")
  \/ WaitListLock(p, "dlock", "dremove")
  \/ WaitListLock(p, "wlock", "wscan")
  \/ WaitListLock(p, "vlock1", "vval1")
  \/ WaitListLock(p, "vlock2", "vval2")
  \/ WaitListLock(p, "ulock", "uset")
  \/ WaitListLock(p, "clock", "cset")

(* pg_atomic_fetch_or_u32 of one flag.                                     *)
FetchOr(p, from, flag, to) ==
  /\ pc[p] = from
  /\ flags' = [flags EXCEPT ![Lk(p)] = @ \cup {flag}]
  /\ Go(p, to)
  /\ UNCHANGED <<lockcount, waiters, var, procVars, call, held, waitLocal, wakeLocal>>

(***************************************************************************)
(* LWLockQueueSelf                                                         *)
(***************************************************************************)
QueueSetFlag(p) == FetchOr(p, "qflag", HAS_WAITERS, "qpush")

QueuePush(p) ==
  /\ pc[p] = "qpush"
  /\ lwWaiting' = [lwWaiting EXCEPT ![p] = LW_WS_WAITING]
  /\ waiters' = [waiters EXCEPT ![Lk(p)] =
                   IF LwWaitMode(p) = LW_WAIT_UNTIL_FREE THEN <<p>> \o @ ELSE Append(@, p)]
  /\ flags' = [flags EXCEPT ![Lk(p)] = @ \ {LOCKED}]
  /\ Go(p, IF call[p].op = "LWLockWaitForVar" THEN "vrelok" ELSE "try2")
  /\ UNCHANGED <<lockcount, var, sem, spurious, call, held, waitLocal, wakeLocal>>

(***************************************************************************)
(* LWLockDequeueSelf                                                       *)
(***************************************************************************)
AfterDequeue(p) == IF call[p].op = "LWLockWaitForVar" THEN "vreturn" ELSE "acquired"

DequeueRemove(p) ==
  LET l == Lk(p)
      rest == IF lwWaiting[p] = LW_WS_WAITING
              THEN DeleteAt(waiters[l], Position(waiters[l], p))
              ELSE waiters[l]
  IN  /\ pc[p] = "dremove"
      /\ waiters' = [waiters EXCEPT ![l] = rest]
      /\ flags' = [flags EXCEPT ![l] = IF rest = << >> THEN @ \ {HAS_WAITERS} ELSE @]
      /\ Go(p, "dunlock")
      /\ UNCHANGED <<lockcount, var, procVars, call, held, waitLocal, wakeLocal>>

(* on_waitlist is still readable from lwWaiting: once off the list, no     *)
(* other process changes WAITING.                                          *)
DequeueUnlock(p) ==
  /\ pc[p] = "dunlock"
  /\ flags' = [flags EXCEPT ![Lk(p)] = @ \ {LOCKED}]
  /\ \/ /\ lwWaiting[p] = LW_WS_WAITING
        /\ lwWaiting' = [lwWaiting EXCEPT ![p] = LW_WS_NOT_WAITING]
        /\ Go(p, AfterDequeue(p))
     \/ /\ lwWaiting[p] # LW_WS_WAITING
        /\ Go(p, "drelok")
        /\ UNCHANGED lwWaiting
  /\ UNCHANGED <<lockcount, waiters, var, sem, spurious, call, held, waitLocal, wakeLocal>>

(* Mutants of DequeueReleaseOk: the wakeup is not absorbed; flag not set.  *)
DequeueNoAbsorb(p) == FetchOr(p, "drelok", RELEASE_OK, AfterDequeue(p))

DequeueNoReleaseOk(p) == FetchOr(p, "drelok", HAS_WAITERS, "dsleep")

DequeueReleaseOk(p) == FetchOr(p, "drelok", RELEASE_OK, "dsleep")

(***************************************************************************)
(* PGSemaphoreLock and the test of lwWaiting after it.  Only the process   *)
(* itself takes its semaphore, so the two are one step.                    *)
(***************************************************************************)
SemaphoreWait(p, from, to) ==
  /\ pc[p] = from
  /\ sem[p] > 0
  /\ sem' = [sem EXCEPT ![p] = @ - 1]
  /\ \/ /\ lwWaiting[p] = LW_WS_NOT_WAITING
        /\ Go(p, to)
        /\ UNCHANGED extraWaits
     \/ /\ lwWaiting[p] # LW_WS_NOT_WAITING
        /\ extraWaits' = [extraWaits EXCEPT ![p] = @ + 1]
        /\ UNCHANGED pc
  /\ UNCHANGED <<lockVars, lwWaiting, spurious, call, held, newval, wakeLocal>>

AfterSleep(p) == CASE call[p].op = "LWLockAcquire"       -> "relok"
                   [] call[p].op = "LWLockAcquireOrWait" -> "failed"
                   [] OTHER                              -> "vtest1"

Sleep(p) == SemaphoreWait(p, "sleep", AfterSleep(p))

(* LWLockDequeueSelf gives its extra waits back before it returns; here    *)
(* they are given back by Return.  Nobody else reads the count meanwhile.  *)
DequeueSleep(p) == SemaphoreWait(p, "dsleep", AfterDequeue(p))

(* Mutant of RetryReleaseOk: the flag is not set.                          *)
RetryNoReleaseOk(p) == FetchOr(p, "relok", HAS_WAITERS, "try1")

RetryReleaseOk(p) == FetchOr(p, "relok", RELEASE_OK, "try1")

(* The end of LWLockAcquire, LWLockConditionalAcquire, LWLockAcquireOrWait *)
(* and LWLockWaitForVar.                                                   *)
Return(p) ==
  /\ pc[p] \in {"acquired", "failed", "vreturn"}
  /\ held' = IF pc[p] = "acquired"
             THEN [held EXCEPT ![p] = Append(@, [lock |-> Lk(p), mode |-> call[p].mode])]
             ELSE held
  /\ sem' = [sem EXCEPT ![p] = @ + extraWaits[p]]
  /\ extraWaits' = [extraWaits EXCEPT ![p] = 0]
  /\ newval' = [newval EXCEPT ![p] = NoVal]
  /\ call' = [call EXCEPT ![p] = NoCall]
  /\ Go(p, "idle")
  /\ UNCHANGED <<lockVars, lwWaiting, spurious, wakeLocal>>

(***************************************************************************)
(* LWLockConflictsWithVar, called before and after queueing.               *)
(***************************************************************************)
ConflictTest(p, from, lockfree, locked) ==
  /\ pc[p] = from
  /\ Go(p, IF lockcount[Lk(p)] < LW_VAL_EXCLUSIVE THEN lockfree ELSE locked)
  /\ UNCHANGED <<lockVars, procVars, call, held, waitLocal, wakeLocal>>

ConflictValue(p, from, changed, mustwait) ==
  /\ pc[p] = from
  /\ flags' = [flags EXCEPT ![Lk(p)] = @ \ {LOCKED}]
  /\ \/ /\ var[Lk(p)] # call[p].val
        /\ newval' = [newval EXCEPT ![p] = var[Lk(p)]]
        /\ Go(p, changed)
     \/ /\ var[Lk(p)] = call[p].val
        /\ Go(p, mustwait)
        /\ UNCHANGED newval
  /\ UNCHANGED <<lockcount, waiters, var, procVars, call, held, extraWaits, wakeLocal>>

(* Mutant of LWLockConflictsWithVar: no test of the value once queued.     *)
ConflictsValueOnce(p) ==
  \/ ConflictTest(p, "vtest1", "vreturn", "vlock1")
  \/ ConflictValue(p, "vval1", "vreturn", "qlock")
  \/ ConflictTest(p, "vtest2", "dlock", "sleep")

LWLockConflictsWithVar(p) ==
  \/ ConflictTest(p, "vtest1", "vreturn", "vlock1")
  \/ ConflictValue(p, "vval1", "vreturn", "qlock")
  \/ ConflictTest(p, "vtest2", "dlock", "vlock2")
  \/ ConflictValue(p, "vval2", "dlock", "sleep")

WaitForVarReleaseOk(p) == FetchOr(p, "vrelok", RELEASE_OK, "vtest2")

(***************************************************************************)
(* LWLockUpdateVar and the variable part of LWLockReleaseClearVar          *)
(***************************************************************************)
UpdateVarSet(p) ==
  /\ pc[p] = "uset"
  /\ var' = [var EXCEPT ![Lk(p)] = call[p].val]
  /\ Go(p, "ucollect")
  /\ UNCHANGED <<lockcount, flags, waiters, procVars, call, held, waitLocal, wakeLocal>>

FrontWaitsUntilFree(l) ==
  waiters[l] # << >> /\ LwWaitMode(waiters[l][1]) = LW_WAIT_UNTIL_FREE

(* One iteration of the loop: the LW_WAIT_UNTIL_FREE waiters in front.     *)
UpdateVarCollect(p) ==
  LET l == Lk(p)
      q == waiters[l][1]
  IN  /\ pc[p] = "ucollect"
      /\ FrontWaitsUntilFree(l)
      /\ waiters' = [waiters EXCEPT ![l] = DeleteAt(@, 1)]
      /\ wakeup' = [wakeup EXCEPT ![p] = Append(@, q)]
      /\ lwWaiting' = [lwWaiting EXCEPT ![q] = LW_WS_PENDING_WAKEUP]
      /\ UNCHANGED <<lockcount, flags, var, sem, spurious, pc, call, held, waitLocal,
                     iter, woke, wakee>>

UpdateVarUnlock(p) ==
  LET l == Lk(p)
  IN  /\ pc[p] = "ucollect"
      /\ ~FrontWaitsUntilFree(l)
      /\ flags' = [flags EXCEPT ![l] = @ \ {LOCKED}]
      /\ Go(p, "wake")
      /\ UNCHANGED <<lockcount, waiters, var, procVars, call, held, waitLocal, wakeLocal>>

ClearVar(p) ==
  /\ pc[p] = "cset"
  /\ var' = [var EXCEPT ![Lk(p)] = call[p].val]
  /\ flags' = [flags EXCEPT ![Lk(p)] = @ \ {LOCKED}]
  /\ Go(p, "rel")
  /\ UNCHANGED <<lockcount, waiters, procVars, call, held, waitLocal, wakeLocal>>

(***************************************************************************)
(* LWLockRelease: the array entry goes first, then the atomic subtraction  *)
(* whose result decides whether waiters must be woken.                     *)
(***************************************************************************)
CheckWaiters(l, count) == {HAS_WAITERS, RELEASE_OK} \subseteq flags[l] /\ count = 0

(* What follows a release: LWLockReleaseAll goes on with its last entry.   *)
Finished(p, h) ==
  IF call[p].op = "LWLockReleaseAll" /\ h # << >>
  THEN /\ call' = [call EXCEPT ![p].lock = h[Len(h)].lock]
       /\ Go(p, "rel")
  ELSE /\ call' = [call EXCEPT ![p] = NoCall]
       /\ Go(p, "idle")

Release(p) ==
  LET l == Lk(p)
      i == HeldIndex(p, l)
      h == DeleteAt(held[p], i)
      count == lockcount[l] - Weight(held[p][i].mode)
  IN  /\ pc[p] = "rel"
      /\ held' = [held EXCEPT ![p] = h]
      /\ lockcount' = [lockcount EXCEPT ![l] = count]
      /\ \/ /\ CheckWaiters(l, count)
            /\ Go(p, "wlock")
            /\ UNCHANGED call
         \/ /\ ~CheckWaiters(l, count)
            /\ Finished(p, h)
      /\ UNCHANGED <<flags, waiters, var, procVars, waitLocal, wakeLocal>>

(***************************************************************************)
(* LWLockWakeup                                                            *)
(***************************************************************************)
(* proclist_foreach_modify visits a waiter and leaves it on the list.      *)
WakeupSkip(p) ==
  LET l == Lk(p)
  IN  /\ pc[p] = "wscan"
      /\ iter[p] <= Len(waiters[l])
      /\ woke[p] /\ LwWaitMode(waiters[l][iter[p]]) = LW_EXCLUSIVE
      /\ iter' = [iter EXCEPT ![p] = @ + 1]
      /\ UNCHANGED <<lockVars, procVars, pc, call, held, waitLocal, woke, wakeup, wakee>>

(* ... or moves it to the wakeup list; after an exclusive one it stops.    *)
WakeupCollect(p) ==
  LET l == Lk(p)
      q == waiters[l][iter[p]]
  IN  /\ pc[p] = "wscan"
      /\ iter[p] <= Len(waiters[l])
      /\ ~(woke[p] /\ LwWaitMode(q) = LW_EXCLUSIVE)
      /\ waiters' = [waiters EXCEPT ![l] = DeleteAt(@, iter[p])]
      /\ wakeup' = [wakeup EXCEPT ![p] = Append(@, q)]
      /\ woke' = [woke EXCEPT ![p] = @ \/ LwWaitMode(q) # LW_WAIT_UNTIL_FREE]
      /\ lwWaiting' = [lwWaiting EXCEPT ![q] = LW_WS_PENDING_WAKEUP]
      /\ Go(p, IF LwWaitMode(q) = LW_EXCLUSIVE THEN "wcas" ELSE "wscan")
      /\ UNCHANGED <<lockcount, flags, var, sem, spurious, call, held, waitLocal, iter, wakee>>

WakeupScanEnd(p) ==
  /\ pc[p] = "wscan"
  /\ iter[p] > Len(waiters[Lk(p)])
  /\ Go(p, "wcas")
  /\ UNCHANGED <<lockVars, procVars, call, held, waitLocal, wakeLocal>>

(* The compare-and-exchange that sets the flags and unlocks the list.      *)
WakeupFlags(p) ==
  LET l == Lk(p)
      releaseOk == IF woke[p] THEN flags[l] \ {RELEASE_OK} ELSE flags[l] \cup {RELEASE_OK}
      hasWaiters == IF wakeup[p] = << >> THEN {HAS_WAITERS} ELSE {}
  IN  /\ pc[p] = "wcas"
      /\ flags' = [flags EXCEPT ![l] = (releaseOk \ hasWaiters) \ {LOCKED}]
      /\ iter' = [iter EXCEPT ![p] = 1]
      /\ woke' = [woke EXCEPT ![p] = FALSE]
      /\ Go(p, "wake")
      /\ UNCHANGED <<lockcount, waiters, var, procVars, call, held, waitLocal, wakeup, wakee>>

(* Unlink the next process of the wakeup list and clear its lwWaiting.     *)
WakeClear(p) ==
  LET q == wakeup[p][1]
  IN  /\ pc[p] = "wake"
      /\ wakeup[p] # << >>
      /\ wakeup' = [wakeup EXCEPT ![p] = DeleteAt(@, 1)]
      /\ wakee' = [wakee EXCEPT ![p] = q]
      /\ lwWaiting' = [lwWaiting EXCEPT ![q] = LW_WS_NOT_WAITING]
      /\ Go(p, "wsem")
      /\ UNCHANGED <<lockVars, sem, spurious, call, held, waitLocal, iter, woke>>

WakePost(p) ==
  /\ pc[p] = "wsem"
  /\ sem' = [sem EXCEPT ![wakee[p]] = @ + 1]
  /\ wakee' = [wakee EXCEPT ![p] = NoProc]
  /\ Go(p, "wake")
  /\ UNCHANGED <<lockVars, lwWaiting, spurious, call, held, waitLocal, iter, woke, wakeup>>

WakeEnd(p) ==
  /\ pc[p] = "wake"
  /\ wakeup[p] = << >>
  /\ Finished(p, held[p])
  /\ UNCHANGED <<lockVars, procVars, held, waitLocal, wakeLocal>>

(***************************************************************************)
(* The semaphore is shared with group XID clearing and group clog update:  *)
(* a leader there clears its follower's flag before it posts, so the post  *)
(* may arrive while the follower already sleeps here.                      *)
(***************************************************************************)
SpuriousPost(p) ==
  /\ spurious[p] < MaxSpurious
  /\ spurious' = [spurious EXCEPT ![p] = @ + 1]
  /\ sem' = [sem EXCEPT ![p] = @ + 1]
  /\ UNCHANGED <<lockVars, lwWaiting, pc, call, held, waitLocal, wakeLocal>>

-----------------------------------------------------------------------------
Call(p) ==
  \/ CallAcquire(p) \/ CallConditionalAcquire(p) \/ CallAcquireOrWait(p)
  \/ CallWaitForVar(p) \/ CallUpdateVar(p)

CallEnd(p) == CallRelease(p) \/ CallReleaseClearVar(p) \/ CallReleaseAll(p)

(* Everything a process does inside lwlock.c.                              *)
Step(p) ==
  \/ FirstAttempt(p) \/ SecondAttempt(p) \/ LWLockWaitListLock(p)
  \/ QueueSetFlag(p) \/ QueuePush(p)
  \/ DequeueRemove(p) \/ DequeueUnlock(p) \/ DequeueReleaseOk(p) \/ DequeueSleep(p)
  \/ Sleep(p) \/ RetryReleaseOk(p) \/ Return(p)
  \/ LWLockConflictsWithVar(p) \/ WaitForVarReleaseOk(p)
  \/ UpdateVarSet(p) \/ UpdateVarCollect(p) \/ UpdateVarUnlock(p) \/ ClearVar(p)
  \/ Release(p)
  \/ WakeupSkip(p) \/ WakeupCollect(p) \/ WakeupScanEnd(p) \/ WakeupFlags(p)
  \/ WakeClear(p) \/ WakePost(p) \/ WakeEnd(p)

Next == \E p \in Proc : Call(p) \/ CallEnd(p) \/ Step(p) \/ SpuriousPost(p)

Spec == Init /\ [][Next]_vars

-----------------------------------------------------------------------------
(***************************************************************************)
(* Properties                                                              *)
(***************************************************************************)
Elements(s) == {s[i] : i \in 1 .. Len(s)}

NoDuplicates(s) == \A i, j \in 1 .. Len(s) : s[i] = s[j] => i = j

SharedTypes ==
  /\ flags \in [Locks -> SUBSET Flags]
  /\ waiters \in [Locks -> Seq(Proc)]
  /\ var \in [Locks -> Values]
  /\ lwWaiting \in [Proc -> WaitStates]
  /\ sem \in [Proc -> Nat]
  /\ spurious \in [Proc -> 0 .. MaxSpurious]

PrivateTypes ==
  /\ pc \in [Proc -> Pcs]
  /\ call \in [Proc -> [op : Ops, lock : Locks \cup {NoLock}, mode : LockModes,
                         val : Values \cup {NoVal}]]
  /\ held \in [Proc -> Seq([lock : Locks, mode : LockModes])]
  /\ extraWaits \in [Proc -> Nat]
  /\ newval \in [Proc -> Values \cup {NoVal}]
  /\ iter \in [Proc -> Nat \ {0}]
  /\ woke \in [Proc -> BOOLEAN]
  /\ wakeup \in [Proc -> Seq(Proc)]
  /\ wakee \in [Proc -> Proc \cup {NoProc}]

(* The type of every variable: the holders' bits of lock->state never      *)
(* overflow into the flags nor underflow (Assert(!(oldstate &              *)
(* LW_VAL_EXCLUSIVE)) and LW_LOCK_MASK), the counters stay natural.        *)
TypeOK ==
  /\ lockcount \in [Locks -> 0 .. 2 * LW_VAL_EXCLUSIVE - 1]
  /\ SharedTypes
  /\ PrivateTypes

(* Who holds a lock, by what each process did: it won the compare-and-     *)
(* exchange and is on its way out of LWLockAcquire, or has the lock listed *)
(* in held_lwlocks[].                                                      *)
OnItsWayOut(p) ==
  \/ pc[p] = "acquired"
  \/ pc[p] \in DequeuePcs /\ call[p].op \in Acquiring

Holds(p, l, m) ==
  \/ OnItsWayOut(p) /\ Lk(p) = l /\ call[p].mode = m
  \/ LWLockHeldByMeInMode(p, l, m)

Holders(l, m) == {p \in Proc : Holds(p, l, m)}

(* An exclusive holder excludes every other holder of that lock.           *)
MutualExclusion ==
  \A l \in Locks : \A p, q \in Proc :
    Holds(p, l, LW_EXCLUSIVE) /\ p # q => ~Holds(q, l, LW_EXCLUSIVE) /\ ~Holds(q, l, LW_SHARED)

(* The bits of the lock word count exactly the holders: no number of       *)
(* shared lockers looks like an exclusive one (the sentinel of             *)
(* LWLockAttemptLock), and a word of zero means that nobody is inside.     *)
LockWordCountsHolders ==
  \A l \in Locks :
    lockcount[l] = LW_VAL_EXCLUSIVE * Cardinality(Holders(l, LW_EXCLUSIVE))
                   + Cardinality(Holders(l, LW_SHARED))

(* lwlock.c implements a readers-writer lock: the winning compare-and-      *)
(* exchange is the acquisition, the atomic subtraction the release.         *)
RW == INSTANCE RWLock WITH
        exclusive <- [l \in Locks |-> Holders(l, LW_EXCLUSIVE)],
        shared    <- [l \in Locks |-> Holders(l, LW_SHARED)]

RWSpec == RW!Spec

(* The steps between LWLockWaitListLock and LWLockWaitListUnlock.          *)
ListLockPcs == {"qflag", "qpush", "dremove", "dunlock", "wscan", "wcas",
                "vval1", "vval2", "uset", "ucollect", "cset"}

(* A PGPROC has a single lwWaitLink: a process is on at most one list, once *)
(* (the wait list of the lock of its call, or one waker's wakeup list), and *)
(* lwWaiting, which LWLockDequeueSelf trusts, says which kind of list it is.*)
(* The lists change only under LW_FLAG_LOCKED, one process at a time, which *)
(* the Asserts and the PANIC of lwlock.c test: a process that queues itself *)
(* is not waiting, whoever unlocks the list had locked it alone, and a      *)
(* waker that found waiters found LW_FLAG_HAS_WAITERS set.                  *)
WaitListsWellFormed ==
  /\ \A l \in Locks : NoDuplicates(waiters[l])
  /\ \A q \in Proc : NoDuplicates(wakeup[q])
  /\ \A p \in Proc, l \in Locks :
        p \in Elements(waiters[l]) <=>
          l = Lk(p) /\ lwWaiting[p] = LW_WS_WAITING /\ pc[p] # "dunlock"
  /\ \A p \in Proc :
        lwWaiting[p] = LW_WS_PENDING_WAKEUP <=> \E q \in Proc : p \in Elements(wakeup[q])
  /\ \A p, q, r \in Proc :
        p \in Elements(wakeup[q]) /\ p \in Elements(wakeup[r]) => q = r
  /\ \A p \in Proc : pc[p] \in QueuePcs => lwWaiting[p] = LW_WS_NOT_WAITING
  /\ \A p \in Proc : pc[p] \in ListLockPcs => LOCKED \in flags[Lk(p)]
  /\ \A p, q \in Proc :
        pc[p] \in ListLockPcs /\ pc[q] \in ListLockPcs /\ Lk(p) = Lk(q) => p = q
  /\ \A p \in Proc :
        pc[p] \in {"wscan", "wcas"} /\ wakeup[p] # << >> => HAS_WAITERS \in flags[Lk(p)]

(* From LWLockQueueSelf until the wakeup is consumed.                      *)
QueuedPcs == {"try2", "vrelok", "vtest2", "vlock2", "vval2", "sleep"} \cup DequeuePcs

(* A wakeup that is on its way to p or already in its semaphore.           *)
WakeupDue(p) == pc[p] \in QueuedPcs /\ lwWaiting[p] = LW_WS_NOT_WAITING

(* Semaphore posts are neither lost nor invented by waiting for an LWLock: *)
(* a process that absorbed foreign posts gives every one of them back, and *)
(* each wait that another process ended consumes exactly one post.         *)
SemaphoreBalanced ==
  \A p \in Proc :
    sem[p] + extraWaits[p] + Cardinality({q \in Proc : wakee[q] = p})
      = spurious[p] + (IF WakeupDue(p) THEN 1 ELSE 0)

(* No lost wakeup.  While a process sleeps on a lock's wait list, the word *)
(* says that there are waiters; LW_FLAG_RELEASE_OK is on or some process   *)
(* is bound to turn it on; and the lock is held, or some process is bound  *)
(* to try for it or to wake the sleepers.                                  *)
Asleep(p, l) == pc[p] = "sleep" /\ Lk(p) = l /\ lwWaiting[p] = LW_WS_WAITING

WillSetReleaseOk(q, l) ==
  /\ Lk(q) = l
  /\ \/ pc[q] \in {"relok", "vrelok"}
     \/ call[q].op = "LWLockAcquire" /\ pc[q] = "sleep" /\ lwWaiting[q] # LW_WS_WAITING
     \/ pc[q] \in DequeuePcs \ {"dsleep"} /\ lwWaiting[q] # LW_WS_WAITING
     \/ pc[q] = "try2" /\ lwWaiting[q] # LW_WS_WAITING

WillTryOrWake(q, l) ==
  /\ Lk(q) = l
  /\ \/ pc[q] \in {"wlock", "wscan", "wcas", "try1", "try2", "relok"}
     \/ pc[q] \in QueuePcs /\ call[q].op # "LWLockWaitForVar"
     \/ call[q].op = "LWLockAcquire" /\ pc[q] = "sleep" /\ lwWaiting[q] # LW_WS_WAITING

NoLostWakeup ==
  \A l \in Locks : (\E p \in Proc : Asleep(p, l)) =>
    /\ HAS_WAITERS \in flags[l]
    /\ RELEASE_OK \in flags[l] \/ \E q \in Proc : WillSetReleaseOk(q, l)
    /\ lockcount[l] > 0 \/ \E q \in Proc : WillTryOrWake(q, l)

(* A process asleep in LWLockWaitForVar sleeps for a reason: the lock is   *)
(* exclusively held and the variable still has the value it saw, unless a  *)
(* process that will wake it has begun to (it updated the variable, or is  *)
(* releasing the lock).                                                    *)
WillWake(q, l) ==
  Lk(q) = l /\ pc[q] \in {"ucollect", "rel", "wlock", "wscan", "wcas"}

VarWaiterUpToDate ==
  \A p \in Proc, l \in Locks :
    Asleep(p, l) /\ call[p].op = "LWLockWaitForVar" =>
      \/ \E q \in Proc : WillWake(q, l)
      \/ lockcount[l] >= LW_VAL_EXCLUSIVE /\ var[l] = call[p].val
=============================================================================
