-------------------------- MODULE LWLockWaitProofs --------------------------
(***************************************************************************)
(* Proofs about the waiting side of LWLock, for any number of processes,   *)
(* locks and foreign semaphore posts: the wait lists are well formed, the  *)
(* semaphores balance, no wakeup is lost, and a process asleep in          *)
(* LWLockWaitForVar sleeps for a reason.                                   *)
(*                                                                         *)
(* The inductive invariant is WInv, relative to IInv of LWLockProofs. None *)
(* of the four properties is inductive alone: that a waiter is not         *)
(* forgotten depends on what LWLockWakeup saw while it scanned the list,   *)
(* on whom it took off, on how far these have come, and on who will set    *)
(* LW_FLAG_RELEASE_OK again. WInv says each of these in a part of its own. *)
(* The proof has one predicate on steps per part (LockStep, ListsQuiet,    *)
(* ScanIdle, LwStep, RelStep, TryStep, VarStep), shown of every action     *)
(* once, and from these that the part is preserved.                        *)
(***************************************************************************)
EXTENDS LWLockProofs

(* A list is locked by at most one process, which says so in the word.     *)
LockInv ==
  /\ \A p \in Proc : pc[p] \in ListLockPcs => LOCKED \in flags[Lk(p)]
  /\ \A p, q \in Proc :
       pc[p] \in ListLockPcs /\ pc[q] \in ListLockPcs /\ Lk(p) = Lk(q) => p = q

(* A process waits between LWLockQueueSelf and the end of its wait.        *)
PlaceInv ==
  \A p \in Proc :
    /\ lwWaiting[p] # LW_WS_NOT_WAITING => pc[p] \in QueuedPcs
    /\ lwWaiting[p] = LW_WS_WAITING => pc[p] \notin {"drelok", "dsleep"}

(* p is on the wait list of l.                                             *)
Queued(p, l) == l = Lk(p) /\ lwWaiting[p] = LW_WS_WAITING /\ pc[p] # "dunlock"

(* The wait lists, and the flag that tells of them.                        *)
ListInv ==
  /\ \A l \in Locks : NoDuplicates(waiters[l])
  /\ \A p \in Proc, l \in Locks : p \in Elements(waiters[l]) <=> Queued(p, l)
  /\ \A l \in Locks : waiters[l] # << >> => HAS_WAITERS \in flags[l]
  /\ \A p \in Proc : pc[p] = "qpush" => HAS_WAITERS \in flags[Lk(p)]

(* The lists of processes to wake.                                         *)
WakeupInv ==
  /\ \A q \in Proc : NoDuplicates(wakeup[q])
  /\ \A p \in Proc :
       lwWaiting[p] = LW_WS_PENDING_WAKEUP <=> \E q \in Proc : p \in Elements(wakeup[q])
  /\ \A p, q, r \in Proc :
       p \in Elements(wakeup[q]) /\ p \in Elements(wakeup[r]) => q = r

(* q was woken, or will be, in the course of an LWLockAcquire of l that    *)
(* has yet to set LW_FLAG_RELEASE_OK.                                      *)
WillTry(q, l) ==
  Lk(q) = l /\ call[q].op = "LWLockAcquire" /\ pc[q] \in {"try2", "sleep", "dlock"}

(* LWLockWakeup between its lock and its compare-and-exchange: what it     *)
(* passed over, and whom it woke.                                          *)
ScanAt(p) ==
  /\ pc[p] \notin {"wscan", "wcas"} => iter[p] = 1 /\ ~woke[p]
  /\ pc[p] \notin {"ucollect", "wscan", "wcas", "wake", "wsem"} => wakeup[p] = << >>
  /\ pc[p] = "wscan" => iter[p] = 1 \/ woke[p]
  /\ pc[p] = "wcas" => waiters[Lk(p)] = << >> \/ woke[p]
  /\ woke[p] => \E q \in Elements(wakeup[p]) : WillTry(q, Lk(p))
  /\ pc[p] \in {"wscan", "wcas"} /\ wakeup[p] # << >> => HAS_WAITERS \in flags[Lk(p)]

ScanInv == \A p \in Proc : ScanAt(p)

(* Those who wait for the lock to be free are in front, and LWLockWakeup   *)
(* leaves none of them behind.                                             *)
UntilFree(p) == LwWaitMode(p) = LW_WAIT_UNTIL_FREE

Sorted(l) ==
  \A i, j \in 1 .. Len(waiters[l]) :
    i < j /\ UntilFree(waiters[l][j]) => UntilFree(waiters[l][i])

PassedOver(p) ==
  pc[p] \in {"wscan", "wcas"} =>
    \A i \in 1 .. Len(waiters[Lk(p)]) :
      i < iter[p] \/ pc[p] = "wcas" => ~UntilFree(waiters[Lk(p)][i])

SortInv == (\A l \in Locks : Sorted(l)) /\ (\A p \in Proc : PassedOver(p))

(* The semaphores.                                                         *)
SemInv ==
  /\ \A q \in Proc : wakee[q] # NoProc <=> pc[q] = "wsem"
  /\ SemaphoreBalanced

(* q is a woken process that has still to set LW_FLAG_RELEASE_OK.          *)
SetsReleaseOk(q, l) ==
  /\ Lk(q) = l /\ call[q].op = "LWLockAcquire"
  /\ \/ pc[q] = "relok"
     \/ /\ pc[q] \in {"try2", "sleep", "dlock", "dremove", "dunlock", "drelok"}
        /\ lwWaiting[q] # LW_WS_WAITING

(* Releasing wakes, or somebody will make it so.                           *)
ReleaseOkInv ==
  \A l \in Locks : RELEASE_OK \in flags[l] \/ \E q \in Proc : SetsReleaseOk(q, l)

(* p has found that it must wait, and nobody has told it otherwise.        *)
MustWait(p, l) ==
  Lk(p) = l /\ lwWaiting[p] = LW_WS_WAITING /\ pc[p] \in {"sleep", "vlock2", "vval2"}

(* Whoever must wait has somebody to wait for.                             *)
TryInv ==
  \A p \in Proc, l \in Locks :
    MustWait(p, l) => lockcount[l] > 0 \/ \E q \in Proc : WillTryOrWake(q, l)

(* q stored its last value and is about to release the lock.               *)
Clears(q, l) == Lk(q) = l /\ pc[q] = "rel" /\ call[q].op = "LWLockReleaseClearVar"

(* q is about to wake those who wait for the lock to be free.              *)
Wakes(q, l) == Lk(q) = l /\ pc[q] \in {"ucollect", "wlock", "wscan", "wcas"}

(* The waiters of LWLockWaitForVar: a release wakes them, and they wait    *)
(* for an exclusive holder that has not stored another value.              *)
VarInv ==
  /\ \A p \in Proc : pc[p] \in {"clock", "cset"} => call[p].op = "LWLockReleaseClearVar"
  /\ \A p \in Proc :
       call[p].op = "LWLockWaitForVar" /\ Queued(p, Lk(p)) /\ pc[p] # "vrelok" =>
         RELEASE_OK \in flags[Lk(p)]
  /\ \A p \in Proc, l \in Locks :
       MustWait(p, l) /\ call[p].op = "LWLockWaitForVar" =>
         \/ \E q \in Proc : Wakes(q, l)
         \/ /\ lockcount[l] >= LW_VAL_EXCLUSIVE
            /\ pc[p] = "sleep" => var[l] = call[p].val \/ \E q \in Proc : Clears(q, l)

WInv ==
  /\ LockInv /\ PlaceInv /\ ListInv /\ WakeupInv /\ ScanInv /\ SortInv
  /\ SemInv /\ ReleaseOkInv /\ TryInv /\ VarInv

-----------------------------------------------------------------------------
(* The variables are functions on the processes or on the locks.           *)
Domains ==
  /\ DOMAIN pc = Proc /\ DOMAIN call = Proc /\ DOMAIN held = Proc
  /\ DOMAIN extraWaits = Proc /\ DOMAIN iter = Proc /\ DOMAIN woke = Proc
  /\ DOMAIN wakeup = Proc /\ DOMAIN wakee = Proc
  /\ DOMAIN lwWaiting = Proc /\ DOMAIN sem = Proc /\ DOMAIN spurious = Proc
  /\ DOMAIN lockcount = Locks /\ DOMAIN flags = Locks
  /\ DOMAIN waiters = Locks /\ DOMAIN var = Locks

(* IInv gives every variable its domain.                                   *)
LEMMA DomainsHold ==
  ASSUME IInv
  PROVE  Domains
BY DEF IInv, SharedTypes, PrivateTypes, Domains

(* Where a process is whose call changes.                                  *)
EdgePcs == {"idle", "acquired", "failed", "vreturn", "rel", "wake"}

(* A step of p concerns its private variables and the lock of its call.    *)
Frame(p) ==
  /\ \A q \in Proc \ {p} :
       /\ pc'[q] = pc[q] /\ call'[q] = call[q] /\ held'[q] = held[q]
       /\ extraWaits'[q] = extraWaits[q] /\ iter'[q] = iter[q] /\ woke'[q] = woke[q]
       /\ wakeup'[q] = wakeup[q] /\ wakee'[q] = wakee[q]
  /\ \A k \in Locks : k # Lk(p) =>
       /\ flags'[k] = flags[k] /\ waiters'[k] = waiters[k]
       /\ lockcount'[k] = lockcount[k] /\ var'[k] = var[k]
  /\ call'[p] = call[p] \/ pc[p] \in EdgePcs

(* The beginning of a call, whichever it is.                               *)
LEMMA CallBegin ==
  ASSUME NEW p \in Proc, Call(p) \/ CallEnd(p)
  PROVE  \E to, c : /\ Begin(p, to, c)
                    /\ to \in {"try1", "vtest1", "ulock", "clock", "rel"}
                    /\ to = "clock" => c.op = "LWLockReleaseClearVar"
<1>1. CASE CallAcquire(p)
  BY <1>1 DEF CallAcquire
<1>2. CASE CallConditionalAcquire(p)
  BY <1>2 DEF CallConditionalAcquire
<1>3. CASE CallAcquireOrWait(p)
  BY <1>3 DEF CallAcquireOrWait
<1>4. CASE CallWaitForVar(p)
  BY <1>4 DEF CallWaitForVar
<1>5. CASE CallUpdateVar(p)
  BY <1>5 DEF CallUpdateVar
<1>6. CASE CallRelease(p)
  BY <1>6 DEF CallRelease
<1>7. CASE CallReleaseClearVar(p)
  BY <1>7 DEF CallReleaseClearVar
<1>8. CASE CallReleaseAll(p)
  BY <1>8 DEF CallReleaseAll
<1> QED
  BY <1>1, <1>2, <1>3, <1>4, <1>5, <1>6, <1>7, <1>8 DEF Call, CallEnd

(* A step by p inside lwlock.c, or into it.                                *)
StepOf(p) == Call(p) \/ CallEnd(p) \/ Step(p)

(* A step of p leaves what is private to the other processes alone.        *)
LEMMA StepFrame ==
  ASSUME IInv, NEW p \in Proc, StepOf(p)
  PROVE  Frame(p)
<1> USE DEF Go, Lk, lockVars, procVars, waitLocal, wakeLocal, Frame, EdgePcs
<1>1. Domains
  BY DomainsHold
<1> USE DEF Domains
<1>2. CASE Call(p) \/ CallEnd(p)
  <2>1. PICK to, c : Begin(p, to, c)
    BY <1>2, CallBegin
  <2> QED
    BY <1>1, <2>1 DEF Begin
<1>3. CASE LWLockWaitListLock(p)
  BY <1>1, <1>3 DEF LWLockWaitListLock, WaitListLock
<1>4. CASE QueueSetFlag(p)
  BY <1>1, <1>4 DEF QueueSetFlag, FetchOr
<1>5. CASE QueuePush(p)
  BY <1>1, <1>5 DEF QueuePush
<1>6. CASE DequeueRemove(p)
  BY <1>1, <1>6 DEF DequeueRemove
<1>7. CASE DequeueUnlock(p)
  BY <1>1, <1>7 DEF DequeueUnlock, AfterDequeue
<1>8. CASE DequeueReleaseOk(p)
  BY <1>1, <1>8 DEF DequeueReleaseOk, FetchOr
<1>9. CASE DequeueSleep(p)
  BY <1>1, <1>9 DEF DequeueSleep, SemaphoreWait, AfterDequeue
<1>10. CASE Sleep(p)
  BY <1>1, <1>10 DEF Sleep, SemaphoreWait, AfterSleep
<1>11. CASE RetryReleaseOk(p)
  BY <1>1, <1>11 DEF RetryReleaseOk, FetchOr
<1>12. CASE LWLockConflictsWithVar(p)
  BY <1>1, <1>12 DEF LWLockConflictsWithVar, ConflictTest, ConflictValue
<1>13. CASE WaitForVarReleaseOk(p)
  BY <1>1, <1>13 DEF WaitForVarReleaseOk, FetchOr
<1>14. CASE UpdateVarSet(p)
  BY <1>1, <1>14 DEF UpdateVarSet
<1>15. CASE UpdateVarCollect(p)
  BY <1>1, <1>15 DEF UpdateVarCollect
<1>16. CASE UpdateVarUnlock(p)
  BY <1>1, <1>16 DEF UpdateVarUnlock
<1>17. CASE ClearVar(p)
  BY <1>1, <1>17 DEF ClearVar
<1>18. CASE WakeupSkip(p)
  BY <1>1, <1>18 DEF WakeupSkip
<1>19. CASE WakeupCollect(p)
  BY <1>1, <1>19 DEF WakeupCollect
<1>20. CASE WakeupScanEnd(p)
  BY <1>1, <1>20 DEF WakeupScanEnd
<1>21. CASE WakeupFlags(p)
  BY <1>1, <1>21 DEF WakeupFlags
<1>22. CASE WakeClear(p)
  BY <1>1, <1>22 DEF WakeClear
<1>23. CASE WakePost(p)
  BY <1>1, <1>23 DEF WakePost
<1>24. CASE WakeEnd(p)
  BY <1>1, <1>24 DEF WakeEnd, Finished
<1>25. CASE FirstAttempt(p)
  BY <1>1, <1>25 DEF FirstAttempt, AttemptLock
<1>26. CASE SecondAttempt(p)
  BY <1>1, <1>26 DEF SecondAttempt, AttemptLock
<1>27. CASE Return(p)
  BY <1>1, <1>27 DEF Return
<1>28. CASE Release(p)
  BY <1>1, <1>28 DEF Release, Finished
<1> QED
  BY <1>2, <1>3, <1>4, <1>5, <1>6, <1>7, <1>8, <1>9, <1>10, <1>11, <1>12, <1>13, <1>14, <1>15,
     <1>16, <1>17, <1>18, <1>19, <1>20, <1>21, <1>22, <1>23, <1>24, <1>25, <1>26, <1>27, <1>28
     DEF StepOf, Step

(* What a step of p does to the lock of the wait list of its call.         *)
LockStep(p) ==
  /\ pc'[p] \in ListLockPcs =>
       /\ Lk(p)' = Lk(p) /\ Lk(p) \in Locks /\ LOCKED \in flags'[Lk(p)]
       /\ pc[p] \in ListLockPcs \/ LOCKED \notin flags[Lk(p)]
  /\ \A k \in Locks :
       LOCKED \in flags[k] /\ LOCKED \notin flags'[k] => pc[p] \in ListLockPcs /\ k = Lk(p)

(* Every step of p inside lwlock.c takes and gives back the list's lock as *)
(* LockStep says.                                                          *)
LEMMA StepLockStep ==
  ASSUME IInv, LockInv, NEW p \in Proc, StepOf(p)
  PROVE  LockStep(p)
<1> USE DEF Go, Lk, lockVars, procVars, waitLocal, wakeLocal
<1>1. /\ Domains
      /\ pc[p] # "idle" => Lk(p) \in Locks
      /\ pc[p] \in ListLockPcs => LOCKED \in flags[Lk(p)]
  BY DomainsHold DEF IInv, ControlInv, ControlAt, LockInv
<1> USE DEF Domains, LockStep, ListLockPcs, HAS_WAITERS, RELEASE_OK, LOCKED
<1>2. CASE Call(p) \/ CallEnd(p)
  <2>1. PICK to, c : Begin(p, to, c) /\ to \in {"try1", "vtest1", "ulock", "clock", "rel"}
    BY <1>2, CallBegin
  <2> QED
    BY <1>1, <2>1 DEF Begin
<1>3. CASE LWLockWaitListLock(p)
  BY <1>1, <1>3 DEF LWLockWaitListLock, WaitListLock
<1>4. CASE QueueSetFlag(p)
  BY <1>1, <1>4 DEF QueueSetFlag, FetchOr
<1>5. CASE QueuePush(p)
  BY <1>1, <1>5 DEF QueuePush
<1>6. CASE DequeueRemove(p)
  BY <1>1, <1>6 DEF DequeueRemove
<1>7. CASE DequeueUnlock(p)
  BY <1>1, <1>7 DEF DequeueUnlock, AfterDequeue
<1>8. CASE DequeueReleaseOk(p)
  BY <1>1, <1>8 DEF DequeueReleaseOk, FetchOr
<1>9. CASE DequeueSleep(p)
  BY <1>1, <1>9 DEF DequeueSleep, SemaphoreWait, AfterDequeue
<1>10. CASE Sleep(p)
  BY <1>1, <1>10 DEF Sleep, SemaphoreWait, AfterSleep
<1>11. CASE RetryReleaseOk(p)
  BY <1>1, <1>11 DEF RetryReleaseOk, FetchOr
<1>12. CASE LWLockConflictsWithVar(p)
  BY <1>1, <1>12 DEF LWLockConflictsWithVar, ConflictTest, ConflictValue
<1>13. CASE WaitForVarReleaseOk(p)
  BY <1>1, <1>13 DEF WaitForVarReleaseOk, FetchOr
<1>14. CASE UpdateVarSet(p)
  BY <1>1, <1>14 DEF UpdateVarSet
<1>15. CASE UpdateVarCollect(p)
  BY <1>1, <1>15 DEF UpdateVarCollect
<1>16. CASE UpdateVarUnlock(p)
  BY <1>1, <1>16 DEF UpdateVarUnlock
<1>17. CASE ClearVar(p)
  BY <1>1, <1>17 DEF ClearVar
<1>18. CASE WakeupSkip(p)
  BY <1>1, <1>18 DEF WakeupSkip
<1>19. CASE WakeupCollect(p)
  BY <1>1, <1>19 DEF WakeupCollect
<1>20. CASE WakeupScanEnd(p)
  BY <1>1, <1>20 DEF WakeupScanEnd
<1>21. CASE WakeupFlags(p)
  BY <1>1, <1>21 DEF WakeupFlags
<1>22. CASE WakeClear(p)
  BY <1>1, <1>22 DEF WakeClear
<1>23. CASE WakePost(p)
  BY <1>1, <1>23 DEF WakePost
<1>24. CASE WakeEnd(p)
  BY <1>1, <1>24 DEF WakeEnd, Finished
<1>25. CASE FirstAttempt(p)
  BY <1>1, <1>25 DEF FirstAttempt, AttemptLock
<1>26. CASE SecondAttempt(p)
  BY <1>1, <1>26 DEF SecondAttempt, AttemptLock
<1>27. CASE Return(p)
  BY <1>1, <1>27 DEF Return
<1>28. CASE Release(p)
  BY <1>1, <1>28 DEF Release, Finished
<1> QED
  BY <1>2, <1>3, <1>4, <1>5, <1>6, <1>7, <1>8, <1>9, <1>10, <1>11, <1>12, <1>13, <1>14, <1>15,
     <1>16, <1>17, <1>18, <1>19, <1>20, <1>21, <1>22, <1>23, <1>24, <1>25, <1>26, <1>27, <1>28
     DEF StepOf, Step

(* The lock of a wait list excludes.                                       *)
LEMMA LockInvStep ==
  ASSUME IInv, LockInv, NEW p \in Proc, Frame(p), LockStep(p)
  PROVE  LockInv'
<1>1. ASSUME NEW q \in Proc, pc'[q] \in ListLockPcs
      PROVE  /\ LOCKED \in flags'[Lk(q)'] 
             /\ q # p => pc[q] \in ListLockPcs /\ Lk(q)' = Lk(q) /\ LOCKED \in flags[Lk(q)]
             /\ Lk(q)' \in Locks
  <2>1. CASE q = p
    BY <1>1, <2>1 DEF LockStep
  <2>2. CASE q # p
    <3>1. pc[q] \in ListLockPcs /\ Lk(q)' = Lk(q) /\ LOCKED \in flags[Lk(q)]
      BY <1>1, <2>2 DEF Frame, Lk, LockInv
    <3>2. Lk(q) \in Locks
      BY <3>1 DEF IInv, ControlInv, ControlAt, ListLockPcs
    <3>3. ~(pc[p] \in ListLockPcs /\ Lk(q) = Lk(p))
      BY <2>2, <3>1 DEF LockInv
    <3> QED
      BY <2>2, <3>1, <3>2, <3>3 DEF LockStep
  <2> QED
    BY <2>1, <2>2
<1>2. ASSUME NEW q \in Proc, NEW r \in Proc, q # r, pc'[q] \in ListLockPcs,
             pc'[r] \in ListLockPcs, Lk(q)' = Lk(r)'
      PROVE  FALSE
  <2>1. CASE q # p /\ r # p
    BY <1>1, <1>2, <2>1 DEF LockInv
  <2>2. ASSUME NEW s \in Proc, s # p, pc'[s] \in ListLockPcs, pc'[p] \in ListLockPcs,
               Lk(s)' = Lk(p)'
        PROVE  FALSE
    BY <1>1, <2>2 DEF LockInv, LockStep
  <2> QED
    BY <1>2, <2>1, <2>2
<1> QED
  BY <1>1, <1>2 DEF LockInv

-----------------------------------------------------------------------------
(* Removing an element of a list without duplicates.                       *)
LEMMA RemoveFacts ==
  ASSUME NEW S, NEW s \in Seq(S), NEW i \in 1 .. Len(s), NoDuplicates(s)
  PROVE  /\ NoDuplicates(DeleteAt(s, i))
         /\ Elements(DeleteAt(s, i)) = Elements(s) \ {s[i]}
         /\ s[i] \in Elements(s)
<1> DEFINE t == DeleteAt(s, i)
<1>1. /\ Len(t) = Len(s) - 1
      /\ \A j \in 1 .. Len(s) - 1 : t[j] = IF j < i THEN s[j] ELSE s[j + 1]
  BY DeleteAtElements
<1>2. Len(s) \in Nat
  OBVIOUS
<1>3. \A x : (\E j \in 1 .. Len(t) : t[j] = x) <=> (\E j \in 1 .. Len(s) : j # i /\ s[j] = x)
  BY DeleteAtMember
<1> HIDE DEF t
<1>4. NoDuplicates(t)
  <2> SUFFICES ASSUME NEW j \in 1 .. Len(t), NEW k \in 1 .. Len(t), t[j] = t[k]
               PROVE  j = k
    BY DEF NoDuplicates
  <2> DEFINE f(n) == IF n < i THEN n ELSE n + 1
  <2>1. ASSUME NEW n \in 1 .. Len(t)
        PROVE  f(n) \in 1 .. Len(s) /\ t[n] = s[f(n)]
    BY <1>1, <1>2
  <2>2. f(j) = f(k)
    BY <2>1 DEF NoDuplicates
  <2> QED
    BY <2>2
<1>5. Elements(t) = Elements(s) \ {s[i]}
  <2>1. \A x : x \in Elements(t) <=> \E j \in 1 .. Len(s) : j # i /\ s[j] = x
    BY <1>3 DEF Elements
  <2>2. \A j \in 1 .. Len(s) : j # i <=> s[j] # s[i]
    BY DEF NoDuplicates
  <2> QED
    BY <2>1, <2>2 DEF Elements
<1> QED
  BY <1>4, <1>5 DEF t, Elements

(* Adding a new element at the end of a list.                              *)
LEMMA AppendFacts ==
  ASSUME NEW S, NEW s \in Seq(S), NEW e \in S, NoDuplicates(s), e \notin Elements(s)
  PROVE  NoDuplicates(Append(s, e)) /\ Elements(Append(s, e)) = Elements(s) \cup {e}
<1>1. /\ Len(Append(s, e)) = Len(s) + 1 /\ Len(s) \in Nat
      /\ \A i \in 1 .. Len(s) : Append(s, e)[i] = s[i]
      /\ Append(s, e)[Len(s) + 1] = e
  OBVIOUS
<1>2. \A i : i \in 1 .. Len(s) + 1 <=> i \in 1 .. Len(s) \/ i = Len(s) + 1
  BY <1>1
<1>3. \A i \in 1 .. Len(s) : s[i] # e
  BY DEF Elements
<1> HIDE <1>1
<1> QED
  BY <1>1, <1>2, <1>3 DEF NoDuplicates, Elements

(* Adding a new element in front of a list.                                *)
LEMMA PrependFacts ==
  ASSUME NEW S, NEW s \in Seq(S), NEW e \in S, NoDuplicates(s), e \notin Elements(s)
  PROVE  /\ NoDuplicates(<<e>> \o s) /\ Elements(<<e>> \o s) = Elements(s) \cup {e}
         /\ Len(<<e>> \o s) = Len(s) + 1 /\ (<<e>> \o s)[1] = e
         /\ \A i \in 2 .. Len(s) + 1 : (<<e>> \o s)[i] = s[i - 1]
<1> DEFINE t == <<e>> \o s
<1>1. /\ Len(t) = Len(s) + 1 /\ Len(s) \in Nat
      /\ t[1] = e
      /\ \A i \in 2 .. Len(s) + 1 : t[i] = s[i - 1]
  OBVIOUS
<1> HIDE DEF t
<1>2. \A i \in 1 .. Len(s) : i + 1 \in 2 .. Len(s) + 1 /\ t[i + 1] = s[i]
  BY <1>1
<1>3. \A i \in 1 .. Len(s) : s[i] # e
  BY DEF Elements
<1>4. \A i : i \in 1 .. Len(t) <=> i = 1 \/ i \in 2 .. Len(s) + 1
  BY <1>1
<1>5. \A i \in 2 .. Len(s) + 1 : i - 1 \in 1 .. Len(s)
  BY <1>1
<1>6. NoDuplicates(t)
  <2> SUFFICES ASSUME NEW i \in 1 .. Len(t), NEW j \in 1 .. Len(t), t[i] = t[j]
               PROVE  i = j
    BY DEF NoDuplicates
  <2>1. CASE i = 1 \/ j = 1
    BY <1>1, <1>3, <1>4, <1>5, <2>1
  <2>2. CASE i # 1 /\ j # 1
    <3>1. s[i - 1] = s[j - 1] /\ i - 1 \in 1 .. Len(s) /\ j - 1 \in 1 .. Len(s)
      BY <1>1, <1>4, <1>5, <2>2
    <3>2. i - 1 = j - 1
      BY <3>1 DEF NoDuplicates
    <3> QED
      BY <3>2, <1>1
  <2> QED
    BY <2>1, <2>2
<1>7. \A x : x \in Elements(t) <=> x \in Elements(s) \/ x = e
  <2> SUFFICES ASSUME NEW x
               PROVE  x \in Elements(t) <=> x \in Elements(s) \/ x = e
    OBVIOUS
  <2>1. ASSUME NEW i \in 1 .. Len(t)
        PROVE  t[i] \in Elements(s) \/ t[i] = e
    BY <1>1, <1>4, <1>5 DEF Elements
  <2>2. ASSUME NEW i \in 1 .. Len(s)
        PROVE  s[i] \in Elements(t)
    <3>1. i + 1 \in 1 .. Len(t) /\ t[i + 1] = s[i]
      BY <1>1, <1>2
    <3> QED
      BY <3>1 DEF Elements
  <2>3. e \in Elements(t)
    BY <1>1, <1>4 DEF Elements
  <2>4. x \in Elements(t) => \E i \in 1 .. Len(t) : x = t[i]
    BY DEF Elements
  <2>5. x \in Elements(s) => \E i \in 1 .. Len(s) : x = s[i]
    BY DEF Elements
  <2> QED
    BY <2>1, <2>2, <2>3, <2>4, <2>5
<1> QED
  BY <1>1, <1>6, <1>7 DEF t

(* The elements of a list of processes; an empty list has none.            *)
LEMMA ElementsFacts ==
  ASSUME NEW S, NEW s \in Seq(S)
  PROVE  /\ Elements(s) \subseteq S
         /\ s # << >> <=> Elements(s) # {}
         /\ s # << >> => 1 \in 1 .. Len(s) /\ s[1] \in Elements(s)
         /\ Elements(<< >>) = {}
         /\ NoDuplicates(<< >>)
<1>1. Elements(s) \subseteq S
  BY DEF Elements
<1>2. s # << >> => 1 \in 1 .. Len(s)
  OBVIOUS
<1>3. Elements(<< >>) = {} /\ NoDuplicates(<< >>)
  BY DEF Elements, NoDuplicates
<1> QED
  BY <1>1, <1>2, <1>3 DEF Elements

-----------------------------------------------------------------------------
(* A step of p that leaves the lists alone.                                *)
ListsQuiet(p) ==
  /\ waiters' = waiters /\ wakeup' = wakeup /\ lwWaiting' = lwWaiting
  /\ pc[p] # "dunlock" /\ pc'[p] # "dunlock"
  /\ lwWaiting[p] # LW_WS_NOT_WAITING => pc'[p] \in QueuedPcs
  /\ lwWaiting[p] = LW_WS_WAITING => pc'[p] \notin {"drelok", "dsleep"}
  /\ pc'[p] = "qpush" => pc[p] = "qflag" /\ HAS_WAITERS \in flags'[Lk(p)]
  /\ \A k \in Locks : HAS_WAITERS \in flags[k] /\ HAS_WAITERS \notin flags'[k] =>
       k = Lk(p) /\ pc[p] = "wcas" /\ waiters[k] = << >>

(* The other steps: they change a wait list or lwWaiting.                  *)
ListAction(p) ==
  \/ QueuePush(p) \/ DequeueRemove(p) \/ DequeueUnlock(p)
  \/ UpdateVarCollect(p) \/ WakeupCollect(p) \/ WakeClear(p)

(* Every step leaves the lists alone or is one of the list actions.        *)
LEMMA StepListsQuiet ==
  ASSUME IInv, PlaceInv, ScanInv, NEW p \in Proc, StepOf(p)
  PROVE  ListsQuiet(p) \/ ListAction(p)
<1> USE DEF Go, Lk, lockVars, procVars, waitLocal, wakeLocal
<1>1. /\ Domains /\ (pc[p] # "idle" => Lk(p) \in Locks)
      /\ lwWaiting[p] # LW_WS_NOT_WAITING => pc[p] \in QueuedPcs
      /\ lwWaiting[p] = LW_WS_WAITING => pc[p] \notin {"drelok", "dsleep"}
      /\ lwWaiting[p] \in WaitStates
  BY DomainsHold DEF IInv, ControlInv, ControlAt, PlaceInv, SharedTypes
<1> USE DEF Domains, ListsQuiet, QueuedPcs, DequeuePcs, HAS_WAITERS, RELEASE_OK, LOCKED,
            WaitStates, LW_WS_NOT_WAITING, LW_WS_WAITING, LW_WS_PENDING_WAKEUP
<1>2. CASE Call(p) \/ CallEnd(p)
  <2>1. PICK to, c : Begin(p, to, c) /\ to \in {"try1", "vtest1", "ulock", "clock", "rel"}
    BY <1>2, CallBegin
  <2> QED
    BY <1>1, <2>1 DEF Begin
<1>3. CASE LWLockWaitListLock(p)
  BY <1>1, <1>3 DEF LWLockWaitListLock, WaitListLock
<1>4. CASE QueueSetFlag(p)
  BY <1>1, <1>4 DEF QueueSetFlag, FetchOr
<1>5. CASE DequeueReleaseOk(p)
  BY <1>1, <1>5 DEF DequeueReleaseOk, FetchOr
<1>6. CASE DequeueSleep(p)
  BY <1>1, <1>6 DEF DequeueSleep, SemaphoreWait, AfterDequeue
<1>7. CASE Sleep(p)
  BY <1>1, <1>7 DEF Sleep, SemaphoreWait, AfterSleep
<1>8. CASE RetryReleaseOk(p)
  BY <1>1, <1>8 DEF RetryReleaseOk, FetchOr
<1>9. CASE LWLockConflictsWithVar(p)
  BY <1>1, <1>9 DEF LWLockConflictsWithVar, ConflictTest, ConflictValue
<1>10. CASE WaitForVarReleaseOk(p)
  BY <1>1, <1>10 DEF WaitForVarReleaseOk, FetchOr
<1>11. CASE UpdateVarSet(p)
  BY <1>1, <1>11 DEF UpdateVarSet
<1>12. CASE UpdateVarUnlock(p)
  BY <1>1, <1>12 DEF UpdateVarUnlock
<1>13. CASE ClearVar(p)
  BY <1>1, <1>13 DEF ClearVar
<1>14. CASE WakeupSkip(p)
  BY <1>1, <1>14 DEF WakeupSkip
<1>15. CASE WakeupScanEnd(p)
  BY <1>1, <1>15 DEF WakeupScanEnd
<1>16. CASE WakePost(p)
  BY <1>1, <1>16 DEF WakePost
<1>17. CASE WakeEnd(p)
  BY <1>1, <1>17 DEF WakeEnd, Finished
<1>18. CASE FirstAttempt(p)
  BY <1>1, <1>18 DEF FirstAttempt, AttemptLock
<1>19. CASE SecondAttempt(p)
  BY <1>1, <1>19 DEF SecondAttempt, AttemptLock
<1>20. CASE Return(p)
  BY <1>1, <1>20 DEF Return
<1>21. CASE Release(p)
  BY <1>1, <1>21 DEF Release, Finished
<1>22. CASE WakeupFlags(p)
  <2>1. pc[p] = "wcas" /\ Lk(p) \in Locks /\ pc'[p] = "wake"
    BY <1>1, <1>22 DEF WakeupFlags
  <2>2. wakeup[p] = << >> => waiters[Lk(p)] = << >>
    <3>1. ScanAt(p) /\ wakeup[p] \in Seq(Proc)
      BY DEF ScanInv, IInv, PrivateTypes
    <3>2. wakeup[p] = << >> => ~woke[p]
      BY <3>1, ElementsFacts DEF ScanAt
    <3> QED
      BY <2>1, <3>1, <3>2 DEF ScanAt
  <2>3. waiters' = waiters /\ wakeup' = wakeup /\ lwWaiting' = lwWaiting
    BY <1>22 DEF WakeupFlags
  <2>4. \A k \in Locks : HAS_WAITERS \in flags[k] /\ HAS_WAITERS \notin flags'[k] =>
          k = Lk(p) /\ wakeup[p] = << >>
    BY <1>1, <1>22, <2>1 DEF WakeupFlags
  <2> QED
    BY <1>1, <2>1, <2>2, <2>3, <2>4
<1> QED
  BY <1>2, <1>3, <1>4, <1>5, <1>6, <1>7, <1>8, <1>9, <1>10, <1>11, <1>12, <1>13, <1>14, <1>15,
     <1>16, <1>17, <1>18, <1>19, <1>20, <1>21, <1>22 DEF StepOf, Step, ListAction

(* Such a step keeps the lists well formed.                                *)
LEMMA ListsQuietStep ==
  ASSUME IInv, LockInv, PlaceInv, ListInv, WakeupInv, NEW p \in Proc, Frame(p), ListsQuiet(p)
  PROVE  PlaceInv' /\ ListInv' /\ WakeupInv'
<1>1. /\ \A q \in Proc : q # p => pc'[q] = pc[q] /\ call'[q] = call[q]
      /\ lwWaiting[p] # LW_WS_NOT_WAITING => call'[p] = call[p]
  BY DEF Frame, PlaceInv, EdgePcs, QueuedPcs, DequeuePcs
<1>2. PlaceInv'
  BY <1>1 DEF PlaceInv, ListsQuiet
<1>3. WakeupInv'
  BY DEF WakeupInv, ListsQuiet
<1>4. \A q \in Proc, l \in Locks : Queued(q, l)' <=> Queued(q, l)
  <2> SUFFICES ASSUME NEW q \in Proc, NEW l \in Locks
               PROVE  Queued(q, l)' <=> Queued(q, l)
    OBVIOUS
  <2>1. CASE q = p
    BY <1>1, <2>1 DEF Queued, ListsQuiet, Lk, LW_WS_WAITING, LW_WS_NOT_WAITING
  <2>2. CASE q # p
    BY <1>1, <2>2 DEF Queued, ListsQuiet, Lk
  <2> QED
    BY <2>1, <2>2
<1>5. \A l \in Locks : waiters'[l] # << >> => HAS_WAITERS \in flags'[l]
  BY DEF ListInv, ListsQuiet
<1>6. ASSUME NEW q \in Proc, pc'[q] = "qpush"
      PROVE  HAS_WAITERS \in flags'[Lk(q)']
  <2>1. CASE q = p
    <3>1. Lk(p)' = Lk(p) /\ HAS_WAITERS \in flags'[Lk(p)]
      BY <1>6, <2>1 DEF ListsQuiet, Frame, Lk, EdgePcs
    <3> QED
      BY <2>1, <3>1
  <2>2. CASE q # p
    <3>1. pc[q] = "qpush" /\ Lk(q)' = Lk(q) /\ Lk(q) \in Locks /\ HAS_WAITERS \in flags[Lk(q)]
      BY <1>1, <1>6, <2>2 DEF Lk, IInv, ControlInv, ControlAt, ListInv
    <3>2. ~(Lk(q) = Lk(p) /\ pc[p] = "wcas")
      BY <2>2, <3>1 DEF LockInv, ListLockPcs
    <3> QED
      BY <3>1, <3>2 DEF ListsQuiet
  <2> QED
    BY <2>1, <2>2
<1>7. /\ \A l \in Locks : NoDuplicates(waiters'[l])
      /\ \A q \in Proc, l \in Locks : q \in Elements(waiters'[l]) <=> Queued(q, l)'
  BY <1>4 DEF ListInv, ListsQuiet
<1> QED
  BY <1>2, <1>3, <1>5, <1>6, <1>7 DEF ListInv

(* What all the steps that change a list do to LW_FLAG_HAS_WAITERS.        *)
LEMMA ListActionFlag ==
  ASSUME IInv, LockInv, ListInv, NEW p \in Proc, Frame(p), ListAction(p)
  PROVE  /\ pc'[p] # "qpush"
         /\ call'[p] = call[p]
         /\ Lk(p) \in Locks
         /\ \A k \in Locks : HAS_WAITERS \in flags[k] /\ HAS_WAITERS \notin flags'[k] =>
              k = Lk(p) /\ waiters'[k] = << >>
         /\ \A q \in Proc : pc'[q] = "qpush" => HAS_WAITERS \in flags'[Lk(q)']
<1> USE DEF Go, Lk
<1>1. Domains /\ (pc[p] # "idle" => Lk(p) \in Locks)
  BY DomainsHold DEF IInv, ControlInv, ControlAt
<1>2. /\ pc'[p] # "qpush" /\ call'[p] = call[p] /\ Lk(p) \in Locks
      /\ \A k \in Locks : HAS_WAITERS \in flags[k] /\ HAS_WAITERS \notin flags'[k] =>
           k = Lk(p) /\ pc[p] \in ListLockPcs /\ waiters'[k] = << >>
  <2> USE DEF Domains, ListLockPcs, HAS_WAITERS, LOCKED
  <2>1. CASE QueuePush(p)
    BY <1>1, <2>1 DEF QueuePush
  <2>2. CASE DequeueRemove(p)
    BY <1>1, <2>2 DEF DequeueRemove
  <2>3. CASE DequeueUnlock(p)
    BY <1>1, <2>3 DEF DequeueUnlock, AfterDequeue
  <2>4. CASE UpdateVarCollect(p)
    BY <1>1, <2>4 DEF UpdateVarCollect
  <2>5. CASE WakeupCollect(p)
    BY <1>1, <2>5 DEF WakeupCollect
  <2>6. CASE WakeClear(p)
    BY <1>1, <2>6 DEF WakeClear, lockVars
  <2> QED
    BY <2>1, <2>2, <2>3, <2>4, <2>5, <2>6 DEF ListAction
<1>3. ASSUME NEW q \in Proc, pc'[q] = "qpush"
      PROVE  HAS_WAITERS \in flags'[Lk(q)']
  <2>1. /\ q # p /\ pc[q] = "qpush" /\ Lk(q)' = Lk(q) /\ Lk(q) \in Locks
        /\ HAS_WAITERS \in flags[Lk(q)]
    BY <1>2, <1>3 DEF Frame, IInv, ControlInv, ControlAt, ListInv
  <2>2. ~(Lk(q) = Lk(p) /\ pc[p] \in ListLockPcs)
    BY <2>1 DEF LockInv, ListLockPcs
  <2> QED
    BY <1>2, <2>1, <2>2
<1> QED
  BY <1>2, <1>3

(* LWLockQueueSelf puts a process on the list that was on none.            *)
LEMMA QueuePushLists ==
  ASSUME IInv, LockInv, PlaceInv, ListInv, WakeupInv, NEW p \in Proc, Frame(p), QueuePush(p)
  PROVE  PlaceInv' /\ ListInv' /\ WakeupInv'
<1> DEFINE l == Lk(p)
<1> USE DEF LW_WS_WAITING, LW_WS_NOT_WAITING, LW_WS_PENDING_WAKEUP
<1>1. /\ pc[p] = "qpush" /\ l \in Locks /\ lwWaiting[p] = LW_WS_NOT_WAITING
      /\ HAS_WAITERS \in flags[l] /\ waiters[l] \in Seq(Proc)
  BY DEF QueuePush, IInv, ControlInv, ControlAt, PlaceInv, QueuedPcs, DequeuePcs, ListInv,
         SharedTypes
<1>2. /\ lwWaiting'[p] = LW_WS_WAITING /\ pc'[p] \in {"vrelok", "try2"} /\ call' = call
      /\ wakeup' = wakeup
      /\ \A q \in Proc : q # p => lwWaiting'[q] = lwWaiting[q] /\ pc'[q] = pc[q]
      /\ HAS_WAITERS \in flags'[l]
      /\ waiters'[l] \in {<<p>> \o waiters[l], Append(waiters[l], p)}
      /\ \A k \in Locks : k # l => waiters'[k] = waiters[k] /\ flags'[k] = flags[k]
  BY <1>1, DomainsHold DEF QueuePush, Go, Domains, wakeLocal, HAS_WAITERS, LOCKED
<1>3. \A k \in Locks : p \notin Elements(waiters[k])
  BY <1>1 DEF ListInv, Queued
<1>4. NoDuplicates(waiters'[l]) /\ Elements(waiters'[l]) = Elements(waiters[l]) \cup {p}
  <2>1. PICK s \in Seq(Proc) : s = waiters[l]
    BY <1>1
  <2>2. NoDuplicates(s) /\ p \notin Elements(s) /\ waiters'[l] \in {<<p>> \o s, Append(s, p)}
    BY <1>1, <1>2, <1>3, <2>1 DEF ListInv
  <2>3. /\ NoDuplicates(<<p>> \o s) /\ Elements(<<p>> \o s) = Elements(s) \cup {p}
        /\ NoDuplicates(Append(s, p)) /\ Elements(Append(s, p)) = Elements(s) \cup {p}
    BY <2>2, AppendFacts, PrependFacts
  <2> QED
    BY <2>1, <2>2, <2>3
<1>5. PlaceInv'
  BY <1>2 DEF PlaceInv, QueuedPcs
<1>6. WakeupInv'
  BY <1>1, <1>2 DEF WakeupInv
<1>7. ASSUME NEW q \in Proc, NEW k \in Locks
      PROVE  q \in Elements(waiters'[k]) <=> Queued(q, k)'
  <2>1. Lk(q)' = Lk(q)
    BY <1>2 DEF Lk
  <2>2. CASE q = p
    BY <1>2, <1>3, <1>4, <2>1, <2>2 DEF Queued
  <2>3. CASE q # p
    <3>1. Queued(q, k)' <=> Queued(q, k)
      BY <1>2, <2>1, <2>3 DEF Queued
    <3>2. q \in Elements(waiters'[k]) <=> q \in Elements(waiters[k])
      BY <1>2, <1>4, <2>3
    <3> QED
      BY <3>1, <3>2 DEF ListInv
  <2> QED
    BY <2>2, <2>3
<1>8. \A k \in Locks : NoDuplicates(waiters'[k])
  BY <1>2, <1>4 DEF ListInv
<1>9. \A k \in Locks : waiters'[k] # << >> => HAS_WAITERS \in flags'[k]
  BY <1>2 DEF ListInv
<1> QED
  BY <1>5, <1>6, <1>7, <1>8, <1>9, ListActionFlag DEF ListInv, ListAction

(* Where LWLockDequeueSelf finds a process on its wait list.               *)
LEMMA PositionFound ==
  ASSUME NEW S, NEW s \in Seq(S), NEW x \in Elements(s)
  PROVE  Position(s, x) \in 1 .. Len(s) /\ s[Position(s, x)] = x
<1>1. \E i \in 1 .. Len(s) : s[i] = x
  BY DEF Elements
<1> QED
  BY <1>1 DEF Position

(* LWLockDequeueSelf takes the process off the list it is on.              *)
LEMMA DequeueRemoveLists ==
  ASSUME IInv, LockInv, PlaceInv, ListInv, WakeupInv, NEW p \in Proc, Frame(p), DequeueRemove(p)
  PROVE  PlaceInv' /\ ListInv' /\ WakeupInv'
<1> DEFINE l == Lk(p)
<1> USE DEF LW_WS_WAITING, LW_WS_NOT_WAITING, LW_WS_PENDING_WAKEUP
<1>1. pc[p] = "dremove" /\ l \in Locks /\ waiters[l] \in Seq(Proc)
  BY DEF DequeueRemove, IInv, ControlInv, ControlAt, SharedTypes
<1>2. /\ pc'[p] = "dunlock" /\ call' = call /\ wakeup' = wakeup /\ lwWaiting' = lwWaiting
      /\ \A q \in Proc : q # p => pc'[q] = pc[q]
      /\ waiters'[l] = IF lwWaiting[p] = LW_WS_WAITING
                       THEN DeleteAt(waiters[l], Position(waiters[l], p)) ELSE waiters[l]
      /\ \A k \in Locks : k # l => waiters'[k] = waiters[k]
  BY <1>1, DomainsHold DEF DequeueRemove, Go, Domains, wakeLocal, procVars
<1>3. p \in Elements(waiters[l]) <=> lwWaiting[p] = LW_WS_WAITING
  BY <1>1 DEF ListInv, Queued
<1>4. NoDuplicates(waiters'[l]) /\ Elements(waiters'[l]) = Elements(waiters[l]) \ {p}
  <2>1. CASE lwWaiting[p] = LW_WS_WAITING
    <3>1. /\ Position(waiters[l], p) \in 1 .. Len(waiters[l])
          /\ waiters[l][Position(waiters[l], p)] = p
      BY <1>1, <1>3, <2>1, PositionFound
    <3>2. PICK i \in 1 .. Len(waiters[l]) : i = Position(waiters[l], p)
      BY <3>1
    <3>3. PICK s \in Seq(Proc) : s = waiters[l]
      BY <1>1
    <3>4. NoDuplicates(s) /\ i \in 1 .. Len(s) /\ s[i] = p /\ waiters'[l] = DeleteAt(s, i)
      BY <1>1, <1>2, <2>1, <3>1, <3>2, <3>3 DEF ListInv
    <3> QED
      BY <3>3, <3>4, RemoveFacts
  <2>2. CASE lwWaiting[p] # LW_WS_WAITING
    BY <1>1, <1>2, <1>3, <2>2 DEF ListInv
  <2> QED
    BY <2>1, <2>2
<1>5. PlaceInv'
  BY <1>2 DEF PlaceInv, QueuedPcs, DequeuePcs
<1>6. WakeupInv'
  BY <1>1, <1>2 DEF WakeupInv
<1>7. ASSUME NEW q \in Proc, NEW k \in Locks
      PROVE  q \in Elements(waiters'[k]) <=> Queued(q, k)'
  <2>1. Lk(q)' = Lk(q)
    BY <1>2 DEF Lk
  <2>2. CASE q = p
    <3>1. q \notin Elements(waiters'[k])
      BY <1>2, <1>4, <2>2 DEF ListInv, Queued
    <3> QED
      BY <1>2, <2>2, <3>1 DEF Queued
  <2>3. CASE q # p
    <3>1. Queued(q, k)' <=> Queued(q, k)
      BY <1>2, <2>1, <2>3 DEF Queued
    <3>2. q \in Elements(waiters'[k]) <=> q \in Elements(waiters[k])
      BY <1>2, <1>4, <2>3
    <3> QED
      BY <3>1, <3>2 DEF ListInv
  <2> QED
    BY <2>2, <2>3
<1>8. \A k \in Locks : NoDuplicates(waiters'[k])
  BY <1>2, <1>4 DEF ListInv
<1>9. \A k \in Locks : waiters'[k] # << >> => waiters[k] # << >>
  BY <1>1, <1>2, <1>3, ElementsFacts
<1> QED
  BY <1>5, <1>6, <1>7, <1>8, <1>9, ListActionFlag DEF ListInv, ListAction

(* ... and clears its lwWaiting once it is off the list.                   *)
LEMMA DequeueUnlockLists ==
  ASSUME IInv, LockInv, PlaceInv, ListInv, WakeupInv, NEW p \in Proc, Frame(p), DequeueUnlock(p)
  PROVE  PlaceInv' /\ ListInv' /\ WakeupInv'
<1> USE DEF LW_WS_WAITING, LW_WS_NOT_WAITING, LW_WS_PENDING_WAKEUP
<1>1. pc[p] = "dunlock"
  BY DEF DequeueUnlock
<1>2. /\ call' = call /\ wakeup' = wakeup /\ waiters' = waiters
      /\ \A q \in Proc : q # p => pc'[q] = pc[q] /\ lwWaiting'[q] = lwWaiting[q]
      /\ \/ /\ lwWaiting[p] = LW_WS_WAITING /\ lwWaiting'[p] = LW_WS_NOT_WAITING
            /\ pc'[p] \in {"vreturn", "acquired"}
         \/ lwWaiting[p] # LW_WS_WAITING /\ lwWaiting'[p] = lwWaiting[p] /\ pc'[p] = "drelok"
  BY <1>1, DomainsHold DEF DequeueUnlock, AfterDequeue, Go, Domains, wakeLocal
<1>3. PlaceInv'
  BY <1>2 DEF PlaceInv, QueuedPcs, DequeuePcs
<1>4. WakeupInv'
  BY <1>2 DEF WakeupInv
<1>5. ASSUME NEW q \in Proc, NEW k \in Locks
      PROVE  q \in Elements(waiters'[k]) <=> Queued(q, k)'
  <2>1. CASE q = p
    <3>1. ~Queued(p, k) /\ ~Queued(p, k)'
      BY <1>1, <1>2 DEF Queued
    <3> QED
      BY <1>2, <2>1, <3>1 DEF ListInv
  <2>2. CASE q # p
    <3>1. Queued(q, k)' <=> Queued(q, k)
      BY <1>2, <2>2 DEF Queued, Lk
    <3> QED
      BY <1>2, <3>1 DEF ListInv
  <2> QED
    BY <2>1, <2>2
<1>6. \A k \in Locks : NoDuplicates(waiters'[k])
  BY <1>2 DEF ListInv
<1>7. \A k \in Locks : waiters'[k] # << >> => waiters[k] # << >>
  BY <1>2
<1> QED
  BY <1>3, <1>4, <1>5, <1>6, <1>7, ListActionFlag DEF ListInv, ListAction

(* A waker moves the i-th process of the wait list to its wakeup list.     *)
Collects(p, i) ==
  LET l == Lk(p)
      q == waiters[l][i]
  IN  /\ pc[p] \in {"ucollect", "wscan"} /\ pc'[p] \in {"ucollect", "wscan", "wcas"}
      /\ l \in Locks /\ i \in 1 .. Len(waiters[l])
      /\ waiters' = [waiters EXCEPT ![l] = DeleteAt(@, i)]
      /\ wakeup' = [wakeup EXCEPT ![p] = Append(@, q)]
      /\ lwWaiting' = [lwWaiting EXCEPT ![q] = LW_WS_PENDING_WAKEUP]
      /\ call' = call /\ flags' = flags

(* LWLockUpdateVar and LWLockWakeup collect a process that waits on the    *)
(* list.                                                                   *)
LEMMA CollectActions ==
  ASSUME IInv, NEW p \in Proc
  PROVE  /\ UpdateVarCollect(p) => Collects(p, 1)
         /\ WakeupCollect(p) => Collects(p, iter[p])
<1> USE DEF Collects, Go
<1>1. pc[p] # "idle" => Lk(p) \in Locks /\ waiters[Lk(p)] \in Seq(Proc)
  BY DEF IInv, ControlInv, ControlAt, SharedTypes
<1>2. pc \in [Proc -> Pcs] /\ iter[p] \in Nat \ {0}
  BY DEF IInv, PrivateTypes
<1>3. ASSUME UpdateVarCollect(p)
      PROVE  Collects(p, 1)
  <2>1. pc[p] = "ucollect" /\ waiters[Lk(p)] # << >>
    BY <1>3 DEF UpdateVarCollect, FrontWaitsUntilFree
  <2>2. 1 \in 1 .. Len(waiters[Lk(p)])
    BY <1>1, <2>1, ElementsFacts
  <2> QED
    BY <1>1, <1>3, <2>1, <2>2 DEF UpdateVarCollect
<1>4. ASSUME WakeupCollect(p)
      PROVE  Collects(p, iter[p])
  <2>1. pc[p] = "wscan" /\ iter[p] <= Len(waiters[Lk(p)])
    BY <1>4 DEF WakeupCollect
  <2>2. iter[p] \in 1 .. Len(waiters[Lk(p)])
    BY <1>1, <1>2, <2>1
  <2> QED
    BY <1>1, <1>2, <1>4, <2>1, <2>2 DEF WakeupCollect
<1> QED
  BY <1>3, <1>4

(* The process q collected from the list of l was waiting and is not the   *)
(* waker p.                                                                *)
Moved(p, i, l, q) ==
  /\ l = Lk(p) /\ q = waiters[l][i]
  /\ q \in Proc /\ q # p /\ Queued(q, l) /\ pc[q] \in QueuedPcs
  /\ l \in Locks /\ i \in 1 .. Len(waiters[l]) /\ waiters[l] \in Seq(Proc)
  /\ \A r \in Proc : q \notin Elements(wakeup[r])
  /\ NoDuplicates(waiters'[l])
  /\ waiters'[l] = DeleteAt(waiters[l], i)
  /\ Elements(waiters'[l]) = Elements(waiters[l]) \ {q}
  /\ \A k \in Locks : k # l => waiters'[k] = waiters[k]
  /\ NoDuplicates(wakeup'[p])
  /\ Elements(wakeup'[p]) = Elements(wakeup[p]) \cup {q}
  /\ \A r \in Proc : r # p => wakeup'[r] = wakeup[r]
  /\ lwWaiting'[q] = LW_WS_PENDING_WAKEUP
  /\ \A r \in Proc : r # q => lwWaiting'[r] = lwWaiting[r]

(* What such a move does, for lists without duplicates: the process goes   *)
(* from one list to the other and is on no third one.                      *)
LEMMA Collected ==
  ASSUME IInv, PlaceInv, ListInv, WakeupInv, NEW p \in Proc, NEW i, Collects(p, i)
  PROVE  \E l, q : Moved(p, i, l, q)
<1>0. PICK l, q : l = Lk(p) /\ q = waiters[l][i]
  OBVIOUS
<1> USE DEF LW_WS_WAITING, LW_WS_NOT_WAITING, LW_WS_PENDING_WAKEUP
<1>1. PICK s \in Seq(Proc) : s = waiters[l]
  BY <1>0 DEF Collects, IInv, SharedTypes
<1>2. q = s[i]
  BY <1>0, <1>1
<1>3. l \in Locks /\ i \in 1 .. Len(s) /\ NoDuplicates(s) /\ pc[p] \in {"ucollect", "wscan"}
  BY <1>0, <1>1 DEF Collects, ListInv
<1>4. /\ NoDuplicates(DeleteAt(s, i)) /\ Elements(DeleteAt(s, i)) = Elements(s) \ {s[i]}
      /\ s[i] \in Elements(s)
  BY <1>3, RemoveFacts
<1>5. q \in Proc
  BY <1>2, <1>4, ElementsFacts
<1>6. Queued(q, l) /\ pc[q] \in QueuedPcs /\ q # p
  BY <1>1, <1>2, <1>3, <1>4, <1>5 DEF ListInv, PlaceInv, Queued, QueuedPcs, DequeuePcs
<1>7. \A r \in Proc : q \notin Elements(wakeup[r])
  BY <1>5, <1>6 DEF WakeupInv, Queued
<1>8. PICK t \in Seq(Proc) : t = wakeup[p]
  BY DEF IInv, PrivateTypes
<1>9. NoDuplicates(t) /\ q \notin Elements(t)
  BY <1>7, <1>8 DEF WakeupInv
<1>10. NoDuplicates(Append(t, q)) /\ Elements(Append(t, q)) = Elements(t) \cup {q}
  BY <1>5, <1>9, AppendFacts
<1>11. /\ waiters'[l] = DeleteAt(s, i) /\ \A k \in Locks : k # l => waiters'[k] = waiters[k]
       /\ wakeup'[p] = Append(t, q) /\ \A r \in Proc : r # p => wakeup'[r] = wakeup[r]
       /\ lwWaiting'[q] = LW_WS_PENDING_WAKEUP
       /\ \A r \in Proc : r # q => lwWaiting'[r] = lwWaiting[r]
  BY <1>0, <1>1, <1>2, <1>3, <1>5, <1>8, DomainsHold DEF Collects, Domains
<1> QED
  BY <1>0, <1>1, <1>2, <1>3, <1>4, <1>5, <1>6, <1>7, <1>8, <1>10, <1>11 DEF Moved

(* A move from the wait list to the wakeup list keeps both well formed.    *)
LEMMA CollectLists ==
  ASSUME IInv, LockInv, PlaceInv, ListInv, WakeupInv, NEW p \in Proc, NEW i, Frame(p),
         Collects(p, i), ListAction(p)
  PROVE  PlaceInv' /\ ListInv' /\ WakeupInv'
<1>1. PICK l, q : Moved(p, i, l, q)
  BY Collected
<1>2. /\ q \in Proc /\ q # p /\ Queued(q, l) /\ pc[q] \in QueuedPcs /\ l \in Locks
      /\ \A r \in Proc : q \notin Elements(wakeup[r])
      /\ NoDuplicates(waiters'[l])
      /\ Elements(waiters'[l]) = Elements(waiters[l]) \ {q}
      /\ \A k \in Locks : k # l => waiters'[k] = waiters[k]
      /\ NoDuplicates(wakeup'[p])
      /\ Elements(wakeup'[p]) = Elements(wakeup[p]) \cup {q}
      /\ \A r \in Proc : r # p => wakeup'[r] = wakeup[r]
      /\ lwWaiting'[q] = LW_WS_PENDING_WAKEUP
      /\ \A r \in Proc : r # q => lwWaiting'[r] = lwWaiting[r]
  BY <1>1 DEF Moved
<1> USE DEF LW_WS_WAITING, LW_WS_NOT_WAITING, LW_WS_PENDING_WAKEUP
<1>3. /\ \A r \in Proc : r # p => pc'[r] = pc[r]
      /\ \A r \in Proc : Lk(r)' = Lk(r)
      /\ lwWaiting[p] = LW_WS_NOT_WAITING /\ pc[p] # "dunlock" /\ pc'[p] # "dunlock"
      /\ flags' = flags
  BY DEF Frame, Lk, Collects, PlaceInv, QueuedPcs, DequeuePcs
<1>4. PlaceInv'
  BY <1>2, <1>3 DEF PlaceInv
<1>5. ASSUME NEW r \in Proc, NEW k \in Locks
      PROVE  r \in Elements(waiters'[k]) <=> Queued(r, k)'
  <2>1. CASE r = q
    <3>1. ~Queued(r, k)'
      BY <1>2, <2>1 DEF Queued
    <3>2. r \notin Elements(waiters'[k])
      BY <1>2, <2>1 DEF ListInv, Queued
    <3> QED
      BY <3>1, <3>2
  <2>2. CASE r # q
    <3>1. Queued(r, k)' <=> Queued(r, k)
      BY <1>2, <1>3, <2>2 DEF Queued
    <3>2. r \in Elements(waiters'[k]) <=> r \in Elements(waiters[k])
      BY <1>2, <2>2
    <3> QED
      BY <3>1, <3>2 DEF ListInv
  <2> QED
    BY <2>1, <2>2
<1>6. \A k \in Locks : NoDuplicates(waiters'[k])
  BY <1>2 DEF ListInv
<1>7. \A k \in Locks : waiters'[k] # << >> => HAS_WAITERS \in flags'[k]
  <2> SUFFICES ASSUME NEW k \in Locks, waiters'[k] # << >>
               PROVE  HAS_WAITERS \in flags[k]
    BY <1>3
  <2>1. waiters[k] \in Seq(Proc)
    BY DEF IInv, SharedTypes
  <2>2. CASE k = l
    <3>1. q \in Elements(waiters[k])
      BY <1>2, <2>2 DEF ListInv
    <3> QED
      BY <2>1, <3>1, ElementsFacts DEF ListInv
  <2>3. CASE k # l
    BY <1>2, <2>3 DEF ListInv
  <2> QED
    BY <2>2, <2>3
<1>8. WakeupInv'
  <2>1. \A r, s \in Proc : r \in Elements(wakeup'[s]) <=>
                             r \in Elements(wakeup[s]) \/ (r = q /\ s = p)
    BY <1>2
  <2>2. \A r \in Proc : NoDuplicates(wakeup'[r])
    BY <1>2 DEF WakeupInv
  <2>3. ASSUME NEW r \in Proc
        PROVE  lwWaiting'[r] = LW_WS_PENDING_WAKEUP <=>
                 \E s \in Proc : r \in Elements(wakeup'[s])
    BY <1>2, <2>1 DEF WakeupInv
  <2>4. ASSUME NEW r \in Proc, NEW s \in Proc, NEW t \in Proc,
               r \in Elements(wakeup'[s]), r \in Elements(wakeup'[t])
        PROVE  s = t
    BY <1>2, <2>1, <2>4 DEF WakeupInv
  <2> QED
    BY <2>2, <2>3, <2>4 DEF WakeupInv
<1> QED
  BY <1>4, <1>5, <1>6, <1>7, <1>8, ListActionFlag DEF ListInv

(* The wakeup itself: the process leaves the waker's list.                 *)
LEMMA WakeClearLists ==
  ASSUME IInv, LockInv, PlaceInv, ListInv, WakeupInv, NEW p \in Proc, Frame(p), WakeClear(p)
  PROVE  PlaceInv' /\ ListInv' /\ WakeupInv'
<1> USE DEF LW_WS_WAITING, LW_WS_NOT_WAITING, LW_WS_PENDING_WAKEUP
<1>1. PICK s \in Seq(Proc) : s = wakeup[p]
  BY DEF IInv, PrivateTypes
<1>2. PICK q : q = s[1]
  OBVIOUS
<1>3. s # << >> /\ NoDuplicates(s) /\ pc[p] = "wake"
  BY <1>1 DEF WakeClear, WakeupInv
<1>4. 1 \in 1 .. Len(s)
  BY <1>3, ElementsFacts
<1>5. /\ NoDuplicates(DeleteAt(s, 1)) /\ Elements(DeleteAt(s, 1)) = Elements(s) \ {q}
      /\ q \in Elements(s) /\ q \in Proc
  BY <1>2, <1>3, <1>4, RemoveFacts, ElementsFacts
<1>6. lwWaiting[q] = LW_WS_PENDING_WAKEUP
  BY <1>1, <1>5 DEF WakeupInv
<1>7. /\ wakeup'[p] = DeleteAt(s, 1) /\ \A r \in Proc : r # p => wakeup'[r] = wakeup[r]
      /\ lwWaiting'[q] = LW_WS_NOT_WAITING
      /\ \A r \in Proc : r # q => lwWaiting'[r] = lwWaiting[r]
      /\ waiters' = waiters /\ flags' = flags /\ call' = call /\ pc'[p] = "wsem"
      /\ \A r \in Proc : r # p => pc'[r] = pc[r]
  BY <1>1, <1>2, <1>5, DomainsHold DEF WakeClear, Go, Domains, lockVars
<1>8. PlaceInv'
  BY <1>3, <1>7 DEF PlaceInv, QueuedPcs, DequeuePcs
<1>9. \A r \in Proc, k \in Locks : Queued(r, k)' <=> Queued(r, k)
  BY <1>3, <1>6, <1>7 DEF Queued, Lk
<1>10. /\ \A r \in Proc, k \in Locks : r \in Elements(waiters'[k]) <=> Queued(r, k)'
       /\ \A k \in Locks : NoDuplicates(waiters'[k])
       /\ \A k \in Locks : waiters'[k] # << >> => HAS_WAITERS \in flags'[k]
  BY <1>7, <1>9 DEF ListInv
<1>11. WakeupInv'
  <2>1. \A r, t \in Proc : r \in Elements(wakeup'[t]) <=>
                             r \in Elements(wakeup[t]) /\ ~(r = q /\ t = p)
    BY <1>1, <1>5, <1>7
  <2>2. \A r \in Proc : NoDuplicates(wakeup'[r])
    BY <1>5, <1>7 DEF WakeupInv
  <2>3. \A t \in Proc : q \in Elements(wakeup[t]) => t = p
    BY <1>1, <1>5 DEF WakeupInv
  <2>4. ASSUME NEW r \in Proc
        PROVE  lwWaiting'[r] = LW_WS_PENDING_WAKEUP <=>
                 \E t \in Proc : r \in Elements(wakeup'[t])
    BY <1>7, <2>1, <2>3 DEF WakeupInv
  <2>5. ASSUME NEW r \in Proc, NEW t \in Proc, NEW u \in Proc,
               r \in Elements(wakeup'[t]), r \in Elements(wakeup'[u])
        PROVE  t = u
    BY <2>1, <2>5 DEF WakeupInv
  <2> QED
    BY <2>2, <2>4, <2>5 DEF WakeupInv
<1> QED
  BY <1>8, <1>10, <1>11, ListActionFlag DEF ListInv, ListAction

(* Every step keeps the lists well formed.                                 *)
LEMMA ListsStep ==
  ASSUME IInv, LockInv, PlaceInv, ListInv, WakeupInv, ScanInv, NEW p \in Proc, Frame(p), StepOf(p)
  PROVE  PlaceInv' /\ ListInv' /\ WakeupInv'
<1>1. CASE ListsQuiet(p)
  BY <1>1, ListsQuietStep
<1>2. CASE QueuePush(p)
  BY <1>2, QueuePushLists
<1>3. CASE DequeueRemove(p)
  BY <1>3, DequeueRemoveLists
<1>4. CASE DequeueUnlock(p)
  BY <1>4, DequeueUnlockLists
<1>5. CASE UpdateVarCollect(p)
  BY <1>5, CollectActions, CollectLists DEF ListAction
<1>6. CASE WakeupCollect(p)
  BY <1>6, CollectActions, CollectLists DEF ListAction
<1>7. CASE WakeClear(p)
  BY <1>7, WakeClearLists
<1> QED
  BY <1>1, <1>2, <1>3, <1>4, <1>5, <1>6, <1>7, StepListsQuiet DEF ListAction

-----------------------------------------------------------------------------
(* A wait list and LW_FLAG_HAS_WAITERS only go under the list's lock.      *)
ListsLocked(p) ==
  \A k \in Locks :
    waiters'[k] # waiters[k] \/ (HAS_WAITERS \in flags[k] /\ HAS_WAITERS \notin flags'[k])
      => k = Lk(p) /\ pc[p] \in ListLockPcs

(* Every step of lwlock.c changes a wait list under its lock only.         *)
LEMMA StepListsLocked ==
  ASSUME IInv, PlaceInv, ScanInv, NEW p \in Proc, StepOf(p)
  PROVE  ListsLocked(p)
<1> USE DEF Go, lockVars, ListsLocked, ListLockPcs, HAS_WAITERS, LOCKED, Domains
<1>1. Domains /\ (pc[p] # "idle" => Lk(p) \in Locks)
  BY DomainsHold DEF IInv, ControlInv, ControlAt
<1>2. CASE ListsQuiet(p)
  BY <1>2 DEF ListsQuiet
<1>3. CASE QueuePush(p)
  BY <1>1, <1>3 DEF QueuePush
<1>4. CASE DequeueRemove(p)
  BY <1>1, <1>4 DEF DequeueRemove
<1>5. CASE DequeueUnlock(p)
  BY <1>1, <1>5 DEF DequeueUnlock, AfterDequeue
<1>6. CASE UpdateVarCollect(p)
  BY <1>1, <1>6 DEF UpdateVarCollect
<1>7. CASE WakeupCollect(p)
  BY <1>1, <1>7 DEF WakeupCollect
<1>8. CASE WakeClear(p)
  BY <1>1, <1>8 DEF WakeClear
<1> QED
  BY <1>2, <1>3, <1>4, <1>5, <1>6, <1>7, <1>8, StepListsQuiet DEF ListAction

(* A process that is to be woken cannot go far while the list is locked.   *)
LEMMA StillTries ==
  ASSUME IInv, NEW p \in Proc, StepOf(p), NEW l, WillTry(p, l), LOCKED \in flags[l],
         lwWaiting[p] = LW_WS_PENDING_WAKEUP
  PROVE  WillTry(p, l)'
<1> USE DEF Go, Lk, WillTry, LW_WS_NOT_WAITING, LW_WS_PENDING_WAKEUP
<1>1. Domains /\ pc[p] \in {"try2", "sleep", "dlock"} /\ Lk(p) = l
  BY DomainsHold
<1> USE DEF Domains
<1>2. CASE Call(p) \/ CallEnd(p)
  BY <1>1, <1>2, CallBegin DEF Begin
<1>3. CASE LWLockWaitListLock(p)
  BY <1>1, <1>3 DEF LWLockWaitListLock, WaitListLock
<1>4. CASE QueueSetFlag(p)
  BY <1>1, <1>4 DEF QueueSetFlag, FetchOr
<1>5. CASE QueuePush(p)
  BY <1>1, <1>5 DEF QueuePush
<1>6. CASE DequeueRemove(p)
  BY <1>1, <1>6 DEF DequeueRemove
<1>7. CASE DequeueUnlock(p)
  BY <1>1, <1>7 DEF DequeueUnlock, AfterDequeue
<1>8. CASE DequeueReleaseOk(p)
  BY <1>1, <1>8 DEF DequeueReleaseOk, FetchOr
<1>9. CASE DequeueSleep(p)
  BY <1>1, <1>9 DEF DequeueSleep, SemaphoreWait, AfterDequeue
<1>10. CASE Sleep(p)
  BY <1>1, <1>10 DEF Sleep, SemaphoreWait, AfterSleep
<1>11. CASE RetryReleaseOk(p)
  BY <1>1, <1>11 DEF RetryReleaseOk, FetchOr
<1>12. CASE LWLockConflictsWithVar(p)
  BY <1>1, <1>12 DEF LWLockConflictsWithVar, ConflictTest, ConflictValue
<1>13. CASE WaitForVarReleaseOk(p)
  BY <1>1, <1>13 DEF WaitForVarReleaseOk, FetchOr
<1>14. CASE UpdateVarSet(p)
  BY <1>1, <1>14 DEF UpdateVarSet
<1>15. CASE UpdateVarCollect(p)
  BY <1>1, <1>15 DEF UpdateVarCollect
<1>16. CASE UpdateVarUnlock(p)
  BY <1>1, <1>16 DEF UpdateVarUnlock
<1>17. CASE ClearVar(p)
  BY <1>1, <1>17 DEF ClearVar
<1>18. CASE WakeupSkip(p)
  BY <1>1, <1>18 DEF WakeupSkip
<1>19. CASE WakeupCollect(p)
  BY <1>1, <1>19 DEF WakeupCollect
<1>20. CASE WakeupScanEnd(p)
  BY <1>1, <1>20 DEF WakeupScanEnd
<1>21. CASE WakeupFlags(p)
  BY <1>1, <1>21 DEF WakeupFlags
<1>22. CASE WakeClear(p)
  BY <1>1, <1>22 DEF WakeClear
<1>23. CASE WakePost(p)
  BY <1>1, <1>23 DEF WakePost
<1>24. CASE WakeEnd(p)
  BY <1>1, <1>24 DEF WakeEnd, Finished
<1>25. CASE FirstAttempt(p)
  BY <1>1, <1>25 DEF FirstAttempt, AttemptLock
<1>26. CASE SecondAttempt(p)
  BY <1>1, <1>26 DEF SecondAttempt, AttemptLock
<1>27. CASE Return(p)
  BY <1>1, <1>27 DEF Return
<1>28. CASE Release(p)
  BY <1>1, <1>28 DEF Release, Finished
<1> QED
  BY <1>2, <1>3, <1>4, <1>5, <1>6, <1>7, <1>8, <1>9, <1>10, <1>11, <1>12, <1>13, <1>14, <1>15,
     <1>16, <1>17, <1>18, <1>19, <1>20, <1>21, <1>22, <1>23, <1>24, <1>25, <1>26, <1>27, <1>28
     DEF StepOf, Step

(* A step of p leaves what another process found in its scan.              *)
LEMMA OthersScan ==
  ASSUME IInv, LockInv, PlaceInv, WakeupInv, ScanInv, NEW p \in Proc, Frame(p), StepOf(p),
         NEW r \in Proc, r # p
  PROVE  ScanAt(r)'
<1>1. /\ ScanAt(r) /\ pc'[r] = pc[r] /\ iter'[r] = iter[r] /\ woke'[r] = woke[r]
      /\ wakeup'[r] = wakeup[r] /\ Lk(r)' = Lk(r)
  BY DEF ScanInv, Frame, Lk
<1>2. ASSUME pc[r] \in {"wscan", "wcas"}
      PROVE  /\ Lk(r) \in Locks /\ LOCKED \in flags[Lk(r)]
             /\ waiters'[Lk(r)] = waiters[Lk(r)]
             /\ HAS_WAITERS \in flags[Lk(r)] => HAS_WAITERS \in flags'[Lk(r)]
  <2>1. Lk(r) \in Locks
    BY <1>2 DEF IInv, ControlInv, ControlAt
  <2>2. LOCKED \in flags[Lk(r)] /\ ~(Lk(r) = Lk(p) /\ pc[p] \in ListLockPcs)
    BY <1>2 DEF LockInv, ListLockPcs
  <2> QED
    BY <2>1, <2>2, StepListsLocked DEF ListsLocked
<1>3. ASSUME woke[r]
      PROVE  \E q \in Elements(wakeup[r]) : WillTry(q, Lk(r))'
  <2>1. pc[r] \in {"wscan", "wcas"} /\ wakeup[r] \in Seq(Proc)
    BY <1>1, <1>3 DEF ScanAt, IInv, PrivateTypes
  <2>2. PICK q \in Elements(wakeup[r]) : WillTry(q, Lk(r))
    BY <1>1, <1>3 DEF ScanAt
  <2>3. q \in Proc /\ lwWaiting[q] = LW_WS_PENDING_WAKEUP
    BY <2>1, <2>2, ElementsFacts DEF WakeupInv
  <2>4. CASE q = p
    <3>1. PICK l : l = Lk(r)
      OBVIOUS
    <3>2. WillTry(p, l) /\ LOCKED \in flags[l] /\ lwWaiting[p] = LW_WS_PENDING_WAKEUP
      BY <1>2, <2>1, <2>2, <2>3, <2>4, <3>1
    <3>3. WillTry(p, l)'
      BY <3>2, StillTries
    <3>4. WillTry(p, Lk(r))'
      BY <1>1, <3>1, <3>3 DEF WillTry
    <3> QED
      BY <2>2, <2>4, <3>4
  <2>5. CASE q # p
    <3>1. WillTry(q, Lk(r))'
      BY <1>1, <2>2, <2>3, <2>5 DEF WillTry, Frame, Lk
    <3> QED
      BY <2>2, <3>1
  <2> QED
    BY <2>4, <2>5
<1> QED
  BY <1>1, <1>2, <1>3 DEF ScanAt

(* A step of p outside LWLockWakeup and the wakeups of LWLockUpdateVar.    *)
ScanIdle(p) ==
  /\ iter'[p] = iter[p] /\ woke'[p] = woke[p] /\ wakeup'[p] = wakeup[p]
  /\ pc[p] \notin {"ucollect", "wscan", "wcas", "wake", "wsem"}
  /\ pc'[p] \notin {"wscan", "wcas", "wake", "wsem"}

ScanAction(p) ==
  \/ LWLockWaitListLock(p) \/ UpdateVarCollect(p) \/ UpdateVarUnlock(p)
  \/ WakeupSkip(p) \/ WakeupCollect(p) \/ WakeupScanEnd(p) \/ WakeupFlags(p)
  \/ WakeClear(p) \/ WakePost(p) \/ WakeEnd(p)

(* Every step is outside LWLockWakeup's scan or is one of the scan's       *)
(* actions.                                                                *)
LEMMA StepScanIdle ==
  ASSUME IInv, NEW p \in Proc, StepOf(p)
  PROVE  ScanIdle(p) \/ ScanAction(p)
<1> USE DEF Go, Lk, wakeLocal, ScanIdle
<1>1. Domains
  BY DomainsHold
<1> USE DEF Domains
<1>2. CASE Call(p) \/ CallEnd(p)
  <2>1. PICK to, c : Begin(p, to, c) /\ to \in {"try1", "vtest1", "ulock", "clock", "rel"}
    BY <1>2, CallBegin
  <2> QED
    BY <1>1, <2>1 DEF Begin
<1>3. CASE QueueSetFlag(p)
  BY <1>1, <1>3 DEF QueueSetFlag, FetchOr
<1>4. CASE QueuePush(p)
  BY <1>1, <1>4 DEF QueuePush
<1>5. CASE DequeueRemove(p)
  BY <1>1, <1>5 DEF DequeueRemove
<1>6. CASE DequeueUnlock(p)
  BY <1>1, <1>6 DEF DequeueUnlock, AfterDequeue
<1>7. CASE DequeueReleaseOk(p)
  BY <1>1, <1>7 DEF DequeueReleaseOk, FetchOr
<1>8. CASE DequeueSleep(p)
  BY <1>1, <1>8 DEF DequeueSleep, SemaphoreWait, AfterDequeue
<1>9. CASE Sleep(p)
  BY <1>1, <1>9 DEF Sleep, SemaphoreWait, AfterSleep
<1>10. CASE RetryReleaseOk(p)
  BY <1>1, <1>10 DEF RetryReleaseOk, FetchOr
<1>11. CASE LWLockConflictsWithVar(p)
  BY <1>1, <1>11 DEF LWLockConflictsWithVar, ConflictTest, ConflictValue
<1>12. CASE WaitForVarReleaseOk(p)
  BY <1>1, <1>12 DEF WaitForVarReleaseOk, FetchOr
<1>13. CASE UpdateVarSet(p)
  BY <1>1, <1>13 DEF UpdateVarSet
<1>14. CASE ClearVar(p)
  BY <1>1, <1>14 DEF ClearVar
<1>15. CASE FirstAttempt(p)
  BY <1>1, <1>15 DEF FirstAttempt, AttemptLock
<1>16. CASE SecondAttempt(p)
  BY <1>1, <1>16 DEF SecondAttempt, AttemptLock
<1>17. CASE Return(p)
  BY <1>1, <1>17 DEF Return
<1>18. CASE Release(p)
  BY <1>1, <1>18 DEF Release, Finished
<1> QED
  BY <1>2, <1>3, <1>4, <1>5, <1>6, <1>7, <1>8, <1>9, <1>10, <1>11, <1>12, <1>13, <1>14, <1>15,
     <1>16, <1>17, <1>18 DEF StepOf, Step, ScanAction

(* The process whose waking made LWLockWakeup stop at exclusive waiters    *)
(* is in LWLockAcquire, before it takes the list's lock.                   *)
LEMMA CollectedTries ==
  ASSUME IInv, LockInv, PlaceInv, NEW p \in Proc, NEW q \in Proc, q # p, NEW l,
         l = Lk(p), pc[p] \in ListLockPcs, Queued(q, l), ~UntilFree(q)
  PROVE  WillTry(q, l)
<1>1. pc[q] \in QueuedPcs /\ pc[q] \notin {"dunlock", "drelok", "dsleep"} /\ Lk(q) = l
  BY DEF PlaceInv, Queued, LW_WS_WAITING, LW_WS_NOT_WAITING
<1>2. call[q].op = "LWLockAcquire"
  BY DEF UntilFree, LwWaitMode
<1>3. pc[q] \notin VarPcs
  BY <1>2 DEF IInv, ControlInv, ControlAt
<1>4. pc[q] # "dremove"
  BY <1>1 DEF LockInv, ListLockPcs
<1> QED
  BY <1>1, <1>2, <1>3, <1>4 DEF WillTry, QueuedPcs, DequeuePcs, VarPcs

(* A step of LWLockWakeup keeps what its scan found.                       *)
LEMMA OwnScan ==
  ASSUME IInv, LockInv, PlaceInv, ListInv, WakeupInv, ScanInv, NEW p \in Proc, Frame(p),
         StepOf(p)
  PROVE  ScanAt(p)'
<1> USE DEF Go
<1>1. Domains /\ ScanAt(p) /\ (pc[p] # "idle" => Lk(p) \in Locks)
  BY DomainsHold DEF ScanInv, IInv, ControlInv, ControlAt
<1>2. CASE ScanIdle(p)
  BY <1>1, <1>2 DEF ScanIdle, ScanAt
<1>3. CASE LWLockWaitListLock(p)
  <2>1. /\ \/ pc[p] = "wlock" /\ pc'[p] = "wscan"
           \/ /\ pc[p] \notin {"wscan", "wcas", "wake", "wsem", "ucollect"}
              /\ pc'[p] \notin {"wscan", "wcas"}
        /\ iter' = iter /\ woke' = woke /\ wakeup' = wakeup
    BY <1>1, <1>3 DEF LWLockWaitListLock, WaitListLock, wakeLocal, Domains
  <2> QED
    BY <1>1, <2>1 DEF ScanAt
<1>4. CASE UpdateVarCollect(p) \/ UpdateVarUnlock(p)
  <2>1. pc[p] = "ucollect" /\ pc'[p] \in {"ucollect", "wake"} /\ iter' = iter /\ woke' = woke
    BY <1>1, <1>4 DEF UpdateVarCollect, UpdateVarUnlock, wakeLocal, Domains
  <2> QED
    BY <1>1, <2>1 DEF ScanAt
<1>5. CASE WakeupSkip(p)
  <2>1. /\ pc[p] = "wscan" /\ pc' = pc /\ call' = call /\ woke' = woke /\ wakeup' = wakeup
        /\ flags' = flags /\ woke[p]
    BY <1>5 DEF WakeupSkip, lockVars
  <2>2. \A q : WillTry(q, Lk(p))' <=> WillTry(q, Lk(p))
    BY <2>1 DEF WillTry, Lk
  <2> QED
    BY <1>1, <2>1, <2>2 DEF ScanAt, Lk
<1>6. CASE WakeupCollect(p)
  <2> DEFINE i == iter[p]
  <2>1. PICK l, q : Moved(p, i, l, q)
    BY <1>6, CollectActions, Collected
  <2>2. /\ pc[p] = "wscan" /\ iter' = iter /\ call' = call /\ flags' = flags
        /\ woke'[p] = (woke[p] \/ ~UntilFree(q))
        /\ pc'[p] = IF LwWaitMode(q) = LW_EXCLUSIVE THEN "wcas" ELSE "wscan"
        /\ \A r \in Proc : r # p => pc'[r] = pc[r]
    BY <1>1, <1>6, <2>1 DEF WakeupCollect, Domains, Moved, UntilFree
  <2>3. /\ l = Lk(p) /\ q \in Proc /\ q # p /\ Queued(q, l) /\ l \in Locks
        /\ Elements(wakeup'[p]) = Elements(wakeup[p]) \cup {q}
        /\ waiters[l] \in Seq(Proc)
    BY <2>1 DEF Moved
  <2>4. HAS_WAITERS \in flags'[Lk(p)']
    <3>1. q \in Elements(waiters[l])
      BY <2>3 DEF ListInv
    <3>2. waiters[l] # << >>
      BY <2>3, <3>1, ElementsFacts
    <3> QED
      BY <2>2, <2>3, <3>2 DEF ListInv, Lk
  <2>5. ~UntilFree(q) => WillTry(q, l)'
    <3>1. ~UntilFree(q) => WillTry(q, l)
      BY <2>2, <2>3, CollectedTries DEF ListLockPcs
    <3> QED
      BY <2>2, <2>3, <3>1 DEF WillTry, Lk
  <2>6. woke[p] => \E r \in Elements(wakeup[p]) : WillTry(r, l)'
    <3> SUFFICES ASSUME woke[p]
                 PROVE  \E r \in Elements(wakeup[p]) : WillTry(r, l)'
      OBVIOUS
    <3>1. PICK r \in Elements(wakeup[p]) : WillTry(r, l)
      BY <1>1, <2>3 DEF ScanAt
    <3>2. r \in Proc
      BY <3>1, ElementsFacts DEF IInv, PrivateTypes
    <3>3. r # p
      BY <2>2, <3>1 DEF WillTry
    <3>4. WillTry(r, l)'
      BY <2>2, <3>1, <3>2, <3>3 DEF WillTry, Lk
    <3> QED
      BY <3>1, <3>4
  <2>7. woke'[p] => \E r \in Elements(wakeup'[p]) : WillTry(r, Lk(p))'
    <3>1. Lk(p)' = l
      BY <2>2, <2>3 DEF Lk
    <3>2. woke'[p] => \E r \in Elements(wakeup'[p]) : WillTry(r, l)'
      BY <2>2, <2>3, <2>5, <2>6
    <3> QED
      BY <3>1, <3>2 DEF WillTry
  <2>8. pc'[p] = "wcas" => woke'[p]
    BY <2>2 DEF UntilFree, LW_EXCLUSIVE, LW_WAIT_UNTIL_FREE
  <2>9. pc'[p] = "wscan" => iter'[p] = 1 \/ woke'[p]
    BY <1>1, <2>2 DEF ScanAt
  <2> QED
    BY <2>2, <2>4, <2>7, <2>8, <2>9 DEF ScanAt
<1>7. CASE WakeupScanEnd(p)
  <2>1. /\ pc[p] = "wscan" /\ pc'[p] = "wcas" /\ iter[p] > Len(waiters[Lk(p)])
        /\ waiters' = waiters /\ flags' = flags /\ iter' = iter /\ woke' = woke
        /\ wakeup' = wakeup /\ call' = call
        /\ \A r \in Proc : r # p => pc'[r] = pc[r]
    BY <1>1, <1>7 DEF WakeupScanEnd, Domains, lockVars, wakeLocal
  <2>2. iter[p] = 1 => waiters[Lk(p)] = << >>
    <3>1. PICK s \in Seq(Proc) : s = waiters[Lk(p)]
      BY <1>1, <2>1 DEF IInv, SharedTypes
    <3>2. iter[p] = 1 => Len(s) = 0
      BY <2>1, <3>1
    <3> QED
      BY <3>1, <3>2
  <2>3. woke[p] => \E q \in Elements(wakeup[p]) : WillTry(q, Lk(p))'
    <3> SUFFICES ASSUME woke[p]
                 PROVE  \E q \in Elements(wakeup[p]) : WillTry(q, Lk(p))'
      OBVIOUS
    <3>1. PICK q \in Elements(wakeup[p]) : WillTry(q, Lk(p))
      BY <1>1 DEF ScanAt
    <3>2. q \in Proc
      BY <3>1, ElementsFacts DEF IInv, PrivateTypes
    <3>3. WillTry(q, Lk(p))'
      BY <2>1, <3>1, <3>2 DEF WillTry, Lk
    <3> QED
      BY <3>1, <3>3
  <2> QED
    BY <1>1, <2>1, <2>2, <2>3 DEF ScanAt, Lk
<1>8. CASE WakeupFlags(p)
  BY <1>1, <1>8 DEF WakeupFlags, ScanAt, Domains
<1>9. CASE WakeClear(p) \/ WakePost(p)
  BY <1>1, <1>9 DEF WakeClear, WakePost, ScanAt, Domains
<1>10. CASE WakeEnd(p)
  BY <1>1, <1>10 DEF WakeEnd, Finished, ScanAt, Domains, wakeLocal
<1> QED
  BY <1>2, <1>3, <1>4, <1>5, <1>6, <1>7, <1>8, <1>9, <1>10, StepScanIdle DEF ScanAction

(* Every step keeps what the scans of LWLockWakeup found.                  *)
LEMMA ScanStep ==
  ASSUME IInv, LockInv, PlaceInv, ListInv, WakeupInv, ScanInv, NEW p \in Proc, Frame(p),
         StepOf(p)
  PROVE  ScanInv'
BY OthersScan, OwnScan DEF ScanInv

-----------------------------------------------------------------------------
(* The wait mode of a process does not change while it waits.              *)
LEMMA ModeKept ==
  ASSUME PlaceInv, NEW p \in Proc, Frame(p), NEW q \in Proc, lwWaiting[q] # LW_WS_NOT_WAITING
  PROVE  UntilFree(q)' <=> UntilFree(q)
<1>1. call'[q] = call[q]
  BY DEF Frame, PlaceInv, EdgePcs, QueuedPcs, DequeuePcs
<1> QED
  BY <1>1 DEF UntilFree, LwWaitMode

(* The same for the processes on a wait list.                              *)
LEMMA ListModesKept ==
  ASSUME IInv, PlaceInv, ListInv, NEW p \in Proc, Frame(p), NEW k \in Locks
  PROVE  \A q \in Elements(waiters[k]) : q \in Proc /\ (UntilFree(q)' <=> UntilFree(q))
<1> SUFFICES ASSUME NEW q \in Elements(waiters[k])
             PROVE  q \in Proc /\ (UntilFree(q)' <=> UntilFree(q))
  OBVIOUS
<1>1. q \in Proc
  BY ElementsFacts DEF IInv, SharedTypes
<1>2. lwWaiting[q] # LW_WS_NOT_WAITING
  BY <1>1 DEF ListInv, Queued, LW_WS_WAITING, LW_WS_NOT_WAITING
<1> QED
  BY <1>1, <1>2, ModeKept

(* A list that loses one of its elements stays sorted.                     *)
LEMMA SortedRemove ==
  ASSUME NEW S, NEW s \in Seq(S), NEW i \in 1 .. Len(s), NEW F,
         \A m, n \in 1 .. Len(s) : m < n /\ s[n] \in F => s[m] \in F
  PROVE  \A m, n \in 1 .. Len(DeleteAt(s, i)) :
           m < n /\ DeleteAt(s, i)[n] \in F => DeleteAt(s, i)[m] \in F
<1> DEFINE t == DeleteAt(s, i)
<1>1. /\ Len(t) = Len(s) - 1
      /\ \A j \in 1 .. Len(s) - 1 : t[j] = IF j < i THEN s[j] ELSE s[j + 1]
  BY DeleteAtElements
<1>2. Len(s) \in Nat
  OBVIOUS
<1> HIDE DEF t
<1> SUFFICES ASSUME NEW m \in 1 .. Len(t), NEW n \in 1 .. Len(t), m < n, t[n] \in F
             PROVE  t[m] \in F
  BY DEF t
<1> DEFINE f(j) == IF j < i THEN j ELSE j + 1
<1>3. ASSUME NEW j \in 1 .. Len(t)
      PROVE  f(j) \in 1 .. Len(s) /\ t[j] = s[f(j)]
  BY <1>1, <1>2
<1>4. f(m) < f(n)
  BY <1>1, <1>2
<1>5. f(m) \in 1 .. Len(s) /\ f(n) \in 1 .. Len(s) /\ t[m] = s[f(m)] /\ t[n] = s[f(n)]
  BY <1>3
<1> HIDE DEF f
<1> QED
  BY <1>4, <1>5

(* The processes that wait for a lock to be free.                          *)
FreeWaiters == {q \in Proc : UntilFree(q)}

(* Sorted in terms of the elements of a list.                              *)
LEMMA SortedForms ==
  ASSUME IInv, NEW l \in Locks
  PROVE  Sorted(l) <=> \A m, n \in 1 .. Len(waiters[l]) :
                         m < n /\ waiters[l][n] \in FreeWaiters => waiters[l][m] \in FreeWaiters
<1>1. \A i \in 1 .. Len(waiters[l]) : waiters[l][i] \in Proc
  BY ElementType DEF IInv, SharedTypes
<1> QED
  BY <1>1 DEF Sorted, FreeWaiters

(* A step keeps the wait lists sorted.                                     *)
LEMMA SortedStep ==
  ASSUME IInv, IInv', LockInv, PlaceInv, ListInv, WakeupInv, ScanInv, NEW p \in Proc,
         Frame(p), StepOf(p), NEW l \in Locks, Sorted(l)
  PROVE  Sorted(l)'
<1>1. PICK s \in Seq(Proc) : s = waiters[l]
  BY DEF IInv, SharedTypes
<1>2. PICK t \in Seq(Proc) : t = waiters'[l]
  BY DEF IInv, SharedTypes
<1>3. PICK F : F = FreeWaiters
  OBVIOUS
<1>4. PICK G : G = FreeWaiters'
  OBVIOUS
<1>5. \A m, n \in 1 .. Len(s) : m < n /\ s[n] \in F => s[m] \in F
  BY <1>1, <1>3, SortedForms
<1>6. \A q \in Elements(s) : q \in G <=> q \in F
  BY <1>1, <1>3, <1>4, ListModesKept DEF FreeWaiters
<1>7. \A i \in 1 .. Len(s) : s[i] \in G <=> s[i] \in F
  BY <1>6 DEF Elements
<1>8. \A m, n \in 1 .. Len(s) : m < n /\ s[n] \in G => s[m] \in G
  BY <1>5, <1>7
<1> SUFFICES \A m, n \in 1 .. Len(t) : m < n /\ t[n] \in G => t[m] \in G
  <2>1. Sorted(l)' <=> \A m, n \in 1 .. Len(waiters'[l]) :
                         m < n /\ waiters'[l][n] \in FreeWaiters' => waiters'[l][m] \in FreeWaiters'
    <3>1. \A i \in 1 .. Len(waiters'[l]) : waiters'[l][i] \in Proc
      BY ElementType DEF IInv, SharedTypes
    <3> QED
      BY <3>1 DEF Sorted, FreeWaiters
  <2> QED
    BY <1>2, <1>4, <2>1
<1>9. CASE t = s
  BY <1>8, <1>9
<1>10. ASSUME NEW i \in 1 .. Len(s), t = DeleteAt(s, i)
       PROVE  \A m, n \in 1 .. Len(t) : m < n /\ t[n] \in G => t[m] \in G
  BY <1>8, <1>10, SortedRemove
<1>11. CASE QueuePush(p)
  <2>1. /\ t = IF l = Lk(p) THEN (IF UntilFree(p) THEN <<p>> \o s ELSE Append(s, p)) ELSE s
        /\ call' = call /\ pc[p] = "qpush"
    BY <1>1, <1>2, <1>11, DomainsHold DEF QueuePush, UntilFree, Domains
  <2>2. (p \in G <=> UntilFree(p)) /\ p \notin Elements(s) /\ NoDuplicates(s)
    BY <1>1, <1>4, <2>1 DEF FreeWaiters, UntilFree, LwWaitMode, ListInv, Queued, PlaceInv,
                            QueuedPcs, DequeuePcs, LW_WS_WAITING, LW_WS_NOT_WAITING
  <2>3. CASE t = <<p>> \o s /\ UntilFree(p)
    <3>1. Len(t) = Len(s) + 1 /\ t[1] = p /\ \A i \in 2 .. Len(s) + 1 : t[i] = s[i - 1]
      BY <2>2, <2>3, PrependFacts
    <3>2. Len(s) \in Nat
      OBVIOUS
    <3> SUFFICES ASSUME NEW m \in 1 .. Len(t), NEW n \in 1 .. Len(t), m < n, t[n] \in G
                 PROVE  t[m] \in G
      OBVIOUS
    <3>3. CASE m = 1
      BY <2>2, <2>3, <3>1, <3>3
    <3>4. CASE m # 1
      <4>1. /\ m - 1 \in 1 .. Len(s) /\ n - 1 \in 1 .. Len(s) /\ m - 1 < n - 1
            /\ t[m] = s[m - 1] /\ t[n] = s[n - 1]
        BY <3>1, <3>2, <3>4
      <4> QED
        BY <1>8, <4>1
    <3> QED
      BY <3>3, <3>4
  <2>4. CASE t = Append(s, p) /\ ~UntilFree(p)
    <3>1. /\ Len(t) = Len(s) + 1 /\ Len(s) \in Nat /\ t[Len(s) + 1] = p
          /\ \A i \in 1 .. Len(s) : t[i] = s[i]
      BY <2>4
    <3> SUFFICES ASSUME NEW m \in 1 .. Len(t), NEW n \in 1 .. Len(t), m < n, t[n] \in G
                 PROVE  t[m] \in G
      OBVIOUS
    <3>2. n # Len(s) + 1
      BY <2>2, <2>4, <3>1
    <3>3. m \in 1 .. Len(s) /\ n \in 1 .. Len(s)
      BY <3>1, <3>2
    <3> QED
      BY <1>8, <3>1, <3>3
  <2> QED
    BY <1>9, <2>1, <2>3, <2>4
<1>12. CASE DequeueRemove(p)
  <2>1. t = IF l = Lk(p) /\ lwWaiting[p] = LW_WS_WAITING THEN DeleteAt(s, Position(s, p)) ELSE s
    BY <1>1, <1>2, <1>12, DomainsHold DEF DequeueRemove, Domains
  <2>2. CASE l = Lk(p) /\ lwWaiting[p] = LW_WS_WAITING
    <3>1. p \in Elements(s)
      BY <1>1, <1>12, <2>2 DEF ListInv, Queued, DequeueRemove
    <3>2. PICK i : i = Position(s, p)
      OBVIOUS
    <3>3. i \in 1 .. Len(s)
      BY <3>1, <3>2, PositionFound
    <3> QED
      BY <1>10, <2>1, <2>2, <3>2, <3>3
  <2> QED
    BY <1>9, <2>1, <2>2
<1>13. ASSUME NEW i, Collects(p, i)
       PROVE  \A m, n \in 1 .. Len(t) : m < n /\ t[n] \in G => t[m] \in G
  <2>1. PICK k, q : Moved(p, i, k, q)
    BY <1>13, Collected
  <2>2. CASE l = k
    BY <1>1, <1>2, <1>10, <2>1, <2>2 DEF Moved
  <2>3. CASE l # k
    BY <1>1, <1>2, <1>9, <2>1, <2>3 DEF Moved
  <2> QED
    BY <2>2, <2>3
<1>14. CASE ListsQuiet(p) \/ DequeueUnlock(p) \/ WakeClear(p)
  BY <1>1, <1>2, <1>9, <1>14 DEF ListsQuiet, DequeueUnlock, WakeClear, lockVars
<1>15. CASE UpdateVarCollect(p) \/ WakeupCollect(p)
  BY <1>13, <1>15, CollectActions
<1> QED
  BY <1>11, <1>12, <1>14, <1>15, StepListsQuiet DEF ListAction

(* A step of p leaves what another process passed over.                    *)
LEMMA OthersPassed ==
  ASSUME IInv, LockInv, PlaceInv, ListInv, ScanInv, NEW p \in Proc, Frame(p), StepOf(p),
         NEW r \in Proc, r # p, PassedOver(r)
  PROVE  PassedOver(r)'
<1>1. pc'[r] = pc[r] /\ iter'[r] = iter[r] /\ Lk(r)' = Lk(r)
  BY DEF Frame, Lk
<1> SUFFICES ASSUME pc[r] \in {"wscan", "wcas"}
             PROVE  PassedOver(r)'
  BY <1>1 DEF PassedOver
<1>2. PICK l \in Locks : l = Lk(r)
  BY DEF IInv, ControlInv, ControlAt
<1>3. ~(Lk(r) = Lk(p) /\ pc[p] \in ListLockPcs)
  BY DEF LockInv, ListLockPcs
<1>4. waiters'[l] = waiters[l]
  BY <1>2, <1>3, StepListsLocked DEF ListsLocked
<1>5. PICK s : s = waiters[l]
  OBVIOUS
<1>6. \A q \in Elements(s) : UntilFree(q)' <=> UntilFree(q)
  BY <1>5, ListModesKept
<1>7. ASSUME NEW i \in 1 .. Len(s), i < iter[r] \/ pc[r] = "wcas"
      PROVE  ~UntilFree(s[i]) /\ s[i] \in Elements(s)
  BY <1>2, <1>5, <1>7 DEF PassedOver, Elements
<1>8. ASSUME NEW i \in 1 .. Len(s), i < iter[r] \/ pc[r] = "wcas"
      PROVE  ~UntilFree(waiters[Lk(r)][i])'
  <2>1. PICK q : q = s[i]
    OBVIOUS
  <2>2. ~UntilFree(q)'
    BY <1>6, <1>7, <1>8, <2>1
  <2>3. waiters'[Lk(r)'][i] = q
    BY <1>1, <1>2, <1>4, <1>5, <2>1
  <2> QED
    BY <2>2, <2>3 DEF UntilFree, LwWaitMode
<1>9. waiters'[Lk(r)'] = s
  BY <1>1, <1>2, <1>4, <1>5
<1> QED
  BY <1>1, <1>8, <1>9 DEF PassedOver

(* LWLockWakeup passes over exclusive waiters only, and stops only at one. *)
LEMMA OwnPassed ==
  ASSUME IInv, LockInv, PlaceInv, ListInv, WakeupInv, ScanInv, SortInv, NEW p \in Proc,
         Frame(p), StepOf(p)
  PROVE  PassedOver(p)'
<1> USE DEF Go
<1>1. Domains /\ ScanAt(p) /\ PassedOver(p) /\ (pc[p] # "idle" => Lk(p) \in Locks)
  BY DomainsHold DEF ScanInv, SortInv, IInv, ControlInv, ControlAt
<1>2. CASE pc'[p] \notin {"wscan", "wcas"}
  BY <1>2 DEF PassedOver
<1>3. CASE LWLockWaitListLock(p)
  <2>1. \/ pc[p] = "wlock" /\ pc'[p] = "wscan"
        \/ pc'[p] \notin {"wscan", "wcas"}
    BY <1>1, <1>3 DEF LWLockWaitListLock, WaitListLock, Domains
  <2>2. CASE pc[p] = "wlock" /\ pc'[p] = "wscan"
    <3>1. iter'[p] = 1
      BY <1>1, <1>3, <2>2 DEF LWLockWaitListLock, WaitListLock, ScanAt, wakeLocal
    <3>2. \A i \in 1 .. Len(waiters'[Lk(p)']) : ~(i < 1)
      OBVIOUS
    <3> QED
      BY <2>2, <3>1, <3>2 DEF PassedOver
  <2> QED
    BY <1>2, <2>1, <2>2
<1>4. CASE WakeupSkip(p)
  <2>1. /\ pc[p] = "wscan" /\ pc' = pc /\ call' = call /\ waiters' = waiters
        /\ iter'[p] = iter[p] + 1 /\ LwWaitMode(waiters[Lk(p)][iter[p]]) = LW_EXCLUSIVE
    BY <1>1, <1>4 DEF WakeupSkip, lockVars, Domains
  <2>2. PICK s : s = waiters[Lk(p)]
    OBVIOUS
  <2>3. \A q : UntilFree(q)' <=> UntilFree(q)
    BY <2>1 DEF UntilFree, LwWaitMode
  <2>4. waiters'[Lk(p)'] = s /\ iter[p] \in Nat
    BY <2>1, <2>2 DEF Lk, IInv, PrivateTypes
  <2>5. ASSUME NEW i \in 1 .. Len(s), i < iter[p] + 1
        PROVE  ~UntilFree(s[i])
    <3>1. CASE i = iter[p]
      BY <2>1, <2>2, <3>1 DEF UntilFree, LW_EXCLUSIVE, LW_WAIT_UNTIL_FREE
    <3>2. CASE i # iter[p]
      <4>1. i < iter[p]
        BY <2>4, <2>5, <3>2
      <4> QED
        BY <1>1, <2>1, <2>2, <4>1 DEF PassedOver
    <3> QED
      BY <3>1, <3>2
  <2>6. ASSUME NEW i \in 1 .. Len(s), i < iter[p] + 1
        PROVE  ~UntilFree(waiters[Lk(p)][i])'
    <3>1. PICK q : q = s[i]
      OBVIOUS
    <3>2. ~UntilFree(q)' /\ waiters'[Lk(p)'][i] = q
      BY <2>3, <2>4, <2>5, <2>6, <3>1
    <3> QED
      BY <3>2 DEF UntilFree, LwWaitMode
  <2> QED
    BY <2>1, <2>4, <2>6 DEF PassedOver
<1>5. CASE WakeupCollect(p)
  <2>1. PICK j : j = iter[p]
    OBVIOUS
  <2>2. Collects(p, j)
    BY <1>5, <2>1, CollectActions
  <2>3. PICK l, q : Moved(p, j, l, q)
    BY <2>2, Collected
  <2>4. /\ pc[p] = "wscan" /\ iter' = iter /\ call' = call
        /\ pc'[p] = IF LwWaitMode(q) = LW_EXCLUSIVE THEN "wcas" ELSE "wscan"
    BY <1>1, <1>5, <2>1, <2>3 DEF WakeupCollect, Domains, Moved
  <2>5. PICK s \in Seq(Proc) : s = waiters[l]
    BY <2>3 DEF Moved
  <2>6. PICK t : t = DeleteAt(s, j)
    OBVIOUS
  <2>7. /\ j \in 1 .. Len(s) /\ q = s[j] /\ waiters'[Lk(p)'] = t /\ l = Lk(p) /\ l \in Locks
    BY <2>3, <2>4, <2>5, <2>6 DEF Moved, Lk
  <2>8. /\ Len(t) = Len(s) - 1 /\ Len(s) \in Nat
        /\ \A i \in 1 .. Len(s) - 1 : t[i] = IF i < j THEN s[i] ELSE s[i + 1]
    BY <2>6, <2>7, DeleteAtElements
  <2>9. \A r : UntilFree(r)' <=> UntilFree(r)
    BY <2>4 DEF UntilFree, LwWaitMode
  <2>10. \A i \in 1 .. Len(s) : i < j => ~UntilFree(s[i])
    BY <1>1, <2>1, <2>4, <2>5, <2>7 DEF PassedOver
  <2>11. pc'[p] = "wcas" => \A i \in 1 .. Len(s) : j < i => ~UntilFree(s[i])
    <3>1. pc'[p] = "wcas" => ~UntilFree(q)
      BY <2>4 DEF UntilFree, LW_EXCLUSIVE, LW_WAIT_UNTIL_FREE
    <3> QED
      BY <2>5, <2>7, <3>1 DEF SortInv, Sorted
  <2>12. ASSUME NEW i \in 1 .. Len(t), i < j \/ pc'[p] = "wcas"
         PROVE  ~UntilFree(t[i])
    <3>1. CASE i < j
      BY <2>7, <2>8, <2>10, <3>1
    <3>2. CASE ~(i < j)
      <4>1. i + 1 \in 1 .. Len(s) /\ j < i + 1 /\ t[i] = s[i + 1]
        BY <2>7, <2>8, <3>2
      <4> QED
        BY <2>11, <2>12, <3>2, <4>1
    <3> QED
      BY <3>1, <3>2
  <2>13. ASSUME NEW i \in 1 .. Len(t), i < j \/ pc'[p] = "wcas"
         PROVE  ~UntilFree(waiters[Lk(p)][i])'
    <3>1. PICK r : r = t[i]
      OBVIOUS
    <3>2. ~UntilFree(r)' /\ waiters'[Lk(p)'][i] = r
      BY <2>7, <2>9, <2>12, <2>13, <3>1
    <3> QED
      BY <3>2 DEF UntilFree, LwWaitMode
  <2> QED
    BY <2>1, <2>4, <2>7, <2>13 DEF PassedOver
<1>6. CASE WakeupScanEnd(p)
  <2>1. /\ pc[p] = "wscan" /\ iter[p] > Len(waiters[Lk(p)]) /\ waiters' = waiters
        /\ call' = call
    BY <1>6 DEF WakeupScanEnd, lockVars
  <2>2. PICK s \in Seq(Proc) : s = waiters[Lk(p)]
    BY <1>1, <2>1 DEF IInv, SharedTypes
  <2>3. \A q : UntilFree(q)' <=> UntilFree(q)
    BY <2>1 DEF UntilFree, LwWaitMode
  <2>4. waiters'[Lk(p)'] = s /\ iter[p] \in Nat
    BY <2>1, <2>2 DEF Lk, IInv, PrivateTypes
  <2>5. ASSUME NEW i \in 1 .. Len(s)
        PROVE  ~UntilFree(s[i])
    <3>1. i < iter[p]
      BY <2>1, <2>2, <2>4
    <3> QED
      BY <1>1, <2>1, <2>2, <3>1 DEF PassedOver
  <2>6. ASSUME NEW i \in 1 .. Len(s)
        PROVE  ~UntilFree(waiters[Lk(p)][i])'
    <3>1. PICK q : q = s[i]
      OBVIOUS
    <3>2. ~UntilFree(q)' /\ waiters'[Lk(p)'][i] = q
      BY <2>3, <2>4, <2>5, <3>1
    <3> QED
      BY <3>2 DEF UntilFree, LwWaitMode
  <2> QED
    BY <2>4, <2>6 DEF PassedOver
<1>7. CASE \/ UpdateVarCollect(p) \/ UpdateVarUnlock(p) \/ WakeupFlags(p)
           \/ WakeClear(p) \/ WakePost(p) \/ WakeEnd(p)
  <2>1. pc'[p] \notin {"wscan", "wcas"}
    BY <1>1, <1>7 DEF UpdateVarCollect, UpdateVarUnlock, WakeupFlags, WakeClear, WakePost,
                      WakeEnd, Finished, Domains
  <2> QED
    BY <1>2, <2>1
<1> QED
  BY <1>2, <1>3, <1>4, <1>5, <1>6, <1>7, StepScanIdle DEF ScanAction, ScanIdle

(* Every step keeps the wait lists sorted, and LWLockWakeup's promise to   *)
(* leave none of those in front behind.                                    *)
LEMMA SortStep ==
  ASSUME IInv, IInv', LockInv, PlaceInv, ListInv, WakeupInv, ScanInv, SortInv,
         NEW p \in Proc, Frame(p), StepOf(p)
  PROVE  SortInv'
<1>1. \A l \in Locks : Sorted(l)'
  BY SortedStep DEF SortInv
<1>2. ASSUME NEW r \in Proc
      PROVE  PassedOver(r)'
  <2>1. CASE r = p
    BY <2>1, OwnPassed
  <2>2. CASE r # p
    BY <2>2, OthersPassed DEF SortInv
  <2> QED
    BY <2>1, <2>2
<1> QED
  BY <1>1, <1>2 DEF SortInv

-----------------------------------------------------------------------------
(* The processes about to post the semaphore of q.                         *)
Posting(q) == {r \in Proc : wakee[r] = q}

(* SemaphoreBalanced, one process at a time.                               *)
Balanced(q) ==
  sem[q] + extraWaits[q] + Cardinality(Posting(q))
    = spurious[q] + (IF WakeupDue(q) THEN 1 ELSE 0)

(* SemaphoreBalanced says that each process is balanced.                   *)
LEMMA BalancedForms == SemaphoreBalanced <=> \A q \in Proc : Balanced(q)
BY DEF SemaphoreBalanced, Balanced, Posting

(* Only finitely many processes are about to post one semaphore.           *)
LEMMA PostingFacts ==
  ASSUME NEW q
  PROVE  IsFiniteSet(Posting(q)) /\ Cardinality(Posting(q)) \in Nat
<1>1. Posting(q) \subseteq Proc
  BY DEF Posting
<1> QED
  BY <1>1, ConstantsAssumption, FS_Subset, FS_CardinalityType

(* A step of p that leaves the semaphores alone.                           *)
SemQuiet(p) ==
  /\ sem' = sem /\ extraWaits' = extraWaits /\ wakee' = wakee /\ spurious' = spurious
  /\ pc[p] # "wsem" /\ pc'[p] # "wsem"
  /\ \A q \in Proc : WakeupDue(q)' <=> WakeupDue(q)

SemAction(p) == Sleep(p) \/ DequeueSleep(p) \/ Return(p) \/ WakeClear(p) \/ WakePost(p)

(* Every step but those on a semaphore leaves the balance of every process *)
(* alone.                                                                  *)
LEMMA StepSemQuiet ==
  ASSUME IInv, PlaceInv, ListInv, WakeupInv, ScanInv, NEW p \in Proc, Frame(p), StepOf(p)
  PROVE  SemQuiet(p) \/ SemAction(p)
<1> USE DEF LW_WS_WAITING, LW_WS_NOT_WAITING, LW_WS_PENDING_WAKEUP
<1>1. ASSUME sem' = sem, extraWaits' = extraWaits, wakee' = wakee, spurious' = spurious,
             pc[p] # "wsem", pc'[p] # "wsem", WakeupDue(p)' <=> WakeupDue(p),
             \A q \in Proc : q # p => \/ lwWaiting'[q] = lwWaiting[q]
                                    \/ /\ lwWaiting[q] # LW_WS_NOT_WAITING
                                       /\ lwWaiting'[q] # LW_WS_NOT_WAITING
      PROVE  SemQuiet(p)
  <2>1. \A q \in Proc : q # p => (WakeupDue(q)' <=> WakeupDue(q))
    BY <1>1 DEF WakeupDue, Frame
  <2> QED
    BY <1>1, <2>1 DEF SemQuiet
<1> HIDE DEF LW_WS_WAITING, LW_WS_NOT_WAITING, LW_WS_PENDING_WAKEUP
<1> DEFINE Q == /\ sem' = sem /\ extraWaits' = extraWaits /\ wakee' = wakee
                /\ spurious' = spurious
                /\ pc[p] # "wsem" /\ pc'[p] # "wsem" /\ (WakeupDue(p)' <=> WakeupDue(p))
<1>2. /\ Domains
      /\ lwWaiting[p] # LW_WS_NOT_WAITING => pc[p] \in QueuedPcs
  BY DomainsHold DEF PlaceInv
<1> USE DEF Go, Lk, lockVars, procVars, waitLocal, wakeLocal, Domains, WakeupDue, QueuedPcs,
            DequeuePcs
<1>3. CASE Call(p) \/ CallEnd(p)
  <2>1. PICK to, c : Begin(p, to, c) /\ to \in {"try1", "vtest1", "ulock", "clock", "rel"}
    BY <1>3, CallBegin
  <2>2. Q /\ lwWaiting' = lwWaiting
    BY <1>2, <2>1 DEF Begin
  <2> QED
    BY <1>1, <2>2
<1>4. CASE LWLockWaitListLock(p)
  <2>1. Q /\ lwWaiting' = lwWaiting
    BY <1>2, <1>4 DEF LWLockWaitListLock, WaitListLock
  <2> QED
    BY <1>1, <2>1
<1>5. CASE QueueSetFlag(p)
  <2>1. Q /\ lwWaiting' = lwWaiting
    BY <1>2, <1>5 DEF QueueSetFlag, FetchOr
  <2> QED
    BY <1>1, <2>1
<1>6. CASE QueuePush(p)
  <2>1. Q /\ \A q \in Proc : q # p => lwWaiting'[q] = lwWaiting[q]
    BY <1>2, <1>6 DEF QueuePush, LW_WS_WAITING, LW_WS_NOT_WAITING
  <2> QED
    BY <1>1, <2>1
<1>7. CASE DequeueRemove(p)
  <2>1. Q /\ lwWaiting' = lwWaiting
    BY <1>2, <1>7 DEF DequeueRemove
  <2> QED
    BY <1>1, <2>1
<1>8. CASE DequeueUnlock(p)
  <2>1. Q /\ \A q \in Proc : q # p => lwWaiting'[q] = lwWaiting[q]
    BY <1>2, <1>8 DEF DequeueUnlock, AfterDequeue, LW_WS_WAITING, LW_WS_NOT_WAITING
  <2> QED
    BY <1>1, <2>1
<1>9. CASE DequeueReleaseOk(p)
  <2>1. Q /\ lwWaiting' = lwWaiting
    BY <1>2, <1>9 DEF DequeueReleaseOk, FetchOr
  <2> QED
    BY <1>1, <2>1
<1>10. CASE RetryReleaseOk(p)
  <2>1. Q /\ lwWaiting' = lwWaiting
    BY <1>2, <1>10 DEF RetryReleaseOk, FetchOr
  <2> QED
    BY <1>1, <2>1
<1>11. CASE LWLockConflictsWithVar(p)
  <2>1. Q /\ lwWaiting' = lwWaiting
    BY <1>2, <1>11 DEF LWLockConflictsWithVar, ConflictTest, ConflictValue
  <2> QED
    BY <1>1, <2>1
<1>12. CASE WaitForVarReleaseOk(p)
  <2>1. Q /\ lwWaiting' = lwWaiting
    BY <1>2, <1>12 DEF WaitForVarReleaseOk, FetchOr
  <2> QED
    BY <1>1, <2>1
<1>13. CASE UpdateVarSet(p)
  <2>1. Q /\ lwWaiting' = lwWaiting
    BY <1>2, <1>13 DEF UpdateVarSet
  <2> QED
    BY <1>1, <2>1
<1>14. CASE UpdateVarUnlock(p)
  <2>1. Q /\ lwWaiting' = lwWaiting
    BY <1>2, <1>14 DEF UpdateVarUnlock
  <2> QED
    BY <1>1, <2>1
<1>15. CASE ClearVar(p)
  <2>1. Q /\ lwWaiting' = lwWaiting
    BY <1>2, <1>15 DEF ClearVar
  <2> QED
    BY <1>1, <2>1
<1>16. CASE WakeupSkip(p)
  <2>1. Q /\ lwWaiting' = lwWaiting
    BY <1>2, <1>16 DEF WakeupSkip
  <2> QED
    BY <1>1, <2>1
<1>17. CASE WakeupScanEnd(p)
  <2>1. Q /\ lwWaiting' = lwWaiting
    BY <1>2, <1>17 DEF WakeupScanEnd
  <2> QED
    BY <1>1, <2>1
<1>18. CASE WakeupFlags(p)
  <2>1. Q /\ lwWaiting' = lwWaiting
    BY <1>2, <1>18 DEF WakeupFlags
  <2> QED
    BY <1>1, <2>1
<1>19. CASE WakeEnd(p)
  <2>1. Q /\ lwWaiting' = lwWaiting
    BY <1>2, <1>19 DEF WakeEnd, Finished
  <2> QED
    BY <1>1, <2>1
<1>20. CASE FirstAttempt(p)
  <2>1. Q /\ lwWaiting' = lwWaiting
    BY <1>2, <1>20 DEF FirstAttempt, AttemptLock
  <2> QED
    BY <1>1, <2>1
<1>21. CASE SecondAttempt(p)
  <2>1. Q /\ lwWaiting' = lwWaiting
    BY <1>2, <1>21 DEF SecondAttempt, AttemptLock
  <2> QED
    BY <1>1, <2>1
<1>22. CASE Release(p)
  <2>1. Q /\ lwWaiting' = lwWaiting
    BY <1>2, <1>22 DEF Release, Finished
  <2> QED
    BY <1>1, <2>1
<1>23. CASE UpdateVarCollect(p) \/ WakeupCollect(p)
  <2>1. PICK i : Collects(p, i)
    BY <1>23, CollectActions
  <2>2. PICK l, q : Moved(p, i, l, q)
    BY <2>1, Collected
  <2>3. /\ sem' = sem /\ extraWaits' = extraWaits /\ wakee' = wakee /\ spurious' = spurious
        /\ pc[p] \in {"ucollect", "wscan"} /\ pc'[p] \in {"ucollect", "wscan", "wcas"}
    BY <1>23, <2>1 DEF UpdateVarCollect, WakeupCollect, Collects
  <2>4. Q
    BY <2>3
  <2>5. \A r \in Proc : r # p => \/ lwWaiting'[r] = lwWaiting[r]
                                 \/ /\ lwWaiting[r] # LW_WS_NOT_WAITING
                                    /\ lwWaiting'[r] # LW_WS_NOT_WAITING
    BY <2>2 DEF Moved, Queued, LW_WS_WAITING, LW_WS_NOT_WAITING, LW_WS_PENDING_WAKEUP
  <2> QED
    BY <1>1, <2>4, <2>5
<1> QED
  BY <1>3, <1>4, <1>5, <1>6, <1>7, <1>8, <1>9, <1>10, <1>11, <1>12, <1>13, <1>14, <1>15, <1>16,
     <1>17, <1>18, <1>19, <1>20, <1>21, <1>22, <1>23 DEF StepOf, Step, SemAction

(* The steps that wait on a semaphore or post one.                         *)
LEMMA SemActionBalanced ==
  ASSUME IInv, PlaceInv, WakeupInv, SemInv, NEW p \in Proc, Frame(p), SemAction(p)
  PROVE  SemInv'
<1> USE DEF Go
<1>1. /\ Domains
      /\ lwWaiting[p] # LW_WS_NOT_WAITING => pc[p] \in QueuedPcs
      /\ sem \in [Proc -> Nat] /\ extraWaits \in [Proc -> Nat]
      /\ spurious \in [Proc -> Nat]
      /\ \A q \in Proc : wakee[q] # NoProc <=> pc[q] = "wsem"
      /\ \A q \in Proc : Balanced(q)
  <2>1. sem \in [Proc -> Nat] /\ extraWaits \in [Proc -> Nat]
    BY DEF IInv, SharedTypes, PrivateTypes
  <2>2. spurious \in [Proc -> Nat]
    BY ConstantsAssumption DEF IInv, SharedTypes
  <2> QED
    BY <2>1, <2>2, DomainsHold, BalancedForms DEF PlaceInv, SemInv
<1>2. ASSUME NEW q \in Proc, q # p, wakee' = wakee, sem'[q] = sem[q],
             lwWaiting' = lwWaiting, spurious' = spurious
      PROVE  Balanced(q)'
  <2>1. /\ Posting(q)' = Posting(q) /\ (WakeupDue(q)' <=> WakeupDue(q))
        /\ extraWaits'[q] = extraWaits[q] /\ spurious'[q] = spurious[q]
    BY <1>2 DEF Posting, WakeupDue, Frame
  <2> QED
    BY <1>1, <1>2, <2>1 DEF Balanced
<1>3. CASE Sleep(p) \/ DequeueSleep(p)
  <2>1. /\ sem' = [sem EXCEPT ![p] = @ - 1] /\ sem[p] > 0
        /\ wakee' = wakee /\ lwWaiting' = lwWaiting /\ spurious' = spurious
        /\ pc[p] \in {"sleep", "dsleep"}
    BY <1>3 DEF Sleep, DequeueSleep, SemaphoreWait, wakeLocal
  <2>2. \/ /\ lwWaiting[p] = LW_WS_NOT_WAITING /\ extraWaits'[p] = extraWaits[p]
           /\ pc'[p] \in {"relok", "failed", "vtest1", "vreturn", "acquired"}
        \/ /\ lwWaiting[p] # LW_WS_NOT_WAITING /\ extraWaits'[p] = extraWaits[p] + 1
           /\ pc'[p] = pc[p]
    BY <1>1, <1>3 DEF Sleep, DequeueSleep, SemaphoreWait, AfterSleep, AfterDequeue, Domains
  <2>3. Posting(p)' = Posting(p)
    BY <2>1 DEF Posting
  <2>4. \/ WakeupDue(p) /\ ~WakeupDue(p)' /\ extraWaits'[p] = extraWaits[p]
        \/ ~WakeupDue(p) /\ ~WakeupDue(p)' /\ extraWaits'[p] = extraWaits[p] + 1
    BY <2>1, <2>2 DEF WakeupDue, QueuedPcs, DequeuePcs
  <2>5. Balanced(p)'
    <3>1. Balanced(p) /\ Cardinality(Posting(p)) \in Nat
      BY <1>1, PostingFacts
    <3>2. /\ sem'[p] = sem[p] - 1 /\ spurious'[p] = spurious[p]
          /\ sem[p] \in Nat /\ extraWaits[p] \in Nat /\ spurious[p] \in Nat
      BY <1>1, <2>1
    <3>3. PICK c \in Nat : c = Cardinality(Posting(p)) /\ c = Cardinality(Posting(p)')
      BY <2>3, <3>1
    <3>4. CASE WakeupDue(p)
      BY <2>4, <3>1, <3>2, <3>3, <3>4 DEF Balanced
    <3>5. CASE ~WakeupDue(p)
      BY <2>4, <3>1, <3>2, <3>3, <3>5 DEF Balanced
    <3> QED
      BY <3>4, <3>5
  <2>6. \A q \in Proc : q # p => Balanced(q)'
    BY <1>1, <1>2, <2>1
  <2>7. \A q \in Proc : wakee'[q] # NoProc <=> pc'[q] = "wsem"
    BY <1>1, <2>1, <2>2 DEF Frame
  <2> QED
    BY <2>5, <2>6, <2>7, BalancedForms DEF SemInv, SemaphoreBalanced, Balanced, Posting
<1>4. CASE Return(p)
  <2>1. /\ sem'[p] = sem[p] + extraWaits[p] /\ extraWaits'[p] = 0
        /\ \A q \in Proc : q # p => sem'[q] = sem[q]
        /\ wakee' = wakee /\ lwWaiting' = lwWaiting /\ spurious' = spurious
        /\ pc[p] \in {"acquired", "failed", "vreturn"} /\ pc'[p] = "idle"
    BY <1>1, <1>4 DEF Return, wakeLocal, Domains
  <2>2. Posting(p)' = Posting(p) /\ ~WakeupDue(p) /\ ~WakeupDue(p)'
    BY <2>1 DEF Posting, WakeupDue, QueuedPcs, DequeuePcs
  <2>3. Balanced(p)'
    <3>1. Balanced(p) /\ Cardinality(Posting(p)) \in Nat
      BY <1>1, PostingFacts
    <3> QED
      BY <1>1, <2>1, <2>2, <3>1 DEF Balanced
  <2>4. \A q \in Proc : q # p => Balanced(q)'
    BY <1>2, <2>1
  <2>5. \A q \in Proc : wakee'[q] # NoProc <=> pc'[q] = "wsem"
    BY <1>1, <2>1 DEF Frame
  <2> QED
    BY <2>3, <2>4, <2>5 DEF SemInv, SemaphoreBalanced, Balanced, Posting
<1>5. CASE WakeClear(p)
  <2>1. PICK s \in Seq(Proc) : s = wakeup[p]
    BY DEF IInv, PrivateTypes
  <2>2. PICK q : q = s[1]
    OBVIOUS
  <2>3. q \in Elements(s) /\ q \in Proc
    BY <1>5, <2>1, <2>2, ElementsFacts DEF WakeClear
  <2>4. lwWaiting[q] = LW_WS_PENDING_WAKEUP /\ pc[q] \in QueuedPcs
    BY <2>1, <2>3 DEF WakeupInv, PlaceInv, LW_WS_PENDING_WAKEUP, LW_WS_NOT_WAITING
  <2>5. /\ pc[p] = "wake" /\ pc'[p] = "wsem" /\ wakee'[p] = q
        /\ \A r \in Proc : r # p => wakee'[r] = wakee[r]
        /\ lwWaiting'[q] = LW_WS_NOT_WAITING
        /\ \A r \in Proc : r # q => lwWaiting'[r] = lwWaiting[r]
        /\ sem' = sem /\ extraWaits' = extraWaits /\ spurious' = spurious
    BY <1>1, <1>5, <2>1, <2>2, <2>3 DEF WakeClear, waitLocal, Domains
  <2>6. q # p /\ wakee[p] = NoProc /\ NoProc \notin Proc
    BY <1>1, <2>4, <2>5, ConstantsAssumption DEF QueuedPcs, DequeuePcs
  <2>7. Balanced(q)'
    <3>1. ~WakeupDue(q) /\ WakeupDue(q)'
      BY <2>3, <2>4, <2>5, <2>6 DEF WakeupDue, Frame, LW_WS_PENDING_WAKEUP, LW_WS_NOT_WAITING
    <3>2. Posting(q)' = Posting(q) \cup {p} /\ p \notin Posting(q)
      BY <2>3, <2>5, <2>6 DEF Posting
    <3>3. /\ IsFiniteSet(Posting(q)) /\ Cardinality(Posting(q)) \in Nat
      BY PostingFacts
    <3>4. PICK P : P = Posting(q)
      OBVIOUS
    <3>5. Cardinality(P \cup {p}) = Cardinality(P) + 1
      BY <3>2, <3>3, <3>4, FS_AddElement
    <3>6. Cardinality(Posting(q)') = Cardinality(Posting(q)) + 1
      BY <3>2, <3>4, <3>5
    <3>7. Balanced(q)
      BY <1>1, <2>3
    <3> QED
      BY <1>1, <2>3, <2>5, <3>1, <3>3, <3>6, <3>7 DEF Balanced
  <2>8. ASSUME NEW r \in Proc, r # q
        PROVE  Balanced(r)'
    <3>1. WakeupDue(r)' <=> WakeupDue(r)
      <4>1. CASE r = p
        BY <2>5, <4>1 DEF WakeupDue, QueuedPcs, DequeuePcs
      <4>2. CASE r # p
        BY <2>5, <2>8, <4>2 DEF WakeupDue, Frame
      <4> QED
        BY <4>1, <4>2
    <3>2. Posting(r)' = Posting(r)
      BY <2>5, <2>6, <2>8 DEF Posting
    <3>3. Balanced(r)
      BY <1>1
    <3> QED
      BY <2>5, <3>1, <3>2, <3>3 DEF Balanced
  <2>9. \A r \in Proc : wakee'[r] # NoProc <=> pc'[r] = "wsem"
    <3>1. wakee'[p] # NoProc /\ pc'[p] = "wsem"
      BY <2>3, <2>5, <2>6
    <3>2. \A r \in Proc : r # p => wakee'[r] = wakee[r] /\ pc'[r] = pc[r]
      BY DEF Frame
    <3> QED
      BY <1>1, <3>1, <3>2
  <2> QED
    BY <2>7, <2>8, <2>9 DEF SemInv, SemaphoreBalanced, Balanced, Posting
<1>6. CASE WakePost(p)
  <2>1. PICK q : q = wakee[p]
    OBVIOUS
  <2>2. pc[p] = "wsem" /\ q \in Proc
    BY <1>1, <1>6, <2>1 DEF WakePost, IInv, PrivateTypes
  <2>3. /\ sem' = [sem EXCEPT ![q] = @ + 1] /\ wakee'[p] = NoProc /\ pc'[p] = "wake"
        /\ \A r \in Proc : r # p => wakee'[r] = wakee[r]
        /\ lwWaiting' = lwWaiting /\ extraWaits' = extraWaits /\ spurious' = spurious
    BY <1>1, <1>6, <2>1 DEF WakePost, waitLocal, Domains
  <2>4. \A r \in Proc : WakeupDue(r)' <=> WakeupDue(r)
    <3> SUFFICES ASSUME NEW r \in Proc
                 PROVE  WakeupDue(r)' <=> WakeupDue(r)
      OBVIOUS
    <3>1. CASE r = p
      BY <2>2, <2>3, <3>1 DEF WakeupDue, QueuedPcs, DequeuePcs
    <3>2. CASE r # p
      BY <2>3, <3>2 DEF WakeupDue, Frame
    <3> QED
      BY <3>1, <3>2
  <2>5. NoProc \notin Proc
    BY ConstantsAssumption
  <2>6. Balanced(q)'
    <3>1. Posting(q)' = Posting(q) \ {p} /\ p \in Posting(q)
      BY <2>1, <2>2, <2>3, <2>5 DEF Posting
    <3>2. /\ IsFiniteSet(Posting(q)) /\ Cardinality(Posting(q)) \in Nat
      BY PostingFacts
    <3>3. PICK P : P = Posting(q)
      OBVIOUS
    <3>4. Cardinality(P \ {p}) = Cardinality(P) - 1
      BY <3>1, <3>2, <3>3, FS_RemoveElement
    <3>5. Cardinality(Posting(q)') = Cardinality(Posting(q)) - 1
      BY <3>1, <3>3, <3>4
    <3>6. Balanced(q) /\ sem'[q] = sem[q] + 1
      BY <1>1, <2>2, <2>3
    <3> QED
      BY <1>1, <2>2, <2>3, <2>4, <3>2, <3>5, <3>6 DEF Balanced
  <2>7. ASSUME NEW r \in Proc, r # q
        PROVE  Balanced(r)'
    <3>1. Posting(r)' = Posting(r)
      BY <2>1, <2>3, <2>5, <2>7 DEF Posting
    <3>2. Balanced(r) /\ sem'[r] = sem[r]
      BY <1>1, <2>2, <2>3, <2>7
    <3> QED
      BY <2>3, <2>4, <3>1, <3>2 DEF Balanced
  <2>8. \A r \in Proc : wakee'[r] # NoProc <=> pc'[r] = "wsem"
    BY <1>1, <2>3 DEF Frame
  <2> QED
    BY <2>6, <2>7, <2>8 DEF SemInv, SemaphoreBalanced, Balanced, Posting
<1> QED
  BY <1>3, <1>4, <1>5, <1>6 DEF SemAction

(* Every step keeps the semaphores balanced.                               *)
LEMMA SemStep ==
  ASSUME IInv, PlaceInv, ListInv, WakeupInv, ScanInv, SemInv, NEW p \in Proc, Frame(p), StepOf(p)
  PROVE  SemInv'
<1>1. CASE SemQuiet(p)
  <2>1. \A q \in Proc : wakee'[q] # NoProc <=> pc'[q] = "wsem"
    BY <1>1 DEF SemInv, SemQuiet, Frame
  <2>2. ASSUME NEW q \in Proc
        PROVE  Balanced(q)'
    <3>1. Balanced(q) /\ Posting(q)' = Posting(q)
      BY <1>1, BalancedForms DEF SemInv, SemQuiet, Posting
    <3> QED
      BY <1>1, <3>1 DEF SemQuiet, Balanced
  <2> QED
    BY <2>1, <2>2 DEF SemInv, SemaphoreBalanced, Balanced, Posting
<1> QED
  BY <1>1, StepSemQuiet, SemActionBalanced

-----------------------------------------------------------------------------
(* Only LWLockQueueSelf makes a process wait.                              *)
LwStep(p) ==
  \A q \in Proc : lwWaiting'[q] = LW_WS_WAITING =>
    lwWaiting[q] = LW_WS_WAITING \/ (q = p /\ pc[p] = "qpush")

(* Every step other than LWLockQueueSelf leaves the set of waiters as it   *)
(* is or smaller.                                                          *)
LEMMA StepLwStep ==
  ASSUME IInv, PlaceInv, ScanInv, NEW p \in Proc, StepOf(p)
  PROVE  LwStep(p)
<1> USE DEF LwStep, LW_WS_WAITING, LW_WS_NOT_WAITING, LW_WS_PENDING_WAKEUP
<1>1. Domains
  BY DomainsHold
<1> USE DEF Domains
<1>2. CASE ListsQuiet(p)
  BY <1>2 DEF ListsQuiet
<1>3. CASE QueuePush(p)
  BY <1>1, <1>3 DEF QueuePush
<1>4. CASE DequeueRemove(p)
  BY <1>1, <1>4 DEF DequeueRemove, procVars
<1>5. CASE DequeueUnlock(p)
  BY <1>1, <1>5 DEF DequeueUnlock, AfterDequeue
<1>6. CASE UpdateVarCollect(p)
  BY <1>1, <1>6 DEF UpdateVarCollect
<1>7. CASE WakeupCollect(p)
  BY <1>1, <1>7 DEF WakeupCollect
<1>8. CASE WakeClear(p)
  BY <1>1, <1>8 DEF WakeClear
<1> QED
  BY <1>2, <1>3, <1>4, <1>5, <1>6, <1>7, <1>8, StepListsQuiet DEF ListAction

(* A step of p and LW_FLAG_RELEASE_OK.                                     *)
RelStep(p) ==
  \A k \in Locks :
    /\ SetsReleaseOk(p, k) => SetsReleaseOk(p, k)' \/ RELEASE_OK \in flags'[k]
    /\ RELEASE_OK \in flags[k] =>
         RELEASE_OK \in flags'[k] \/ (pc[p] = "wcas" /\ k = Lk(p) /\ woke[p])

(* LW_FLAG_RELEASE_OK goes only when LWLockWakeup woke a process, and a    *)
(* process bound to set it sets it or stays bound.                         *)
LEMMA StepRelStep ==
  ASSUME IInv, PlaceInv, NEW p \in Proc, StepOf(p), LwStep(p)
  PROVE  RelStep(p)
<1> USE DEF Go, Lk, lockVars, procVars, LwStep, RelStep, SetsReleaseOk,
            HAS_WAITERS, RELEASE_OK, LOCKED
<1>1. /\ Domains
      /\ pc[p] # "idle" => Lk(p) \in Locks
  BY DomainsHold DEF IInv, ControlInv, ControlAt
<1> USE DEF Domains
<1>2. CASE Call(p) \/ CallEnd(p)
  <2>1. PICK to, c : /\ Begin(p, to, c)
                     /\ to \in {"try1", "vtest1", "ulock", "clock", "rel"}
                     /\ to = "clock" => c.op = "LWLockReleaseClearVar"
    BY <1>2, CallBegin
  <2> QED
    BY <1>1, <2>1 DEF Begin
<1>3. CASE LWLockWaitListLock(p)
  BY <1>1, <1>3 DEF LWLockWaitListLock, WaitListLock
<1>4. CASE QueueSetFlag(p)
  BY <1>1, <1>4 DEF QueueSetFlag, FetchOr
<1>5. CASE QueuePush(p)
  BY <1>1, <1>5 DEF QueuePush
<1>6. CASE DequeueRemove(p)
  BY <1>1, <1>6 DEF DequeueRemove
<1>7. CASE DequeueUnlock(p)
  BY <1>1, <1>7 DEF DequeueUnlock, AfterDequeue
<1>8. CASE DequeueReleaseOk(p)
  BY <1>1, <1>8 DEF DequeueReleaseOk, FetchOr
<1>9. CASE DequeueSleep(p)
  BY <1>1, <1>9 DEF DequeueSleep, SemaphoreWait, AfterDequeue
<1>10. CASE Sleep(p)
  BY <1>1, <1>10 DEF Sleep, SemaphoreWait, AfterSleep
<1>11. CASE RetryReleaseOk(p)
  BY <1>1, <1>11 DEF RetryReleaseOk, FetchOr
<1>12. CASE LWLockConflictsWithVar(p)
  BY <1>1, <1>12 DEF LWLockConflictsWithVar, ConflictTest, ConflictValue
<1>13. CASE WaitForVarReleaseOk(p)
  BY <1>1, <1>13 DEF WaitForVarReleaseOk, FetchOr
<1>14. CASE UpdateVarSet(p)
  BY <1>1, <1>14 DEF UpdateVarSet
<1>15. CASE UpdateVarCollect(p)
  BY <1>1, <1>15 DEF UpdateVarCollect
<1>16. CASE UpdateVarUnlock(p)
  BY <1>1, <1>16 DEF UpdateVarUnlock
<1>17. CASE ClearVar(p)
  BY <1>1, <1>17 DEF ClearVar
<1>18. CASE WakeupSkip(p)
  BY <1>1, <1>18 DEF WakeupSkip
<1>19. CASE WakeupCollect(p)
  BY <1>1, <1>19 DEF WakeupCollect
<1>20. CASE WakeupScanEnd(p)
  BY <1>1, <1>20 DEF WakeupScanEnd
<1>21. CASE WakeupFlags(p)
  BY <1>1, <1>21 DEF WakeupFlags
<1>22. CASE WakeClear(p)
  BY <1>1, <1>22 DEF WakeClear
<1>23. CASE WakePost(p)
  BY <1>1, <1>23 DEF WakePost
<1>24. CASE WakeEnd(p)
  BY <1>1, <1>24 DEF WakeEnd, Finished
<1>25. CASE FirstAttempt(p)
  BY <1>1, <1>25 DEF FirstAttempt, AttemptLock
<1>26. CASE SecondAttempt(p)
  BY <1>1, <1>26 DEF SecondAttempt, AttemptLock
<1>27. CASE Return(p)
  BY <1>1, <1>27 DEF Return
<1>28. CASE Release(p)
  BY <1>1, <1>28 DEF Release, Finished
<1> QED
  BY <1>2, <1>3, <1>4, <1>5, <1>6, <1>7, <1>8, <1>9, <1>10, <1>11, <1>12, <1>13, <1>14, <1>15,
     <1>16, <1>17, <1>18, <1>19, <1>20, <1>21, <1>22, <1>23, <1>24, <1>25, <1>26, <1>27, <1>28
     DEF StepOf, Step

(* Every step keeps LW_FLAG_RELEASE_OK on or a process bound to set it.    *)
LEMMA ReleaseOkStep ==
  ASSUME IInv, LockInv, WakeupInv, ScanInv, ReleaseOkInv, NEW p \in Proc, Frame(p), LwStep(p),
         RelStep(p), StepOf(p)
  PROVE  ReleaseOkInv'
<1> SUFFICES ASSUME NEW l \in Locks, RELEASE_OK \notin flags'[l]
             PROVE  \E q \in Proc : SetsReleaseOk(q, l)'
  BY DEF ReleaseOkInv
<1>1. CASE RELEASE_OK \in flags[l]
  <2>1. pc[p] = "wcas" /\ l = Lk(p) /\ woke[p] /\ ScanAt(p)
    BY <1>1 DEF RelStep, ScanInv
  <2>2. PICK q \in Elements(wakeup[p]) : WillTry(q, l)
    BY <2>1 DEF ScanAt
  <2>3. q \in Proc /\ lwWaiting[q] = LW_WS_PENDING_WAKEUP
    BY <2>2, ElementsFacts DEF IInv, PrivateTypes, WakeupInv
  <2>4. q # p
    BY <2>1, <2>2 DEF WillTry
  <2>5. /\ pc'[q] = pc[q] /\ call'[q] = call[q] /\ lwWaiting'[q] # LW_WS_WAITING
    BY <2>3, <2>4 DEF Frame, LwStep, LW_WS_PENDING_WAKEUP, LW_WS_WAITING
  <2>6. SetsReleaseOk(q, l)'
    BY <2>2, <2>5 DEF SetsReleaseOk, WillTry, Lk
  <2> QED
    BY <2>3, <2>6
<1>2. CASE RELEASE_OK \notin flags[l]
  <2>1. PICK q \in Proc : SetsReleaseOk(q, l)
    BY <1>2 DEF ReleaseOkInv
  <2>2. CASE q = p
    BY <2>1, <2>2 DEF RelStep
  <2>3. CASE q # p
    BY <2>1, <2>3 DEF Frame, LwStep, SetsReleaseOk, Lk
  <2> QED
    BY <2>2, <2>3
<1> QED
  BY <1>1, <1>2

-----------------------------------------------------------------------------
(* The lock words are natural numbers.                                     *)
LEMMA WordFacts ==
  ASSUME IInv
  PROVE  /\ \A l \in Locks : lockcount[l] \in Nat
         /\ LW_VAL_EXCLUSIVE \in Nat /\ LW_VAL_EXCLUSIVE > 0
<1>1. Cardinality(Proc) \in Nat
  BY ConstantsAssumption, FS_CardinalityType
<1>2. LW_VAL_EXCLUSIVE \in Nat /\ LW_VAL_EXCLUSIVE > 0
  BY <1>1, BackendsFit
<1> QED
  BY <1>2, HoldersFinite DEF IInv, WordInv

(* A process on its way out of LWLockAcquire is counted in the word.       *)
LEMMA DequeuerCounts ==
  ASSUME IInv', NEW q \in Proc, NEW l \in Locks, pc'[q] \in DequeuePcs,
         call'[q].op \in Acquiring, Lk(q)' = l
  PROVE  lockcount'[l] > 0
<1>1. call'[q].mode \in {LW_EXCLUSIVE, LW_SHARED}
  BY DEF IInv, PrivateTypes, LockModes
<1>2. q \in Holders(l, LW_EXCLUSIVE)' \/ q \in Holders(l, LW_SHARED)'
  BY <1>1 DEF Holders, Holds, OnItsWayOut
<1>3. PICK E, H : E = Holders(l, LW_EXCLUSIVE)' /\ H = Holders(l, LW_SHARED)'
  OBVIOUS
<1>4. LW_VAL_EXCLUSIVE \in Nat /\ LW_VAL_EXCLUSIVE > 0
  <2>1. Cardinality(Proc) \in Nat
    BY ConstantsAssumption, FS_CardinalityType
  <2> QED
    BY <2>1, BackendsFit
<1>5. H \subseteq Proc
  BY <1>3 DEF Holders
<1>6. IsFiniteSet(H) /\ Cardinality(H) \in Nat
  BY <1>5, ConstantsAssumption, FS_Subset, FS_CardinalityType
<1>7. \/ E = {} /\ lockcount'[l] = Cardinality(H)
      \/ lockcount'[l] = LW_VAL_EXCLUSIVE
  BY <1>3 DEF IInv, WordInv
<1>8. CASE E = {} /\ lockcount'[l] = Cardinality(H)
  <2>1. H # {}
    BY <1>2, <1>3, <1>8
  <2>2. Cardinality(H) # 0
    BY <1>6, <2>1, FS_EmptySet
  <2> QED
    BY <1>6, <1>8, <2>2
<1> QED
  BY <1>4, <1>7, <1>8

(* A step of p and those who wait for its lock.                            *)
TryStep(p) ==
  \A k \in Locks :
    /\ WillTryOrWake(p, k) =>
         WillTryOrWake(p, k)' \/ lockcount'[k] > 0 \/ (pc[p] = "wcas" /\ k = Lk(p))
    /\ MustWait(p, k)' => MustWait(p, k) \/ lockcount'[k] > 0
    /\ lockcount[k] > 0 => lockcount'[k] > 0 \/ (Release(p) /\ k = Lk(p))

(* Every step of lwlock.c respects TryStep: a process bound to try or to   *)
(* wake stays so unless the lock is held after the step, or its            *)
(* LWLockWakeup ends.                                                      *)
LEMMA StepTryStep ==
  ASSUME IInv, PlaceInv, NEW p \in Proc, StepOf(p), LwStep(p)
  PROVE  TryStep(p)
<1> USE DEF Go, Lk, lockVars, procVars, LwStep, TryStep, WillTryOrWake, MustWait, QueuePcs,
            LW_WS_NOT_WAITING, LW_WS_WAITING
<1>1. /\ Domains
      /\ pc[p] # "idle" => Lk(p) \in Locks
      /\ \A l \in Locks : lockcount[l] \in Nat
      /\ LW_VAL_EXCLUSIVE \in Nat /\ LW_VAL_EXCLUSIVE > 0
      /\ pc[p] = "try2" => call[p].op \in Acquiring
      /\ pc[p] \in {"vrelok", "vtest2", "vlock2", "vval2"} => call[p].op = "LWLockWaitForVar"
      /\ call[p].mode \in LockModes
  BY DomainsHold, WordFacts DEF IInv, ControlInv, ControlAt, PrivateTypes, VarPcs
<1> USE DEF Domains
<1>2. CASE Call(p) \/ CallEnd(p)
  <2>1. PICK to, c : /\ Begin(p, to, c)
                     /\ to \in {"try1", "vtest1", "ulock", "clock", "rel"}
                     /\ to = "clock" => c.op = "LWLockReleaseClearVar"
    BY <1>2, CallBegin
  <2> QED
    BY <1>1, <2>1 DEF Begin
<1>3. CASE LWLockWaitListLock(p)
  BY <1>1, <1>3 DEF LWLockWaitListLock, WaitListLock
<1>4. CASE QueueSetFlag(p)
  BY <1>1, <1>4 DEF QueueSetFlag, FetchOr
<1>5. CASE QueuePush(p)
  BY <1>1, <1>5 DEF QueuePush
<1>6. CASE DequeueRemove(p)
  BY <1>1, <1>6 DEF DequeueRemove
<1>7. CASE DequeueUnlock(p)
  BY <1>1, <1>7 DEF DequeueUnlock, AfterDequeue
<1>8. CASE DequeueReleaseOk(p)
  BY <1>1, <1>8 DEF DequeueReleaseOk, FetchOr
<1>9. CASE DequeueSleep(p)
  BY <1>1, <1>9 DEF DequeueSleep, SemaphoreWait, AfterDequeue
<1>10. CASE Sleep(p)
  BY <1>1, <1>10 DEF Sleep, SemaphoreWait, AfterSleep
<1>11. CASE RetryReleaseOk(p)
  BY <1>1, <1>11 DEF RetryReleaseOk, FetchOr
<1>12. CASE LWLockConflictsWithVar(p)
  BY <1>1, <1>12 DEF LWLockConflictsWithVar, ConflictTest, ConflictValue
<1>13. CASE WaitForVarReleaseOk(p)
  BY <1>1, <1>13 DEF WaitForVarReleaseOk, FetchOr
<1>14. CASE UpdateVarSet(p)
  BY <1>1, <1>14 DEF UpdateVarSet
<1>15. CASE UpdateVarCollect(p)
  BY <1>1, <1>15 DEF UpdateVarCollect
<1>16. CASE UpdateVarUnlock(p)
  BY <1>1, <1>16 DEF UpdateVarUnlock
<1>17. CASE ClearVar(p)
  BY <1>1, <1>17 DEF ClearVar
<1>18. CASE WakeupSkip(p)
  BY <1>1, <1>18 DEF WakeupSkip
<1>19. CASE WakeupCollect(p)
  BY <1>1, <1>19 DEF WakeupCollect
<1>20. CASE WakeupScanEnd(p)
  BY <1>1, <1>20 DEF WakeupScanEnd
<1>21. CASE WakeupFlags(p)
  BY <1>1, <1>21 DEF WakeupFlags
<1>22. CASE WakeClear(p)
  BY <1>1, <1>22 DEF WakeClear
<1>23. CASE WakePost(p)
  BY <1>1, <1>23 DEF WakePost
<1>24. CASE WakeEnd(p)
  BY <1>1, <1>24 DEF WakeEnd, Finished
<1>25. CASE Return(p)
  BY <1>1, <1>25 DEF Return
<1>26. CASE FirstAttempt(p) \/ SecondAttempt(p)
  <2>1. PICK from, got, mustwait : AttemptLock(p, from, got, mustwait)
                 /\ \/ /\ from = "try1" /\ got = "acquired"
                       /\ mustwait = IF call[p].op = "LWLockConditionalAcquire"
                                     THEN "failed" ELSE "qlock"
                    \/ from = "try2" /\ got = "dlock" /\ mustwait = "sleep"
    BY <1>26 DEF FirstAttempt, SecondAttempt
  <2>2. lockcount'[Lk(p)] > 0 /\ \A k \in Locks : k # Lk(p) => lockcount'[k] = lockcount[k]
    <3>1. pc[p] \in {"try1", "try2"} /\ Lk(p) \in Locks
      BY <1>1, <2>1 DEF AttemptLock
    <3>2. CASE LockFree(Lk(p), call[p].mode)
      <4>1. lockcount' = [lockcount EXCEPT ![Lk(p)] = @ + Weight(call[p].mode)]
        BY <2>1, <3>2 DEF AttemptLock
      <4>2. Weight(call[p].mode) \in Nat /\ Weight(call[p].mode) > 0
        BY <1>1 DEF Weight
      <4> QED
        BY <1>1, <3>1, <4>1, <4>2
    <3>3. CASE ~LockFree(Lk(p), call[p].mode)
      <4>1. lockcount' = lockcount
        BY <2>1, <3>3 DEF AttemptLock
      <4>2. lockcount[Lk(p)] > 0
        BY <1>1, <3>1, <3>3 DEF LockFree
      <4> QED
        BY <4>1, <4>2
    <3> QED
      BY <3>2, <3>3
  <2>3. call' = call /\ pc[p] = from
    BY <2>1 DEF AttemptLock
  <2> QED
    BY <1>1, <2>2, <2>3
<1>27. CASE Release(p)
  <2>1. pc[p] = "rel" /\ pc'[p] \in {"wlock", "rel", "idle"}
    BY <1>1, <1>27 DEF Release, Finished
  <2>2. \A k \in Locks : k # Lk(p) => lockcount'[k] = lockcount[k]
    BY <1>1, <1>27, <2>1 DEF Release
  <2> QED
    BY <1>27, <2>1, <2>2
<1> QED
  BY <1>2, <1>3, <1>4, <1>5, <1>6, <1>7, <1>8, <1>9, <1>10, <1>11, <1>12, <1>13, <1>14, <1>15,
     <1>16, <1>17, <1>18, <1>19, <1>20, <1>21, <1>22, <1>23, <1>24, <1>25, <1>26, <1>27 DEF
     StepOf, Step

(* Whoever must wait still has somebody to wait for.                       *)
LEMMA TryInvStep ==
  ASSUME IInv, IInv', LockInv, ListInv, WakeupInv, ScanInv, ReleaseOkInv, TryInv,
         ListInv', NEW p \in Proc, Frame(p), LwStep(p), TryStep(p), StepOf(p)
  PROVE  TryInv'
<1> SUFFICES ASSUME NEW r \in Proc, NEW l \in Locks, MustWait(r, l)', ~(lockcount'[l] > 0)
             PROVE  \E q \in Proc : WillTryOrWake(q, l)'
  BY DEF TryInv
<1>1. MustWait(r, l)
  <2>1. CASE r = p
    BY <2>1 DEF TryStep
  <2>2. CASE r # p
    BY <2>2 DEF MustWait, Frame, LwStep, Lk
  <2> QED
    BY <2>1, <2>2
<1>2. r \in Elements(waiters[l]) /\ waiters[l] \in Seq(Proc)
  BY <1>1 DEF ListInv, Queued, MustWait, IInv, SharedTypes
<1>3. waiters[l] # << >> /\ HAS_WAITERS \in flags[l]
  BY <1>2, ElementsFacts DEF ListInv
<1>4. ASSUME NEW q \in Proc, q # p, WillTryOrWake(q, l)
      PROVE  WillTryOrWake(q, l)'
  BY <1>4 DEF WillTryOrWake, Frame, LwStep, Lk
<1>5. ASSUME NEW q \in Proc, q # p, call[q].op = "LWLockAcquire", Lk(q) = l
      PROVE  pc[q] \notin DequeuePcs
  <2> SUFFICES ASSUME pc[q] \in DequeuePcs
               PROVE  FALSE
    OBVIOUS
  <2>1. pc'[q] \in DequeuePcs /\ call'[q].op \in Acquiring /\ Lk(q)' = l
    BY <1>5 DEF Frame, Acquiring, Lk
  <2> QED
    BY <2>1, DequeuerCounts
<1>6. CASE lockcount[l] > 0
  <2>1. Release(p) /\ l = Lk(p) /\ pc[p] = "rel"
    BY <1>6 DEF TryStep, Release
  <2>2. CASE RELEASE_OK \in flags[l]
    <3>1. PICK c : c = lockcount[l] - Weight(held[p][HeldIndex(p, l)].mode)
      OBVIOUS
    <3>2. lockcount'[l] = c /\ c \in Int
      BY <2>1, <3>1, DomainsHold DEF Release, Domains, IInv
    <3>3. c = 0
      <4>1. lockcount'[l] \in Nat
        <5>1. PICK H : H = Holders(l, LW_SHARED)'
          OBVIOUS
        <5>2. H \subseteq Proc
          BY <5>1 DEF Holders
        <5>3. Cardinality(H) \in Nat
          BY <5>2, ConstantsAssumption, FS_Subset, FS_CardinalityType
        <5> QED
          BY <5>1, <5>3, BackendsFit DEF IInv, WordInv
      <4> QED
        BY <3>2, <4>1
    <3>4. CheckWaiters(l, c)
      BY <1>3, <2>2, <3>3 DEF CheckWaiters
    <3>5. pc'[p] = "wlock" /\ call' = call
      BY <2>1, <3>1, <3>4, DomainsHold DEF Release, Go, Domains
    <3>6. WillTryOrWake(p, l)'
      BY <2>1, <3>5 DEF WillTryOrWake, Lk
    <3> QED
      BY <3>6
  <2>3. CASE RELEASE_OK \notin flags[l]
    <3>1. PICK q \in Proc : SetsReleaseOk(q, l)
      BY <2>3 DEF ReleaseOkInv
    <3>2. q # p
      BY <2>1, <3>1 DEF SetsReleaseOk
    <3>3. pc[q] \notin DequeuePcs
      BY <1>5, <3>1, <3>2 DEF SetsReleaseOk
    <3>4. WillTryOrWake(q, l)
      BY <3>1, <3>3 DEF SetsReleaseOk, WillTryOrWake, DequeuePcs
    <3> QED
      BY <1>4, <3>2, <3>4
  <2> QED
    BY <2>2, <2>3
<1>7. CASE ~(lockcount[l] > 0)
  <2>1. PICK q \in Proc : WillTryOrWake(q, l)
    BY <1>1, <1>7 DEF TryInv
  <2>2. CASE q # p
    BY <1>4, <2>1, <2>2
  <2>3. CASE q = p /\ pc[p] = "wcas" /\ l = Lk(p)
    <3>1. woke[p] /\ ScanAt(p)
      BY <1>3, <2>3 DEF ScanInv, ScanAt
    <3>2. PICK s \in Elements(wakeup[p]) : WillTry(s, l)
      BY <2>3, <3>1 DEF ScanAt
    <3>3. s \in Proc /\ lwWaiting[s] = LW_WS_PENDING_WAKEUP /\ s # p
      BY <2>3, <3>2, ElementsFacts DEF IInv, PrivateTypes, WakeupInv, WillTry
    <3>4. pc[s] \notin DequeuePcs
      BY <1>5, <3>2, <3>3 DEF WillTry
    <3>5. WillTryOrWake(s, l)
      BY <3>2, <3>3, <3>4 DEF WillTry, WillTryOrWake, DequeuePcs, LW_WS_PENDING_WAKEUP,
                              LW_WS_WAITING
    <3> QED
      BY <1>4, <3>3, <3>5
  <2>4. CASE q = p /\ ~(pc[p] = "wcas" /\ l = Lk(p))
    BY <2>1, <2>4 DEF TryStep
  <2> QED
    BY <2>2, <2>3, <2>4
<1> QED
  BY <1>6, <1>7

-----------------------------------------------------------------------------
(* A step of p and its own wait in LWLockWaitForVar.                       *)
VarPlace(p) ==
  /\ pc'[p] \in {"clock", "cset"} => call'[p].op = "LWLockReleaseClearVar"
  /\ pc[p] = "vrelok" => RELEASE_OK \in flags'[Lk(p)]
  /\ pc[p] = "qpush" /\ call[p].op = "LWLockWaitForVar" => pc'[p] = "vrelok"
  /\ pc[p] = "dunlock" => lwWaiting'[p] # LW_WS_WAITING
  /\ pc[p] = "rel" => Release(p)

(* Every step of lwlock.c respects VarPlace.                               *)
LEMMA StepVarPlace ==
  ASSUME IInv, VarInv, NEW p \in Proc, StepOf(p)
  PROVE  VarPlace(p)
<1> USE DEF Go, Lk, lockVars, procVars, VarPlace, LW_WS_NOT_WAITING, LW_WS_WAITING
<1>1. /\ Domains
      /\ pc[p] # "idle" => Lk(p) \in Locks
      /\ pc[p] \in {"clock", "cset"} => call[p].op = "LWLockReleaseClearVar"
  BY DomainsHold DEF IInv, ControlInv, ControlAt, VarInv
<1> USE DEF Domains
<1>2. CASE Call(p) \/ CallEnd(p)
  <2>1. PICK to, c : /\ Begin(p, to, c)
                     /\ to \in {"try1", "vtest1", "ulock", "clock", "rel"}
                     /\ to = "clock" => c.op = "LWLockReleaseClearVar"
    BY <1>2, CallBegin
  <2> QED
    BY <1>1, <2>1 DEF Begin
<1>3. CASE LWLockWaitListLock(p)
  BY <1>1, <1>3 DEF LWLockWaitListLock, WaitListLock
<1>4. CASE QueueSetFlag(p)
  BY <1>1, <1>4 DEF QueueSetFlag, FetchOr
<1>5. CASE QueuePush(p)
  BY <1>1, <1>5 DEF QueuePush
<1>6. CASE DequeueRemove(p)
  BY <1>1, <1>6 DEF DequeueRemove
<1>7. CASE DequeueUnlock(p)
  BY <1>1, <1>7 DEF DequeueUnlock, AfterDequeue
<1>8. CASE DequeueReleaseOk(p)
  BY <1>1, <1>8 DEF DequeueReleaseOk, FetchOr
<1>9. CASE DequeueSleep(p)
  BY <1>1, <1>9 DEF DequeueSleep, SemaphoreWait, AfterDequeue
<1>10. CASE Sleep(p)
  BY <1>1, <1>10 DEF Sleep, SemaphoreWait, AfterSleep
<1>11. CASE RetryReleaseOk(p)
  BY <1>1, <1>11 DEF RetryReleaseOk, FetchOr
<1>12. CASE LWLockConflictsWithVar(p)
  BY <1>1, <1>12 DEF LWLockConflictsWithVar, ConflictTest, ConflictValue
<1>13. CASE WaitForVarReleaseOk(p)
  BY <1>1, <1>13 DEF WaitForVarReleaseOk, FetchOr
<1>14. CASE UpdateVarSet(p)
  BY <1>1, <1>14 DEF UpdateVarSet
<1>15. CASE UpdateVarCollect(p)
  BY <1>1, <1>15 DEF UpdateVarCollect
<1>16. CASE UpdateVarUnlock(p)
  BY <1>1, <1>16 DEF UpdateVarUnlock
<1>17. CASE ClearVar(p)
  BY <1>1, <1>17 DEF ClearVar
<1>18. CASE WakeupSkip(p)
  BY <1>1, <1>18 DEF WakeupSkip
<1>19. CASE WakeupCollect(p)
  BY <1>1, <1>19 DEF WakeupCollect
<1>20. CASE WakeupScanEnd(p)
  BY <1>1, <1>20 DEF WakeupScanEnd
<1>21. CASE WakeupFlags(p)
  BY <1>1, <1>21 DEF WakeupFlags
<1>22. CASE WakeClear(p)
  BY <1>1, <1>22 DEF WakeClear
<1>23. CASE WakePost(p)
  BY <1>1, <1>23 DEF WakePost
<1>24. CASE WakeEnd(p)
  BY <1>1, <1>24 DEF WakeEnd, Finished
<1>25. CASE FirstAttempt(p)
  BY <1>1, <1>25 DEF FirstAttempt, AttemptLock
<1>26. CASE SecondAttempt(p)
  BY <1>1, <1>26 DEF SecondAttempt, AttemptLock
<1>27. CASE Return(p)
  BY <1>1, <1>27 DEF Return
<1>28. CASE Release(p)
  BY <1>1, <1>28 DEF Release, Finished
<1> QED
  BY <1>2, <1>3, <1>4, <1>5, <1>6, <1>7, <1>8, <1>9, <1>10, <1>11, <1>12, <1>13, <1>14, <1>15,
     <1>16, <1>17, <1>18, <1>19, <1>20, <1>21, <1>22, <1>23, <1>24, <1>25, <1>26, <1>27, <1>28
     DEF StepOf, Step

(* A step of p and the reasons to wait for a variable.                     *)
VarStep(p) ==
  \A k \in Locks :
    /\ var'[k] # var[k] =>
         /\ k = Lk(p) /\ call'[p] = call[p]
         /\ pc'[p] = "ucollect" \/ (pc[p] = "cset" /\ pc'[p] = "rel")
    /\ Wakes(p, k) =>
         \/ Wakes(p, k)' \/ pc[p] = "wcas"
         \/ pc[p] = "ucollect" /\ ~FrontWaitsUntilFree(k)
    /\ lockcount[k] >= LW_VAL_EXCLUSIVE =>
         lockcount'[k] >= LW_VAL_EXCLUSIVE \/ (Release(p) /\ k = Lk(p))
    /\ MustWait(p, k)' /\ call'[p].op = "LWLockWaitForVar" =>
         \/ pc'[p] = "vlock2" /\ lockcount'[k] >= LW_VAL_EXCLUSIVE
         \/ /\ MustWait(p, k) /\ call'[p] = call[p]
            /\ lockcount'[k] = lockcount[k] /\ var'[k] = var[k]
            /\ pc'[p] = "sleep" => pc[p] = "sleep" \/ var[k] = call[p].val

(* Every step of lwlock.c respects VarStep: the value changes under the    *)
(* list's lock, and whoever changed it is bound to wake.                   *)
LEMMA StepVarStep ==
  ASSUME IInv, NEW p \in Proc, Frame(p), StepOf(p)
  PROVE  VarStep(p)
<1> USE DEF Go, Lk, lockVars, procVars, VarStep, Wakes, MustWait
<1>1. /\ Domains
      /\ pc[p] # "idle" => Lk(p) \in Locks
      /\ pc[p] = "try2" => call[p].op \in Acquiring
      /\ \A l \in Locks : lockcount[l] \in Nat
      /\ LW_VAL_EXCLUSIVE \in Nat
      /\ call[p].mode \in LockModes
  BY DomainsHold, WordFacts DEF IInv, ControlInv, ControlAt, PrivateTypes
<1> USE DEF Domains
<1>2. CASE Call(p) \/ CallEnd(p)
  <2>1. PICK to, c : /\ Begin(p, to, c)
                     /\ to \in {"try1", "vtest1", "ulock", "clock", "rel"}
                     /\ to = "clock" => c.op = "LWLockReleaseClearVar"
    BY <1>2, CallBegin
  <2> QED
    BY <1>1, <2>1 DEF Begin
<1>3. CASE LWLockWaitListLock(p)
  BY <1>1, <1>3 DEF LWLockWaitListLock, WaitListLock
<1>4. CASE QueueSetFlag(p)
  BY <1>1, <1>4 DEF QueueSetFlag, FetchOr
<1>5. CASE QueuePush(p)
  BY <1>1, <1>5 DEF QueuePush
<1>6. CASE DequeueRemove(p)
  BY <1>1, <1>6 DEF DequeueRemove
<1>7. CASE DequeueUnlock(p)
  BY <1>1, <1>7 DEF DequeueUnlock, AfterDequeue
<1>8. CASE DequeueReleaseOk(p)
  BY <1>1, <1>8 DEF DequeueReleaseOk, FetchOr
<1>9. CASE DequeueSleep(p)
  BY <1>1, <1>9 DEF DequeueSleep, SemaphoreWait, AfterDequeue
<1>10. CASE Sleep(p)
  BY <1>1, <1>10 DEF Sleep, SemaphoreWait, AfterSleep
<1>11. CASE RetryReleaseOk(p)
  BY <1>1, <1>11 DEF RetryReleaseOk, FetchOr
<1>12. CASE LWLockConflictsWithVar(p)
  BY <1>1, <1>12 DEF LWLockConflictsWithVar, ConflictTest, ConflictValue
<1>13. CASE WaitForVarReleaseOk(p)
  BY <1>1, <1>13 DEF WaitForVarReleaseOk, FetchOr
<1>14. CASE UpdateVarSet(p)
  BY <1>1, <1>14 DEF UpdateVarSet
<1>15. CASE UpdateVarCollect(p)
  BY <1>1, <1>15 DEF UpdateVarCollect
<1>16. CASE UpdateVarUnlock(p)
  BY <1>1, <1>16 DEF UpdateVarUnlock
<1>17. CASE ClearVar(p)
  BY <1>1, <1>17 DEF ClearVar
<1>18. CASE WakeupSkip(p)
  BY <1>1, <1>18 DEF WakeupSkip
<1>19. CASE WakeupCollect(p)
  BY <1>1, <1>19 DEF WakeupCollect
<1>20. CASE WakeupScanEnd(p)
  BY <1>1, <1>20 DEF WakeupScanEnd
<1>21. CASE WakeupFlags(p)
  BY <1>1, <1>21 DEF WakeupFlags
<1>22. CASE WakeClear(p)
  BY <1>1, <1>22 DEF WakeClear
<1>23. CASE WakePost(p)
  BY <1>1, <1>23 DEF WakePost
<1>24. CASE WakeEnd(p)
  BY <1>1, <1>24 DEF WakeEnd, Finished
<1>25. CASE Return(p)
  BY <1>1, <1>25 DEF Return
<1>26. CASE FirstAttempt(p) \/ SecondAttempt(p)
  <2>1. PICK from, got, mustwait : AttemptLock(p, from, got, mustwait)
                 /\ \/ /\ from = "try1" /\ got = "acquired"
                       /\ mustwait = IF call[p].op = "LWLockConditionalAcquire"
                                     THEN "failed" ELSE "qlock"
                    \/ from = "try2" /\ got = "dlock" /\ mustwait = "sleep"
    BY <1>26 DEF FirstAttempt, SecondAttempt
  <2>2. pc[p] = from /\ call' = call /\ var' = var /\ pc'[p] \in {got, mustwait}
    BY <1>1, <2>1 DEF AttemptLock
  <2>3. \A k \in Locks : lockcount'[k] >= lockcount[k]
    <3>1. Weight(call[p].mode) \in Nat
      BY <1>1 DEF Weight
    <3> QED
      BY <1>1, <2>1, <3>1 DEF AttemptLock
  <2>4. \A k \in Locks : lockcount[k] >= LW_VAL_EXCLUSIVE => lockcount'[k] >= LW_VAL_EXCLUSIVE
    <3>1. \A k \in Locks : lockcount'[k] \in Int
      <4>1. Weight(call[p].mode) \in Nat
        BY <1>1 DEF Weight
      <4> QED
        BY <1>1, <2>1, <4>1 DEF AttemptLock
    <3> QED
      BY <1>1, <2>3, <3>1
  <2> QED
    BY <1>1, <2>1, <2>2, <2>4 DEF Acquiring
<1>27. CASE Release(p)
  <2>1. pc[p] = "rel" /\ pc'[p] \in {"wlock", "rel", "idle"} /\ var' = var
    BY <1>1, <1>27 DEF Release, Finished
  <2>2. \A k \in Locks : k # Lk(p) => lockcount'[k] = lockcount[k]
    BY <1>1, <1>27, <2>1 DEF Release
  <2> QED
    BY <1>27, <2>1, <2>2
<1> QED
  BY <1>2, <1>3, <1>4, <1>5, <1>6, <1>7, <1>8, <1>9, <1>10, <1>11, <1>12, <1>13, <1>14, <1>15,
     <1>16, <1>17, <1>18, <1>19, <1>20, <1>21, <1>22, <1>23, <1>24, <1>25, <1>26, <1>27 DEF
     StepOf, Step

(* An exclusive holder that releases a lock with waiters goes to wake them.*)
LEMMA ReleaseWakes ==
  ASSUME IInv, NEW p \in Proc, Release(p), NEW l \in Locks, l = Lk(p),
         lockcount[l] >= LW_VAL_EXCLUSIVE, {HAS_WAITERS, RELEASE_OK} \subseteq flags[l]
  PROVE  Wakes(p, l)'
<1>1. PICK i : i = HeldIndex(p, l)
  OBVIOUS
<1>2. pc[p] = "rel" /\ l \in HeldLocks(p)
  BY DEF Release, IInv, ControlInv, ControlAt
<1>3. i \in 1 .. Len(held[p]) /\ held[p][i].lock = l
  BY <1>1, <1>2, HeldIndexFound
<1>4. /\ held[p][i] = [lock |-> l, mode |-> held[p][i].mode]
      /\ held[p][i].mode \in {LW_EXCLUSIVE, LW_SHARED}
  BY <1>3, HeldEntry DEF IInv, LockModes
<1>5. p \in Holders(l, held[p][i].mode)
  BY <1>3, <1>4 DEF Holders, Holds, LWLockHeldByMeInMode
<1>6. lockcount[l] = LW_VAL_EXCLUSIVE /\ Holders(l, LW_SHARED) = {}
  <2>1. /\ Cardinality(Holders(l, LW_SHARED)) \in Nat
        /\ Cardinality(Holders(l, LW_SHARED)) < LW_VAL_EXCLUSIVE
    BY HoldersFinite
  <2>2. LW_VAL_EXCLUSIVE \in Nat
    BY BackendsFit
  <2>3. lockcount[l] # Cardinality(Holders(l, LW_SHARED))
    BY <2>1, <2>2
  <2> QED
    BY <2>3 DEF IInv, WordInv
<1>7. Weight(held[p][i].mode) = LW_VAL_EXCLUSIVE
  BY <1>4, <1>5, <1>6 DEF Weight
<1>8. PICK c : c = lockcount[l] - Weight(held[p][i].mode)
  OBVIOUS
<1>9. c = 0
  BY <1>6, <1>7, <1>8, BackendsFit
<1>10. CheckWaiters(l, c)
  BY <1>9 DEF CheckWaiters
<1>11. pc'[p] = "wlock" /\ call' = call
  BY <1>1, <1>8, <1>10, DomainsHold DEF Release, Go, Domains
<1> QED
  BY <1>11 DEF Wakes, Lk

(* A step leaves every waiter of a variable its reason.                    *)
LEMMA VarInvStep ==
  ASSUME IInv, LockInv, PlaceInv, ListInv, ScanInv, SortInv, VarInv, NEW p \in Proc, Frame(p),
         LwStep(p), RelStep(p), VarPlace(p), VarStep(p), StepOf(p)
  PROVE  VarInv'
<1>1. \A q \in Proc : pc'[q] \in {"clock", "cset"} => call'[q].op = "LWLockReleaseClearVar"
  BY DEF VarInv, VarPlace, Frame
<1>2. ASSUME NEW r \in Proc, NEW l \in Locks, Queued(r, l), call[r].op = "LWLockWaitForVar"
      PROVE  /\ pc[p] = "wcas" /\ l = Lk(p) => FALSE
             /\ pc[p] = "ucollect" /\ l = Lk(p) => FrontWaitsUntilFree(l)
             /\ HAS_WAITERS \in flags[l]
  <2>1. PICK s \in Seq(Proc) : s = waiters[l]
    BY DEF IInv, SharedTypes
  <2>2. r \in Elements(s) /\ UntilFree(r)
    BY <1>2, <2>1 DEF ListInv, UntilFree, LwWaitMode
  <2>3. PICK i \in 1 .. Len(s) : s[i] = r
    BY <2>2 DEF Elements
  <2>4. pc[p] = "wcas" /\ l = Lk(p) => FALSE
    BY <2>1, <2>2, <2>3 DEF SortInv, PassedOver
  <2>5. s # << >> /\ 1 \in 1 .. Len(s)
    BY <2>2, ElementsFacts
  <2>6. UntilFree(s[1])
    <3>1. CASE i = 1
      BY <2>2, <2>3, <3>1
    <3>2. CASE i # 1
      <4>1. 1 < i
        BY <2>3, <3>2
      <4> QED
        BY <2>1, <2>2, <2>3, <2>5, <4>1 DEF SortInv, Sorted
    <3> QED
      BY <3>1, <3>2
  <2>7. FrontWaitsUntilFree(l)
    BY <2>1, <2>5, <2>6 DEF FrontWaitsUntilFree, UntilFree
  <2> QED
    BY <2>1, <2>4, <2>5, <2>7 DEF ListInv
<1>3. ASSUME NEW r \in Proc, call'[r].op = "LWLockWaitForVar", Queued(r, Lk(r))',
             pc'[r] # "vrelok"
      PROVE  RELEASE_OK \in flags'[Lk(r)']
  <2>1. lwWaiting[r] = LW_WS_WAITING \/ (r = p /\ pc[p] = "qpush")
    BY <1>3 DEF Queued, LwStep
  <2>2. CASE r = p /\ pc[p] \in {"qpush", "dunlock", "vrelok"}
    <3>1. call'[p] = call[p]
      BY <2>2 DEF Frame, EdgePcs
    <3> QED
      BY <1>3, <2>2, <3>1 DEF VarPlace, Queued, Lk
  <2>3. CASE ~(r = p /\ pc[p] \in {"qpush", "dunlock", "vrelok"})
    <3>1. lwWaiting[r] = LW_WS_WAITING /\ pc[r] \in QueuedPcs
      BY <2>1, <2>3 DEF PlaceInv, LW_WS_WAITING, LW_WS_NOT_WAITING
    <3>2. call'[r] = call[r] /\ pc[r] \notin {"dunlock", "vrelok"}
      BY <1>3, <2>3, <3>1 DEF Frame, Queued, EdgePcs, QueuedPcs, DequeuePcs
    <3>3. PICK l \in Locks : l = Lk(r)
      BY <3>1 DEF IInv, ControlInv, ControlAt, QueuedPcs, DequeuePcs
    <3>4. Queued(r, l) /\ call[r].op = "LWLockWaitForVar" /\ Lk(r)' = l
      BY <1>3, <3>1, <3>2, <3>3 DEF Queued, Lk
    <3>5. RELEASE_OK \in flags[l]
      BY <3>2, <3>3, <3>4 DEF VarInv
    <3> QED
      BY <1>2, <3>4, <3>5 DEF RelStep
  <2> QED
    BY <2>2, <2>3
<1>4. ASSUME NEW r \in Proc, NEW l \in Locks, MustWait(r, l)', call'[r].op = "LWLockWaitForVar"
      PROVE  \/ \E q \in Proc : Wakes(q, l)'
             \/ /\ lockcount'[l] >= LW_VAL_EXCLUSIVE
                /\ pc'[r] = "sleep" => var'[l] = call'[r].val \/ \E q \in Proc : Clears(q, l)'
  <2> DEFINE Goal == \/ \E q \in Proc : Wakes(q, l)'
                     \/ /\ lockcount'[l] >= LW_VAL_EXCLUSIVE
                        /\ pc'[r] = "sleep" => var'[l] = call'[r].val
                                               \/ \E q \in Proc : Clears(q, l)'
  <2>1. ASSUME NEW q \in Proc, q # p
        PROVE  (Wakes(q, l) => Wakes(q, l)') /\ (Clears(q, l) => Clears(q, l)')
    BY <2>1 DEF Wakes, Clears, Frame, Lk
  <2>2. CASE r = p /\ pc'[p] = "vlock2" /\ lockcount'[l] >= LW_VAL_EXCLUSIVE
    BY <2>2
  <2>3. CASE r = p /\ ~(pc'[p] = "vlock2" /\ lockcount'[l] >= LW_VAL_EXCLUSIVE)
    <3>1. /\ MustWait(p, l) /\ call'[p] = call[p]
          /\ lockcount'[l] = lockcount[l] /\ var'[l] = var[l]
          /\ pc'[p] = "sleep" => pc[p] = "sleep" \/ var[l] = call[p].val
      BY <1>4, <2>3 DEF VarStep
    <3>2. \A q \in Proc : Wakes(q, l) \/ Clears(q, l) => q # p
      BY <3>1 DEF MustWait, Wakes, Clears
    <3>3. \/ \E q \in Proc : Wakes(q, l)
          \/ /\ lockcount[l] >= LW_VAL_EXCLUSIVE
             /\ pc[p] = "sleep" => var[l] = call[p].val \/ \E q \in Proc : Clears(q, l)
      BY <1>4, <2>3, <3>1 DEF VarInv
    <3>4. CASE \E q \in Proc : Wakes(q, l)
      BY <2>1, <3>2, <3>4
    <3>5. CASE /\ lockcount[l] >= LW_VAL_EXCLUSIVE
               /\ pc[p] = "sleep" => var[l] = call[p].val \/ \E q \in Proc : Clears(q, l)
      BY <2>1, <2>3, <3>1, <3>2, <3>5
    <3> QED
      BY <3>3, <3>4, <3>5
  <2>4. CASE r # p
    <3>1. MustWait(r, l) /\ call'[r] = call[r] /\ pc'[r] = pc[r]
      BY <1>4, <2>4 DEF MustWait, Frame, LwStep, Lk
    <3>2. call[r].op = "LWLockWaitForVar" /\ Queued(r, l) /\ pc[r] # "vrelok" /\ Lk(r) = l
      BY <1>4, <3>1 DEF MustWait, Queued
    <3>3. RELEASE_OK \in flags[l]
      BY <3>2 DEF VarInv
    <3>4. ASSUME NEW q \in Proc, Wakes(q, l)
          PROVE  Goal
      <4>1. CASE q # p
        BY <2>1, <3>4, <4>1
      <4>2. CASE q = p
        <5>1. l = Lk(p)
          BY <3>4, <4>2 DEF Wakes
        <5>2. pc[p] # "wcas" /\ ~(pc[p] = "ucollect" /\ ~FrontWaitsUntilFree(l))
          BY <1>2, <3>2, <5>1
        <5>3. Wakes(p, l)'
          BY <3>4, <4>2, <5>2 DEF VarStep
        <5> QED
          BY <5>3
      <4> QED
        BY <4>1, <4>2
    <3>5. ASSUME lockcount[l] >= LW_VAL_EXCLUSIVE,
                 pc[r] = "sleep" => var[l] = call[r].val \/ \E q \in Proc : Clears(q, l)
          PROVE  Goal
      <4>1. CASE Release(p) /\ l = Lk(p)
        <5>1. {HAS_WAITERS, RELEASE_OK} \subseteq flags[l]
          BY <1>2, <3>2, <3>3
        <5>2. Wakes(p, l)'
          BY <3>5, <4>1, <5>1, ReleaseWakes
        <5> QED
          BY <5>2
      <4>2. CASE ~(Release(p) /\ l = Lk(p))
        <5>1. lockcount'[l] >= LW_VAL_EXCLUSIVE
          BY <3>5, <4>2 DEF VarStep
        <5>2. CASE var'[l] # var[l]
          <6>1. /\ l = Lk(p) /\ call'[p] = call[p]
                /\ pc'[p] = "ucollect" \/ (pc[p] = "cset" /\ pc'[p] = "rel")
            BY <5>2 DEF VarStep
          <6>2. Wakes(p, l)' \/ Clears(p, l)'
            BY <6>1 DEF Wakes, Clears, Lk, VarInv
          <6> QED
            BY <5>1, <6>2
        <5>3. CASE var'[l] = var[l]
          <6>1. ASSUME NEW q \in Proc, Clears(q, l)
                PROVE  Clears(q, l)'
            <7>1. q # p
              BY <4>2, <6>1 DEF Clears, VarPlace
            <7> QED
              BY <2>1, <6>1, <7>1
          <6> QED
            BY <3>1, <3>5, <5>1, <5>3, <6>1
        <5> QED
          BY <5>2, <5>3
      <4> QED
        BY <4>1, <4>2
    <3>6. \/ \E q \in Proc : Wakes(q, l)
          \/ /\ lockcount[l] >= LW_VAL_EXCLUSIVE
             /\ pc[r] = "sleep" => var[l] = call[r].val \/ \E q \in Proc : Clears(q, l)
      BY <3>1, <3>2 DEF VarInv
    <3> QED
      BY <3>4, <3>5, <3>6
  <2> QED
    BY <2>2, <2>3, <2>4
<1> QED
  BY <1>1, <1>3, <1>4 DEF VarInv

-----------------------------------------------------------------------------
(* The invariant holds at the start, where nobody waits.                   *)
LEMMA InitWInv ==
  ASSUME Init
  PROVE  WInv
<1>1. /\ \A p \in Proc : pc[p] = "idle" /\ lwWaiting[p] = LW_WS_NOT_WAITING
      /\ \A l \in Locks : waiters[l] = << >> /\ flags[l] = {RELEASE_OK}
      /\ \A p \in Proc : wakeup[p] = << >> /\ iter[p] = 1 /\ ~woke[p] /\ wakee[p] = NoProc
      /\ \A p \in Proc : sem[p] = 0 /\ extraWaits[p] = 0 /\ spurious[p] = 0
  BY DEF Init
<1>2. Elements(<< >>) = {} /\ NoDuplicates(<< >>) /\ Len(<< >>) = 0
  BY DEF Elements, NoDuplicates
<1>3. LockInv /\ PlaceInv
  BY <1>1 DEF LockInv, PlaceInv, ListLockPcs, LW_WS_WAITING, LW_WS_NOT_WAITING
<1>4. ListInv /\ WakeupInv
  BY <1>1, <1>2 DEF ListInv, WakeupInv, Queued, LW_WS_WAITING, LW_WS_NOT_WAITING,
                    LW_WS_PENDING_WAKEUP
<1>5. ScanInv
  BY <1>1 DEF ScanInv, ScanAt
<1>6. SortInv
  <2>1. \A i : i \notin 1 .. Len(<< >>)
    OBVIOUS
  <2> QED
    BY <1>1, <2>1 DEF SortInv, Sorted, PassedOver
<1>7. SemInv
  <2>1. ASSUME NEW p \in Proc
        PROVE  Cardinality({q \in Proc : wakee[q] = p}) = 0
    <3>1. {q \in Proc : wakee[q] = p} = {}
      BY <1>1, ConstantsAssumption
    <3> QED
      BY <3>1, FS_EmptySet
  <2> QED
    BY <1>1, <2>1 DEF SemInv, SemaphoreBalanced, WakeupDue, QueuedPcs, DequeuePcs
<1>8. ReleaseOkInv
  BY <1>1 DEF ReleaseOkInv
<1>9. TryInv
  BY <1>1 DEF TryInv, MustWait
<1>10. VarInv
  BY <1>1 DEF VarInv, MustWait, Queued, LW_WS_WAITING, LW_WS_NOT_WAITING
<1> QED
  BY <1>3, <1>4, <1>5, <1>6, <1>7, <1>8, <1>9, <1>10 DEF WInv

(* A step inside lwlock.c keeps the invariant.                             *)
LEMMA StepWInv ==
  ASSUME IInv, IInv', WInv, NEW p \in Proc, StepOf(p)
  PROVE  WInv'
<1> USE DEF WInv
<1>1. Frame(p)
  BY StepFrame
<1>2. LockInv'
  BY <1>1, StepLockStep, LockInvStep
<1>3. PlaceInv' /\ ListInv' /\ WakeupInv'
  BY <1>1, ListsStep
<1>4. ScanInv'
  BY <1>1, ScanStep
<1>5. SortInv'
  BY <1>1, SortStep
<1>6. SemInv'
  BY <1>1, SemStep
<1>7. LwStep(p) /\ RelStep(p) /\ TryStep(p)
  <2>1. LwStep(p)
    BY StepLwStep
  <2> QED
    BY <2>1, StepRelStep, StepTryStep
<1>8. ReleaseOkInv'
  BY <1>1, <1>7, ReleaseOkStep
<1>9. TryInv'
  BY <1>1, <1>3, <1>7, TryInvStep
<1>10. VarInv'
  <2>1. VarPlace(p) /\ VarStep(p)
    BY <1>1, StepVarPlace, StepVarStep
  <2> QED
    BY <1>1, <1>7, <2>1, VarInvStep
<1> QED
  BY <1>2, <1>3, <1>4, <1>5, <1>6, <1>8, <1>9, <1>10

(* A foreign post or a stuttering step changes none of this.               *)
LEMMA StillWInv ==
  ASSUME WInv, UNCHANGED <<lockVars, lwWaiting, pc, call, held, waitLocal, wakeLocal>>, SemInv'
  PROVE  WInv'
<1> USE DEF lockVars, waitLocal, wakeLocal
<1>1. LockInv' /\ PlaceInv'
  BY DEF WInv, LockInv, PlaceInv, Lk
<1>2. ListInv' /\ WakeupInv'
  BY DEF WInv, ListInv, WakeupInv, Queued, Lk
<1>3. \A q, l : WillTry(q, l)' <=> WillTry(q, l)
  BY DEF WillTry, Lk
<1>4. ScanInv'
  <2> SUFFICES ASSUME NEW p \in Proc
               PROVE  ScanAt(p)'
    BY DEF ScanInv
  <2>1. ScanAt(p) /\ Lk(p)' = Lk(p)
    BY DEF WInv, ScanInv, Lk
  <2>2. woke[p] => \E q \in Elements(wakeup[p]) : WillTry(q, Lk(p))'
    <3> SUFFICES ASSUME woke[p]
                 PROVE  \E q \in Elements(wakeup[p]) : WillTry(q, Lk(p))'
      OBVIOUS
    <3>1. PICK q \in Elements(wakeup[p]) : WillTry(q, Lk(p))
      BY <2>1 DEF ScanAt
    <3>2. WillTry(q, Lk(p))'
      BY <3>1 DEF WillTry, Lk
    <3> QED
      BY <3>1, <3>2
  <2> QED
    BY <2>1, <2>2 DEF ScanAt
<1>5. SortInv'
  BY DEF WInv, SortInv, Sorted, PassedOver, UntilFree, LwWaitMode, Lk
<1>6. ReleaseOkInv'
  BY DEF WInv, ReleaseOkInv, SetsReleaseOk, Lk
<1>7. TryInv'
  BY DEF WInv, TryInv, MustWait, WillTryOrWake, Lk
<1>8. VarInv'
  BY DEF WInv, VarInv, MustWait, Queued, Wakes, Clears, Lk
<1> QED
  BY <1>1, <1>2, <1>4, <1>5, <1>6, <1>7, <1>8 DEF WInv

(* The semaphores after a foreign post, and after a stuttering step.       *)
LEMMA SpuriousSem ==
  ASSUME IInv, SemInv, NEW p \in Proc, SpuriousPost(p)
  PROVE  SemInv'
<1>1. /\ sem' = [sem EXCEPT ![p] = @ + 1] /\ spurious' = [spurious EXCEPT ![p] = @ + 1]
      /\ lwWaiting' = lwWaiting /\ pc' = pc /\ extraWaits' = extraWaits /\ wakee' = wakee
  BY DEF SpuriousPost, waitLocal, wakeLocal
<1>2. sem \in [Proc -> Nat] /\ extraWaits \in [Proc -> Nat]
  BY DEF IInv, SharedTypes, PrivateTypes
<1>3. spurious \in [Proc -> Nat]
  BY ConstantsAssumption DEF IInv, SharedTypes
<1>4. ASSUME NEW q \in Proc
      PROVE  Balanced(q)'
  <2>1. Balanced(q) /\ Cardinality(Posting(q)) \in Nat
    BY PostingFacts, BalancedForms DEF SemInv
  <2>2. Posting(q)' = Posting(q) /\ (WakeupDue(q)' <=> WakeupDue(q))
    BY <1>1 DEF Posting, WakeupDue
  <2>3. \/ sem'[q] = sem[q] + 1 /\ spurious'[q] = spurious[q] + 1
        \/ sem'[q] = sem[q] /\ spurious'[q] = spurious[q]
    BY <1>1, <1>2, <1>3
  <2>4. /\ extraWaits'[q] = extraWaits[q] /\ sem[q] \in Nat /\ extraWaits[q] \in Nat
        /\ spurious[q] \in Nat
    BY <1>1, <1>2, <1>3
  <2>5. PICK c \in Nat : c = Cardinality(Posting(q)) /\ c = Cardinality(Posting(q)')
    BY <2>1, <2>2
  <2>6. CASE WakeupDue(q)
    BY <2>1, <2>2, <2>3, <2>4, <2>5, <2>6 DEF Balanced
  <2>7. CASE ~WakeupDue(q)
    BY <2>1, <2>2, <2>3, <2>4, <2>5, <2>7 DEF Balanced
  <2> QED
    BY <2>6, <2>7
<1> QED
  BY <1>1, <1>4 DEF SemInv, SemaphoreBalanced, Balanced, Posting

(* A stuttering step leaves the semaphores balanced.                       *)
LEMMA StutterSem ==
  ASSUME SemInv, UNCHANGED vars
  PROVE  SemInv'
BY DEF vars, lockVars, procVars, waitLocal, wakeLocal, SemInv, SemaphoreBalanced, WakeupDue

(* The inductive invariant of the waiting side holds in every reachable    *)
(* state.                                                                  *)
THEOREM WaitInvariance == Spec => []WInv
<1>1. Init => WInv
  BY InitWInv
<1>2. IInv /\ IInv' /\ WInv /\ [Next]_vars => WInv'
  <2> SUFFICES ASSUME IInv, IInv', WInv, [Next]_vars
               PROVE  WInv'
    OBVIOUS
  <2>1. ASSUME NEW p \in Proc, StepOf(p)
        PROVE  WInv'
    BY <2>1, StepWInv
  <2>2. ASSUME NEW p \in Proc, SpuriousPost(p)
        PROVE  WInv'
    <3>1. SemInv'
      BY <2>2, SpuriousSem DEF WInv
    <3> QED
      BY <2>2, <3>1, StillWInv DEF SpuriousPost
  <2>3. CASE UNCHANGED vars
    <3>1. SemInv'
      BY <2>3, StutterSem DEF WInv
    <3>2. UNCHANGED <<lockVars, lwWaiting, pc, call, held, waitLocal, wakeLocal>>
      BY <2>3 DEF vars, procVars
    <3> QED
      BY <3>1, <3>2, StillWInv
  <2> QED
    BY <2>1, <2>2, <2>3 DEF Next, StepOf
<1> QED
  BY <1>1, <1>2, Invariance, PTL DEF Spec

(* The wait lists of lwlock.c are well formed: a process is on one list at *)
(* most, lwWaiting says on which, the lists change only under              *)
(* LW_FLAG_LOCKED, and the Asserts and the PANIC of LWLockQueueSelf,       *)
(* LWLockWaitListUnlock and LWLockWakeup never fail.                       *)
THEOREM WaitListsHold == Spec => []WaitListsWellFormed
<1>1. IInv /\ WInv => WaitListsWellFormed
  <2> SUFFICES ASSUME IInv, WInv
               PROVE  WaitListsWellFormed
    OBVIOUS
  <2>1. \A p \in Proc : pc[p] \in QueuePcs => lwWaiting[p] = LW_WS_NOT_WAITING
    BY DEF WInv, PlaceInv, QueuePcs, QueuedPcs, DequeuePcs
  <2>2. \A p \in Proc :
          pc[p] \in {"wscan", "wcas"} /\ wakeup[p] # << >> => HAS_WAITERS \in flags[Lk(p)]
    BY DEF WInv, ScanInv, ScanAt
  <2> QED
    BY <2>1, <2>2 DEF WaitListsWellFormed, WInv, ListInv, WakeupInv, LockInv, Queued
<1> QED
  BY <1>1, WaitInvariance, Invariance, PTL

(* The semaphores balance: LWLockAcquire, LWLockAcquireOrWait,             *)
(* LWLockWaitForVar and LWLockDequeueSelf give back every foreign post     *)
(* that they absorbed, and each wakeup is consumed exactly once.           *)
THEOREM SemaphoresBalance == Spec => []SemaphoreBalanced
<1>1. WInv => SemaphoreBalanced
  BY DEF WInv, SemInv
<1> QED
  BY <1>1, WaitInvariance, PTL

(* No wakeup of lwlock.c is lost: while a process sleeps, the flags tell   *)
(* releasers to wake it, or a process is bound to set them, and the lock   *)
(* is held or a process is bound to try for it or to wake.                 *)
THEOREM NoWakeupLost == Spec => []NoLostWakeup
<1>1. IInv /\ WInv => NoLostWakeup
  <2> SUFFICES ASSUME IInv, WInv, NEW l \in Locks, NEW p \in Proc, Asleep(p, l)
               PROVE  /\ HAS_WAITERS \in flags[l]
                      /\ RELEASE_OK \in flags[l] \/ \E q \in Proc : WillSetReleaseOk(q, l)
                      /\ lockcount[l] > 0 \/ \E q \in Proc : WillTryOrWake(q, l)
    BY DEF NoLostWakeup
  <2>1. MustWait(p, l) /\ Queued(p, l)
    BY DEF Asleep, MustWait, Queued
  <2>2. HAS_WAITERS \in flags[l]
    <3>1. p \in Elements(waiters[l]) /\ waiters[l] \in Seq(Proc)
      BY <2>1 DEF WInv, ListInv, IInv, SharedTypes
    <3>2. waiters[l] # << >>
      BY <3>1, ElementsFacts
    <3> QED
      BY <3>2 DEF WInv, ListInv
  <2>3. RELEASE_OK \in flags[l] \/ \E q \in Proc : WillSetReleaseOk(q, l)
    BY DEF WInv, ReleaseOkInv, SetsReleaseOk, WillSetReleaseOk, DequeuePcs
  <2>4. lockcount[l] > 0 \/ \E q \in Proc : WillTryOrWake(q, l)
    BY <2>1 DEF WInv, TryInv
  <2> QED
    BY <2>2, <2>3, <2>4
<1> QED
  BY <1>1, WaitInvariance, Invariance, PTL

(* A process asleep in LWLockWaitForVar sleeps for a reason: the lock is   *)
(* held exclusively with the variable unchanged, or somebody has begun to  *)
(* wake it.                                                                *)
THEOREM VarWaitersUpToDate == Spec => []VarWaiterUpToDate
<1>1. WInv => VarWaiterUpToDate
  <2> SUFFICES ASSUME WInv, NEW p \in Proc, NEW l \in Locks, Asleep(p, l),
                      call[p].op = "LWLockWaitForVar"
               PROVE  \/ \E q \in Proc : WillWake(q, l)
                      \/ lockcount[l] >= LW_VAL_EXCLUSIVE /\ var[l] = call[p].val
    BY DEF VarWaiterUpToDate
  <2>1. \/ \E q \in Proc : Wakes(q, l)
        \/ /\ lockcount[l] >= LW_VAL_EXCLUSIVE
           /\ var[l] = call[p].val \/ \E q \in Proc : Clears(q, l)
    BY DEF WInv, VarInv, Asleep, MustWait
  <2>2. \A q \in Proc : Wakes(q, l) \/ Clears(q, l) => WillWake(q, l)
    BY DEF Wakes, Clears, WillWake
  <2> QED
    BY <2>1, <2>2
<1> QED
  BY <1>1, WaitInvariance, PTL
=============================================================================
