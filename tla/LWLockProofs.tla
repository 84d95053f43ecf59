---------------------------- MODULE LWLockProofs ----------------------------
(***************************************************************************)
(* Proofs about LWLock for any number of processes and locks: the types,   *)
(* mutual exclusion, the accounting of the lock word, and that LWLock      *)
(* implements RWLock.                                                      *)
(*                                                                         *)
(* Mutual exclusion is not inductive: the compare-and-exchange looks only  *)
(* at the lock word, so the invariant says what the word tells about the   *)
(* holders (WordInv), which needs that a process takes a lock only once    *)
(* (HeldInv) and releases only what it holds (ControlInv).                 *)
(***************************************************************************)
EXTENDS LWLock, FiniteSetTheorems, TLAPS

AcquireOps == Acquiring \cup {"LWLockConditionalAcquire"}

HeldLocks(p) == {held[p][i].lock : i \in 1 .. Len(held[p])}

(* What the place of a process tells about its call and the locks it has.  *)
ControlAt(p) ==
  /\ pc[p] # "idle" => Lk(p) \in Locks
  /\ pc[p] \in {"try1", "acquired"} => call[p].op \in AcquireOps
  /\ pc[p] = "try2" => call[p].op \in Acquiring
  /\ pc[p] \in QueuePcs \cup DequeuePcs \cup {"sleep"} =>
       call[p].op \in Acquiring \cup {"LWLockWaitForVar"}
  /\ pc[p] \in VarPcs => call[p].op = "LWLockWaitForVar"
  /\ pc[p] = "relok" => call[p].op = "LWLockAcquire"
  /\ pc[p] \in {"ulock", "uset", "clock", "cset"} => call[p].val \in Values
  /\ pc[p] # "idle" /\ call[p].op \in AcquireOps => Lk(p) \notin HeldLocks(p)
  /\ pc[p] \in {"rel", "clock", "cset"} =>
       Lk(p) \in HeldLocks(p) /\ call[p].op \notin AcquireOps

ControlInv == \A p \in Proc : ControlAt(p)

(* held_lwlocks[] lists a lock at most once.                               *)
HeldAt(p) ==
  \A i, j \in 1 .. Len(held[p]) : held[p][i].lock = held[p][j].lock => i = j

HeldInv == \A p \in Proc : HeldAt(p)

(* The word of a lock is the number of its shared holders, or it has one   *)
(* exclusive holder and no other.                                          *)
WordInv ==
  \A l \in Locks :
    \/ /\ Holders(l, LW_EXCLUSIVE) = {}
       /\ lockcount[l] = Cardinality(Holders(l, LW_SHARED))
    \/ /\ \E q \in Proc : Holders(l, LW_EXCLUSIVE) = {q}
       /\ Holders(l, LW_SHARED) = {}
       /\ lockcount[l] = LW_VAL_EXCLUSIVE

IInv ==
  /\ lockcount \in [Locks -> Int]
  /\ SharedTypes
  /\ PrivateTypes
  /\ ControlInv
  /\ HeldInv
  /\ WordInv

-----------------------------------------------------------------------------
(* DeleteAt of a sequence is a sequence over the same set.                 *)
LEMMA DeleteAtType ==
  ASSUME NEW S, NEW s \in Seq(S), NEW i
  PROVE  DeleteAt(s, i) \in Seq(S)
<1>1. CASE Len(s) = 0
  <2>1. 1 .. Len(s) - 1 = 1 .. 0
    BY <1>1
  <2>2. DeleteAt(s, i) \in [1 .. 0 -> S]
    BY <2>1 DEF DeleteAt
  <2> QED
    BY <2>2
<1>2. CASE Len(s) # 0
  <2>1. Len(s) - 1 \in Nat
    BY <1>2
  <2>2. DeleteAt(s, i) \in [1 .. Len(s) - 1 -> S]
    <3> SUFFICES ASSUME NEW j \in 1 .. Len(s) - 1
                 PROVE  (IF j < i THEN s[j] ELSE s[j + 1]) \in S
      BY DEF DeleteAt
    <3>1. j \in 1 .. Len(s) /\ j + 1 \in 1 .. Len(s)
      BY <2>1
    <3>2. s[j] \in S /\ s[j + 1] \in S
      BY <3>1
    <3> QED
      BY <3>2
  <2> QED
    BY <2>1, <2>2
<1> QED
  BY <1>1, <1>2

(* DeleteAt(s, i) lists s without its i-th element, in the same order.     *)
LEMMA DeleteAtElements ==
  ASSUME NEW S, NEW s \in Seq(S), NEW i \in 1 .. Len(s)
  PROVE  /\ Len(DeleteAt(s, i)) = Len(s) - 1
         /\ \A j \in 1 .. Len(s) - 1 :
              DeleteAt(s, i)[j] = IF j < i THEN s[j] ELSE s[j + 1]
<1>1. Len(s) - 1 \in Nat
  OBVIOUS
<1>2. DOMAIN DeleteAt(s, i) = 1 .. Len(s) - 1
  BY DEF DeleteAt
<1>3. DeleteAt(s, i) \in Seq(S)
  BY DeleteAtType
<1>4. Len(DeleteAt(s, i)) = Len(s) - 1
  BY <1>1, <1>2, <1>3
<1> QED
  BY <1>4 DEF DeleteAt

(* Membership after DeleteAt.                                              *)
LEMMA DeleteAtMember ==
  ASSUME NEW S, NEW s \in Seq(S), NEW i \in 1 .. Len(s)
  PROVE  \A x : (\E j \in 1 .. Len(DeleteAt(s, i)) : DeleteAt(s, i)[j] = x)
                 <=> (\E j \in 1 .. Len(s) : j # i /\ s[j] = x)
<1> TAKE x
<1> DEFINE t == DeleteAt(s, i)
<1>1. /\ Len(t) = Len(s) - 1
      /\ \A j \in 1 .. Len(s) - 1 : t[j] = IF j < i THEN s[j] ELSE s[j + 1]
  BY DeleteAtElements
<1>2. Len(s) \in Nat /\ Len(s) - 1 \in Nat
  OBVIOUS
<1> HIDE DEF t
<1>3. ASSUME NEW j \in 1 .. Len(t), t[j] = x
      PROVE  \E k \in 1 .. Len(s) : k # i /\ s[k] = x
  <2>1. CASE j < i
    BY <1>1, <1>2, <1>3, <2>1
  <2>2. CASE ~(j < i)
    <3>1. j + 1 \in 1 .. Len(s) /\ j + 1 # i /\ s[j + 1] = x
      BY <1>1, <1>2, <1>3, <2>2
    <3> QED
      BY <3>1
  <2> QED
    BY <2>1, <2>2
<1>4. ASSUME NEW j \in 1 .. Len(s), j # i, s[j] = x
      PROVE  \E k \in 1 .. Len(t) : t[k] = x
  <2>1. CASE j < i
    <3>1. j \in 1 .. Len(t) /\ t[j] = x
      BY <1>1, <1>2, <1>4, <2>1
    <3> QED
      BY <3>1
  <2>2. CASE ~(j < i)
    <3>1. j - 1 \in 1 .. Len(t) /\ t[j - 1] = x
      BY <1>1, <1>2, <1>4, <2>2
    <3> QED
      BY <3>1
  <2> QED
    BY <2>1, <2>2
<1> QED
  BY <1>3, <1>4 DEF t

-----------------------------------------------------------------------------
(* A step either leaves the holders and the lock words alone, or grants a  *)
(* free lock to one process, or ends one process's hold.                   *)
SameHolders ==
  /\ lockcount' = lockcount
  /\ \A q \in Proc, k \in Locks, n \in LockModes : Holds(q, k, n)' <=> Holds(q, k, n)

Grants(p, l, m) ==
  /\ p \in Proc /\ l \in Locks /\ m \in LockModes
  /\ LockFree(l, m)
  /\ ~Holds(p, l, LW_EXCLUSIVE) /\ ~Holds(p, l, LW_SHARED)
  /\ lockcount' = [lockcount EXCEPT ![l] = @ + Weight(m)]
  /\ \A q \in Proc, k \in Locks, n \in LockModes :
       Holds(q, k, n)' <=> Holds(q, k, n) \/ (q = p /\ k = l /\ n = m)

Ends(p, l, m) ==
  /\ p \in Proc /\ l \in Locks /\ m \in LockModes
  /\ Holds(p, l, m)
  /\ lockcount' = [lockcount EXCEPT ![l] = @ - Weight(m)]
  /\ \A q \in Proc, k \in Locks, n \in LockModes :
       Holds(q, k, n)' <=> Holds(q, k, n) /\ ~(q = p /\ k = l /\ n = m)

HolderStep ==
  \/ SameHolders
  \/ \E p \in Proc, l \in Locks, m \in LockModes : Grants(p, l, m) \/ Ends(p, l, m)

(* The holders of a lock are finitely many processes.                      *)
LEMMA HoldersFinite ==
  ASSUME NEW l, NEW m
  PROVE  /\ IsFiniteSet(Holders(l, m))
         /\ Cardinality(Holders(l, m)) \in Nat
         /\ Cardinality(Holders(l, m)) < LW_VAL_EXCLUSIVE
<1>1. Holders(l, m) \in SUBSET Proc
  BY DEF Holders
<1>2. IsFiniteSet(Holders(l, m)) /\ Cardinality(Holders(l, m)) <= Cardinality(Proc)
  BY <1>1, ConstantsAssumption, FS_Subset
<1>3. Cardinality(Holders(l, m)) \in Nat /\ Cardinality(Proc) \in Nat
  BY <1>2, ConstantsAssumption, FS_CardinalityType
<1> QED
  BY <1>2, <1>3, BackendsFit

(* Such a step keeps the lock word in line with the holders.               *)
LEMMA HolderStepWord ==
  ASSUME IInv, HolderStep
  PROVE  WordInv'
<1> USE DEF LockModes, LW_EXCLUSIVE, LW_SHARED
<1> SUFFICES ASSUME NEW k \in Locks
             PROVE  \/ /\ Holders(k, LW_EXCLUSIVE)' = {}
                       /\ lockcount'[k] = Cardinality(Holders(k, LW_SHARED)')
                    \/ /\ \E q \in Proc : Holders(k, LW_EXCLUSIVE)' = {q}
                       /\ Holders(k, LW_SHARED)' = {}
                       /\ lockcount'[k] = LW_VAL_EXCLUSIVE
  BY DEF WordInv
<1> DEFINE Ex == Holders(k, LW_EXCLUSIVE)
           Sh == Holders(k, LW_SHARED)
<1>1. \/ Ex = {} /\ lockcount[k] = Cardinality(Sh)
      \/ (\E q \in Proc : Ex = {q}) /\ Sh = {} /\ lockcount[k] = LW_VAL_EXCLUSIVE
  BY DEF IInv, WordInv
<1>2. /\ IsFiniteSet(Sh) /\ Cardinality(Sh) \in Nat /\ Cardinality(Sh) < LW_VAL_EXCLUSIVE
      /\ LW_VAL_EXCLUSIVE \in Nat
  BY HoldersFinite, BackendsFit
<1>3. lockcount \in [Locks -> Int]
  BY DEF IInv
<1>4. CASE Ex' = Ex /\ Sh' = Sh /\ lockcount'[k] = lockcount[k]
  BY <1>1, <1>4
<1>5. CASE SameHolders
  <2>1. Ex' = Ex /\ Sh' = Sh /\ lockcount'[k] = lockcount[k]
    BY <1>5 DEF SameHolders, Holders
  <2> QED
    BY <1>4, <2>1
<1>6. CASE \E p \in Proc, l \in Locks, m \in LockModes : Grants(p, l, m)
  <2> PICK p \in Proc, l \in Locks, m \in LockModes : Grants(p, l, m)
    BY <1>6
  <2>1. CASE k # l
    <3>1. Ex' = Ex /\ Sh' = Sh /\ lockcount'[k] = lockcount[k]
      BY <1>3, <2>1 DEF Grants, Holders
    <3> QED
      BY <1>4, <3>1
  <2>2. CASE k = l /\ m = LW_EXCLUSIVE
    <3>1. lockcount[k] = 0 /\ lockcount'[k] = LW_VAL_EXCLUSIVE
      BY <1>2, <1>3, <2>2 DEF Grants, LockFree, Weight
    <3>2. Ex = {} /\ Cardinality(Sh) = 0
      BY <1>1, <1>2, <3>1
    <3>3. Sh = {}
      BY <1>2, <3>2, FS_EmptySet
    <3>4. Ex' = {p} /\ Sh' = {}
      BY <2>2, <3>2, <3>3 DEF Grants, Holders
    <3> QED
      BY <3>1, <3>4
  <2>3. CASE k = l /\ m = LW_SHARED
    <3>1. lockcount[k] < LW_VAL_EXCLUSIVE /\ lockcount'[k] = lockcount[k] + 1
      BY <1>3, <2>3 DEF Grants, LockFree, Weight
    <3>2. Ex = {} /\ lockcount[k] = Cardinality(Sh)
      BY <1>1, <1>2, <3>1
    <3>3. Ex' = {} /\ Sh' = Sh \cup {p} /\ p \notin Sh
      BY <2>3, <3>2 DEF Grants, Holders
    <3>4. Cardinality(Sh \cup {p}) = Cardinality(Sh) + 1
      BY <1>2, <3>3, FS_AddElement
    <3> QED
      BY <3>1, <3>2, <3>3, <3>4
  <2> QED
    BY <2>1, <2>2, <2>3
<1>7. CASE \E p \in Proc, l \in Locks, m \in LockModes : Ends(p, l, m)
  <2> PICK p \in Proc, l \in Locks, m \in LockModes : Ends(p, l, m)
    BY <1>7
  <2>1. CASE k # l
    <3>1. Ex' = Ex /\ Sh' = Sh /\ lockcount'[k] = lockcount[k]
      BY <1>3, <2>1 DEF Ends, Holders
    <3> QED
      BY <1>4, <3>1
  <2>2. CASE k = l /\ m = LW_EXCLUSIVE
    <3>1. p \in Ex
      BY <2>2 DEF Ends, Holders
    <3>2. Ex = {p} /\ Sh = {} /\ lockcount[k] = LW_VAL_EXCLUSIVE
      BY <1>1, <3>1
    <3>3. Ex' = {} /\ Sh' = {}
      BY <2>2, <3>2 DEF Ends, Holders
    <3>4. lockcount'[k] = 0
      BY <1>2, <1>3, <2>2, <3>2 DEF Ends, Weight
    <3> QED
      BY <3>3, <3>4, FS_EmptySet
  <2>3. CASE k = l /\ m = LW_SHARED
    <3>1. p \in Sh
      BY <2>3 DEF Ends, Holders
    <3>2. Ex = {} /\ lockcount[k] = Cardinality(Sh)
      BY <1>1, <3>1
    <3>3. Ex' = {} /\ Sh' = Sh \ {p}
      BY <2>3, <3>2 DEF Ends, Holders
    <3>4. Cardinality(Sh \ {p}) = Cardinality(Sh) - 1
      BY <1>2, <3>1, FS_RemoveElement
    <3>5. lockcount'[k] = lockcount[k] - 1
      BY <1>3, <2>3 DEF Ends, Weight
    <3> QED
      BY <3>2, <3>3, <3>4, <3>5
  <2> QED
    BY <2>1, <2>2, <2>3
<1> QED
  BY <1>5, <1>6, <1>7 DEF HolderStep

-----------------------------------------------------------------------------
(* A step of p in which p neither gets nor leaves a lock.                  *)
Quiet(p) ==
  /\ held' = held /\ lockcount' = lockcount
  /\ \A q \in Proc \ {p} : pc'[q] = pc[q] /\ call'[q] = call[q]
  /\ OnItsWayOut(p)' <=> OnItsWayOut(p)
  /\ OnItsWayOut(p) => call'[p] = call[p]

(* A quiet step changes nobody's locks.                                    *)
LEMMA QuietHolders ==
  ASSUME NEW p \in Proc, Quiet(p)
  PROVE  HolderStep
<1> SUFFICES ASSUME NEW q \in Proc, NEW k \in Locks, NEW n \in LockModes
             PROVE  Holds(q, k, n)' <=> Holds(q, k, n)
  BY DEF HolderStep, SameHolders, Quiet
<1>1. LWLockHeldByMeInMode(q, k, n)' <=> LWLockHeldByMeInMode(q, k, n)
  BY DEF LWLockHeldByMeInMode, Quiet
<1>2. CASE q = p
  BY <1>1, <1>2 DEF Holds, Quiet, Lk
<1>3. CASE q # p
  BY <1>1, <1>3 DEF Holds, Quiet, Lk, OnItsWayOut
<1> QED
  BY <1>2, <1>3

(* Elements of a sequence over S are in S.                                 *)
LEMMA ElementType ==
  ASSUME NEW S, NEW s \in Seq(S), NEW i \in 1 .. Len(s)
  PROVE  s[i] \in S
OBVIOUS

(* The entries of held_lwlocks[].                                          *)
LEMMA HeldEntry ==
  ASSUME PrivateTypes, NEW p \in Proc, NEW i \in 1 .. Len(held[p])
  PROVE  /\ held[p][i] = [lock |-> held[p][i].lock, mode |-> held[p][i].mode]
         /\ held[p][i].lock \in Locks
         /\ held[p][i].mode \in LockModes
         /\ held[p][i].lock \in HeldLocks(p)
<1> DEFINE R == [lock : Locks, mode : LockModes]
<1>1. held[p] \in Seq(R)
  BY DEF PrivateTypes
<1> HIDE DEF R
<1>2. held[p][i] \in R
  BY <1>1, ElementType
<1> QED
  BY <1>2 DEF R, HeldLocks

(* HeldLocks as a set of the locks in held_lwlocks[].                      *)
LEMMA HeldLocksFacts ==
  ASSUME NEW p \in Proc, NEW l \in Locks, PrivateTypes
  PROVE  /\ LWLockHeldByMe(p, l) <=> l \in HeldLocks(p)
         /\ \A m : LWLockHeldByMeInMode(p, l, m) => l \in HeldLocks(p)
         /\ MayWaitFor(p, l) => l \notin HeldLocks(p)
<1>2. \A i \in 1 .. Len(held[p]) : held[p][i].lock \in Locks
  BY HeldEntry
<1>3. l \in Nat /\ Locks \subseteq Nat
  BY ConstantsAssumption
<1>4. MayWaitFor(p, l) => l \notin HeldLocks(p)
  BY <1>2, <1>3 DEF MayWaitFor, HeldLocks
<1> QED
  BY <1>4 DEF LWLockHeldByMe, LWLockHeldByMeInMode, HeldLocks

(* The beginnings of calls.                                                *)
LEMMA CallQuiet ==
  ASSUME IInv, NEW p \in Proc, Call(p) \/ CallEnd(p)
  PROVE  Quiet(p) /\ ControlAt(p)'
<1> USE DEF IInv
<1>1. ASSUME NEW to \in {"try1", "vtest1", "ulock", "clock", "rel"}, NEW c, Begin(p, to, c),
             c.lock \in Locks,
             to = "try1" => c.op \in AcquireOps /\ c.lock \notin HeldLocks(p),
             to = "vtest1" => c.op = "LWLockWaitForVar",
             to \in {"clock", "rel"} => c.lock \in HeldLocks(p),
             to # "try1" => c.op \notin AcquireOps,
             to \in {"ulock", "clock"} => c.val \in Values
      PROVE  Quiet(p) /\ ControlAt(p)'
  <2>1. /\ pc' = [pc EXCEPT ![p] = to] /\ call' = [call EXCEPT ![p] = c]
        /\ held' = held /\ lockcount' = lockcount /\ pc[p] = "idle"
    BY <1>1 DEF Begin, Go, lockVars
  <2>2. pc'[p] = to /\ call'[p] = c
    BY <2>1 DEF PrivateTypes
  <2>3. HeldLocks(p)' = HeldLocks(p)
    BY <2>1 DEF HeldLocks
  <2>4. Quiet(p)
    BY <1>1, <2>1, <2>2 DEF Quiet, OnItsWayOut, DequeuePcs, PrivateTypes
  <2>5. ControlAt(p)'
    BY <1>1, <2>2, <2>3 DEF ControlAt, Lk, QueuePcs, DequeuePcs, VarPcs
  <2> QED
    BY <2>4, <2>5
<1>2. CASE CallAcquire(p)
  BY <1>1, <1>2, HeldLocksFacts DEF CallAcquire, AcquireOps, Acquiring
<1>3. CASE CallConditionalAcquire(p)
  BY <1>1, <1>3, HeldLocksFacts DEF CallConditionalAcquire, AcquireOps, Acquiring
<1>4. CASE CallAcquireOrWait(p)
  BY <1>1, <1>4, HeldLocksFacts DEF CallAcquireOrWait, AcquireOps, Acquiring
<1>5. CASE CallWaitForVar(p)
  BY <1>1, <1>5, ConstantsAssumption DEF CallWaitForVar, AcquireOps, Acquiring
<1>6. CASE CallUpdateVar(p)
  BY <1>1, <1>6, ConstantsAssumption DEF CallUpdateVar, AcquireOps, Acquiring
<1>7. CASE CallReleaseClearVar(p)
  BY <1>1, <1>7, ConstantsAssumption, HeldLocksFacts
     DEF CallReleaseClearVar, AcquireOps, Acquiring
<1>8. CASE CallRelease(p)
  BY <1>1, <1>8, HeldLocksFacts DEF CallRelease, AcquireOps, Acquiring
<1>9. CASE CallReleaseAll(p)
  <2>1. held[p] # << >> /\ held[p] \in Seq([lock : Locks, mode : LockModes])
    BY <1>9 DEF CallReleaseAll, PrivateTypes
  <2>2. Len(held[p]) \in 1 .. Len(held[p])
    BY <2>1
  <2>3. held[p][Len(held[p])].lock \in Locks /\ held[p][Len(held[p])].lock \in HeldLocks(p)
    BY <2>2, HeldEntry
  <2> QED
    BY <1>1, <1>9, <2>3 DEF CallReleaseAll, AcquireOps, Acquiring
<1> QED
  BY <1>2, <1>3, <1>4, <1>5, <1>6, <1>7, <1>8, <1>9 DEF Call, CallEnd

(* The steps inside lwlock.c that change neither a lock word's count nor   *)
(* held_lwlocks[].                                                         *)
QuietStep(p) ==
  \/ LWLockWaitListLock(p) \/ QueueSetFlag(p) \/ QueuePush(p)
  \/ DequeueRemove(p) \/ DequeueUnlock(p) \/ DequeueReleaseOk(p) \/ DequeueSleep(p)
  \/ Sleep(p) \/ RetryReleaseOk(p)
  \/ LWLockConflictsWithVar(p) \/ WaitForVarReleaseOk(p)
  \/ UpdateVarSet(p) \/ UpdateVarCollect(p) \/ UpdateVarUnlock(p) \/ ClearVar(p)
  \/ WakeupSkip(p) \/ WakeupCollect(p) \/ WakeupScanEnd(p) \/ WakeupFlags(p)
  \/ WakeClear(p) \/ WakePost(p) \/ WakeEnd(p)

(* The steps that only queue, wait or wake are quiet.                      *)
LEMMA QuietStepQuiet ==
  ASSUME IInv, NEW p \in Proc, QuietStep(p)
  PROVE  Quiet(p) /\ ControlAt(p)'
<1> USE DEF Go, Lk, lockVars
<1>1. /\ pc \in [Proc -> Pcs] /\ p \in DOMAIN call
      /\ ControlAt(p)
  BY DEF IInv, PrivateTypes, ControlInv
<1>2. held' = held => HeldLocks(p)' = HeldLocks(p)
  BY DEF HeldLocks
<1> USE DEF Quiet, OnItsWayOut, ControlAt, QueuePcs, DequeuePcs, VarPcs, Acquiring, AcquireOps
<1>3. CASE LWLockWaitListLock(p)
  BY <1>1, <1>2, <1>3 DEF LWLockWaitListLock, WaitListLock
<1>4. CASE QueueSetFlag(p)
  BY <1>1, <1>2, <1>4 DEF QueueSetFlag, FetchOr
<1>5. CASE QueuePush(p)
  BY <1>1, <1>2, <1>5 DEF QueuePush
<1>6. CASE DequeueRemove(p)
  BY <1>1, <1>2, <1>6 DEF DequeueRemove
<1>7. CASE DequeueUnlock(p)
  BY <1>1, <1>2, <1>7 DEF DequeueUnlock, AfterDequeue
<1>8. CASE DequeueReleaseOk(p)
  BY <1>1, <1>2, <1>8 DEF DequeueReleaseOk, FetchOr
<1>9. CASE DequeueSleep(p)
  BY <1>1, <1>2, <1>9 DEF DequeueSleep, SemaphoreWait, AfterDequeue
<1>10. CASE Sleep(p)
  BY <1>1, <1>2, <1>10 DEF Sleep, SemaphoreWait, AfterSleep
<1>11. CASE RetryReleaseOk(p)
  BY <1>1, <1>2, <1>11 DEF RetryReleaseOk, FetchOr
<1>12. CASE LWLockConflictsWithVar(p)
  BY <1>1, <1>2, <1>12 DEF LWLockConflictsWithVar, ConflictTest, ConflictValue
<1>13. CASE WaitForVarReleaseOk(p)
  BY <1>1, <1>2, <1>13 DEF WaitForVarReleaseOk, FetchOr
<1>14. CASE UpdateVarSet(p)
  BY <1>1, <1>2, <1>14 DEF UpdateVarSet
<1>15. CASE UpdateVarCollect(p)
  BY <1>1, <1>2, <1>15 DEF UpdateVarCollect
<1>16. CASE UpdateVarUnlock(p)
  BY <1>1, <1>2, <1>16 DEF UpdateVarUnlock
<1>17. CASE ClearVar(p)
  BY <1>1, <1>2, <1>17 DEF ClearVar
<1>18. CASE WakeupSkip(p)
  BY <1>1, <1>2, <1>18 DEF WakeupSkip
<1>19. CASE WakeupCollect(p)
  BY <1>1, <1>2, <1>19 DEF WakeupCollect
<1>20. CASE WakeupScanEnd(p)
  BY <1>1, <1>2, <1>20 DEF WakeupScanEnd
<1>21. CASE WakeupFlags(p)
  BY <1>1, <1>2, <1>21 DEF WakeupFlags
<1>22. CASE WakeClear(p)
  BY <1>1, <1>2, <1>22 DEF WakeClear
<1>23. CASE WakePost(p)
  BY <1>1, <1>2, <1>23 DEF WakePost
<1>24. CASE WakeEnd(p)
  <2>3. /\ held' = held /\ lockcount' = lockcount /\ pc[p] = "wake"
        /\ \A q \in Proc \ {p} : pc'[q] = pc[q] /\ call'[q] = call[q]
    BY <1>1, <1>24 DEF WakeEnd, Finished, IInv, PrivateTypes
  <2>1. CASE call[p].op = "LWLockReleaseAll" /\ held[p] # << >>
    <3>1. Len(held[p]) \in 1 .. Len(held[p])
      BY <2>1 DEF IInv, PrivateTypes
    <3>2. /\ held[p][Len(held[p])].lock \in HeldLocks(p)
          /\ held[p][Len(held[p])].lock \in Locks
      BY <3>1, HeldEntry DEF IInv
    <3>3. call'[p] = [call[p] EXCEPT !.lock = held[p][Len(held[p])].lock]
      BY <1>1, <1>24, <2>1 DEF WakeEnd, Finished
    <3>4. call[p] \in [op : Ops, lock : Locks \cup {NoLock}, mode : LockModes,
                       val : Values \cup {NoVal}]
      BY DEF IInv, PrivateTypes
    <3>5. call'[p].op = call[p].op /\ call'[p].lock = held[p][Len(held[p])].lock
      BY <3>3, <3>4
    <3>6. pc'[p] = "rel"
      BY <1>1, <1>24, <2>1 DEF WakeEnd, Finished
    <3> QED
      BY <1>2, <2>1, <2>3, <3>2, <3>5, <3>6
  <2>2. CASE ~(call[p].op = "LWLockReleaseAll" /\ held[p] # << >>)
    <3>1. pc'[p] = "idle"
      BY <1>1, <1>24, <2>2 DEF WakeEnd, Finished
    <3> QED
      BY <2>3, <3>1
  <2> QED
    BY <2>1, <2>2
<1> QED
  BY <1>3, <1>4, <1>5, <1>6, <1>7, <1>8, <1>9, <1>10, <1>11, <1>12, <1>13, <1>14, <1>15, <1>16, <1>17, <1>18, <1>19, <1>20, <1>21, <1>22, <1>23, <1>24 DEF QuietStep

(* A quiet step keeps what concerns held_lwlocks[] and the other processes.*)
LEMMA QuietKeeps ==
  ASSUME IInv, NEW p \in Proc, Quiet(p), ControlAt(p)'
  PROVE  ControlInv' /\ HeldInv'
<1>1. ASSUME NEW q \in Proc, q # p
      PROVE  ControlAt(q)'
  BY <1>1 DEF IInv, ControlInv, ControlAt, Quiet, HeldLocks, Lk
<1>2. HeldInv'
  BY DEF IInv, HeldInv, HeldAt, Quiet
<1> QED
  BY <1>1, <1>2 DEF ControlInv

(* The two attempts: the lock is granted, or nothing happens.              *)
LEMMA AttemptStep ==
  ASSUME IInv, NEW p \in Proc, FirstAttempt(p) \/ SecondAttempt(p)
  PROVE  HolderStep /\ ControlInv' /\ HeldInv'
<1> USE DEF Go, Lk, QueuePcs, DequeuePcs, VarPcs, Acquiring, AcquireOps
<1> DEFINE l == call[p].lock
           m == call[p].mode
<1>1. PICK from, got, mustwait : AttemptLock(p, from, got, mustwait)
                 /\ \/ /\ from = "try1" /\ got = "acquired"
                       /\ mustwait = IF call[p].op = "LWLockConditionalAcquire"
                                     THEN "failed" ELSE "qlock"
                    \/ from = "try2" /\ got = "dlock" /\ mustwait = "sleep"
  BY DEF FirstAttempt, SecondAttempt
<1>2. /\ pc \in [Proc -> Pcs] /\ m \in LockModes
      /\ ControlAt(p)
  BY DEF IInv, PrivateTypes, ControlInv
<1>3. /\ pc[p] = from /\ call' = call /\ held' = held
      /\ l \in Locks /\ l \notin HeldLocks(p)
      /\ call[p].op \in AcquireOps
      /\ from = "try2" => call[p].op \in Acquiring
      /\ ~OnItsWayOut(p)
  BY <1>1, <1>2 DEF AttemptLock, ControlAt, OnItsWayOut
<1>4. \A q \in Proc : HeldLocks(q)' = HeldLocks(q)
  BY <1>3 DEF HeldLocks
<1>5. HeldInv'
  BY <1>3 DEF IInv, HeldInv, HeldAt
<1>6. \A q \in Proc \ {p} : pc'[q] = pc[q] /\ call'[q] = call[q]
  BY <1>1, <1>2, <1>3 DEF AttemptLock
<1>7. pc'[p] \in {got, mustwait}
  BY <1>1, <1>2 DEF AttemptLock
<1>8. ControlAt(p)'
  BY <1>1, <1>2, <1>3, <1>4, <1>7 DEF ControlAt
<1>9. ControlInv'
  <2> SUFFICES ASSUME NEW q \in Proc, q # p
               PROVE  ControlAt(q)'
    BY <1>8 DEF ControlInv
  <2> QED
    BY <1>4, <1>6 DEF IInv, ControlInv, ControlAt
<1>10. CASE LockFree(l, m)
  <2>1. /\ lockcount' = [lockcount EXCEPT ![l] = @ + Weight(m)]
        /\ pc' = [pc EXCEPT ![p] = got]
    BY <1>1, <1>10 DEF AttemptLock
  <2>2. OnItsWayOut(p)'
    BY <1>1, <1>2, <1>3, <2>1 DEF OnItsWayOut
  <2>3. \A k, n : LWLockHeldByMeInMode(p, k, n) <=> LWLockHeldByMeInMode(p, k, n)'
    BY <1>3 DEF LWLockHeldByMeInMode
  <2>4. ~Holds(p, l, LW_EXCLUSIVE) /\ ~Holds(p, l, LW_SHARED)
    BY <1>3, HeldLocksFacts DEF Holds, IInv
  <2>5. \A q \in Proc, k \in Locks, n \in LockModes :
          Holds(q, k, n)' <=> Holds(q, k, n) \/ (q = p /\ k = l /\ n = m)
    <3> SUFFICES ASSUME NEW q \in Proc, NEW k \in Locks, NEW n \in LockModes
                 PROVE  Holds(q, k, n)' <=> Holds(q, k, n) \/ (q = p /\ k = l /\ n = m)
      OBVIOUS
    <3>1. CASE q = p
      BY <1>3, <2>2, <2>3, <3>1 DEF Holds
    <3>2. CASE q # p
      BY <1>3, <1>6, <3>2 DEF Holds, OnItsWayOut, LWLockHeldByMeInMode
    <3> QED
      BY <3>1, <3>2
  <2>6. Grants(p, l, m)
    BY <1>2, <1>3, <1>10, <2>1, <2>4, <2>5 DEF Grants
  <2> QED
    BY <1>2, <1>3, <1>5, <1>9, <2>6 DEF HolderStep
<1>11. CASE ~LockFree(l, m)
  <2>1. lockcount' = lockcount /\ pc' = [pc EXCEPT ![p] = mustwait]
    BY <1>1, <1>11 DEF AttemptLock
  <2>2. Quiet(p)
    BY <1>1, <1>2, <1>3, <1>6, <2>1 DEF Quiet, OnItsWayOut
  <2> QED
    BY <1>5, <1>9, <2>2, QuietHolders
<1> QED
  BY <1>10, <1>11

(* Membership after Append.                                                *)
LEMMA AppendMember ==
  ASSUME NEW S, NEW s \in Seq(S), NEW e \in S, NEW x
  PROVE  (\E i \in 1 .. Len(Append(s, e)) : Append(s, e)[i] = x)
           <=> (x = e \/ \E i \in 1 .. Len(s) : s[i] = x)
<1>1. /\ Len(Append(s, e)) = Len(s) + 1 /\ Len(s) \in Nat
      /\ \A i \in 1 .. Len(s) : Append(s, e)[i] = s[i]
      /\ Append(s, e)[Len(s) + 1] = e
  OBVIOUS
<1>2. \A i : i \in 1 .. Len(s) + 1 <=> i \in 1 .. Len(s) \/ i = Len(s) + 1
  BY <1>1
<1> HIDE <1>1
<1> QED
  BY <1>1, <1>2

(* The end of an acquisition: the lock moves to held_lwlocks[].            *)
LEMMA ReturnStep ==
  ASSUME IInv, NEW p \in Proc, Return(p)
  PROVE  HolderStep /\ ControlInv' /\ HeldInv'
<1> USE DEF Go, Lk
<1> DEFINE e == [lock |-> call[p].lock, mode |-> call[p].mode]
           R == [lock : Locks, mode : LockModes]
<1>1. /\ pc \in [Proc -> Pcs] /\ call[p].mode \in LockModes
      /\ call \in [Proc -> [op : Ops, lock : Locks \cup {NoLock}, mode : LockModes,
                             val : Values \cup {NoVal}]]
      /\ held \in [Proc -> Seq(R)]
      /\ ControlAt(p)
  BY DEF IInv, PrivateTypes, ControlInv
<1>2. /\ pc'[p] = "idle" /\ call'[p] = NoCall
      /\ \A q \in Proc \ {p} : pc'[q] = pc[q] /\ call'[q] = call[q] /\ held'[q] = held[q]
      /\ lockcount' = lockcount
  BY <1>1 DEF Return, lockVars
<1>3. ControlInv'
  <2> SUFFICES ASSUME NEW q \in Proc
               PROVE  ControlAt(q)'
    BY DEF ControlInv
  <2>1. CASE q = p
    BY <1>2, <2>1 DEF ControlAt, QueuePcs, DequeuePcs, VarPcs
  <2>2. CASE q # p
    BY <1>2, <2>2 DEF IInv, ControlInv, ControlAt, HeldLocks
  <2> QED
    BY <2>1, <2>2
<1>4. CASE pc[p] # "acquired"
  <2>1. held' = held
    BY <1>4 DEF Return
  <2>2. Quiet(p)
    BY <1>2, <1>4, <2>1 DEF Quiet, OnItsWayOut, DequeuePcs, Return
  <2> QED
    BY <1>3, <2>1, <2>2, QuietHolders DEF HeldInv, HeldAt, IInv
<1>5. CASE pc[p] = "acquired"
  <2>1. held'[p] = Append(held[p], e)
    BY <1>1, <1>5 DEF Return
  <2>2. e \in R /\ held[p] \in Seq(R) /\ e.lock \notin HeldLocks(p)
    BY <1>1, <1>5 DEF ControlAt, AcquireOps
  <2> HIDE DEF e, R
  <2>3. HolderStep
    <3> SUFFICES ASSUME NEW q \in Proc, NEW k \in Locks, NEW n \in LockModes
                 PROVE  Holds(q, k, n)' <=> Holds(q, k, n)
      BY <1>2 DEF HolderStep, SameHolders
    <3>1. CASE q = p
      <4>1. LWLockHeldByMeInMode(p, k, n)' <=>
              [lock |-> k, mode |-> n] = e \/ LWLockHeldByMeInMode(p, k, n)
        BY <2>1, <2>2, AppendMember DEF LWLockHeldByMeInMode
      <4>2. [lock |-> k, mode |-> n] = e <=> call[p].lock = k /\ call[p].mode = n
        BY DEF e
      <4> QED
        BY <1>2, <1>5, <3>1, <4>1, <4>2 DEF Holds, OnItsWayOut, DequeuePcs
    <3>2. CASE q # p
      BY <1>2, <3>2 DEF Holds, OnItsWayOut, LWLockHeldByMeInMode
    <3> QED
      BY <3>1, <3>2
  <2>4. HeldAt(p)'
    <3>1. /\ Len(held'[p]) = Len(held[p]) + 1 /\ Len(held[p]) \in Nat
          /\ \A i \in 1 .. Len(held[p]) : held'[p][i] = held[p][i]
          /\ held'[p][Len(held[p]) + 1] = e
      BY <2>1, <2>2
    <3>2. \A i \in 1 .. Len(held[p]) : held[p][i].lock # e.lock
      BY <2>2 DEF HeldLocks
    <3>3. \A i, j \in 1 .. Len(held[p]) : held[p][i].lock = held[p][j].lock => i = j
      BY DEF IInv, HeldInv, HeldAt
    <3>4. \A i : i \in 1 .. Len(held'[p]) <=> i \in 1 .. Len(held[p]) \/ i = Len(held[p]) + 1
      BY <3>1
    <3> QED
      BY <3>1, <3>2, <3>3, <3>4 DEF HeldAt
  <2>5. \A q \in Proc \ {p} : HeldAt(q)'
    BY <1>2 DEF HeldAt, HeldInv, IInv
  <2> QED
    BY <1>3, <2>3, <2>4, <2>5 DEF HeldInv
<1> QED
  BY <1>4, <1>5

(* The entry LWLockRelease finds is the one of its lock.                   *)
LEMMA HeldIndexFound ==
  ASSUME IInv, NEW p \in Proc, NEW l \in HeldLocks(p)
  PROVE  HeldIndex(p, l) \in 1 .. Len(held[p]) /\ held[p][HeldIndex(p, l)].lock = l
<1>1. PICK i \in 1 .. Len(held[p]) : held[p][i].lock = l
  BY DEF HeldLocks
<1>2. \A j \in 1 .. Len(held[p]) : held[p][j].lock = l => j <= i
  <2> SUFFICES ASSUME NEW j \in 1 .. Len(held[p]), held[p][j].lock = l
               PROVE  j <= i
    OBVIOUS
  <2>1. j = i
    BY <1>1 DEF IInv, HeldInv, HeldAt
  <2> QED
    BY <2>1
<1> QED
  BY <1>1, <1>2 DEF HeldIndex

(* LWLockRelease: the entry and its weight in the word go together.        *)
LEMMA ReleaseStep ==
  ASSUME IInv, NEW p \in Proc, Release(p)
  PROVE  HolderStep /\ ControlInv' /\ HeldInv'
<1> USE DEF Go, Lk
<1> DEFINE R == [lock : Locks, mode : LockModes]
           l == call[p].lock
           i == HeldIndex(p, l)
           m == held[p][i].mode
           h == DeleteAt(held[p], i)
<1>1. /\ pc \in [Proc -> Pcs]
      /\ call \in [Proc -> [op : Ops, lock : Locks \cup {NoLock}, mode : LockModes,
                             val : Values \cup {NoVal}]]
      /\ held \in [Proc -> Seq(R)]
      /\ ControlAt(p)
  BY DEF IInv, PrivateTypes, ControlInv
<1>2. pc[p] = "rel" /\ l \in Locks /\ l \in HeldLocks(p) /\ call[p].op \notin AcquireOps
  BY <1>1 DEF Release, ControlAt
<1>3. i \in 1 .. Len(held[p]) /\ held[p][i] = [lock |-> l, mode |-> m] /\ m \in LockModes
  <2>1. i \in 1 .. Len(held[p]) /\ held[p][i].lock = l
    BY <1>2, HeldIndexFound
  <2> QED
    BY <2>1, HeldEntry DEF IInv
<1>4. /\ held'[p] = h /\ \A q \in Proc \ {p} : held'[q] = held[q]
      /\ lockcount' = [lockcount EXCEPT ![l] = @ - Weight(m)]
      /\ pc'[p] \in {"wlock", "rel", "idle"}
      /\ \A q \in Proc \ {p} : pc'[q] = pc[q] /\ call'[q] = call[q]
  <2>1. lockcount \in [Locks -> Int]
    BY DEF IInv
  <2> QED
    BY <1>1, <1>2, <2>1 DEF Release, Finished
<1> HIDE DEF i, m, R
<1>5. h \in Seq(R) /\ held[p] \in Seq(R)
  BY <1>1, DeleteAtType
<1>6. /\ Len(h) = Len(held[p]) - 1
      /\ \A j \in 1 .. Len(held[p]) - 1 : h[j] = IF j < i THEN held[p][j] ELSE held[p][j + 1]
  BY <1>3, <1>5, DeleteAtElements
<1>7. \A x : (\E j \in 1 .. Len(h) : h[j] = x)
              <=> (\E j \in 1 .. Len(held[p]) : j # i /\ held[p][j] = x)
  <2>1. \A S : \A s \in Seq(S) : \A j \in 1 .. Len(s) : \A x :
          (\E k \in 1 .. Len(DeleteAt(s, j)) : DeleteAt(s, j)[k] = x)
             <=> (\E k \in 1 .. Len(s) : k # j /\ s[k] = x)
    BY DeleteAtMember, Zenon
  <2>2. held[p] \in Seq(R)
    BY <1>5
  <2>3. i \in 1 .. Len(held[p])
    BY <1>3
  <2> QED
    BY <2>1, <2>2, <2>3, Zenon
<1>8. \A j, k \in 1 .. Len(held[p]) : held[p][j].lock = held[p][k].lock => j = k
  BY DEF IInv, HeldInv, HeldAt
<1> HIDE DEF h
<1>9. HeldInv'
  <2>1. HeldAt(p)'
    <3> SUFFICES ASSUME NEW j \in 1 .. Len(h), NEW k \in 1 .. Len(h), h[j].lock = h[k].lock
                 PROVE  j = k
      BY <1>4 DEF HeldAt
    <3>1. Len(held[p]) \in Nat
      BY <1>5
    <3> DEFINE f(n) == IF n < i THEN n ELSE n + 1
    <3>2. ASSUME NEW n \in 1 .. Len(h)
          PROVE  f(n) \in 1 .. Len(held[p]) /\ h[n] = held[p][f(n)]
      BY <1>3, <1>6, <3>1
    <3>3. f(j) = f(k)
      BY <1>8, <3>2
    <3> QED
      BY <1>3, <3>3
  <2>2. \A q \in Proc \ {p} : HeldAt(q)'
    BY <1>4 DEF IInv, HeldInv, HeldAt
  <2> QED
    BY <2>1, <2>2 DEF HeldInv
<1>10. HolderStep
  <2>1. Holds(p, l, m)
    BY <1>3 DEF Holds, LWLockHeldByMeInMode
  <2>2. ASSUME NEW k \in Locks, NEW n \in LockModes
        PROVE  Holds(p, k, n)' <=> Holds(p, k, n) /\ ~(k = l /\ n = m)
    <3>1. LWLockHeldByMeInMode(p, k, n)' <=>
            \E j \in 1 .. Len(held[p]) : j # i /\ held[p][j] = [lock |-> k, mode |-> n]
      BY <1>4, <1>7 DEF LWLockHeldByMeInMode
    <3>2. \A j \in 1 .. Len(held[p]) :
            held[p][j] = [lock |-> k, mode |-> n] => (j # i <=> ~(k = l /\ n = m))
      BY <1>3, <1>8
    <3> QED
      BY <1>2, <1>4, <3>1, <3>2 DEF Holds, OnItsWayOut, DequeuePcs, LWLockHeldByMeInMode
  <2>3. ASSUME NEW q \in Proc, q # p, NEW k \in Locks, NEW n \in LockModes
        PROVE  Holds(q, k, n)' <=> Holds(q, k, n)
    BY <1>4, <2>3 DEF Holds, OnItsWayOut, LWLockHeldByMeInMode
  <2>4. Ends(p, l, m)
    BY <1>2, <1>3, <1>4, <2>1, <2>2, <2>3 DEF Ends
  <2> QED
    BY <1>2, <1>3, <2>4 DEF HolderStep
<1>11. ControlAt(p)'
  <2>1. CASE pc'[p] = "wlock"
    <3>1. call' = call
      BY <1>1, <2>1 DEF Release, Finished
    <3> QED
      BY <1>2, <2>1, <3>1 DEF ControlAt, QueuePcs, DequeuePcs, VarPcs
  <2>2. CASE pc'[p] = "rel"
    <3>1. h # << >> /\ call' = [call EXCEPT ![p].lock = h[Len(h)].lock]
      BY <1>1, <2>2 DEF Release, Finished, h, i
    <3>2. call'[p].lock = h[Len(h)].lock /\ call'[p].op = call[p].op
      BY <1>1, <3>1
    <3>3. Len(h) \in 1 .. Len(h) /\ h[Len(h)] \in R
      BY <1>5, <3>1
    <3>4. h[Len(h)].lock \in HeldLocks(p)' /\ h[Len(h)].lock \in Locks
      BY <1>4, <3>3 DEF HeldLocks, R
    <3> QED
      BY <1>2, <2>2, <3>2, <3>4 DEF ControlAt, QueuePcs, DequeuePcs, VarPcs
  <2>3. CASE pc'[p] = "idle"
    BY <2>3 DEF ControlAt, QueuePcs, DequeuePcs, VarPcs
  <2> QED
    BY <1>4, <2>1, <2>2, <2>3
<1>12. ControlInv'
  <2> SUFFICES ASSUME NEW q \in Proc, q # p
               PROVE  ControlAt(q)'
    BY <1>11 DEF ControlInv
  <2> QED
    BY <1>4 DEF IInv, ControlInv, ControlAt, HeldLocks
<1> QED
  BY <1>9, <1>10, <1>12

-----------------------------------------------------------------------------
(* Types                                                                   *)
CallRecords == [op : Ops, lock : Locks \cup {NoLock}, mode : LockModes,
                val : Values \cup {NoVal}]

(* The beginnings of calls keep the types.                                 *)
LEMMA CallTypes ==
  ASSUME IInv, NEW p \in Proc, Call(p) \/ CallEnd(p)
  PROVE  lockcount' \in [Locks -> Int] /\ SharedTypes' /\ PrivateTypes'
<1>1. ASSUME NEW to \in Pcs, NEW c \in CallRecords, Begin(p, to, c)
      PROVE  lockcount' \in [Locks -> Int] /\ SharedTypes' /\ PrivateTypes'
  BY <1>1 DEF IInv, SharedTypes, PrivateTypes, Begin, Go, lockVars, procVars, waitLocal,
              wakeLocal, CallRecords
<1> USE ConstantsAssumption DEF CallRecords, Ops, Acquiring, Releasing, LockModes, Pcs, VarPcs
<1>2. CASE CallAcquire(p)
  BY <1>1, <1>2 DEF CallAcquire
<1>3. CASE CallConditionalAcquire(p)
  BY <1>1, <1>3 DEF CallConditionalAcquire
<1>4. CASE CallAcquireOrWait(p)
  BY <1>1, <1>4 DEF CallAcquireOrWait
<1>5. CASE CallWaitForVar(p)
  BY <1>1, <1>5 DEF CallWaitForVar
<1>6. CASE CallUpdateVar(p)
  BY <1>1, <1>6 DEF CallUpdateVar
<1>7. CASE CallReleaseClearVar(p)
  BY <1>1, <1>7 DEF CallReleaseClearVar
<1>8. CASE CallRelease(p)
  BY <1>1, <1>8 DEF CallRelease
<1>9. CASE CallReleaseAll(p)
  <2>1. held[p] # << >> /\ held[p] \in Seq([lock : Locks, mode : LockModes])
    BY <1>9 DEF CallReleaseAll, IInv, PrivateTypes
  <2>2. Len(held[p]) \in 1 .. Len(held[p])
    BY <2>1
  <2>3. held[p][Len(held[p])].lock \in Locks
    BY <2>2, HeldEntry DEF IInv
  <2> QED
    BY <1>1, <1>9, <2>3 DEF CallReleaseAll
<1> QED
  BY <1>2, <1>3, <1>4, <1>5, <1>6, <1>7, <1>8, <1>9 DEF Call, CallEnd

(* The quiet steps keep the types.                                         *)
LEMMA QuietStepTypes ==
  ASSUME IInv, NEW p \in Proc, QuietStep(p) \/ SpuriousPost(p)
  PROVE  lockcount' \in [Locks -> Int] /\ SharedTypes' /\ PrivateTypes'
<1> USE DEF Go, Lk, lockVars, procVars, waitLocal, wakeLocal
<1>1. lockcount \in [Locks -> Int] /\ SharedTypes /\ PrivateTypes /\ ControlAt(p)
  BY DEF IInv, ControlInv
<1>2. /\ {"idle", "try1", "try2", "sleep", "relok", "acquired", "failed", "vreturn"} \subseteq Pcs
      /\ {"uset", "ucollect", "cset", "rel"} \subseteq Pcs
      /\ {"qlock", "qflag", "qpush", "dlock", "dremove", "dunlock", "drelok", "dsleep"} \subseteq Pcs
      /\ {"vtest1", "vlock1", "vval1", "vrelok", "vtest2", "vlock2", "vval2"} \subseteq Pcs
      /\ {"wscan", "wcas", "wake", "wsem"} \subseteq Pcs
  BY DEF Pcs, QueuePcs, DequeuePcs, VarPcs, WakePcs
<1>3. {HAS_WAITERS, RELEASE_OK, LOCKED} \subseteq Flags
  BY DEF Flags
<1>4. {LW_WS_NOT_WAITING, LW_WS_WAITING, LW_WS_PENDING_WAKEUP} \subseteq WaitStates
  BY DEF WaitStates
<1>5. CASE LWLockWaitListLock(p)
  <2>1. UNCHANGED <<lockcount, waiters, var, lwWaiting, sem, spurious, call, held,
                    extraWaits, newval, iter, woke, wakeup, wakee>>
    BY <1>5 DEF LWLockWaitListLock, WaitListLock
  <2>2. flags' \in [Locks -> SUBSET Flags]
    <3>1. flags' = [flags EXCEPT ![Lk(p)] = @ \cup {LOCKED}]
      BY <1>5 DEF LWLockWaitListLock, WaitListLock
    <3> QED
      BY <1>1, <1>3, <3>1 DEF SharedTypes
  <2>3. pc' \in [Proc -> Pcs]
    BY <1>1, <1>2, <1>5 DEF SharedTypes, PrivateTypes, LWLockWaitListLock, WaitListLock
  <2> QED
    BY <1>1, <2>1, <2>2, <2>3 DEF SharedTypes, PrivateTypes
<1>6. CASE QueueSetFlag(p)
  <2>1. UNCHANGED <<lockcount, waiters, var, lwWaiting, sem, spurious, call, held,
                    extraWaits, newval, iter, woke, wakeup, wakee>>
    BY <1>6 DEF QueueSetFlag, FetchOr
  <2>2. flags' \in [Locks -> SUBSET Flags]
    BY <1>1, <1>3, <1>6 DEF SharedTypes, PrivateTypes, QueueSetFlag, FetchOr
  <2>3. pc' \in [Proc -> Pcs]
    BY <1>1, <1>2, <1>6 DEF SharedTypes, PrivateTypes, QueueSetFlag, FetchOr
  <2> QED
    BY <1>1, <2>1, <2>2, <2>3 DEF SharedTypes, PrivateTypes
<1>7. CASE QueuePush(p)
  <2>1. UNCHANGED <<lockcount, var, sem, spurious, call, held, extraWaits, newval,
                    iter, woke, wakeup, wakee>>
    BY <1>7 DEF QueuePush
  <2>2. flags' \in [Locks -> SUBSET Flags]
    BY <1>1, <1>3, <1>7 DEF SharedTypes, PrivateTypes, QueuePush
  <2>3. pc' \in [Proc -> Pcs]
    BY <1>1, <1>2, <1>7 DEF SharedTypes, PrivateTypes, QueuePush
  <2>4. lwWaiting' \in [Proc -> WaitStates]
    BY <1>1, <1>4, <1>7 DEF SharedTypes, PrivateTypes, QueuePush
  <2>5. waiters' \in [Locks -> Seq(Proc)]
    <3>1. Append(waiters[Lk(p)], p) \in Seq(Proc) /\ <<p>> \o waiters[Lk(p)] \in Seq(Proc)
      <4>1. waiters[Lk(p)] \in Seq(Proc) /\ <<p>> \in Seq(Proc)
        BY <1>1, <1>7 DEF SharedTypes, QueuePush, ControlAt
      <4> QED
        BY <4>1
    <3> QED
      BY <1>1, <1>7, <3>1 DEF SharedTypes, QueuePush
  <2> QED
    BY <1>1, <2>1, <2>2, <2>3, <2>4, <2>5 DEF SharedTypes, PrivateTypes
<1>8. CASE DequeueRemove(p)
  <2>1. UNCHANGED <<lockcount, var, lwWaiting, sem, spurious, call, held,
                    extraWaits, newval, iter, woke, wakeup, wakee>>
    BY <1>8 DEF DequeueRemove
  <2>2. flags' \in [Locks -> SUBSET Flags]
    BY <1>1, <1>3, <1>8 DEF SharedTypes, PrivateTypes, DequeueRemove
  <2>3. pc' \in [Proc -> Pcs]
    BY <1>1, <1>2, <1>8 DEF SharedTypes, PrivateTypes, DequeueRemove
  <2>4. waiters' \in [Locks -> Seq(Proc)]
    BY <1>1, <1>8, DeleteAtType DEF SharedTypes, PrivateTypes, DequeueRemove
  <2> QED
    BY <1>1, <2>1, <2>2, <2>3, <2>4 DEF SharedTypes, PrivateTypes
<1>9. CASE DequeueUnlock(p)
  <2>1. UNCHANGED <<lockcount, waiters, var, sem, spurious, call, held, extraWaits,
                    newval, iter, woke, wakeup, wakee>>
    BY <1>9 DEF DequeueUnlock, AfterDequeue
  <2>2. flags' \in [Locks -> SUBSET Flags]
    BY <1>1, <1>3, <1>9 DEF SharedTypes, PrivateTypes, DequeueUnlock, AfterDequeue
  <2>3. pc' \in [Proc -> Pcs]
    BY <1>1, <1>2, <1>9 DEF SharedTypes, PrivateTypes, DequeueUnlock, AfterDequeue
  <2>4. lwWaiting' \in [Proc -> WaitStates]
    BY <1>1, <1>4, <1>9 DEF SharedTypes, PrivateTypes, DequeueUnlock, AfterDequeue
  <2> QED
    BY <1>1, <2>1, <2>2, <2>3, <2>4 DEF SharedTypes, PrivateTypes
<1>10. CASE DequeueReleaseOk(p)
  <2>1. UNCHANGED <<lockcount, waiters, var, lwWaiting, sem, spurious, call, held,
                    extraWaits, newval, iter, woke, wakeup, wakee>>
    BY <1>10 DEF DequeueReleaseOk, FetchOr
  <2>2. flags' \in [Locks -> SUBSET Flags]
    BY <1>1, <1>3, <1>10 DEF SharedTypes, PrivateTypes, DequeueReleaseOk, FetchOr
  <2>3. pc' \in [Proc -> Pcs]
    BY <1>1, <1>2, <1>10 DEF SharedTypes, PrivateTypes, DequeueReleaseOk, FetchOr
  <2> QED
    BY <1>1, <2>1, <2>2, <2>3 DEF SharedTypes, PrivateTypes
<1>11. CASE DequeueSleep(p)
  <2>1. UNCHANGED <<lockcount, flags, waiters, var, lwWaiting, spurious, call, held,
                    newval, iter, woke, wakeup, wakee>>
    BY <1>11 DEF DequeueSleep, SemaphoreWait, AfterDequeue
  <2>2. sem' \in [Proc -> Nat]
    BY <1>1, <1>11 DEF SharedTypes, PrivateTypes, DequeueSleep, SemaphoreWait, AfterDequeue
  <2>3. pc' \in [Proc -> Pcs]
    BY <1>1, <1>2, <1>11 DEF SharedTypes, PrivateTypes, DequeueSleep, SemaphoreWait, AfterDequeue
  <2>4. extraWaits' \in [Proc -> Nat]
    <3>1. extraWaits' = extraWaits \/ extraWaits' = [extraWaits EXCEPT ![p] = extraWaits[p] + 1]
      BY <1>11 DEF DequeueSleep, SemaphoreWait
    <3>2. extraWaits \in [Proc -> Nat] /\ extraWaits[p] + 1 \in Nat
      BY <1>1 DEF PrivateTypes
    <3> QED
      BY <3>1, <3>2
  <2> QED
    BY <1>1, <2>1, <2>2, <2>3, <2>4 DEF SharedTypes, PrivateTypes
<1>12. CASE Sleep(p)
  <2>1. UNCHANGED <<lockcount, flags, waiters, var, lwWaiting, spurious, call, held,
                    newval, iter, woke, wakeup, wakee>>
    BY <1>12 DEF Sleep, SemaphoreWait, AfterSleep
  <2>2. sem' \in [Proc -> Nat]
    BY <1>1, <1>12 DEF SharedTypes, PrivateTypes, Sleep, SemaphoreWait, AfterSleep
  <2>3. pc' \in [Proc -> Pcs]
    BY <1>1, <1>2, <1>12 DEF SharedTypes, PrivateTypes, Sleep, SemaphoreWait, AfterSleep
  <2>4. extraWaits' \in [Proc -> Nat]
    <3>1. extraWaits' = extraWaits \/ extraWaits' = [extraWaits EXCEPT ![p] = extraWaits[p] + 1]
      BY <1>12 DEF Sleep, SemaphoreWait
    <3>2. extraWaits \in [Proc -> Nat] /\ extraWaits[p] + 1 \in Nat
      BY <1>1 DEF PrivateTypes
    <3> QED
      BY <3>1, <3>2
  <2> QED
    BY <1>1, <2>1, <2>2, <2>3, <2>4 DEF SharedTypes, PrivateTypes
<1>13. CASE RetryReleaseOk(p)
  <2>1. UNCHANGED <<lockcount, waiters, var, lwWaiting, sem, spurious, call, held,
                    extraWaits, newval, iter, woke, wakeup, wakee>>
    BY <1>13 DEF RetryReleaseOk, FetchOr
  <2>2. flags' \in [Locks -> SUBSET Flags]
    BY <1>1, <1>3, <1>13 DEF SharedTypes, PrivateTypes, RetryReleaseOk, FetchOr
  <2>3. pc' \in [Proc -> Pcs]
    BY <1>1, <1>2, <1>13 DEF SharedTypes, PrivateTypes, RetryReleaseOk, FetchOr
  <2> QED
    BY <1>1, <2>1, <2>2, <2>3 DEF SharedTypes, PrivateTypes
<1>14. CASE LWLockConflictsWithVar(p)
  <2>1. UNCHANGED <<lockcount, waiters, var, lwWaiting, sem, spurious, call, held,
                    extraWaits, iter, woke, wakeup, wakee>>
    BY <1>14 DEF LWLockConflictsWithVar, ConflictTest, ConflictValue
  <2>2. flags' \in [Locks -> SUBSET Flags]
    <3>1. flags' = flags \/ flags' = [flags EXCEPT ![Lk(p)] = @ \ {LOCKED}]
      BY <1>14 DEF LWLockConflictsWithVar, ConflictTest, ConflictValue
    <3> QED
      BY <1>1, <1>3, <3>1 DEF SharedTypes
  <2>3. pc' \in [Proc -> Pcs]
    BY <1>1, <1>2, <1>14 DEF SharedTypes, PrivateTypes, LWLockConflictsWithVar, ConflictTest, ConflictValue
  <2>4. newval' \in [Proc -> Values \cup {NoVal}]
    BY <1>1, <1>14 DEF SharedTypes, PrivateTypes, LWLockConflictsWithVar, ConflictTest, ConflictValue, ControlAt
  <2> QED
    BY <1>1, <2>1, <2>2, <2>3, <2>4 DEF SharedTypes, PrivateTypes
<1>15. CASE WaitForVarReleaseOk(p)
  <2>1. UNCHANGED <<lockcount, waiters, var, lwWaiting, sem, spurious, call, held,
                    extraWaits, newval, iter, woke, wakeup, wakee>>
    BY <1>15 DEF WaitForVarReleaseOk, FetchOr
  <2>2. flags' \in [Locks -> SUBSET Flags]
    BY <1>1, <1>3, <1>15 DEF SharedTypes, PrivateTypes, WaitForVarReleaseOk, FetchOr
  <2>3. pc' \in [Proc -> Pcs]
    BY <1>1, <1>2, <1>15 DEF SharedTypes, PrivateTypes, WaitForVarReleaseOk, FetchOr
  <2> QED
    BY <1>1, <2>1, <2>2, <2>3 DEF SharedTypes, PrivateTypes
<1>16. CASE UpdateVarSet(p)
  <2>1. UNCHANGED <<lockcount, flags, waiters, lwWaiting, sem, spurious, call, held,
                    extraWaits, newval, iter, woke, wakeup, wakee>>
    BY <1>16 DEF UpdateVarSet
  <2>2. var' \in [Locks -> Values]
    BY <1>1, <1>16 DEF SharedTypes, PrivateTypes, UpdateVarSet, ControlAt
  <2>3. pc' \in [Proc -> Pcs]
    BY <1>1, <1>2, <1>16 DEF SharedTypes, PrivateTypes, UpdateVarSet
  <2> QED
    BY <1>1, <2>1, <2>2, <2>3 DEF SharedTypes, PrivateTypes
<1>17. CASE UpdateVarCollect(p)
  <2>1. UNCHANGED <<lockcount, flags, var, sem, spurious, pc, call, held,
                    extraWaits, newval, iter, woke, wakee>>
    BY <1>17 DEF UpdateVarCollect, FrontWaitsUntilFree
  <2>2. waiters' \in [Locks -> Seq(Proc)]
    BY <1>1, <1>17, DeleteAtType DEF SharedTypes, PrivateTypes, UpdateVarCollect, FrontWaitsUntilFree
  <2>3. wakeup' \in [Proc -> Seq(Proc)]
    <3>1. waiters[Lk(p)] \in Seq(Proc) /\ waiters[Lk(p)] # << >> /\ wakeup[p] \in Seq(Proc)
      BY <1>1, <1>17 DEF SharedTypes, PrivateTypes, UpdateVarCollect, FrontWaitsUntilFree, ControlAt
    <3>2. waiters[Lk(p)][1] \in Proc
      BY <3>1
    <3>3. Append(wakeup[p], waiters[Lk(p)][1]) \in Seq(Proc)
      BY <3>1, <3>2
    <3> QED
      BY <1>1, <1>17, <3>3 DEF PrivateTypes, UpdateVarCollect
  <2>4. lwWaiting' \in [Proc -> WaitStates]
    BY <1>1, <1>4, <1>17 DEF SharedTypes, PrivateTypes, UpdateVarCollect, FrontWaitsUntilFree
  <2> QED
    BY <1>1, <2>1, <2>2, <2>3, <2>4 DEF SharedTypes, PrivateTypes
<1>18. CASE UpdateVarUnlock(p)
  <2>1. UNCHANGED <<lockcount, waiters, var, lwWaiting, sem, spurious, call, held,
                    extraWaits, newval, iter, woke, wakeup, wakee>>
    BY <1>18 DEF UpdateVarUnlock
  <2>2. flags' \in [Locks -> SUBSET Flags]
    BY <1>1, <1>3, <1>18 DEF SharedTypes, PrivateTypes, UpdateVarUnlock
  <2>3. pc' \in [Proc -> Pcs]
    BY <1>1, <1>2, <1>18 DEF SharedTypes, PrivateTypes, UpdateVarUnlock
  <2> QED
    BY <1>1, <2>1, <2>2, <2>3 DEF SharedTypes, PrivateTypes
<1>19. CASE ClearVar(p)
  <2>1. UNCHANGED <<lockcount, waiters, lwWaiting, sem, spurious, call, held,
                    extraWaits, newval, iter, woke, wakeup, wakee>>
    BY <1>19 DEF ClearVar
  <2>2. var' \in [Locks -> Values]
    BY <1>1, <1>19 DEF SharedTypes, PrivateTypes, ClearVar, ControlAt
  <2>3. flags' \in [Locks -> SUBSET Flags]
    BY <1>1, <1>3, <1>19 DEF SharedTypes, PrivateTypes, ClearVar
  <2>4. pc' \in [Proc -> Pcs]
    BY <1>1, <1>2, <1>19 DEF SharedTypes, PrivateTypes, ClearVar
  <2> QED
    BY <1>1, <2>1, <2>2, <2>3, <2>4 DEF SharedTypes, PrivateTypes
<1>20. CASE WakeupSkip(p)
  <2>1. UNCHANGED <<lockcount, flags, waiters, var, lwWaiting, sem, spurious, pc,
                    call, held, extraWaits, newval, woke, wakeup, wakee>>
    BY <1>20 DEF WakeupSkip
  <2>2. iter' \in [Proc -> Nat \ {0}]
    <3>1. iter' = [iter EXCEPT ![p] = iter[p] + 1]
      BY <1>20 DEF WakeupSkip
    <3>2. iter[p] + 1 \in Nat \ {0} /\ iter \in [Proc -> Nat \ {0}]
      BY <1>1 DEF PrivateTypes
    <3> QED
      BY <3>1, <3>2
  <2> QED
    BY <1>1, <2>1, <2>2 DEF SharedTypes, PrivateTypes
<1>21. CASE WakeupCollect(p)
  <2>1. UNCHANGED <<lockcount, flags, var, sem, spurious, call, held, extraWaits,
                    newval, iter, wakee>>
    BY <1>21 DEF WakeupCollect
  <2>2. waiters' \in [Locks -> Seq(Proc)]
    BY <1>1, <1>21, DeleteAtType DEF SharedTypes, PrivateTypes, WakeupCollect
  <2>3. wakeup' \in [Proc -> Seq(Proc)]
    <3>1. /\ waiters[Lk(p)] \in Seq(Proc) /\ wakeup[p] \in Seq(Proc)
          /\ iter[p] \in Nat \ {0} /\ iter[p] <= Len(waiters[Lk(p)])
      BY <1>1, <1>21 DEF SharedTypes, PrivateTypes, WakeupCollect, ControlAt
    <3>2. waiters[Lk(p)][iter[p]] \in Proc
      BY <3>1
    <3>3. Append(wakeup[p], waiters[Lk(p)][iter[p]]) \in Seq(Proc)
      BY <3>1, <3>2
    <3> QED
      BY <1>1, <1>21, <3>3 DEF PrivateTypes, WakeupCollect
  <2>4. woke' \in [Proc -> BOOLEAN]
    BY <1>1, <1>21 DEF SharedTypes, PrivateTypes, WakeupCollect
  <2>5. lwWaiting' \in [Proc -> WaitStates]
    BY <1>1, <1>4, <1>21 DEF SharedTypes, PrivateTypes, WakeupCollect
  <2>6. pc' \in [Proc -> Pcs]
    BY <1>1, <1>2, <1>21 DEF SharedTypes, PrivateTypes, WakeupCollect
  <2> QED
    BY <1>1, <2>1, <2>2, <2>3, <2>4, <2>5, <2>6 DEF SharedTypes, PrivateTypes
<1>22. CASE WakeupScanEnd(p)
  <2>1. UNCHANGED <<lockcount, flags, waiters, var, lwWaiting, sem, spurious, call,
                    held, extraWaits, newval, iter, woke, wakeup, wakee>>
    BY <1>22 DEF WakeupScanEnd
  <2>2. pc' \in [Proc -> Pcs]
    BY <1>1, <1>2, <1>22 DEF SharedTypes, PrivateTypes, WakeupScanEnd
  <2> QED
    BY <1>1, <2>1, <2>2 DEF SharedTypes, PrivateTypes
<1>23. CASE WakeupFlags(p)
  <2>1. UNCHANGED <<lockcount, waiters, var, lwWaiting, sem, spurious, call, held,
                    extraWaits, newval, wakeup, wakee>>
    BY <1>23 DEF WakeupFlags
  <2>2. flags' \in [Locks -> SUBSET Flags]
    BY <1>1, <1>3, <1>23 DEF SharedTypes, PrivateTypes, WakeupFlags
  <2>3. iter' \in [Proc -> Nat \ {0}]
    BY <1>1, <1>23 DEF SharedTypes, PrivateTypes, WakeupFlags
  <2>4. woke' \in [Proc -> BOOLEAN]
    BY <1>1, <1>23 DEF SharedTypes, PrivateTypes, WakeupFlags
  <2>5. pc' \in [Proc -> Pcs]
    BY <1>1, <1>2, <1>23 DEF SharedTypes, PrivateTypes, WakeupFlags
  <2> QED
    BY <1>1, <2>1, <2>2, <2>3, <2>4, <2>5 DEF SharedTypes, PrivateTypes
<1>24. CASE WakeClear(p)
  <2>1. UNCHANGED <<lockcount, flags, waiters, var, sem, spurious, call, held,
                    extraWaits, newval, iter, woke>>
    BY <1>24 DEF WakeClear
  <2>2. wakeup' \in [Proc -> Seq(Proc)]
    BY <1>1, <1>24, DeleteAtType DEF SharedTypes, PrivateTypes, WakeClear
  <2>3. wakee' \in [Proc -> Proc \cup {NoProc}]
    <3>1. wakee \in [Proc -> Proc \cup {NoProc}] /\ wakeup[p] \in Seq(Proc)
      BY <1>1 DEF PrivateTypes
    <3>2. wakeup[p] # << >> /\ wakee' = [wakee EXCEPT ![p] = wakeup[p][1]]
      BY <1>24 DEF WakeClear
    <3>3. wakeup[p][1] \in Proc
      BY <3>1, <3>2
    <3> QED
      BY <3>1, <3>2, <3>3
  <2>4. lwWaiting' \in [Proc -> WaitStates]
    BY <1>1, <1>4, <1>24 DEF SharedTypes, PrivateTypes, WakeClear
  <2>5. pc' \in [Proc -> Pcs]
    BY <1>1, <1>2, <1>24 DEF SharedTypes, PrivateTypes, WakeClear
  <2> QED
    BY <1>1, <2>1, <2>2, <2>3, <2>4, <2>5 DEF SharedTypes, PrivateTypes
<1>25. CASE WakePost(p)
  <2>1. UNCHANGED <<lockcount, flags, waiters, var, lwWaiting, spurious, call, held,
                    extraWaits, newval, iter, woke, wakeup>>
    BY <1>25 DEF WakePost
  <2>2. sem' \in [Proc -> Nat]
    <3>1. CASE wakee[p] \in Proc
      BY <1>1, <1>25, <3>1 DEF SharedTypes, WakePost
    <3>2. CASE wakee[p] \notin Proc
      BY <1>1, <1>25, <3>2 DEF SharedTypes, WakePost
    <3> QED
      BY <3>1, <3>2
  <2>3. wakee' \in [Proc -> Proc \cup {NoProc}]
    BY <1>1, <1>25 DEF SharedTypes, PrivateTypes, WakePost
  <2>4. pc' \in [Proc -> Pcs]
    BY <1>1, <1>2, <1>25 DEF SharedTypes, PrivateTypes, WakePost
  <2> QED
    BY <1>1, <2>1, <2>2, <2>3, <2>4 DEF SharedTypes, PrivateTypes
<1>26. CASE WakeEnd(p)
  <2>1. UNCHANGED <<lockcount, flags, waiters, var, lwWaiting, sem, spurious, held,
                    extraWaits, newval, iter, woke, wakeup, wakee>>
    BY <1>26 DEF WakeEnd, Finished
  <2>2. pc' \in [Proc -> Pcs]
    BY <1>1, <1>2, <1>26 DEF SharedTypes, PrivateTypes, WakeEnd, Finished
  <2>3. call' \in [Proc -> CallRecords]
    <3>1. CASE call[p].op = "LWLockReleaseAll" /\ held[p] # << >>
      <4>1. Len(held[p]) \in 1 .. Len(held[p])
        BY <1>1, <3>1 DEF PrivateTypes
      <4>2. held[p][Len(held[p])].lock \in Locks
        BY <1>1, <4>1, HeldEntry
      <4> DEFINE c == [call[p] EXCEPT !.lock = held[p][Len(held[p])].lock]
      <4>3. c \in CallRecords
        BY <1>1, <4>2 DEF PrivateTypes, CallRecords
      <4>4. call' = [call EXCEPT ![p] = c]
        BY <1>26, <3>1 DEF WakeEnd, Finished
      <4> QED
        BY <1>1, <4>3, <4>4 DEF PrivateTypes, CallRecords
    <3>2. CASE ~(call[p].op = "LWLockReleaseAll" /\ held[p] # << >>)
      <4>1. NoCall \in CallRecords
        BY DEF NoCall, CallRecords, Ops, LockModes
      <4> QED
        BY <1>1, <1>26, <3>2, <4>1 DEF PrivateTypes, WakeEnd, Finished, CallRecords
    <3> QED
      BY <3>1, <3>2
  <2> QED
    BY <1>1, <2>1, <2>2, <2>3 DEF SharedTypes, PrivateTypes, CallRecords
<1>27. CASE SpuriousPost(p)
  <2>1. UNCHANGED <<lockcount, flags, waiters, var, lwWaiting, pc, call, held,
                    extraWaits, newval, iter, woke, wakeup, wakee>>
    BY <1>27 DEF SpuriousPost
  <2>2. spurious' \in [Proc -> 0 .. MaxSpurious]
    BY <1>1, <1>27, ConstantsAssumption DEF SharedTypes, PrivateTypes, SpuriousPost
  <2>3. sem' \in [Proc -> Nat]
    BY <1>1, <1>27 DEF SharedTypes, PrivateTypes, SpuriousPost
  <2> QED
    BY <1>1, <2>1, <2>2, <2>3 DEF SharedTypes, PrivateTypes
<1> QED
    BY <1>5, <1>6, <1>7, <1>8, <1>9, <1>10, <1>11, <1>12, <1>13, <1>14, <1>15,
     <1>16, <1>17, <1>18, <1>19, <1>20, <1>21, <1>22, <1>23, <1>24, <1>25,
     <1>26, <1>27 DEF QuietStep

(* So do the steps that grant, return and release.                         *)
LEMMA HolderStepTypes ==
  ASSUME IInv, NEW p \in Proc,
         FirstAttempt(p) \/ SecondAttempt(p) \/ Return(p) \/ Release(p)
  PROVE  lockcount' \in [Locks -> Int] /\ SharedTypes' /\ PrivateTypes'
<1> USE DEF Go, Lk, lockVars, procVars, waitLocal, wakeLocal
<1>1. lockcount \in [Locks -> Int] /\ SharedTypes /\ PrivateTypes /\ ControlAt(p)
  BY DEF IInv, ControlInv
<1>2. {"idle", "rel", "wlock", "acquired", "failed", "qlock", "dlock", "sleep"} \subseteq Pcs
  BY DEF Pcs, QueuePcs, DequeuePcs, WakePcs
<1>3. \A m : Weight(m) \in Int
  BY BackendsFit DEF Weight
<1>4. NoCall \in CallRecords
  BY DEF NoCall, CallRecords, Ops, LockModes
<1>5. CASE FirstAttempt(p) \/ SecondAttempt(p)
  <2>1. UNCHANGED <<flags, waiters, var, lwWaiting, sem, spurious, call, held, extraWaits, newval,
                    iter, woke, wakeup, wakee>>
    BY <1>5 DEF FirstAttempt, SecondAttempt, AttemptLock
  <2>2. pc' \in [Proc -> Pcs]
    BY <1>1, <1>2, <1>5 DEF PrivateTypes, FirstAttempt, SecondAttempt, AttemptLock
  <2>3. \/ lockcount' = lockcount
        \/ lockcount' = [lockcount EXCEPT ![Lk(p)] = @ + Weight(call[p].mode)]
    BY <1>5 DEF FirstAttempt, SecondAttempt, AttemptLock
  <2>4. lockcount' \in [Locks -> Int]
    BY <1>1, <1>3, <2>3
  <2> QED
    BY <1>1, <2>1, <2>2, <2>4 DEF SharedTypes, PrivateTypes
<1>6. CASE Return(p)
  <2> DEFINE R == [lock : Locks, mode : LockModes]
  <2>1. UNCHANGED <<lockcount, flags, waiters, var, lwWaiting, spurious, iter, woke, wakeup, wakee>>
    BY <1>6 DEF Return
  <2>2. pc' \in [Proc -> Pcs]
    BY <1>1, <1>2, <1>6 DEF PrivateTypes, Return
  <2>3. call' \in [Proc -> CallRecords]
    BY <1>1, <1>4, <1>6 DEF PrivateTypes, Return, CallRecords
  <2>4. held' \in [Proc -> Seq(R)]
    <3>1. CASE pc[p] = "acquired"
      <4>1. [lock |-> Lk(p), mode |-> call[p].mode] \in R /\ held \in [Proc -> Seq(R)]
        BY <1>1, <3>1 DEF ControlAt, PrivateTypes
      <4> HIDE DEF R
      <4>2. Append(held[p], [lock |-> Lk(p), mode |-> call[p].mode]) \in Seq(R)
        BY <4>1
      <4>3. held' = [held EXCEPT ![p] = Append(held[p], [lock |-> Lk(p), mode |-> call[p].mode])]
        BY <1>6, <3>1 DEF Return
      <4> QED
        BY <4>1, <4>2, <4>3
    <3>2. CASE pc[p] # "acquired"
      BY <1>1, <1>6, <3>2 DEF Return, PrivateTypes
    <3> QED
      BY <3>1, <3>2
  <2>5. sem' \in [Proc -> Nat]
    <3>1. sem[p] + extraWaits[p] \in Nat /\ sem \in [Proc -> Nat]
      BY <1>1 DEF SharedTypes, PrivateTypes
    <3>2. sem' = [sem EXCEPT ![p] = sem[p] + extraWaits[p]]
      BY <1>6 DEF Return
    <3> QED
      BY <3>1, <3>2
  <2>6. extraWaits' \in [Proc -> Nat] /\ newval' \in [Proc -> Values \cup {NoVal}]
    BY <1>1, <1>6 DEF PrivateTypes, Return
  <2> QED
    BY <1>1, <2>1, <2>2, <2>3, <2>4, <2>5, <2>6 DEF SharedTypes, PrivateTypes, CallRecords
<1>7. CASE Release(p)
  <2> DEFINE R == [lock : Locks, mode : LockModes]
             i == HeldIndex(p, Lk(p))
             h == DeleteAt(held[p], i)
  <2>1. UNCHANGED <<flags, waiters, var, lwWaiting, sem, spurious, extraWaits, newval, iter, woke,
                    wakeup, wakee>>
    BY <1>7 DEF Release
  <2>2. held' = [held EXCEPT ![p] = h] /\ held \in [Proc -> Seq(R)]
    BY <1>1, <1>7 DEF Release, PrivateTypes
  <2>3. h \in Seq(R)
    <3> HIDE DEF R
    <3> QED
      BY <2>2, DeleteAtType
  <2>4. held' \in [Proc -> Seq(R)]
    <3> HIDE DEF R, h
    <3> QED
      BY <2>2, <2>3
  <2>5. lockcount' \in [Locks -> Int]
    <3>1. lockcount' = [lockcount EXCEPT ![Lk(p)] = lockcount[Lk(p)] - Weight(held[p][i].mode)]
      BY <1>7 DEF Release
    <3>2. Weight(held[p][i].mode) \in Int /\ lockcount[Lk(p)] \in Int
      BY <1>1, <1>3, <1>7 DEF Release, ControlAt
    <3>3. lockcount[Lk(p)] - Weight(held[p][i].mode) \in Int
      BY <3>2
    <3> QED
      BY <1>1, <3>1, <3>3
  <2>6. pc' \in [Proc -> Pcs]
    BY <1>1, <1>2, <1>7 DEF PrivateTypes, Release, Finished
  <2>7. call' \in [Proc -> CallRecords]
    <3>1. CASE call' = call \/ call' = [call EXCEPT ![p] = NoCall]
      BY <1>1, <1>4, <3>1 DEF PrivateTypes, CallRecords
    <3>2. CASE h # << >> /\ call' = [call EXCEPT ![p].lock = h[Len(h)].lock]
      <4>1. h[Len(h)] \in R
        <5> HIDE DEF R, h
        <5> QED
          BY <2>3, <3>2
      <4> DEFINE k == h[Len(h)].lock
                 c == [call[p] EXCEPT !.lock = k]
      <4>4. k \in Locks
        BY <4>1
      <4>5. call' = [call EXCEPT ![p].lock = k]
        BY <3>2
      <4> HIDE DEF k
      <4>2. c \in CallRecords
        BY <1>1, <4>4 DEF PrivateTypes, CallRecords
      <4>3. call' = [call EXCEPT ![p] = c]
        BY <4>5
      <4> HIDE DEF c
      <4> QED
        BY <1>1, <4>2, <4>3 DEF PrivateTypes, CallRecords
    <3> QED
      BY <1>7, <3>1, <3>2 DEF Release, Finished
  <2> QED
    BY <1>1, <2>1, <2>4, <2>5, <2>6, <2>7 DEF SharedTypes, PrivateTypes, CallRecords
<1> QED
  BY <1>5, <1>6, <1>7

-----------------------------------------------------------------------------
(* The inductive invariant holds initially.                                *)
LEMMA InitIInv == Init => IInv
<1> SUFFICES ASSUME Init
             PROVE  IInv
  OBVIOUS
<1> USE DEF Init
<1>1. lockcount \in [Locks -> Int]
  OBVIOUS
<1>2. SharedTypes
  BY ConstantsAssumption DEF SharedTypes, Flags, WaitStates
<1>3. PrivateTypes
  BY DEF PrivateTypes, Pcs, NoCall, Ops, LockModes
<1>4. ControlInv
  BY DEF ControlInv, ControlAt, QueuePcs, DequeuePcs, VarPcs
<1>5. HeldInv
  BY DEF HeldInv, HeldAt
<1>6. WordInv
  <2>1. \A l, m : Holders(l, m) = {}
    BY DEF Holders, Holds, OnItsWayOut, DequeuePcs, LWLockHeldByMeInMode
  <2> QED
    BY <2>1, FS_EmptySet DEF WordInv
<1> QED
  BY <1>1, <1>2, <1>3, <1>4, <1>5, <1>6 DEF IInv

(* What any step does to the holders and to the invariant.                 *)
LEMMA NextIInv ==
  ASSUME IInv, Next
  PROVE  IInv' /\ HolderStep
<1>1. PICK p \in Proc : Call(p) \/ CallEnd(p) \/ Step(p) \/ SpuriousPost(p)
  BY DEF Next
<1>2. ASSUME lockcount' \in [Locks -> Int], SharedTypes', PrivateTypes', ControlInv', HeldInv',
             HolderStep
      PROVE  IInv' /\ HolderStep
  BY <1>2, HolderStepWord DEF IInv
<1>3. CASE Call(p) \/ CallEnd(p)
  <2>1. Quiet(p) /\ ControlAt(p)'
    BY <1>3, CallQuiet
  <2> QED
    BY <1>2, <1>3, <2>1, CallTypes, QuietHolders, QuietKeeps
<1>4. CASE QuietStep(p)
  <2>1. Quiet(p) /\ ControlAt(p)'
    BY <1>4, QuietStepQuiet
  <2> QED
    BY <1>2, <1>4, <2>1, QuietStepTypes, QuietHolders, QuietKeeps
<1>5. CASE SpuriousPost(p)
  <2>1. UNCHANGED <<lockcount, pc, call, held>>
    BY <1>5 DEF SpuriousPost, lockVars
  <2>2. Quiet(p)
    BY <2>1 DEF Quiet, OnItsWayOut
  <2>3. ControlAt(p)'
    BY <2>1 DEF IInv, ControlInv, ControlAt, HeldLocks, Lk
  <2> QED
    BY <1>2, <1>5, <2>2, <2>3, QuietStepTypes, QuietHolders, QuietKeeps
<1>6. CASE FirstAttempt(p) \/ SecondAttempt(p)
  BY <1>2, <1>6, AttemptStep, HolderStepTypes
<1>7. CASE Return(p)
  BY <1>2, <1>7, ReturnStep, HolderStepTypes
<1>8. CASE Release(p)
  BY <1>2, <1>8, ReleaseStep, HolderStepTypes
<1> QED
  BY <1>1, <1>3, <1>4, <1>5, <1>6, <1>7, <1>8 DEF Step, QuietStep

(* A stuttering step keeps the invariant.                                  *)
LEMMA StutterIInv ==
  ASSUME IInv, UNCHANGED vars
  PROVE  IInv' /\ SameHolders
<1> USE DEF vars, lockVars, procVars, waitLocal, wakeLocal
<1>1. lockcount' \in [Locks -> Int] /\ SharedTypes' /\ PrivateTypes'
  BY DEF IInv, SharedTypes, PrivateTypes
<1>2. ControlInv' /\ HeldInv'
  BY DEF IInv, ControlInv, ControlAt, HeldLocks, Lk, HeldInv, HeldAt
<1>3. \A q, k, n : Holds(q, k, n)' <=> Holds(q, k, n)
  BY DEF Holds, OnItsWayOut, Lk, LWLockHeldByMeInMode
<1>4. SameHolders
  BY <1>3 DEF SameHolders
<1> QED
  BY <1>1, <1>2, <1>4, HolderStepWord DEF IInv, HolderStep

(* The inductive invariant holds in every reachable state.                 *)
THEOREM Invariance == Spec => []IInv
<1>1. IInv /\ [Next]_vars => IInv'
  BY NextIInv, StutterIInv
<1> QED
  BY <1>1, InitIInv, PTL DEF Spec

(* An exclusive holder of an LWLock excludes every other holder, for any   *)
(* number of processes and locks, including during the callbacks of the    *)
(* other operations and after error recovery by LWLockReleaseAll.          *)
THEOREM MutualExclusionHolds == Spec => []MutualExclusion
<1>1. IInv => MutualExclusion
  <2> SUFFICES ASSUME IInv, NEW l \in Locks, NEW p \in Proc, NEW q \in Proc,
                      Holds(p, l, LW_EXCLUSIVE), p # q
               PROVE  ~Holds(q, l, LW_EXCLUSIVE) /\ ~Holds(q, l, LW_SHARED)
    BY DEF MutualExclusion
  <2>1. p \in Holders(l, LW_EXCLUSIVE)
    BY DEF Holders
  <2>2. Holders(l, LW_EXCLUSIVE) = {p} /\ Holders(l, LW_SHARED) = {}
    BY <2>1 DEF IInv, WordInv
  <2> QED
    BY <2>2 DEF Holders
<1> QED
  BY <1>1, Invariance, PTL

(* The count in the lock word is the weight of its holders.                *)
THEOREM LockWordCorrect == Spec => []LockWordCountsHolders
<1>1. IInv => LockWordCountsHolders
  <2> SUFFICES ASSUME IInv, NEW l \in Locks
               PROVE  lockcount[l] = LW_VAL_EXCLUSIVE * Cardinality(Holders(l, LW_EXCLUSIVE))
                                     + Cardinality(Holders(l, LW_SHARED))
    BY DEF LockWordCountsHolders
  <2>1. Cardinality(Holders(l, LW_SHARED)) \in Nat /\ LW_VAL_EXCLUSIVE \in Nat
    BY HoldersFinite, BackendsFit
  <2>2. CASE Holders(l, LW_EXCLUSIVE) = {} /\ lockcount[l] = Cardinality(Holders(l, LW_SHARED))
    BY <2>1, <2>2, FS_EmptySet
  <2>3. CASE /\ \E q \in Proc : Holders(l, LW_EXCLUSIVE) = {q}
             /\ Holders(l, LW_SHARED) = {} /\ lockcount[l] = LW_VAL_EXCLUSIVE
    <3>1. Cardinality(Holders(l, LW_EXCLUSIVE)) = 1 /\ Cardinality(Holders(l, LW_SHARED)) = 0
      BY <2>3, FS_Singleton, FS_EmptySet
    <3> QED
      BY <2>1, <2>3, <3>1
  <2> QED
    BY <2>2, <2>3 DEF IInv, WordInv
<1> QED
  BY <1>1, Invariance, PTL

(* Type correctness; the count neither underflows nor reaches the flags.   *)
THEOREM TypeCorrect == Spec => []TypeOK
<1>1. IInv => TypeOK
  <2> SUFFICES ASSUME IInv
               PROVE  lockcount \in [Locks -> 0 .. 2 * LW_VAL_EXCLUSIVE - 1]
    BY DEF TypeOK, IInv
  <2>1. ASSUME NEW l \in Locks
        PROVE  lockcount[l] \in 0 .. 2 * LW_VAL_EXCLUSIVE - 1
    <3>1. /\ Cardinality(Holders(l, LW_SHARED)) \in Nat
          /\ Cardinality(Holders(l, LW_SHARED)) < LW_VAL_EXCLUSIVE
          /\ LW_VAL_EXCLUSIVE \in Nat
      BY HoldersFinite, BackendsFit
    <3>2. lockcount[l] = Cardinality(Holders(l, LW_SHARED)) \/ lockcount[l] = LW_VAL_EXCLUSIVE
      BY DEF IInv, WordInv
    <3> QED
      BY <3>1, <3>2
  <2> QED
    BY <2>1 DEF IInv
<1> QED
  BY <1>1, Invariance, PTL

(* LWLock implements RWLock: whatever the interleaving of attempts, queue  *)
(* operations and wakeups, the callers see a readers-writer lock.          *)
THEOREM ImplementsRWLock == Spec => RWSpec
<1>1. Init => RW!Init
  <2>1. Init => \A l, m : Holders(l, m) = {}
    BY DEF Init, Holders, Holds, OnItsWayOut, DequeuePcs, LWLockHeldByMeInMode
  <2> QED
    BY <2>1 DEF RW!Init
<1>2. ASSUME IInv, HolderStep
      PROVE  [RW!Next]_(RW!vars)
  <2> USE DEF LockModes, LW_EXCLUSIVE, LW_SHARED
  <2> DEFINE X == [l \in Locks |-> Holders(l, LW_EXCLUSIVE)]
             S == [l \in Locks |-> Holders(l, LW_SHARED)]
  <2>1. CASE SameHolders
    <3>1. \A l \in Locks, m \in LockModes : Holders(l, m)' = Holders(l, m)
      BY <2>1 DEF SameHolders, Holders
    <3>2. X' = X /\ S' = S
      BY <3>1
    <3> QED
      BY <3>2 DEF RW!vars
  <2>2. ASSUME NEW p \in Proc, NEW l \in Locks, NEW m \in LockModes, Grants(p, l, m)
        PROVE  RW!Next
    <3>1. /\ IsFiniteSet(S[l]) /\ Cardinality(S[l]) \in Nat
          /\ LW_VAL_EXCLUSIVE \in Nat /\ LW_VAL_EXCLUSIVE > 0
      BY HoldersFinite, BackendsFit
    <3>2. lockcount[l] < LW_VAL_EXCLUSIVE
      BY <2>2, <3>1 DEF Grants, LockFree
    <3>3. X[l] = {} /\ lockcount[l] = Cardinality(S[l])
      BY <1>2, <3>1, <3>2 DEF IInv, WordInv
    <3>4. CASE m = LW_EXCLUSIVE
      <4>1. S[l] = {}
        BY <2>2, <3>1, <3>3, <3>4, FS_EmptySet DEF Grants, LockFree
      <4>2. \A k \in Locks : Holders(k, LW_SHARED)' = S[k]
        BY <2>2, <3>4 DEF Grants, Holders
      <4>5. Holders(l, LW_EXCLUSIVE)' = {p}
        BY <2>2, <3>3, <3>4 DEF Grants, Holders
      <4>6. \A k \in Locks \ {l} : Holders(k, LW_EXCLUSIVE)' = X[k]
        BY <2>2 DEF Grants, Holders
      <4>3. X' = [X EXCEPT ![l] = {p}] /\ S' = S
        <5>1. S' = S
          BY <4>2
        <5>2. X' = [X EXCEPT ![l] = {p}]
          BY <4>5, <4>6
        <5> QED
          BY <5>1, <5>2
      <4>4. RW!AcquireExclusive(p, l)
        BY <3>3, <4>1, <4>3 DEF RW!AcquireExclusive
      <4> QED
        BY <4>4 DEF RW!Next
    <3>5. CASE m = LW_SHARED
      <4>1. p \notin S[l]
        BY <2>2 DEF Grants, Holders
      <4>2. \A k \in Locks : /\ Holders(k, LW_EXCLUSIVE)' = X[k]
                              /\ Holders(k, LW_SHARED)' = IF k = l THEN S[k] \cup {p} ELSE S[k]
        BY <2>2, <3>5 DEF Grants, Holders
      <4>3. X' = X /\ S' = [S EXCEPT ![l] = @ \cup {p}]
        BY <4>2
      <4>4. RW!AcquireShared(p, l)
        BY <3>3, <4>1, <4>3 DEF RW!AcquireShared
      <4> QED
        BY <4>4 DEF RW!Next
    <3> QED
      BY <3>4, <3>5
  <2>3. ASSUME NEW p \in Proc, NEW l \in Locks, NEW m \in LockModes, Ends(p, l, m)
        PROVE  RW!Next
    <3>1. CASE m = LW_EXCLUSIVE
      <4>1. p \in X[l]
        BY <2>3, <3>1 DEF Ends, Holders
      <4>2. \A k \in Locks : Holders(k, LW_SHARED)' = S[k]
        BY <2>3, <3>1 DEF Ends, Holders
      <4>5. Holders(l, LW_EXCLUSIVE)' = X[l] \ {p}
        BY <2>3, <3>1 DEF Ends, Holders
      <4>6. \A k \in Locks \ {l} : Holders(k, LW_EXCLUSIVE)' = X[k]
        BY <2>3 DEF Ends, Holders
      <4>3. X' = [X EXCEPT ![l] = @ \ {p}] /\ S' = S
        <5>1. S' = S
          BY <4>2
        <5>2. X' = [X EXCEPT ![l] = @ \ {p}]
          BY <4>5, <4>6
        <5> QED
          BY <5>1, <5>2
      <4>4. RW!ReleaseExclusive(p, l)
        BY <4>1, <4>3 DEF RW!ReleaseExclusive
      <4> QED
        BY <4>4 DEF RW!Next
    <3>2. CASE m = LW_SHARED
      <4>1. p \in S[l]
        BY <2>3, <3>2 DEF Ends, Holders
      <4>2. \A k \in Locks : /\ Holders(k, LW_EXCLUSIVE)' = X[k]
                              /\ Holders(k, LW_SHARED)' = IF k = l THEN S[k] \ {p} ELSE S[k]
        BY <2>3, <3>2 DEF Ends, Holders
      <4>3. X' = X /\ S' = [S EXCEPT ![l] = @ \ {p}]
        BY <4>2
      <4>4. RW!ReleaseShared(p, l)
        BY <4>1, <4>3 DEF RW!ReleaseShared
      <4> QED
        BY <4>4 DEF RW!Next
    <3> QED
      BY <3>1, <3>2
  <2> QED
    BY <1>2, <2>1, <2>2, <2>3 DEF HolderStep
<1>3. IInv /\ [Next]_vars => [RW!Next]_(RW!vars)
  BY <1>2, NextIInv, StutterIInv DEF HolderStep
<1> QED
  BY <1>1, <1>3, Invariance, PTL DEF Spec, RWSpec, RW!Spec
=============================================================================
