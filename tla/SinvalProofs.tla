---------------------------- MODULE SinvalProofs ----------------------------
(***************************************************************************)
(* Proofs about Sinval for any number of backends, messages and any sizes: *)
(* no backend misses a message, ReceiveSharedInvalidMessages processes     *)
(* what was queued when it was entered, virtual transaction ids are not    *)
(* used again, and SICleanupQueue makes the room it was called for.        *)
(***************************************************************************)
EXTENDS Sinval, FiniteSetTheorems, SequenceTheorems, WellFoundedInduction, NaturalsInduction,
              TLAPS

Reading   == {"quick", "rlock", "rmax", "read"}
Tailing   == {"tail", "rwlock", "rclean", "rsignal"}
Receiving == Reading \cup Tailing \cup {"loop", "inval"}

(* The entries of procState[] and the processes that own them.             *)
OwnInv ==
  /\ \A s \in Slots : procState[s].procPid # NoProc =>
       /\ s <= lastBackend
       /\ MyBackendId[procState[s].procPid] = s
       /\ procState[s].sendOnly <=> procState[s].procPid \in SendOnly
  /\ \A p \in Proc : Attached(p) => MyState(p).procPid = p
  /\ \A p \in Proc : Attached(p) <=> pc[p] \notin {"start", "exit"}

(* Who holds the locks.                                                    *)
LockInv ==
  /\ \A p \in Proc : writeLock = p <=> pc[p] \in {"scheck", "spublish", "sflag", "rclean"}
  /\ \A p \in Proc : p \in readLock <=> pc[p] \in {"rmax", "read"}

(* What the place of a process tells about its array and its calls.        *)
PlaceAt(p) ==
  /\ pc[p] \in Receiving <=> stack[p] # << >>
  /\ pc[p] \in Receiving => p \notin SendOnly
  /\ nextmsg[p] <= Len(messages[p]) /\ Len(messages[p]) <= MAXINVALMSGS
  /\ pc[p] \in {"start", "quick", "rlock", "rmax"} => messages[p] = << >>
  /\ pc[p] = "read" => nextmsg[p] = 0 /\ (MyState(p).resetState => messages[p] = << >>)
  /\ pc[p] = "loop" => Loc(p) \in {"pending", "batch"}
  /\ pc[p] \in Reading => Loc(p) = "batch"

PlaceInv == \A p \in Proc : PlaceAt(p)

CountInv ==
  /\ CountersOrdered
  /\ \A p \in Proc : pc[p] = "spublish" =>
       maxMsgNum - minMsgNum + nthistime[p] <= MAXNUMMESSAGES
  /\ \A p \in Proc : pc[p] = "sflag" => nthistime[p] <= maxMsgNum
  /\ \A p \in Proc : pc[p] = "read" => minMsgNum <= max[p] /\ max[p] <= maxMsgNum

(* The buffer holds all messages from minMsgNum on, and those that are     *)
(* about to be published.                                                  *)
Holds(n) == buffer[n % MAXNUMMESSAGES] = base + n

BufferInv ==
  /\ \A n \in minMsgNum .. maxMsgNum - 1 : Holds(n)
  /\ \A p \in Proc : pc[p] = "spublish" =>
       \A n \in maxMsgNum .. maxMsgNum + nthistime[p] - 1 : Holds(n)

Receiver(p) == Attached(p) /\ p \notin SendOnly

Left(p) == Len(messages[p]) - nextmsg[p]

SeenAt(p) ==
  /\ \A i \in 1 .. Left(p) : messages[p][nextmsg[p] + i] = seen[p] + i - 1
  /\ ~MyState(p).resetState => base + MyState(p).nextMsgNum = seen[p] + Left(p)

SeenInv == \A p \in Proc : Receiver(p) => SeenAt(p)

(* The messages that slot s must have been told of: all but those of the   *)
(* batch whose sender has not come to s yet.                               *)
SentFor(s) ==
  base + maxMsgNum
    - (IF writeLock # NoProc /\ pc[writeLock] = "sflag" /\ flagged[writeLock] < s
       THEN nthistime[writeLock] ELSE 0)

FlagAt(p) ==
  LET st == MyState(p)
  IN  /\ pc[p] \notin {"rmax", "read"} =>
           (st.resetState \/ base + st.nextMsgNum < SentFor(MyBackendId[p]) => st.hasMessages)
      /\ pc[p] = "read" => (base + max[p] < SentFor(MyBackendId[p]) => st.hasMessages)

FlagInv == \A p \in Proc : Receiver(p) => FlagAt(p)

(* The calls of ReceiveSharedInvalidMessages that are under way.           *)
SentAt(p) ==
  /\ \A k \in 1 .. Len(stack[p]) : stack[p][k].sent <= Sent
  /\ \A j, k \in 1 .. Len(stack[p]) : j <= k => stack[p][j].sent <= stack[p][k].sent

TopSent(p) == stack[p][Len(stack[p])].sent

TopAt(p) ==
  /\ pc[p] \in {"loop", "inval"} /\ Loc(p) = "batch" /\ Len(messages[p]) < MAXINVALMSGS =>
       TopSent(p) <= seen[p] + Left(p)
  /\ pc[p] = "inval" /\ Loc(p) = "reset" => TopSent(p) <= seen[p]
  /\ pc[p] \in Tailing => TopSent(p) <= seen[p]
  /\ pc[p] = "read" => TopSent(p) <= base + max[p]

CallInv == \A p \in Proc : SentAt(p) /\ (pc[p] \in Receiving => TopAt(p))

IInv ==
  /\ TypeOK /\ OwnInv /\ LockInv /\ PlaceInv /\ CountInv /\ BufferInv /\ SeenInv /\ FlagInv
  /\ CallInv /\ VirtualXidsConsecutive
-----------------------------------------------------------------------------
(* A set of naturals that is not empty has a least element.                *)
LEMMA MinNat ==
  ASSUME NEW T \in SUBSET Nat, T # {}
  PROVE  Min(T) \in T /\ \A y \in T : Min(T) <= y
<1>1. PICK x \in T : \A y \in T : ~(<<y, x>> \in OpToRel(<, Nat))
  BY NatLessThanWellFounded, WFMin
<1>2. ASSUME NEW y \in T, y < x
      PROVE  FALSE
  <2>1. <<y, x>> \in {ss \in Nat \X Nat : ss[1] < ss[2]}
    BY <1>2
  <2>2. <<y, x>> \in OpToRel(<, Nat)
    BY <2>1, Zenon DEF OpToRel
  <2> QED
    BY <1>1, <2>2
<1>3. \A y \in T : x <= y
  BY <1>2
<1> QED
  BY <1>3 DEF Min

(* A set of naturals below a bound has a greatest element.                 *)
LEMMA MaxBounded ==
  ASSUME NEW n \in Nat, NEW T \in SUBSET (0 .. n), T # {}
  PROVE  Max(T) \in T /\ \A y \in T : Max(T) >= y
<1> DEFINE U == {n - x : x \in T}
<1>1. U \in SUBSET Nat
  OBVIOUS
<1>2. U # {}
  OBVIOUS
<1>3. PICK u \in U : \A y \in U : u <= y
  <2> HIDE DEF U
  <2> QED
    BY <1>1, <1>2, MinNat
<1>4. n - u \in T /\ \A y \in T : n - u >= y
  BY <1>3
<1> QED
  BY <1>4 DEF Max

(* Different message numbers less than the buffer size apart have         *)
(* different places in the buffer.                                         *)
LEMMA ModNear ==
  ASSUME NEW N \in Nat \ {0}, NEW a \in Int, NEW b \in Int, a < b, b - a < N
  PROVE  a % N # b % N
<1> SUFFICES ASSUME a % N = b % N PROVE FALSE
  OBVIOUS
<1>1. a = N * (a \div N) + (a % N) /\ b = N * (b \div N) + (b % N)
  OBVIOUS
<1> DEFINE k == (b \div N) - (a \div N)
<1>2. k \in Int
  OBVIOUS
<1>3. b - a = N * k
  BY <1>1
<1> HIDE DEF k
<1>4. CASE k <= 0
  BY <1>2, <1>3, <1>4
<1>5. CASE k >= 1
  BY <1>2, <1>3, <1>5
<1> QED
  BY <1>2, <1>4, <1>5

(* Subtracting MSGNUMWRAPAROUND leaves a message at its place.             *)
LEMMA ModShift ==
  ASSUME NEW N \in Nat \ {0}, NEW a \in Int, NEW w \in Int, w % N = 0
  PROVE  (a - w) % N = a % N
<1>1. PICK j \in Int : w = N * j
  OBVIOUS
<1> DEFINE r == a % N
           k == (a \div N) - j
<1>2. a - w = N * k + r /\ r \in 0 .. N - 1 /\ k \in Int
  BY <1>1
<1> HIDE DEF r, k
<1>3. (a - w) % N = r
  BY <1>2
<1> QED
  BY <1>3 DEF r
(* What a process can do, one disjunct per action.                         *)
ActionOf(p) ==
  \/ SharedInvalBackendInit(p) \/ CleanupInvalidationState(p) \/ GetNextLocalTransactionId(p)
  \/ SendSharedInvalidMessages(p) \/ LockForInsert(p) \/ CleanupForInsert(p)
  \/ SignalForInsert(p) \/ RelockForInsert(p) \/ WriteBuffer(p)
  \/ PublishMaxMsgNum(p) \/ SetHasMessages(p) \/ EndBatch(p)
  \/ AcceptInvalidationMessages(p) \/ ProcessCatchupInterrupt(p) \/ Recurse(p)
  \/ CallbackReturns(p) \/ CallbackError(p) \/ Invalidate(p)
  \/ LoopAgain(p) \/ LoopEnds(p) \/ TestHasMessages(p)
  \/ AcquireReadLock(p) \/ FetchMaxMsgNum(p) \/ ReadReset(p)
  \/ ReadOne(p) \/ ReadEnd(p) \/ PassOnCatchup(p)
  \/ NoCatchup(p) \/ LockForCleanup(p) \/ CleanupAfterCatchup(p)
  \/ SignalAfterCatchup(p) \/ HandleCatchupInterrupt(p)

(* They are the disjuncts of Next.                                         *)
LEMMA NextIsAction == Next <=> \E p \in Proc : ActionOf(p)
BY DEF Next, Life, InsertStep, ReceiveStep, Callback, ActionOf

-----------------------------------------------------------------------------
(* What a step leaves alone of entry t: who owns it; its place in the      *)
(* queue; and its flag.                                                    *)
SameOwner(t) ==
  /\ procState'[t].procPid = procState[t].procPid
  /\ procState'[t].sendOnly = procState[t].sendOnly
  /\ procState'[t].nextLXID = procState[t].nextLXID

SamePlace(t) ==
  /\ procState'[t].nextMsgNum = procState[t].nextMsgNum
  /\ procState'[t].resetState = procState[t].resetState

SameFlag(t) == procState'[t].hasMessages = procState[t].hasMessages

(* An attached process has an entry.                                       *)
LEMMA OwnSlot ==
  ASSUME TypeOK, OwnInv, NEW p \in Proc, pc[p] \notin {"start", "exit"}
  PROVE  MyBackendId[p] \in Slots /\ MyState(p) \in ProcStates /\ MyState(p).procPid = p
<1>1. MyBackendId[p] # InvalidBackendId
  BY DEF OwnInv, Attached
<1>2. MyBackendId[p] \in Slots
  BY <1>1 DEF TypeOK
<1>3. MyState(p).procPid = p
  BY <1>1 DEF OwnInv, Attached
<1> QED
  BY <1>2, <1>3 DEF TypeOK, MyState

(* SetHasMessages sets the flag of one entry.                              *)
LEMMA SetEffect ==
  ASSUME TypeOK, NEW p \in Proc, SetHasMessages(p)
  PROVE  /\ flagged[p] + 1 \in Slots
         /\ procState' \in [Slots -> ProcStates]
         /\ \A t \in Slots : SameOwner(t) /\ SamePlace(t)
         /\ \A t \in Slots : t # flagged[p] + 1 => SameFlag(t)
         /\ procState'[flagged[p] + 1].hasMessages
<1> DEFINE u == flagged[p] + 1
<1>1. u \in Slots
  <2>1. flagged[p] \in 0 .. MaxBackends /\ lastBackend \in 0 .. MaxBackends
    BY DEF TypeOK
  <2>2. flagged[p] + 1 <= lastBackend
    BY DEF SetHasMessages
  <2> QED
    BY <2>1, <2>2, ConstantsAssumption DEF Slots
<1>2. procState' = [procState EXCEPT ![u].hasMessages = TRUE]
  BY DEF SetHasMessages
<1>3. procState \in [Slots -> ProcStates]
  BY DEF TypeOK
<1> HIDE DEF u
<1>4. procState' \in [Slots -> ProcStates]
  BY <1>1, <1>2, <1>3 DEF ProcStates
<1>5. \A t \in Slots : SameOwner(t) /\ SamePlace(t)
  BY <1>1, <1>2, <1>3 DEF ProcStates, SameOwner, SamePlace
<1>6. \A t \in Slots : t # u => SameFlag(t)
  BY <1>1, <1>2, <1>3 DEF ProcStates, SameFlag
<1>7. procState'[u].hasMessages
  BY <1>1, <1>2, <1>3 DEF ProcStates
<1> QED
  BY <1>1, <1>4, <1>5, <1>6, <1>7 DEF u

(* Entering SIGetDataEntries clears the flag.                              *)
LEMMA ClearEffect ==
  ASSUME TypeOK, OwnInv, NEW p \in Proc, AcquireReadLock(p)
  PROVE  /\ procState' \in [Slots -> ProcStates]
         /\ \A t \in Slots : SameOwner(t) /\ SamePlace(t)
         /\ \A t \in Slots : t # MyBackendId[p] => SameFlag(t)
<1> DEFINE u == MyBackendId[p]
<1>1. u \in Slots
  BY OwnSlot DEF AcquireReadLock
<1>2. procState' = [procState EXCEPT ![u].hasMessages = FALSE]
  BY DEF AcquireReadLock
<1>3. procState \in [Slots -> ProcStates]
  BY DEF TypeOK
<1> HIDE DEF u
<1>4. procState' \in [Slots -> ProcStates]
  BY <1>1, <1>2, <1>3 DEF ProcStates
<1>5. \A t \in Slots : SameOwner(t) /\ SamePlace(t)
  BY <1>1, <1>2, <1>3 DEF ProcStates, SameOwner, SamePlace
<1>6. \A t \in Slots : t # u => SameFlag(t)
  BY <1>1, <1>2, <1>3 DEF ProcStates, SameFlag
<1> QED
  BY <1>4, <1>5, <1>6 DEF u

(* The end of a reset moves the backend to the end of the queue.           *)
LEMMA ResetEffect ==
  ASSUME TypeOK, OwnInv, NEW p \in Proc, ReadReset(p)
  PROVE  /\ procState' \in [Slots -> ProcStates]
         /\ \A t \in Slots : SameOwner(t) /\ SameFlag(t)
         /\ \A t \in Slots : t # MyBackendId[p] => SamePlace(t)
         /\ procState'[MyBackendId[p]].nextMsgNum = max[p]
         /\ ~procState'[MyBackendId[p]].resetState
<1> DEFINE u == MyBackendId[p]
           x == max[p]
<1>1. u \in Slots
  BY OwnSlot DEF ReadReset
<1>2. procState' = [procState EXCEPT ![u] = [procState[u] EXCEPT !.nextMsgNum = x,
                                               !.resetState = FALSE, !.signaled = FALSE]]
  BY DEF ReadReset, UpdateMyState, MyState
<1>3. procState \in [Slots -> ProcStates]
  BY DEF TypeOK
<1>4. x \in Int
  BY DEF TypeOK
<1> HIDE DEF u, x
<1>5. procState' \in [Slots -> ProcStates]
  BY <1>1, <1>2, <1>3, <1>4 DEF ProcStates
<1>6. \A t \in Slots : SameOwner(t) /\ SameFlag(t)
  BY <1>1, <1>2, <1>3 DEF ProcStates, SameOwner, SameFlag
<1>7. \A t \in Slots : t # u => SamePlace(t)
  BY <1>1, <1>2, <1>3 DEF ProcStates, SamePlace
<1>8. procState'[u].nextMsgNum = x /\ ~procState'[u].resetState
  BY <1>1, <1>2, <1>3 DEF ProcStates
<1> QED
  BY <1>5, <1>6, <1>7, <1>8 DEF u, x

(* Reading a message moves the backend by one.                             *)
LEMMA ReadEffect ==
  ASSUME TypeOK, OwnInv, NEW p \in Proc, ReadOne(p)
  PROVE  /\ procState' \in [Slots -> ProcStates]
         /\ \A t \in Slots : SameOwner(t) /\ SameFlag(t)
         /\ \A t \in Slots : t # MyBackendId[p] => SamePlace(t)
         /\ procState'[MyBackendId[p]].nextMsgNum = procState[MyBackendId[p]].nextMsgNum + 1
         /\ ~procState'[MyBackendId[p]].resetState
<1> DEFINE u == MyBackendId[p]
           x == procState[u].nextMsgNum + 1
<1>1. u \in Slots
  BY OwnSlot DEF ReadOne
<1>2. procState' = [procState EXCEPT ![u] = [procState[u] EXCEPT !.nextMsgNum = x]]
  BY DEF ReadOne, UpdateMyState, MyState
<1>3. procState \in [Slots -> ProcStates]
  BY DEF TypeOK
<1>4. ~procState[u].resetState
  BY DEF ReadOne, MyState
<1>5. x \in Int
  BY <1>1, <1>3 DEF ProcStates
<1> HIDE DEF u, x
<1>6. procState' \in [Slots -> ProcStates]
  BY <1>1, <1>2, <1>3, <1>5 DEF ProcStates
<1>7. \A t \in Slots : SameOwner(t) /\ SameFlag(t)
  BY <1>1, <1>2, <1>3 DEF ProcStates, SameOwner, SameFlag
<1>8. \A t \in Slots : t # u => SamePlace(t)
  BY <1>1, <1>2, <1>3 DEF ProcStates, SamePlace
<1>9. procState'[u].nextMsgNum = x /\ ~procState'[u].resetState
  BY <1>1, <1>2, <1>3, <1>4 DEF ProcStates
<1> QED
  BY <1>6, <1>7, <1>8, <1>9 DEF u, x

(* When SIGetDataEntries leaves messages behind the flag is set again.     *)
LEMMA EndEffect ==
  ASSUME TypeOK, OwnInv, NEW p \in Proc, ReadEnd(p)
  PROVE  /\ procState' \in [Slots -> ProcStates]
         /\ \A t \in Slots : SameOwner(t) /\ SamePlace(t)
         /\ \A t \in Slots : t # MyBackendId[p] => SameFlag(t)
         /\ procState[MyBackendId[p]].hasMessages => procState'[MyBackendId[p]].hasMessages
         /\ procState[MyBackendId[p]].nextMsgNum < max[p] =>
              procState'[MyBackendId[p]].hasMessages
<1> DEFINE u == MyBackendId[p]
<1>1. u \in Slots
  BY OwnSlot DEF ReadEnd
<1>2. procState \in [Slots -> ProcStates]
  BY DEF TypeOK
<1>3. CASE procState[u].nextMsgNum >= max[p]
  <2>1. procState' = [procState EXCEPT ![u] = [procState[u] EXCEPT !.signaled = FALSE]]
    BY <1>3 DEF ReadEnd, UpdateMyState, CaughtUp, MyState
  <2>2. ~(procState[u].nextMsgNum < max[p])
    BY <1>1, <1>2, <1>3 DEF TypeOK, ProcStates
  <2> HIDE DEF u
  <2>3. procState' \in [Slots -> ProcStates]
    BY <1>1, <1>2, <2>1 DEF ProcStates
  <2>4. \A t \in Slots : SameOwner(t) /\ SamePlace(t) /\ SameFlag(t)
    BY <1>1, <1>2, <2>1 DEF ProcStates, SameOwner, SamePlace, SameFlag
  <2>5. procState'[u].hasMessages = procState[u].hasMessages
    BY <1>1, <2>4 DEF SameFlag
  <2> QED
    BY <2>2, <2>3, <2>4, <2>5 DEF u
<1>4. CASE ~(procState[u].nextMsgNum >= max[p])
  <2>1. procState' = [procState EXCEPT ![u] = [procState[u] EXCEPT !.hasMessages = TRUE]]
    BY <1>4 DEF ReadEnd, UpdateMyState, CaughtUp, MyState
  <2> HIDE DEF u
  <2>2. procState' \in [Slots -> ProcStates]
    BY <1>1, <1>2, <2>1 DEF ProcStates
  <2>3. \A t \in Slots : SameOwner(t) /\ SamePlace(t)
    BY <1>1, <1>2, <2>1 DEF ProcStates, SameOwner, SamePlace
  <2>4. \A t \in Slots : t # u => SameFlag(t)
    BY <1>1, <1>2, <2>1 DEF ProcStates, SameFlag
  <2>5. procState'[u].hasMessages
    BY <1>1, <1>2, <2>1 DEF ProcStates
  <2> QED
    BY <2>2, <2>3, <2>4, <2>5 DEF u
<1> QED
  BY <1>3, <1>4

(* The entry of a backend that attaches.                                   *)
JoinEntry(i, n, b, x) ==
  [Inactive EXCEPT !.procPid = i, !.nextMsgNum = n, !.sendOnly = b, !.nextLXID = x]

(* Its type.                                                               *)
LEMMA JoinEntryType ==
  ASSUME NEW i \in Proc, NEW n \in Int, NEW b \in BOOLEAN, NEW x \in LocalTransactionId
  PROVE  JoinEntry(i, n, b, x) \in ProcStates
BY DEF ProcStates, Inactive, JoinEntry

(* A backend that attaches gets an entry that no process owns.             *)
LEMMA JoinEffect ==
  ASSUME TypeOK, OwnInv, NEW p \in Proc, SharedInvalBackendInit(p)
  PROVE  \E u \in Slots :
           /\ procState[u].procPid = NoProc
           /\ lastBackend' \in 0 .. MaxBackends /\ lastBackend' >= lastBackend /\ u <= lastBackend'
           /\ MyBackendId' = [MyBackendId EXCEPT ![p] = u]
           /\ nextLocalTransactionId' =
                [nextLocalTransactionId EXCEPT ![p] = procState[u].nextLXID]
           /\ procState' \in [Slots -> ProcStates]
           /\ \A t \in Slots : t # u => SameOwner(t) /\ SamePlace(t) /\ SameFlag(t)
           /\ procState'[u].procPid = p
           /\ procState'[u].sendOnly <=> p \in SendOnly
           /\ procState'[u].nextLXID = procState[u].nextLXID
           /\ procState'[u].nextMsgNum = maxMsgNum
           /\ ~procState'[u].resetState
<1> DEFINE free == {t \in 1 .. lastBackend : procState[t].procPid = NoProc}
           u == FreeSlot
<1>1. lastBackend \in 0 .. MaxBackends /\ MaxBackends \in Nat /\ procState \in [Slots -> ProcStates]
  BY ConstantsAssumption DEF TypeOK
<1>2. u <= MaxBackends
  BY DEF SharedInvalBackendInit
<1>3. u \in Slots /\ procState[u].procPid = NoProc
  <2>1. CASE free # {}
    <3>1. free \in SUBSET Nat
      BY <1>1
    <3>2. Min(free) \in free
      BY <2>1, <3>1, MinNat
    <3>3. u = Min(free)
      BY <2>1 DEF FreeSlot
    <3> QED
      BY <1>1, <3>2, <3>3 DEF Slots
  <2>2. CASE free = {}
    <3>1. u = lastBackend + 1
      BY <2>2 DEF FreeSlot
    <3>2. u \in Slots /\ ~(u <= lastBackend)
      BY <1>1, <1>2, <3>1 DEF Slots
    <3> QED
      BY <3>2 DEF OwnInv
  <2> QED
    BY <2>1, <2>2
<1>4. lastBackend' = IF u > lastBackend THEN u ELSE lastBackend
  BY DEF SharedInvalBackendInit
<1>5. MyBackendId' = [MyBackendId EXCEPT ![p] = u]
      /\ nextLocalTransactionId' = [nextLocalTransactionId EXCEPT ![p] = procState[u].nextLXID]
  BY DEF SharedInvalBackendInit
<1>6. procState' = [procState EXCEPT ![u] = JoinState(p, u)]
  BY DEF SharedInvalBackendInit
<1> HIDE DEF u
<1>7. lastBackend' \in 0 .. MaxBackends /\ lastBackend' >= lastBackend /\ u <= lastBackend'
  BY <1>1, <1>3, <1>4 DEF Slots
<1> DEFINE b == p \in SendOnly
<1>8. b \in BOOLEAN
  OBVIOUS
<1>9. maxMsgNum \in Int /\ procState[u].nextLXID \in LocalTransactionId
  <2>1. procState[u] \in ProcStates
    BY <1>1, <1>3
  <2> QED
    BY <2>1 DEF TypeOK, ProcStates
<1>10. /\ JoinState(p, u) \in ProcStates
       /\ JoinState(p, u).procPid = p
       /\ JoinState(p, u).sendOnly = b
       /\ JoinState(p, u).nextLXID = procState[u].nextLXID
       /\ JoinState(p, u).nextMsgNum = maxMsgNum
       /\ JoinState(p, u).resetState = FALSE
  <2>1. JoinState(p, u) = JoinEntry(p, maxMsgNum, b, procState[u].nextLXID)
    BY DEF JoinState, JoinEntry
  <2> HIDE DEF b
  <2> DEFINE e == JoinEntry(p, maxMsgNum, b, procState[u].nextLXID)
  <2>2. e \in ProcStates
    BY <1>8, <1>9, JoinEntryType
  <2>3. e.procPid = p
    BY DEF JoinEntry, Inactive
  <2>4. e.nextLXID = procState[u].nextLXID
    BY DEF JoinEntry, Inactive
  <2>5. e.nextMsgNum = maxMsgNum
    BY DEF JoinEntry, Inactive
  <2>6. e.sendOnly = b
    BY DEF JoinEntry, Inactive
  <2>7. e.resetState = FALSE
    BY DEF JoinEntry, Inactive
  <2> HIDE DEF e
  <2>8. JoinState(p, u) = e
    BY <2>1 DEF e
  <2> HIDE DEF JoinState
  <2> QED
    BY <2>2, <2>3, <2>4, <2>5, <2>6, <2>7, <2>8, Zenon
<1> HIDE DEF b
<1>11. procState' \in [Slots -> ProcStates] /\ procState'[u] = JoinState(p, u)
       /\ \A t \in Slots : t # u => procState'[t] = procState[t]
  BY <1>1, <1>3, <1>6, <1>10
<1>12. \A t \in Slots : t # u => SameOwner(t) /\ SamePlace(t) /\ SameFlag(t)
  BY <1>11 DEF SameOwner, SamePlace, SameFlag
<1>13. procState'[u].sendOnly <=> p \in SendOnly
  BY <1>10, <1>11, Zenon DEF b
<1> QED
  BY <1>3, <1>5, <1>7, <1>10, <1>11, <1>12, <1>13

(* New values of an entry's fields.                                        *)
LEMMA EntryUpdate ==
  ASSUME NEW r, r \in ProcStates, NEW i \in Proc \cup {NoProc}, NEW n \in Int,
         NEW b \in BOOLEAN, NEW c \in BOOLEAN, NEW x \in LocalTransactionId
  PROVE  [r EXCEPT !.procPid = i, !.nextMsgNum = n, !.resetState = b, !.signaled = c,
                   !.nextLXID = x] \in ProcStates
BY DEF ProcStates

(* A backend that leaves keeps its entry's local transaction id counter,   *)
(* and lastBackend still bounds the entries in use.                        *)
LEMMA ExitEffect ==
  ASSUME TypeOK, OwnInv, NEW p \in Proc, CleanupInvalidationState(p)
  PROVE  /\ MyBackendId[p] \in Slots
         /\ lastBackend' \in 0 .. MaxBackends
         /\ \A t \in Slots : t # MyBackendId[p] /\ procState[t].procPid # NoProc =>
              t <= lastBackend'
         /\ procState' \in [Slots -> ProcStates]
         /\ \A t \in Slots : t # MyBackendId[p] => SameOwner(t) /\ SamePlace(t) /\ SameFlag(t)
         /\ procState'[MyBackendId[p]].procPid = NoProc
         /\ procState'[MyBackendId[p]].nextLXID = nextLocalTransactionId[p]
<1> DEFINE u == MyBackendId[p]
           active == {t \in Slots \ {u} : procState[t].procPid # NoProc}
           x == nextLocalTransactionId[p]
<1>1. u \in Slots
  BY OwnSlot DEF CleanupInvalidationState
<1>2. procState \in [Slots -> ProcStates] /\ x \in LocalTransactionId /\ MaxBackends \in Nat
  BY ConstantsAssumption DEF TypeOK
<1>3. procState' = [procState EXCEPT ![u] =
                      [procState[u] EXCEPT !.procPid = NoProc, !.nextMsgNum = 0,
                         !.resetState = FALSE, !.signaled = FALSE, !.nextLXID = x]]
  BY DEF CleanupInvalidationState, ExitState, MyState
<1>4. lastBackend' = IF active = {} THEN 0 ELSE Max(active)
  BY DEF CleanupInvalidationState
<1>5. lastBackend' \in 0 .. MaxBackends /\ \A t \in active : t <= lastBackend'
  <2>1. CASE active = {}
    BY <1>2, <1>4, <2>1
  <2>2. CASE active # {}
    <3>1. active \in SUBSET (0 .. MaxBackends)
      BY <1>2 DEF Slots
    <3>2. Max(active) \in active /\ \A t \in active : Max(active) >= t
      BY <1>2, <2>2, <3>1, MaxBounded
    <3>3. lastBackend' = Max(active)
      BY <1>4, <2>2
    <3> HIDE DEF active
    <3> QED
      BY <3>1, <3>2, <3>3
  <2> QED
    BY <2>1, <2>2
<1> HIDE DEF u, x
<1>6. procState' \in [Slots -> ProcStates]
  <2>1. procState[u] \in ProcStates /\ NoProc \in Proc \cup {NoProc} /\ 0 \in Int /\ FALSE \in BOOLEAN
    BY <1>1, <1>2
  <2>2. [procState[u] EXCEPT !.procPid = NoProc, !.nextMsgNum = 0, !.resetState = FALSE,
                             !.signaled = FALSE, !.nextLXID = x] \in ProcStates
    BY <1>2, <2>1, EntryUpdate, Zenon
  <2> QED
    BY <1>1, <1>2, <1>3, <2>2
<1>7. \A t \in Slots : t # u => SameOwner(t) /\ SamePlace(t) /\ SameFlag(t)
  BY <1>1, <1>2, <1>3 DEF SameOwner, SamePlace, SameFlag
<1>8. procState'[u].procPid = NoProc /\ procState'[u].nextLXID = x
  BY <1>1, <1>2, <1>3 DEF ProcStates
<1> QED
  BY <1>1, <1>5, <1>6, <1>7, <1>8 DEF u, x

(* The threshold for the next cleanup is above the number of messages.     *)
LEMMA ThresholdAbove ==
  ASSUME NEW n \in Nat
  PROVE  Threshold(n) \in Nat /\ Threshold(n) > n
<1>1. CLEANUP_MIN \in Nat /\ CLEANUP_QUANTUM \in Nat /\ CLEANUP_QUANTUM > 0
  BY ConstantsAssumption
<1>2. CASE n < CLEANUP_MIN
  BY <1>1, <1>2 DEF Threshold
<1>3. CASE ~(n < CLEANUP_MIN)
  <2> DEFINE q == CLEANUP_QUANTUM
             d == n \div q
  <2>1. n = q * d + (n % q) /\ n % q < q /\ d \in Nat
    BY <1>1
  <2>2. Threshold(n) = (d + 1) * q
    BY <1>3 DEF Threshold
  <2>3. (d + 1) * q = q * d + q
    BY <1>1, <2>1
  <2> QED
    BY <1>1, <2>1, <2>2, <2>3
<1> QED
  BY <1>2, <1>3

(* SICleanupQueue: m is the new minimum before w is subtracted.            *)
LEMMA CleanEffect ==
  ASSUME TypeOK, CountersOrdered, NEW minFree \in 0 .. WRITE_QUANTUM,
         NEW sig \in Slots \cup {InvalidBackendId}, CleanQueue(minFree, sig)
  PROVE  \E m \in minMsgNum .. maxMsgNum, w \in Nat :
           /\ w <= m /\ w % MAXNUMMESSAGES = 0
           /\ minMsgNum' = m - w /\ maxMsgNum' = maxMsgNum - w /\ base' = base + w
           /\ maxMsgNum - m + minFree <= MAXNUMMESSAGES
           /\ nextThreshold' \in Nat /\ nextThreshold' > maxMsgNum - m
           /\ procState' \in [Slots -> ProcStates]
           /\ \A t \in Slots : SameOwner(t) /\ SameFlag(t)
           /\ \A t \in Slots : t <= lastBackend =>
                procState'[t].nextMsgNum = procState[t].nextMsgNum - w
           /\ \A t \in Slots : ~procState'[t].resetState =>
                /\ ~procState[t].resetState
                /\ t \in Counted => procState[t].nextMsgNum >= m
           /\ \A t \in Slots : procState'[t].resetState =>
                \/ procState[t].resetState
                \/ t \in Counted /\ procState[t].nextMsgNum < maxMsgNum
<1> DEFINE reset == TooFarBack(minFree)
           kept == Counted \ reset
           T == {maxMsgNum} \cup {procState[t].nextMsgNum : t \in kept}
           m == Min(T)
           w == Wrap(m)
<1>1. /\ minMsgNum \in Nat /\ maxMsgNum \in Nat /\ minMsgNum <= maxMsgNum /\ base \in Nat
      /\ MAXNUMMESSAGES \in Nat \ {0} /\ WRITE_QUANTUM \in Nat /\ WRITE_QUANTUM <= MAXNUMMESSAGES
      /\ MSGNUMWRAPAROUND \in Nat /\ MSGNUMWRAPAROUND % MAXNUMMESSAGES = 0
  BY ConstantsAssumption, WraparoundAssumption DEF TypeOK, CountersOrdered
<1>2. procState \in [Slots -> ProcStates] /\ lastBackend \in 0 .. MaxBackends /\ MaxBackends \in Nat
  BY ConstantsAssumption DEF TypeOK
<1>3. Counted \subseteq Slots
  BY <1>2 DEF Counted, Slots
<1>4. \A t \in Counted : procState[t].nextMsgNum \in minMsgNum .. maxMsgNum
  BY DEF CountersOrdered
<1>5. \A t \in Counted : t \in reset <=>
        procState[t].nextMsgNum < maxMsgNum - MAXNUMMESSAGES + minFree
  BY DEF TooFarBack
<1>6. reset \subseteq Counted
  BY DEF TooFarBack
<1>7. minMsgNum' = m - w /\ maxMsgNum' = maxMsgNum - w /\ base' = base + w
      /\ nextThreshold' = Threshold(maxMsgNum - m)
  BY DEF CleanQueue
<1>8. procState' = [t \in Slots |->
           [procState[t] EXCEPT
              !.resetState = procState[t].resetState \/ t \in reset,
              !.nextMsgNum = IF t <= lastBackend THEN procState[t].nextMsgNum - w
                                                 ELSE procState[t].nextMsgNum,
              !.signaled = procState[t].signaled \/ t = sig]]
  BY DEF CleanQueue
<1> HIDE DEF reset
<1>9. /\ m \in minMsgNum .. maxMsgNum
      /\ \A t \in kept : procState[t].nextMsgNum >= m
      /\ maxMsgNum - m + minFree <= MAXNUMMESSAGES
  <2>1. T \in SUBSET Nat /\ T # {}
    BY <1>1, <1>4
  <2>2. m \in T /\ \A y \in T : m <= y
    <3> HIDE DEF T
    <3> QED
      BY <2>1, MinNat
  <2> HIDE DEF m
  <2>3. \A t \in kept : procState[t].nextMsgNum >= m
    BY <2>1, <2>2
  <2>4. m <= maxMsgNum
    BY <2>2
  <2>5. CASE m = maxMsgNum
    BY <1>1, <2>3, <2>5
  <2>6. CASE m # maxMsgNum
    <3>1. PICK t \in kept : m = procState[t].nextMsgNum
      BY <2>2, <2>6
    <3>2. m \in minMsgNum .. maxMsgNum /\ ~(m < maxMsgNum - MAXNUMMESSAGES + minFree)
      BY <1>4, <1>5, <3>1
    <3>3. m \in Int
      BY <1>1, <3>2
    <3> HIDE DEF kept
    <3> QED
      BY <1>1, <2>3, <3>2, <3>3
  <2> QED
    BY <2>5, <2>6
<1> HIDE DEF T, m
<1>10. m \in Nat
  BY <1>1, <1>9
<1>11. w \in Nat /\ w <= m /\ w % MAXNUMMESSAGES = 0
  BY <1>1, <1>10 DEF Wrap
<1>12. nextThreshold' \in Nat /\ nextThreshold' > maxMsgNum - m
  <2>1. maxMsgNum - m \in Nat
    BY <1>1, <1>9
  <2> QED
    BY <1>7, <2>1, ThresholdAbove
<1> HIDE DEF w
<1>13. procState' \in [Slots -> ProcStates]
  <2> SUFFICES ASSUME NEW t \in Slots
               PROVE  [procState[t] EXCEPT
                         !.resetState = procState[t].resetState \/ t \in reset,
                         !.nextMsgNum = IF t <= lastBackend THEN procState[t].nextMsgNum - w
                                                            ELSE procState[t].nextMsgNum,
                         !.signaled = procState[t].signaled \/ t = sig] \in ProcStates
    BY <1>8, Zenon
  <2> DEFINE b == procState[t].resetState \/ t \in reset
             c == procState[t].signaled \/ t = sig
             n == IF t <= lastBackend THEN procState[t].nextMsgNum - w ELSE procState[t].nextMsgNum
  <2>1. b \in BOOLEAN /\ c \in BOOLEAN
    BY Zenon
  <2>2. n \in Int
    BY <1>2, <1>11 DEF ProcStates
  <2>3. procState[t] \in ProcStates
    BY <1>2
  <2> HIDE DEF b, c, n
  <2>4. [procState[t] EXCEPT !.resetState = b, !.nextMsgNum = n, !.signaled = c] \in ProcStates
    BY <2>1, <2>2, <2>3 DEF ProcStates
  <2> QED
    BY <2>4 DEF b, c, n
<1>14. \A t \in Slots : SameOwner(t) /\ SameFlag(t)
  BY <1>2, <1>8 DEF ProcStates, SameOwner, SameFlag
<1>15. \A t \in Slots : t <= lastBackend =>
         procState'[t].nextMsgNum = procState[t].nextMsgNum - w
  BY <1>2, <1>8 DEF ProcStates
<1>16. \A t \in Slots : procState'[t].resetState <=> procState[t].resetState \/ t \in reset
  BY <1>2, <1>8 DEF ProcStates
<1>17. \A t \in Slots : ~procState'[t].resetState =>
         /\ ~procState[t].resetState
         /\ t \in Counted => procState[t].nextMsgNum >= m
  BY <1>9, <1>16
<1>18. \A t \in reset : t \in Counted /\ procState[t].nextMsgNum < maxMsgNum
  BY <1>1, <1>4, <1>5, <1>6
<1>19. \A t \in Slots : procState'[t].resetState =>
         procState[t].resetState \/ (t \in Counted /\ procState[t].nextMsgNum < maxMsgNum)
  BY <1>16, <1>18
<1> HIDE DEF kept
<1>20. m \in minMsgNum .. maxMsgNum /\ w \in Nat
  BY <1>9, <1>11
<1>21. /\ w <= m /\ w % MAXNUMMESSAGES = 0
       /\ minMsgNum' = m - w /\ maxMsgNum' = maxMsgNum - w /\ base' = base + w
       /\ maxMsgNum - m + minFree <= MAXNUMMESSAGES
       /\ nextThreshold' \in Nat /\ nextThreshold' > maxMsgNum - m
  BY <1>7, <1>9, <1>11, <1>12
<1> QED
  BY <1>13, <1>14, <1>15, <1>17, <1>19, <1>20, <1>21, Zenon

-----------------------------------------------------------------------------
(* The lesser of two.                                                      *)
LEMMA MinPair ==
  ASSUME NEW a \in Nat, NEW b \in Nat
  PROVE  Min({a, b}) \in {a, b} /\ Min({a, b}) <= a /\ Min({a, b}) <= b
<1>1. {a, b} \in SUBSET Nat /\ {a, b} # {}
  OBVIOUS
<1>2. Min({a, b}) \in {a, b} /\ \A y \in {a, b} : Min({a, b}) <= y
  BY <1>1, MinNat
<1> QED
  BY <1>2

(* The batch that WriteBuffer puts into the buffer.                        *)
LEMMA WriteEffect ==
  ASSUME TypeOK, CountersOrdered, NEW p \in Proc, WriteBuffer(p)
  PROVE  /\ maxMsgNum - minMsgNum + nthistime[p] <= MAXNUMMESSAGES
         /\ buffer' \in [0 .. MAXNUMMESSAGES - 1 -> Nat \cup {-1}]
         /\ \A n \in maxMsgNum .. maxMsgNum + nthistime[p] - 1 :
              buffer'[n % MAXNUMMESSAGES] = base + n
         /\ \A n \in minMsgNum .. maxMsgNum - 1 :
              buffer'[n % MAXNUMMESSAGES] = buffer[n % MAXNUMMESSAGES]
<1> DEFINE N == MAXNUMMESSAGES
           new == maxMsgNum .. maxMsgNum + nthistime[p] - 1
           at(i) == {n \in new : n % N = i}
<1>1. N \in Nat \ {0} /\ minMsgNum \in Nat /\ maxMsgNum \in Nat /\ base \in Nat
      /\ nthistime[p] \in Nat /\ minMsgNum <= maxMsgNum
      /\ buffer \in [0 .. N - 1 -> Nat \cup {-1}]
  BY ConstantsAssumption DEF TypeOK, CountersOrdered
<1>2. maxMsgNum - minMsgNum + nthistime[p] <= N
  BY <1>1 DEF WriteBuffer, NoRoom
<1>3. buffer' = [i \in 0 .. N - 1 |->
                   IF at(i) = {} THEN buffer[i] ELSE base + (CHOOSE n \in at(i) : TRUE)]
  BY <1>1 DEF WriteBuffer
<1>4. \A n \in Nat : n % N \in 0 .. N - 1
  BY <1>1
<1>5. ASSUME NEW i \in 0 .. N - 1, at(i) # {}
      PROVE  (CHOOSE n \in at(i) : TRUE) \in at(i)
  BY <1>5
<1>6. new \subseteq Nat
  BY <1>1
<1>7. buffer' \in [0 .. N - 1 -> Nat \cup {-1}]
  <2> SUFFICES ASSUME NEW i \in 0 .. N - 1
               PROVE  (IF at(i) = {} THEN buffer[i] ELSE base + (CHOOSE n \in at(i) : TRUE))
                        \in Nat \cup {-1}
    BY <1>3
  <2>1. CASE at(i) = {}
    BY <1>1, <2>1
  <2>2. CASE at(i) # {}
    <3>1. (CHOOSE n \in at(i) : TRUE) \in Nat
      BY <1>5, <1>6, <2>2
    <3> HIDE DEF at
    <3> QED
      BY <1>1, <2>2, <3>1
  <2> QED
    BY <2>1, <2>2
<1>8. ASSUME NEW n \in new
      PROVE  buffer'[n % N] = base + n
  <2>1. n % N \in 0 .. N - 1 /\ n \in at(n % N)
    BY <1>4, <1>6
  <2> DEFINE c == CHOOSE k \in at(n % N) : TRUE
  <2>2. c \in at(n % N)
    BY <1>5, <2>1
  <2>3. buffer'[n % N] = base + c
    BY <1>3, <2>1
  <2>4. c \in new /\ c % N = n % N
    BY <2>2
  <2> HIDE DEF c
  <2>5. \A a, b \in new : a < b => a % N # b % N
    <3> SUFFICES ASSUME NEW a \in new, NEW b \in new, a < b
                 PROVE  a % N # b % N
      OBVIOUS
    <3>1. a \in Int /\ b \in Int /\ b - a < N
      BY <1>1, <1>2
    <3> QED
      BY <1>1, <3>1, ModNear
  <2>6. ~(c < n) /\ ~(n < c)
    BY <2>4, <2>5
  <2>7. c = n
    BY <1>6, <2>4, <2>6
  <2> QED
    BY <2>3, <2>7
<1>9. ASSUME NEW n \in minMsgNum .. maxMsgNum - 1
      PROVE  buffer'[n % N] = buffer[n % N]
  <2>1. n % N \in 0 .. N - 1
    <3>1. n \in Nat
      BY <1>1
    <3> QED
      BY <1>4, <3>1
  <2>2. \A b \in new : n % N # b % N
    <3> SUFFICES ASSUME NEW b \in new
                 PROVE  n % N # b % N
      OBVIOUS
    <3>1. n \in Int /\ b \in Int /\ n < b /\ b - n < N
      BY <1>1, <1>2
    <3> QED
      BY <1>1, <3>1, ModNear
  <2>3. at(n % N) = {}
    BY <2>2
  <2> QED
    BY <1>3, <2>1, <2>3
<1> QED
  BY <1>2, <1>7, <1>8, <1>9

(* The entry of a receiver that is not in reset state is counted.          *)
LEMMA CountedMine ==
  ASSUME TypeOK, OwnInv, NEW p \in Proc, Attached(p), p \notin SendOnly, ~MyState(p).resetState
  PROVE  MyBackendId[p] \in Counted
<1>1. pc[p] \notin {"start", "exit"}
  BY DEF OwnInv
<1>2. MyBackendId[p] \in Slots /\ procState[MyBackendId[p]].procPid = p
  BY <1>1, OwnSlot DEF MyState
<1>3. p # NoProc
  BY ConstantsAssumption
<1>4. MyBackendId[p] <= lastBackend /\ ~procState[MyBackendId[p]].sendOnly
  BY <1>2, <1>3 DEF OwnInv
<1>5. MyBackendId[p] \in 1 .. lastBackend
  BY <1>2, <1>4, ConstantsAssumption DEF TypeOK, Slots
<1> QED
  BY <1>2, <1>3, <1>4, <1>5 DEF Counted, MyState

(* The message that ReadOne takes is in the buffer.                        *)
LEMMA ReadFact ==
  ASSUME IInv, NEW p \in Proc, ReadOne(p)
  PROVE  /\ MyState(p).nextMsgNum \in minMsgNum .. maxMsgNum - 1
         /\ MyState(p).nextMsgNum < max[p]
         /\ buffer[MyState(p).nextMsgNum % MAXNUMMESSAGES] = base + MyState(p).nextMsgNum
<1>1. TypeOK /\ OwnInv /\ CountInv /\ PlaceInv /\ BufferInv
  BY DEF IInv
<1>2. pc[p] = "read" /\ ~MyState(p).resetState /\ MyState(p).nextMsgNum < max[p]
  BY DEF ReadOne
<1>3. Attached(p) /\ p \notin SendOnly
  BY <1>1, <1>2 DEF OwnInv, PlaceInv, PlaceAt, Receiving, Reading
<1>4. MyState(p).nextMsgNum \in minMsgNum .. maxMsgNum
  BY <1>1, <1>2, <1>3, CountedMine DEF CountInv, CountersOrdered, MyState
<1>5. max[p] <= maxMsgNum /\ max[p] \in Nat /\ minMsgNum \in Nat /\ maxMsgNum \in Nat
  BY <1>1, <1>2 DEF CountInv, TypeOK
<1>6. MyState(p).nextMsgNum \in minMsgNum .. maxMsgNum - 1
  BY <1>2, <1>4, <1>5
<1> QED
  BY <1>1, <1>2, <1>6 DEF BufferInv, Holds

(* Every message that counts as sent has a number.                         *)
LEMMA SentNat ==
  ASSUME TypeOK, CountInv
  PROVE  Sent \in Nat /\ Sent <= base + maxMsgNum
<1>1. base \in Nat /\ maxMsgNum \in Nat
  BY DEF TypeOK
<1>2. CASE writeLock # NoProc /\ pc[writeLock] = "sflag"
  <2>1. writeLock \in Proc /\ nthistime[writeLock] \in Nat
    BY <1>2, ConstantsAssumption DEF TypeOK
  <2>2. nthistime[writeLock] <= maxMsgNum
    BY <1>2, <2>1 DEF CountInv
  <2>3. Sent = base + maxMsgNum - nthistime[writeLock]
    BY <1>2 DEF Sent
  <2> QED
    BY <1>1, <2>1, <2>2, <2>3
<1>3. CASE ~(writeLock # NoProc /\ pc[writeLock] = "sflag")
  BY <1>1, <1>3 DEF Sent
<1> QED
  BY <1>2, <1>3

(* A stack of calls: entering one, and where its last call is.             *)
LEMMA StackTypes ==
  ASSUME NEW st \in Seq(Calls)
  PROVE  /\ \A n \in Nat : Append(st, [loc |-> "pending", sent |-> n]) \in Seq(Calls)
         /\ st # << >> => /\ SubSeq(st, 1, Len(st) - 1) \in Seq(Calls)
                          /\ \A l \in {"pending", "batch", "reset"} :
                               [st EXCEPT ![Len(st)].loc = l] \in Seq(Calls)
<1>1. \A n \in Nat : Append(st, [loc |-> "pending", sent |-> n]) \in Seq(Calls)
  BY DEF Calls
<1>2. ASSUME st # << >>
      PROVE  Len(st) \in 1 .. Len(st) /\ Len(st) - 1 \in Nat /\ st[Len(st)] \in Calls
  BY <1>2
<1>3. ASSUME st # << >>
      PROVE  SubSeq(st, 1, Len(st) - 1) \in Seq(Calls)
  BY <1>2, <1>3, SubSeqProperties
<1>4. ASSUME st # << >>, NEW l \in {"pending", "batch", "reset"}
      PROVE  [st EXCEPT ![Len(st)].loc = l] \in Seq(Calls)
  <2>1. [st[Len(st)] EXCEPT !.loc = l] \in Calls
    BY <1>2, <1>4 DEF Calls
  <2>2. \A c \in Calls : [st EXCEPT ![Len(st)] = c] \in Seq(Calls)
    BY <1>2, <1>4
  <2> QED
    BY <2>1, <2>2
<1> QED
  BY <1>1, <1>3, <1>4

(* Every action keeps the types.                                           *)
LEMMA TypeStep ==
  ASSUME IInv, NEW p \in Proc, ActionOf(p)
  PROVE  TypeOK'
<1> USE ConstantsAssumption
<1>0. TypeOK /\ OwnInv /\ PlaceInv /\ CountInv /\ CountersOrdered
  BY DEF IInv, CountInv
<1>1. CASE SharedInvalBackendInit(p)
  <2>1. PICK u \in Slots :
          /\ lastBackend' \in 0 .. MaxBackends
          /\ MyBackendId' = [MyBackendId EXCEPT ![p] = u]
          /\ nextLocalTransactionId' = [nextLocalTransactionId EXCEPT ![p] = procState[u].nextLXID]
          /\ procState' \in [Slots -> ProcStates]
    BY <1>1, <1>0, JoinEffect
  <2>2. procState[u].nextLXID \in LocalTransactionId
    BY <1>0 DEF TypeOK, ProcStates
  <2>3. base + maxMsgNum \in Nat
    <3>1. base \in Nat /\ maxMsgNum \in Nat
      BY <1>0 DEF TypeOK
    <3> QED
      BY <3>1
  <2> DEFINE x == base + maxMsgNum
  <2>4. /\ seen' = [seen EXCEPT ![p] = x] /\ Go(p, "idle")
        /\ UNCHANGED <<minMsgNum, maxMsgNum, nextThreshold, buffer, lockVars, sendVars,
                       recvVars, sigVars, lastLXID, base>>
    BY <1>1 DEF SharedInvalBackendInit
  <2> HIDE DEF x
  <2>5. seen' \in [Proc -> Nat]
    BY <1>0, <2>3, <2>4 DEF TypeOK, x
  <2>6. nextLocalTransactionId' \in [Proc -> LocalTransactionId]
    BY <1>0, <2>1, <2>2 DEF TypeOK
  <2> QED
    BY <1>0, <2>1, <2>4, <2>5, <2>6 DEF TypeOK, Pcs, Go, lockVars, sendVars, recvVars, sigVars
<1>2. CASE CleanupInvalidationState(p)
  <2>1. lastBackend' \in 0 .. MaxBackends /\ procState' \in [Slots -> ProcStates]
    BY <1>2, <1>0, ExitEffect
  <2>2. 0 \in LocalTransactionId /\ << >> \in Seq(Nat) /\ << >> \in Seq(Calls)
    BY DEF LocalTransactionId
  <2> QED
    BY <1>2, <1>0, <2>1, <2>2 DEF TypeOK, Pcs, CleanupInvalidationState, Go, segVars, lockVars,
       sendVars, recvVars, sigVars, idVars
<1>3. CASE GetNextLocalTransactionId(p)
  <2> DEFINE next == nextLocalTransactionId[p]
             result == IF next = 0 THEN 1 ELSE next
  <2>1. next \in LocalTransactionId
    BY <1>0 DEF TypeOK
  <2>2. result \in LocalTransactionId /\ (result + 1) % LXID_MODULUS \in LocalTransactionId
    BY <2>1 DEF LocalTransactionId
  <2>3. /\ nextLocalTransactionId' =
             [nextLocalTransactionId EXCEPT ![p] = (result + 1) % LXID_MODULUS]
        /\ lastLXID' = [lastLXID EXCEPT ![MyBackendId[p]] = result]
    BY <1>3 DEF GetNextLocalTransactionId
  <2> DEFINE after == (result + 1) % LXID_MODULUS
  <2> HIDE DEF result, after
  <2>4. nextLocalTransactionId' \in [Proc -> LocalTransactionId]
    BY <1>0, <2>2, <2>3 DEF TypeOK, after
  <2>5. lastLXID' \in [Slots -> LocalTransactionId]
    BY <1>0, <2>2, <2>3 DEF TypeOK
  <2> QED
    BY <1>3, <1>0, <2>4, <2>5 DEF TypeOK, Pcs, GetNextLocalTransactionId, Go, segVars,
       lockVars, sendVars, recvVars, sigVars, idVars
<1>4. CASE SendSharedInvalidMessages(p)
  <2>1. PICK n \in 1 .. MaxSend :
          /\ nthistime' = [nthistime EXCEPT ![p] = Min({n, WRITE_QUANTUM})]
          /\ toSend' = [toSend EXCEPT ![p] = n - Min({n, WRITE_QUANTUM})]
    BY <1>4 DEF SendSharedInvalidMessages
  <2> DEFINE b == Min({n, WRITE_QUANTUM})
  <2>2. b \in Nat /\ b <= n /\ b <= WRITE_QUANTUM
    BY MinPair
  <2> HIDE DEF b
  <2>3. b \in 0 .. WRITE_QUANTUM /\ n - b \in Nat
    BY <2>2
  <2>4. nthistime' \in [Proc -> 0 .. WRITE_QUANTUM] /\ toSend' \in [Proc -> Nat]
    BY <1>0, <2>1, <2>3 DEF TypeOK, b
  <2>5. /\ Go(p, "swlock")
        /\ UNCHANGED <<segVars, lockVars, flagged, recvVars, sigVars, idVars, base, seen>>
    BY <1>4 DEF SendSharedInvalidMessages
  <2> QED
    BY <1>0, <2>4, <2>5 DEF TypeOK, Pcs, Go, segVars, lockVars, recvVars, sigVars, idVars
<1>5. CASE LockForInsert(p)
  BY <1>5, <1>0 DEF TypeOK, Pcs, LockForInsert, AcquireWriteLock, Go, segVars, lockVars,
     sendVars, recvVars, sigVars, idVars
<1>6. CASE CleanupForInsert(p)
  <2>1. PICK sig \in Slots \cup {InvalidBackendId} :
          /\ CleanQueue(nthistime[p], sig)
          /\ needSig' \in {needSig, [needSig EXCEPT ![p] = Target(sig)]}
          /\ sig = InvalidBackendId => needSig' = needSig
    BY <1>6 DEF CleanupForInsert
  <2>2. nthistime[p] \in 0 .. WRITE_QUANTUM
    BY <1>0 DEF TypeOK
  <2>3. /\ minMsgNum' \in Nat /\ maxMsgNum' \in Nat /\ base' \in Nat
        /\ nextThreshold' \in Nat /\ procState' \in [Slots -> ProcStates]
    <3>1. PICK m \in minMsgNum .. maxMsgNum, w \in Nat :
             /\ w <= m
             /\ minMsgNum' = m - w /\ maxMsgNum' = maxMsgNum - w /\ base' = base + w
             /\ nextThreshold' \in Nat /\ procState' \in [Slots -> ProcStates]
      BY <1>0, <2>1, <2>2, CleanEffect
    <3>2. minMsgNum \in Nat /\ maxMsgNum \in Nat /\ base \in Nat
      BY <1>0 DEF TypeOK
    <3> QED
      BY <3>1, <3>2
  <2>4. needSig' \in [Proc -> Targets]
    <3>1. sig \in Slots => Target(sig) \in Targets
      BY <1>0 DEF Target, Targets, TypeOK, ProcStates
    <3> QED
      BY <1>0, <2>1, <3>1 DEF TypeOK
  <2>5. pc' \in [Proc -> Pcs] /\ writeLock' \in Proc \cup {NoProc}
    BY <1>6, <1>0 DEF TypeOK, Pcs, CleanupForInsert, Go
  <2> QED
    BY <1>6, <1>0, <2>3, <2>4, <2>5 DEF TypeOK, Pcs, CleanupForInsert, segVars, lockVars,
       sendVars, recvVars, sigVars, idVars
<1>7. CASE SignalForInsert(p)
  <2> DEFINE i == needSig[p].pid
             b == signalFlag[i] \/ MyBackendId[i] = needSig[p].slot
  <2>1. signalFlag' = [signalFlag EXCEPT ![i] = b]
    BY <1>7 DEF SignalForInsert, SendProcSignal
  <2>2. b \in BOOLEAN
    OBVIOUS
  <2> HIDE DEF b, i
  <2>3. signalFlag' \in [Proc -> BOOLEAN]
    BY <1>0, <2>1, <2>2 DEF TypeOK
  <2>4. NoSig \in Targets
    BY DEF NoSig, Targets
  <2> QED
    BY <1>7, <1>0, <2>3, <2>4 DEF TypeOK, Pcs, SignalForInsert, SendProcSignal, Go, segVars,
       lockVars, sendVars, recvVars, sigVars, idVars
<1>8. CASE RelockForInsert(p)
  BY <1>8, <1>0 DEF TypeOK, Pcs, RelockForInsert, AcquireWriteLock, Go, segVars, lockVars,
     sendVars, recvVars, sigVars, idVars
<1>9. CASE WriteBuffer(p)
  <2>1. buffer' \in [0 .. MAXNUMMESSAGES - 1 -> Nat \cup {-1}]
    BY <1>9, <1>0, WriteEffect
  <2>2. UNCHANGED <<minMsgNum, maxMsgNum, nextThreshold, lastBackend, procState, lockVars,
                    sendVars, recvVars, sigVars, idVars, base, seen>> /\ Go(p, "spublish")
    BY <1>9 DEF WriteBuffer
  <2> QED
    BY <1>0, <2>1, <2>2 DEF TypeOK, Pcs, Go, lockVars, sendVars, recvVars, sigVars, idVars
<1>10. CASE PublishMaxMsgNum(p)
  <2>1. maxMsgNum' \in Nat
    <3>1. maxMsgNum \in Nat /\ nthistime[p] \in 0 .. WRITE_QUANTUM
      BY <1>0 DEF TypeOK
    <3>2. maxMsgNum' = maxMsgNum + nthistime[p]
      BY <1>10 DEF PublishMaxMsgNum
    <3> QED
      BY <3>1, <3>2
  <2>2. /\ flagged' = [flagged EXCEPT ![p] = 0] /\ Go(p, "sflag")
        /\ UNCHANGED <<minMsgNum, nextThreshold, lastBackend, buffer, procState, lockVars,
                       toSend, nthistime, recvVars, sigVars, idVars, base, seen>>
    BY <1>10 DEF PublishMaxMsgNum
  <2>3. 0 \in 0 .. MaxBackends
    OBVIOUS
  <2>4. flagged' \in [Proc -> 0 .. MaxBackends]
    BY <1>0, <2>2, <2>3 DEF TypeOK
  <2>5. pc' \in [Proc -> Pcs]
    BY <1>0, <2>2 DEF TypeOK, Pcs, Go
  <2> QED
    BY <1>0, <2>1, <2>2, <2>4, <2>5 DEF TypeOK, lockVars, recvVars, sigVars, idVars
<1>11. CASE SetHasMessages(p)
  <2>1. procState' \in [Slots -> ProcStates] /\ flagged[p] + 1 \in Slots
    BY <1>11, <1>0, SetEffect
  <2>2. flagged[p] + 1 \in 0 .. MaxBackends
    BY <2>1 DEF Slots
  <2> QED
    BY <1>11, <1>0, <2>1, <2>2 DEF TypeOK, Pcs, SetHasMessages, Go, segVars, lockVars,
       sendVars, recvVars, sigVars, idVars
<1>12. CASE EndBatch(p)
  <2> DEFINE n == toSend[p]
             b == Min({n, WRITE_QUANTUM})
  <2>1. /\ nthistime' = [nthistime EXCEPT ![p] = b]
        /\ toSend' = [toSend EXCEPT ![p] = n - b]
    BY <1>12 DEF EndBatch
  <2>2. n \in Nat
    BY <1>0 DEF TypeOK
  <2>3. b \in Nat /\ b <= n /\ b <= WRITE_QUANTUM
    BY <2>2, MinPair
  <2> HIDE DEF n, b
  <2>4. b \in 0 .. WRITE_QUANTUM /\ n - b \in Nat
    BY <2>2, <2>3
  <2>5. nthistime' \in [Proc -> 0 .. WRITE_QUANTUM] /\ toSend' \in [Proc -> Nat]
    BY <1>0, <2>1, <2>4 DEF TypeOK
  <2>6. /\ writeLock' = NoProc /\ flagged' = [flagged EXCEPT ![p] = 0]
        /\ pc' \in {[pc EXCEPT ![p] = "swlock"], [pc EXCEPT ![p] = "idle"]}
        /\ UNCHANGED <<segVars, readLock, recvVars, sigVars, idVars, base, seen>>
    BY <1>12 DEF EndBatch, Go
  <2>7. pc' \in [Proc -> Pcs]
    BY <1>0, <2>6 DEF TypeOK, Pcs
  <2>8. 0 \in 0 .. MaxBackends
    OBVIOUS
  <2>9. flagged' \in [Proc -> 0 .. MaxBackends]
    BY <1>0, <2>6, <2>8 DEF TypeOK
  <2> QED
    BY <1>0, <2>5, <2>6, <2>7, <2>9 DEF TypeOK, segVars, recvVars, sigVars, idVars
<1>13. CASE AcceptInvalidationMessages(p)
  <2>1. stack[p] \in Seq(Calls) /\ Sent \in Nat
    BY <1>0, SentNat DEF TypeOK
  <2>2. Append(stack[p], [loc |-> "pending", sent |-> Sent]) \in Seq(Calls)
    BY <2>1, StackTypes
  <2>3. stack' \in [Proc -> Seq(Calls)]
    BY <1>13, <1>0, <2>2 DEF TypeOK, AcceptInvalidationMessages, EnterReceive
  <2> QED
    BY <1>13, <1>0, <2>3 DEF TypeOK, Pcs, AcceptInvalidationMessages, EnterReceive, Go,
       segVars, lockVars, sendVars, recvVars, sigVars, idVars
<1>14. CASE ProcessCatchupInterrupt(p)
  <2>1. stack[p] \in Seq(Calls) /\ Sent \in Nat
    BY <1>0, SentNat DEF TypeOK
  <2>2. Append(stack[p], [loc |-> "pending", sent |-> Sent]) \in Seq(Calls)
    BY <2>1, StackTypes
  <2>3. stack' \in [Proc -> Seq(Calls)]
    BY <1>14, <1>0, <2>2 DEF TypeOK, ProcessCatchupInterrupt, EnterReceive
  <2> QED
    BY <1>14, <1>0, <2>3 DEF TypeOK, Pcs, ProcessCatchupInterrupt, EnterReceive, Go, segVars,
       lockVars, sendVars, recvVars, sigVars, idVars
<1>15. CASE Recurse(p)
  <2>1. stack[p] \in Seq(Calls) /\ Sent \in Nat
    BY <1>0, SentNat DEF TypeOK
  <2>2. Append(stack[p], [loc |-> "pending", sent |-> Sent]) \in Seq(Calls)
    BY <2>1, StackTypes
  <2>3. stack' \in [Proc -> Seq(Calls)]
    BY <1>15, <1>0, <2>2 DEF TypeOK, Recurse, EnterReceive
  <2> QED
    BY <1>15, <1>0, <2>3 DEF TypeOK, Pcs, Recurse, EnterReceive, Go, segVars, lockVars,
       sendVars, recvVars, sigVars, idVars
<1>16. CASE CallbackReturns(p)
  BY <1>16, <1>0 DEF TypeOK, Pcs, CallbackReturns, Go, segVars, lockVars, sendVars, recvVars,
     sigVars, idVars
<1>17. CASE CallbackError(p)
  <2>1. << >> \in Seq(Calls)
    OBVIOUS
  <2> QED
    BY <1>17, <1>0, <2>1 DEF TypeOK, Pcs, CallbackError, Go, segVars, lockVars, sendVars,
       recvVars, sigVars, idVars
<1>18. CASE Invalidate(p)
  <2> DEFINE n == nextmsg[p] + 1
             x == messages[p][n] + 1
  <2>1. x \in Nat /\ n \in Nat
    <3>1. messages[p] \in Seq(Nat) /\ nextmsg[p] \in Nat
      BY <1>0 DEF TypeOK
    <3>2. nextmsg[p] < Len(messages[p])
      BY <1>18 DEF Invalidate
    <3>3. n \in 1 .. Len(messages[p])
      BY <3>1, <3>2
    <3> HIDE DEF n
    <3>4. messages[p][n] \in Nat
      BY <3>1, <3>3, ElementOfSeq
    <3> QED
      BY <3>3, <3>4
  <2>2. seen' = [seen EXCEPT ![p] = x] /\ nextmsg' = [nextmsg EXCEPT ![p] = n]
    BY <1>18 DEF Invalidate, NextMessage
  <2> HIDE DEF n, x
  <2>3. seen' \in [Proc -> Nat] /\ nextmsg' \in [Proc -> Nat]
    BY <1>0, <2>1, <2>2 DEF TypeOK
  <2> QED
    BY <1>18, <1>0, <2>3 DEF TypeOK, Pcs, Invalidate, Go, segVars, lockVars, sendVars,
       recvVars, sigVars, idVars
<1>19. CASE LoopAgain(p)
  <2>1. stack[p] \in Seq(Calls) /\ stack[p] # << >>
    BY <1>19, <1>0 DEF TypeOK, LoopAgain, PlaceInv, PlaceAt, Receiving, Reading
  <2>2. [stack[p] EXCEPT ![Len(stack[p])].loc = "batch"] \in Seq(Calls)
    BY <2>1, StackTypes
  <2>3. stack' \in [Proc -> Seq(Calls)]
    BY <1>19, <1>0, <2>2 DEF TypeOK, LoopAgain, SetLoc
  <2>4. << >> \in Seq(Nat)
    OBVIOUS
  <2> QED
    BY <1>19, <1>0, <2>3, <2>4 DEF TypeOK, Pcs, LoopAgain, Go, segVars, lockVars, sendVars,
       recvVars, sigVars, idVars
<1>20. CASE LoopEnds(p)
  BY <1>20, <1>0 DEF TypeOK, Pcs, LoopEnds, Go, segVars, lockVars, sendVars, recvVars, sigVars,
     idVars
<1>21. CASE TestHasMessages(p)
  BY <1>21, <1>0 DEF TypeOK, Pcs, TestHasMessages, Go, segVars, lockVars, sendVars, recvVars,
     sigVars, idVars
<1>22. CASE AcquireReadLock(p)
  <2>1. procState' \in [Slots -> ProcStates]
    BY <1>22, <1>0, ClearEffect
  <2> QED
    BY <1>22, <1>0, <2>1 DEF TypeOK, Pcs, AcquireReadLock, Go, segVars, lockVars, sendVars,
       recvVars, sigVars, idVars
<1>23. CASE FetchMaxMsgNum(p)
  BY <1>23, <1>0 DEF TypeOK, Pcs, FetchMaxMsgNum, Go, segVars, lockVars, sendVars, recvVars,
     sigVars, idVars
<1>24. CASE ReadReset(p)
  <2>1. stack[p] \in Seq(Calls) /\ stack[p] # << >>
    BY <1>24, <1>0 DEF TypeOK, ReadReset, PlaceInv, PlaceAt, Receiving, Reading
  <2>2. [stack[p] EXCEPT ![Len(stack[p])].loc = "reset"] \in Seq(Calls)
    BY <2>1, StackTypes
  <2>3. stack' \in [Proc -> Seq(Calls)]
    BY <1>24, <1>0, <2>2 DEF TypeOK, ReadReset, SetLoc
  <2>4. procState' \in [Slots -> ProcStates]
    BY <1>24, <1>0, ResetEffect
  <2>5. base + max[p] \in Nat
    <3>1. base \in Nat /\ max[p] \in Nat
      BY <1>0 DEF TypeOK
    <3> QED
      BY <3>1
  <2>6. /\ readLock' = readLock \ {p} /\ max' = [max EXCEPT ![p] = 0]
        /\ seen' = [seen EXCEPT ![p] = base + max[p]] /\ Go(p, "inval")
        /\ UNCHANGED <<minMsgNum, maxMsgNum, nextThreshold, lastBackend, buffer, writeLock,
                       sendVars, sigVars, idVars, base, messages, nextmsg>>
    BY <1>24 DEF ReadReset, UpdateMyState
  <2>7. seen' \in [Proc -> Nat]
    BY <1>0, <2>5, <2>6 DEF TypeOK
  <2> QED
    BY <1>0, <2>3, <2>4, <2>6, <2>7 DEF TypeOK, Pcs, Go, sendVars, sigVars, idVars
<1>25. CASE ReadOne(p)
  <2>1. procState' \in [Slots -> ProcStates]
    BY <1>25, <1>0, ReadEffect
  <2> DEFINE c == buffer[MyState(p).nextMsgNum % MAXNUMMESSAGES]
  <2>2. c \in Nat
    <3>1. MyState(p).nextMsgNum \in minMsgNum .. maxMsgNum - 1 /\ c = base + MyState(p).nextMsgNum
      BY <1>25, ReadFact
    <3>2. minMsgNum \in Nat /\ maxMsgNum \in Nat /\ base \in Nat
      BY <1>0 DEF TypeOK
    <3> HIDE DEF c
    <3> QED
      BY <3>1, <3>2
  <2>3. messages' = [messages EXCEPT ![p] = Append(messages[p], c)]
    BY <1>25 DEF ReadOne
  <2> HIDE DEF c
  <2>4. messages' \in [Proc -> Seq(Nat)]
    BY <1>0, <2>2, <2>3 DEF TypeOK
  <2>5. UNCHANGED <<minMsgNum, maxMsgNum, nextThreshold, lastBackend, buffer, writeLock,
                    sendVars,
                    sigVars, idVars, base, readLock, max, nextmsg, stack, pc, seen>>
    BY <1>25 DEF ReadOne, UpdateMyState
  <2> QED
    BY <1>0, <2>1, <2>4, <2>5 DEF TypeOK, sendVars, sigVars, idVars
<1>26. CASE ReadEnd(p)
  <2>1. procState' \in [Slots -> ProcStates]
    BY <1>26, <1>0, EndEffect
  <2> QED
    BY <1>26, <1>0, <2>1 DEF TypeOK, Pcs, ReadEnd, UpdateMyState, Go, segVars, lockVars,
       sendVars, recvVars, sigVars, idVars
<1>27. CASE PassOnCatchup(p)
  BY <1>27, <1>0 DEF TypeOK, Pcs, PassOnCatchup, Go, segVars, lockVars, sendVars, recvVars,
     sigVars, idVars
<1>28. CASE NoCatchup(p)
  <2>5. stack[p] \in Seq(Calls) /\ stack[p] # << >>
    BY <1>28, <1>0 DEF TypeOK, NoCatchup, PlaceInv, PlaceAt, Receiving, Tailing
  <2>6. SubSeq(stack[p], 1, Len(stack[p]) - 1) \in Seq(Calls)
    BY <2>5, StackTypes
  <2>7. stack' \in [Proc -> Seq(Calls)]
    BY <1>28, <1>0, <2>6 DEF TypeOK, NoCatchup, ReturnFromReceive
  <2> QED
    BY <1>28, <1>0, <2>7 DEF TypeOK, Pcs, NoCatchup, ReturnFromReceive, Go, segVars, lockVars,
       sendVars, recvVars, sigVars, idVars
<1>29. CASE LockForCleanup(p)
  BY <1>29, <1>0 DEF TypeOK, Pcs, LockForCleanup, AcquireWriteLock, Go, segVars, lockVars,
     sendVars, recvVars, sigVars, idVars
<1>30. CASE CleanupAfterCatchup(p)
  <2>1. PICK sig \in Slots \cup {InvalidBackendId} :
          /\ CleanQueue(0, sig)
          /\ needSig' \in {needSig, [needSig EXCEPT ![p] = Target(sig)]}
          /\ sig = InvalidBackendId => needSig' = needSig
    BY <1>30 DEF CleanupAfterCatchup
  <2>2. 0 \in 0 .. WRITE_QUANTUM
    BY <1>0 DEF TypeOK
  <2>3. /\ minMsgNum' \in Nat /\ maxMsgNum' \in Nat /\ base' \in Nat
        /\ nextThreshold' \in Nat /\ procState' \in [Slots -> ProcStates]
    <3>1. PICK m \in minMsgNum .. maxMsgNum, w \in Nat :
             /\ w <= m
             /\ minMsgNum' = m - w /\ maxMsgNum' = maxMsgNum - w /\ base' = base + w
             /\ nextThreshold' \in Nat /\ procState' \in [Slots -> ProcStates]
      BY <1>0, <2>1, <2>2, CleanEffect
    <3>2. minMsgNum \in Nat /\ maxMsgNum \in Nat /\ base \in Nat
      BY <1>0 DEF TypeOK
    <3> QED
      BY <3>1, <3>2
  <2>4. needSig' \in [Proc -> Targets]
    <3>1. sig \in Slots => Target(sig) \in Targets
      BY <1>0 DEF Target, Targets, TypeOK, ProcStates
    <3> QED
      BY <1>0, <2>1, <3>1 DEF TypeOK
  <2>5. stack[p] \in Seq(Calls) /\ stack[p] # << >>
    BY <1>30, <1>0 DEF TypeOK, CleanupAfterCatchup, PlaceInv, PlaceAt, Receiving, Tailing
  <2>6. SubSeq(stack[p], 1, Len(stack[p]) - 1) \in Seq(Calls)
    BY <2>5, StackTypes
  <2>7. stack' \in [Proc -> Seq(Calls)]
    <3>1. stack \in [Proc -> Seq(Calls)]
      BY <1>0 DEF TypeOK
    <3>2. \/ stack' = stack
          \/ stack' = [stack EXCEPT ![p] = SubSeq(stack[p], 1, Len(stack[p]) - 1)]
      BY <1>30 DEF CleanupAfterCatchup, ReturnFromReceive
    <3> QED
      BY <2>6, <3>1, <3>2
  <2>8. pc' \in [Proc -> Pcs]
    <3>1. \E l \in {"idle", "inval", "rsignal"} : pc' = [pc EXCEPT ![p] = l]
      BY <1>30 DEF CleanupAfterCatchup, ReturnFromReceive, Go
    <3> QED
      BY <1>0, <3>1 DEF TypeOK, Pcs
  <2> QED
    BY <1>30, <1>0, <2>3, <2>4, <2>7, <2>8 DEF TypeOK, Pcs, CleanupAfterCatchup, segVars,
       lockVars, sendVars, recvVars, sigVars, idVars
<1>31. CASE SignalAfterCatchup(p)
  <2> DEFINE i == needSig[p].pid
             b == signalFlag[i] \/ MyBackendId[i] = needSig[p].slot
  <2>1. signalFlag' = [signalFlag EXCEPT ![i] = b]
    BY <1>31 DEF SignalAfterCatchup, SendProcSignal
  <2>2. b \in BOOLEAN
    OBVIOUS
  <2> HIDE DEF b, i
  <2>3. signalFlag' \in [Proc -> BOOLEAN]
    BY <1>0, <2>1, <2>2 DEF TypeOK
  <2>4. NoSig \in Targets
    BY DEF NoSig, Targets
  <2>5. stack[p] \in Seq(Calls) /\ stack[p] # << >>
    BY <1>31, <1>0 DEF TypeOK, SignalAfterCatchup, PlaceInv, PlaceAt, Receiving, Tailing
  <2>6. SubSeq(stack[p], 1, Len(stack[p]) - 1) \in Seq(Calls)
    BY <2>5, StackTypes
  <2>7. stack' \in [Proc -> Seq(Calls)]
    BY <1>31, <1>0, <2>6 DEF TypeOK, SignalAfterCatchup, ReturnFromReceive
  <2> QED
    BY <1>31, <1>0, <2>3, <2>4, <2>7 DEF TypeOK, Pcs, SignalAfterCatchup, SendProcSignal,
       ReturnFromReceive, Go, segVars, lockVars, sendVars, recvVars, sigVars, idVars
<1>32. CASE HandleCatchupInterrupt(p)
  BY <1>32, <1>0 DEF TypeOK, Pcs, HandleCatchupInterrupt, Go, segVars, lockVars, sendVars,
     recvVars, sigVars, idVars
<1> QED
  BY <1>1, <1>2, <1>3, <1>4, <1>5, <1>6, <1>7, <1>8, <1>9, <1>10, <1>11, <1>12, <1>13, <1>14,
     <1>15, <1>16, <1>17, <1>18, <1>19, <1>20, <1>21, <1>22, <1>23, <1>24, <1>25, <1>26, <1>27,
     <1>28, <1>29, <1>30, <1>31, <1>32 DEF ActionOf

(* A step of a process leaves the private variables of the others alone.   *)
LEMMA PrivateFrame ==
  ASSUME TypeOK, NEW p \in Proc, ActionOf(p), NEW q \in Proc, q # p
  PROVE  /\ pc'[q] = pc[q] /\ MyBackendId'[q] = MyBackendId[q]
         /\ nextLocalTransactionId'[q] = nextLocalTransactionId[q]
         /\ nthistime'[q] = nthistime[q] /\ flagged'[q] = flagged[q]
         /\ max'[q] = max[q] /\ messages'[q] = messages[q] /\ nextmsg'[q] = nextmsg[q]
         /\ stack'[q] = stack[q] /\ seen'[q] = seen[q]
<1>1. CASE SharedInvalBackendInit(p)
  BY <1>1 DEF TypeOK, SharedInvalBackendInit, Go, segVars, lockVars, sendVars, recvVars,
     sigVars, idVars
<1>2. CASE CleanupInvalidationState(p)
  BY <1>2 DEF TypeOK, CleanupInvalidationState, Go, segVars, lockVars, sendVars, recvVars,
     sigVars, idVars
<1>3. CASE GetNextLocalTransactionId(p)
  BY <1>3 DEF TypeOK, GetNextLocalTransactionId, Go, segVars, lockVars, sendVars, recvVars,
     sigVars, idVars
<1>4. CASE SendSharedInvalidMessages(p)
  BY <1>4 DEF TypeOK, SendSharedInvalidMessages, Go, segVars, lockVars, sendVars, recvVars,
     sigVars, idVars
<1>5. CASE LockForInsert(p)
  BY <1>5 DEF TypeOK, LockForInsert, AcquireWriteLock, Go, segVars, lockVars, sendVars,
     recvVars, sigVars, idVars
<1>6. CASE CleanupForInsert(p)
  BY <1>6 DEF TypeOK, CleanupForInsert, ReturnFromReceive, Go, sendVars, recvVars, idVars
<1>7. CASE SignalForInsert(p)
  BY <1>7 DEF TypeOK, SignalForInsert, SendProcSignal, Go, segVars, lockVars, sendVars,
     recvVars, sigVars, idVars
<1>8. CASE RelockForInsert(p)
  BY <1>8 DEF TypeOK, RelockForInsert, AcquireWriteLock, Go, segVars, lockVars, sendVars,
     recvVars, sigVars, idVars
<1>9. CASE WriteBuffer(p)
  BY <1>9 DEF TypeOK, WriteBuffer, Go, segVars, lockVars, sendVars, recvVars, sigVars, idVars
<1>10. CASE PublishMaxMsgNum(p)
  BY <1>10 DEF TypeOK, PublishMaxMsgNum, Go, segVars, lockVars, sendVars, recvVars, sigVars,
     idVars
<1>11. CASE SetHasMessages(p)
  BY <1>11 DEF TypeOK, SetHasMessages, Go, segVars, lockVars, sendVars, recvVars, sigVars,
     idVars
<1>12. CASE EndBatch(p)
  BY <1>12 DEF TypeOK, EndBatch, Go, segVars, lockVars, sendVars, recvVars, sigVars, idVars
<1>13. CASE AcceptInvalidationMessages(p)
  BY <1>13 DEF TypeOK, AcceptInvalidationMessages, EnterReceive, Go, segVars, lockVars,
     sendVars, recvVars, sigVars, idVars
<1>14. CASE ProcessCatchupInterrupt(p)
  BY <1>14 DEF TypeOK, ProcessCatchupInterrupt, EnterReceive, Go, segVars, lockVars, sendVars,
     recvVars, sigVars, idVars
<1>15. CASE Recurse(p)
  BY <1>15 DEF TypeOK, Recurse, EnterReceive, Go, segVars, lockVars, sendVars, recvVars,
     sigVars, idVars
<1>16. CASE CallbackReturns(p)
  BY <1>16 DEF TypeOK, CallbackReturns, Go, segVars, lockVars, sendVars, recvVars, sigVars,
     idVars
<1>17. CASE CallbackError(p)
  BY <1>17 DEF TypeOK, CallbackError, Go, segVars, lockVars, sendVars, recvVars, sigVars, idVars
<1>18. CASE Invalidate(p)
  BY <1>18 DEF TypeOK, Invalidate, NextMessage, Go, segVars, lockVars, sendVars, recvVars,
     sigVars, idVars
<1>19. CASE LoopAgain(p)
  BY <1>19 DEF TypeOK, LoopAgain, SetLoc, Go, segVars, lockVars, sendVars, recvVars, sigVars,
     idVars
<1>20. CASE LoopEnds(p)
  BY <1>20 DEF TypeOK, LoopEnds, Go, segVars, lockVars, sendVars, recvVars, sigVars, idVars
<1>21. CASE TestHasMessages(p)
  BY <1>21 DEF TypeOK, TestHasMessages, Go, segVars, lockVars, sendVars, recvVars, sigVars,
     idVars
<1>22. CASE AcquireReadLock(p)
  BY <1>22 DEF TypeOK, AcquireReadLock, Go, segVars, lockVars, sendVars, recvVars, sigVars,
     idVars
<1>23. CASE FetchMaxMsgNum(p)
  BY <1>23 DEF TypeOK, FetchMaxMsgNum, Go, segVars, lockVars, sendVars, recvVars, sigVars,
     idVars
<1>24. CASE ReadReset(p)
  BY <1>24 DEF TypeOK, ReadReset, UpdateMyState, SetLoc, Go, segVars, lockVars, sendVars,
     recvVars, sigVars, idVars
<1>25. CASE ReadOne(p)
  BY <1>25 DEF TypeOK, ReadOne, UpdateMyState, Go, segVars, lockVars, sendVars, recvVars,
     sigVars, idVars
<1>26. CASE ReadEnd(p)
  BY <1>26 DEF TypeOK, ReadEnd, UpdateMyState, Go, segVars, lockVars, sendVars, recvVars,
     sigVars, idVars
<1>27. CASE PassOnCatchup(p)
  BY <1>27 DEF TypeOK, PassOnCatchup, Go, segVars, lockVars, sendVars, recvVars, sigVars, idVars
<1>28. CASE NoCatchup(p)
  BY <1>28 DEF TypeOK, NoCatchup, ReturnFromReceive, Go, segVars, lockVars, sendVars, recvVars,
     sigVars, idVars
<1>29. CASE LockForCleanup(p)
  BY <1>29 DEF TypeOK, LockForCleanup, AcquireWriteLock, Go, segVars, lockVars, sendVars,
     recvVars, sigVars, idVars
<1>30. CASE CleanupAfterCatchup(p)
  BY <1>30 DEF TypeOK, CleanupAfterCatchup, ReturnFromReceive, Go, sendVars, recvVars, idVars
<1>31. CASE SignalAfterCatchup(p)
  BY <1>31 DEF TypeOK, SignalAfterCatchup, SendProcSignal, ReturnFromReceive, Go, segVars,
     lockVars, sendVars, recvVars, sigVars, idVars
<1>32. CASE HandleCatchupInterrupt(p)
  BY <1>32 DEF TypeOK, HandleCatchupInterrupt, Go, segVars, lockVars, sendVars, recvVars,
     sigVars, idVars
<1> QED
  BY <1>1, <1>2, <1>3, <1>4, <1>5, <1>6, <1>7, <1>8, <1>9, <1>10, <1>11, <1>12, <1>13, <1>14,
     <1>15, <1>16, <1>17, <1>18, <1>19, <1>20, <1>21, <1>22, <1>23, <1>24, <1>25, <1>26, <1>27,
     <1>28, <1>29, <1>30, <1>31, <1>32 DEF ActionOf

(* Only attaching and leaving change who owns an entry.                    *)
LEMMA OwnerFrame ==
  ASSUME IInv, NEW p \in Proc, ActionOf(p),
         ~SharedInvalBackendInit(p), ~CleanupInvalidationState(p)
  PROVE  /\ \A t \in Slots : SameOwner(t)
         /\ MyBackendId' = MyBackendId /\ lastBackend' = lastBackend
         /\ \/ pc[p] \notin {"start", "exit"} /\ pc'[p] \notin {"start", "exit"}
            \/ pc'[p] = pc[p]
<1>0. TypeOK /\ OwnInv /\ CountersOrdered /\ pc \in [Proc -> Pcs]
  BY DEF IInv, CountInv, TypeOK
<1>1. CASE SharedInvalBackendInit(p)
  BY <1>1
<1>2. CASE CleanupInvalidationState(p)
  BY <1>2
<1>3. CASE GetNextLocalTransactionId(p)
  BY <1>3, <1>0 DEF SameOwner, GetNextLocalTransactionId, Go, segVars, lockVars, sendVars,
     recvVars, sigVars, idVars
<1>4. CASE SendSharedInvalidMessages(p)
  BY <1>4, <1>0 DEF SameOwner, SendSharedInvalidMessages, Go, segVars, lockVars, sendVars,
     recvVars, sigVars, idVars
<1>5. CASE LockForInsert(p)
  BY <1>5, <1>0 DEF SameOwner, LockForInsert, AcquireWriteLock, Go, segVars, lockVars,
     sendVars, recvVars, sigVars, idVars
<1>6. CASE CleanupForInsert(p)
  <2>1. PICK sig \in Slots \cup {InvalidBackendId} : CleanQueue(nthistime[p], sig)
    BY <1>6 DEF CleanupForInsert
  <2>2. nthistime[p] \in 0 .. WRITE_QUANTUM
    BY <1>0, ConstantsAssumption DEF TypeOK
  <2>3. \A t \in Slots : SameOwner(t)
    BY <1>0, <2>1, <2>2, CleanEffect
  <2>4. MyBackendId' = MyBackendId /\ lastBackend' = lastBackend
    BY <1>6 DEF CleanupForInsert, idVars
  <2>5. pc[p] \notin {"start", "exit"}
    BY <1>6 DEF CleanupForInsert
  <2>6. pc'[p] \notin {"start", "exit"}
    BY <1>6, <1>0 DEF CleanupForInsert, ReturnFromReceive, Go
  <2> QED
    BY <2>3, <2>4, <2>5, <2>6
<1>7. CASE SignalForInsert(p)
  BY <1>7, <1>0 DEF SameOwner, SignalForInsert, SendProcSignal, Go, segVars, lockVars,
     sendVars, recvVars, sigVars, idVars
<1>8. CASE RelockForInsert(p)
  BY <1>8, <1>0 DEF SameOwner, RelockForInsert, AcquireWriteLock, Go, segVars, lockVars,
     sendVars, recvVars, sigVars, idVars
<1>9. CASE WriteBuffer(p)
  BY <1>9, <1>0 DEF SameOwner, WriteBuffer, Go, segVars, lockVars, sendVars, recvVars, sigVars,
     idVars
<1>10. CASE PublishMaxMsgNum(p)
  BY <1>10, <1>0 DEF SameOwner, PublishMaxMsgNum, Go, segVars, lockVars, sendVars, recvVars,
     sigVars, idVars
<1>11. CASE SetHasMessages(p)
  <2>1. \A t \in Slots : SameOwner(t)
    BY <1>11, <1>0, SetEffect
  <2> QED
    BY <1>11, <1>0, <2>1 DEF SetHasMessages, Go, segVars, lockVars, sendVars, recvVars,
       sigVars, idVars
<1>12. CASE EndBatch(p)
  BY <1>12, <1>0 DEF SameOwner, EndBatch, Go, segVars, lockVars, sendVars, recvVars, sigVars,
     idVars
<1>13. CASE AcceptInvalidationMessages(p)
  BY <1>13, <1>0 DEF SameOwner, AcceptInvalidationMessages, EnterReceive, Go, segVars,
     lockVars, sendVars, recvVars, sigVars, idVars
<1>14. CASE ProcessCatchupInterrupt(p)
  BY <1>14, <1>0 DEF SameOwner, ProcessCatchupInterrupt, EnterReceive, Go, segVars, lockVars,
     sendVars, recvVars, sigVars, idVars
<1>15. CASE Recurse(p)
  BY <1>15, <1>0 DEF SameOwner, Recurse, EnterReceive, Go, segVars, lockVars, sendVars,
     recvVars, sigVars, idVars
<1>16. CASE CallbackReturns(p)
  BY <1>16, <1>0 DEF SameOwner, CallbackReturns, Go, segVars, lockVars, sendVars, recvVars,
     sigVars, idVars
<1>17. CASE CallbackError(p)
  BY <1>17, <1>0 DEF SameOwner, CallbackError, Go, segVars, lockVars, sendVars, recvVars,
     sigVars, idVars
<1>18. CASE Invalidate(p)
  BY <1>18, <1>0 DEF SameOwner, Invalidate, NextMessage, Go, segVars, lockVars, sendVars,
     recvVars, sigVars, idVars
<1>19. CASE LoopAgain(p)
  BY <1>19, <1>0 DEF SameOwner, LoopAgain, SetLoc, Go, segVars, lockVars, sendVars, recvVars,
     sigVars, idVars
<1>20. CASE LoopEnds(p)
  BY <1>20, <1>0 DEF SameOwner, LoopEnds, Go, segVars, lockVars, sendVars, recvVars, sigVars,
     idVars
<1>21. CASE TestHasMessages(p)
  BY <1>21, <1>0 DEF SameOwner, TestHasMessages, Go, segVars, lockVars, sendVars, recvVars,
     sigVars, idVars
<1>22. CASE AcquireReadLock(p)
  <2>1. \A t \in Slots : SameOwner(t)
    BY <1>22, <1>0, ClearEffect
  <2> QED
    BY <1>22, <1>0, <2>1 DEF AcquireReadLock, Go, segVars, lockVars, sendVars, recvVars,
       sigVars, idVars
<1>23. CASE FetchMaxMsgNum(p)
  BY <1>23, <1>0 DEF SameOwner, FetchMaxMsgNum, Go, segVars, lockVars, sendVars, recvVars,
     sigVars, idVars
<1>24. CASE ReadReset(p)
  <2>1. \A t \in Slots : SameOwner(t)
    BY <1>24, <1>0, ResetEffect
  <2> QED
    BY <1>24, <1>0, <2>1 DEF ReadReset, UpdateMyState, SetLoc, Go, segVars, lockVars, sendVars,
       recvVars, sigVars, idVars
<1>25. CASE ReadOne(p)
  <2>1. \A t \in Slots : SameOwner(t)
    BY <1>25, <1>0, ReadEffect
  <2> QED
    BY <1>25, <1>0, <2>1 DEF ReadOne, UpdateMyState, Go, segVars, lockVars, sendVars, recvVars,
       sigVars, idVars
<1>26. CASE ReadEnd(p)
  <2>1. \A t \in Slots : SameOwner(t)
    BY <1>26, <1>0, EndEffect
  <2> QED
    BY <1>26, <1>0, <2>1 DEF ReadEnd, UpdateMyState, Go, segVars, lockVars, sendVars, recvVars,
       sigVars, idVars
<1>27. CASE PassOnCatchup(p)
  BY <1>27, <1>0 DEF SameOwner, PassOnCatchup, Go, segVars, lockVars, sendVars, recvVars,
     sigVars, idVars
<1>28. CASE NoCatchup(p)
  BY <1>28, <1>0 DEF SameOwner, NoCatchup, ReturnFromReceive, Go, segVars, lockVars, sendVars,
     recvVars, sigVars, idVars
<1>29. CASE LockForCleanup(p)
  BY <1>29, <1>0 DEF SameOwner, LockForCleanup, AcquireWriteLock, Go, segVars, lockVars,
     sendVars, recvVars, sigVars, idVars
<1>30. CASE CleanupAfterCatchup(p)
  <2>1. PICK sig \in Slots \cup {InvalidBackendId} : CleanQueue(0, sig)
    BY <1>30 DEF CleanupAfterCatchup
  <2>2. 0 \in 0 .. WRITE_QUANTUM
    BY <1>0, ConstantsAssumption DEF TypeOK
  <2>3. \A t \in Slots : SameOwner(t)
    BY <1>0, <2>1, <2>2, CleanEffect
  <2>4. MyBackendId' = MyBackendId /\ lastBackend' = lastBackend
    BY <1>30 DEF CleanupAfterCatchup, idVars
  <2>5. pc[p] \notin {"start", "exit"}
    BY <1>30 DEF CleanupAfterCatchup
  <2>6. pc'[p] \notin {"start", "exit"}
    BY <1>30, <1>0 DEF CleanupAfterCatchup, ReturnFromReceive, Go
  <2> QED
    BY <2>3, <2>4, <2>5, <2>6
<1>31. CASE SignalAfterCatchup(p)
  BY <1>31, <1>0 DEF SameOwner, SignalAfterCatchup, SendProcSignal, ReturnFromReceive, Go,
     segVars, lockVars, sendVars, recvVars, sigVars, idVars
<1>32. CASE HandleCatchupInterrupt(p)
  BY <1>32, <1>0 DEF SameOwner, HandleCatchupInterrupt, Go, segVars, lockVars, sendVars,
     recvVars, sigVars, idVars
<1> QED
  BY <1>1, <1>2, <1>3, <1>4, <1>5, <1>6, <1>7, <1>8, <1>9, <1>10, <1>11, <1>12, <1>13, <1>14,
     <1>15, <1>16, <1>17, <1>18, <1>19, <1>20, <1>21, <1>22, <1>23, <1>24, <1>25, <1>26, <1>27,
     <1>28, <1>29, <1>30, <1>31, <1>32 DEF ActionOf

(* Every step keeps entries and their owners consistent.                   *)
LEMMA OwnStep ==
  ASSUME IInv, NEW p \in Proc, ActionOf(p)
  PROVE  OwnInv'
<1>0. TypeOK /\ OwnInv
  BY DEF IInv
<1>1. \A q \in Proc : q # p => pc'[q] = pc[q] /\ MyBackendId'[q] = MyBackendId[q]
  BY <1>0, PrivateFrame
<1>2. \A q \in Proc : q # NoProc
  BY ConstantsAssumption
<1>3. \A t \in Slots : procState[t].procPid \in Proc \cup {NoProc}
  BY <1>0 DEF TypeOK, ProcStates
<1>4. InvalidBackendId \notin Slots
  BY ConstantsAssumption DEF Slots, InvalidBackendId
<1>5. CASE SharedInvalBackendInit(p)
  <2>1. PICK u \in Slots :
           /\ procState[u].procPid = NoProc
           /\ lastBackend' \in 0 .. MaxBackends /\ lastBackend' >= lastBackend /\ u <= lastBackend'
           /\ MyBackendId' = [MyBackendId EXCEPT ![p] = u]
           /\ \A t \in Slots : t # u => SameOwner(t)
           /\ procState'[u].procPid = p
           /\ procState'[u].sendOnly <=> p \in SendOnly
    BY <1>0, <1>5, JoinEffect
  <2>2. pc[p] = "start" /\ pc'[p] = "idle"
    BY <1>0, <1>5 DEF SharedInvalBackendInit, Go, TypeOK
  <2>3. MyBackendId'[p] = u /\ MyBackendId[p] = InvalidBackendId
    BY <1>0, <2>1, <2>2 DEF TypeOK, OwnInv, Attached
  <2>4. ASSUME NEW t \in Slots, procState'[t].procPid # NoProc
        PROVE  /\ t <= lastBackend'
               /\ MyBackendId'[procState'[t].procPid] = t
               /\ procState'[t].sendOnly <=> procState'[t].procPid \in SendOnly
    <3>1. CASE t = u
      BY <2>1, <2>3, <3>1
    <3>2. CASE t # u
      <4>1. procState'[t].procPid = procState[t].procPid
            /\ procState'[t].sendOnly = procState[t].sendOnly
        BY <2>1, <3>2 DEF SameOwner
      <4>2. /\ t <= lastBackend /\ MyBackendId[procState[t].procPid] = t
            /\ procState[t].sendOnly <=> procState[t].procPid \in SendOnly
        BY <1>0, <2>4, <4>1 DEF OwnInv
      <4>3. procState[t].procPid \in Proc /\ procState[t].procPid # p
        BY <1>3, <1>4, <2>3, <2>4, <4>1, <4>2
      <4>4. MyBackendId'[procState'[t].procPid] = t
        BY <1>1, <4>1, <4>2, <4>3
      <4>5. t <= lastBackend'
        <5>1. t \in Int /\ lastBackend \in Int /\ lastBackend' \in Int
          BY <1>0, <2>1, ConstantsAssumption DEF TypeOK, Slots
        <5> QED
          BY <2>1, <4>2, <5>1
      <4>6. procState'[t].sendOnly <=> procState'[t].procPid \in SendOnly
        BY <4>1, <4>2
      <4> QED
        BY <4>4, <4>5, <4>6
    <3> QED
      BY <3>1, <3>2
  <2>5. ASSUME NEW q \in Proc, MyBackendId'[q] # InvalidBackendId
        PROVE  procState'[MyBackendId'[q]].procPid = q
    <3>1. CASE q = p
      BY <2>1, <2>3, <3>1
    <3>2. CASE q # p
      <4>1. MyBackendId'[q] = MyBackendId[q] /\ procState[MyBackendId[q]].procPid = q
        BY <1>0, <1>1, <2>5, <3>2 DEF OwnInv, Attached, MyState
      <4>2. MyBackendId[q] # u /\ MyBackendId[q] \in Slots
        BY <1>0, <1>2, <2>1, <2>5, <4>1 DEF TypeOK
      <4> QED
        BY <2>1, <4>1, <4>2 DEF SameOwner
    <3> QED
      BY <3>1, <3>2
  <2>6. \A q \in Proc : MyBackendId'[q] # InvalidBackendId <=> pc'[q] \notin {"start", "exit"}
    BY <1>0, <1>1, <1>4, <2>2, <2>3 DEF OwnInv, Attached
  <2> QED
    BY <2>4, <2>5, <2>6 DEF OwnInv, Attached, MyState
<1>6. CASE CleanupInvalidationState(p)
  <2> DEFINE u == MyBackendId[p]
  <2>1. /\ u \in Slots
        /\ \A t \in Slots : t # u /\ procState[t].procPid # NoProc => t <= lastBackend'
        /\ \A t \in Slots : t # u => SameOwner(t)
        /\ procState'[u].procPid = NoProc
    BY <1>0, <1>6, ExitEffect
  <2>2. pc[p] \notin {"start", "exit"} /\ pc'[p] = "exit" /\ MyBackendId'[p] = InvalidBackendId
    BY <1>0, <1>6 DEF CleanupInvalidationState, Go, TypeOK
  <2>3. procState[u].procPid = p
    BY <1>0, <2>2, OwnSlot DEF MyState
  <2> HIDE DEF u
  <2>4. ASSUME NEW t \in Slots, procState'[t].procPid # NoProc
        PROVE  /\ t <= lastBackend'
               /\ MyBackendId'[procState'[t].procPid] = t
               /\ procState'[t].sendOnly <=> procState'[t].procPid \in SendOnly
    <3>1. t # u
      BY <2>1, <2>4
    <3>2. procState'[t].procPid = procState[t].procPid
          /\ procState'[t].sendOnly = procState[t].sendOnly
      BY <2>1, <3>1 DEF SameOwner
    <3>3. /\ MyBackendId[procState[t].procPid] = t
          /\ procState[t].sendOnly <=> procState[t].procPid \in SendOnly
      BY <1>0, <2>4, <3>2 DEF OwnInv
    <3>4. procState[t].procPid \in Proc /\ procState[t].procPid # p
      BY <1>3, <2>4, <3>1, <3>2, <3>3 DEF u
    <3>5. MyBackendId'[procState'[t].procPid] = t
      BY <1>1, <3>2, <3>3, <3>4
    <3>6. t <= lastBackend'
      BY <2>1, <2>4, <3>1, <3>2
    <3>7. procState'[t].sendOnly <=> procState'[t].procPid \in SendOnly
      BY <3>2, <3>3
    <3> QED
      BY <3>5, <3>6, <3>7
  <2>5. ASSUME NEW q \in Proc, MyBackendId'[q] # InvalidBackendId
        PROVE  procState'[MyBackendId'[q]].procPid = q
    <3>1. q # p
      BY <2>2, <2>5
    <3>2. MyBackendId'[q] = MyBackendId[q] /\ procState[MyBackendId[q]].procPid = q
      BY <1>0, <1>1, <2>5, <3>1 DEF OwnInv, Attached, MyState
    <3>3. MyBackendId[q] # u /\ MyBackendId[q] \in Slots
      BY <1>0, <2>3, <2>5, <3>1, <3>2 DEF TypeOK
    <3> QED
      BY <2>1, <3>2, <3>3 DEF SameOwner
  <2>6. \A q \in Proc : MyBackendId'[q] # InvalidBackendId <=> pc'[q] \notin {"start", "exit"}
    BY <1>0, <1>1, <2>2 DEF OwnInv, Attached
  <2> QED
    BY <2>4, <2>5, <2>6 DEF OwnInv, Attached, MyState
<1>7. CASE ~SharedInvalBackendInit(p) /\ ~CleanupInvalidationState(p)
  <2>1. /\ \A t \in Slots : SameOwner(t)
        /\ MyBackendId' = MyBackendId /\ lastBackend' = lastBackend
    BY <1>7, OwnerFrame
  <2>2. \/ pc[p] \notin {"start", "exit"} /\ pc'[p] \notin {"start", "exit"}
        \/ pc'[p] = pc[p]
    BY <1>7, OwnerFrame
  <2>3. \A t \in Slots : procState'[t].procPid = procState[t].procPid
                         /\ procState'[t].sendOnly = procState[t].sendOnly
    BY <2>1 DEF SameOwner
  <2>4. ASSUME NEW t \in Slots, procState'[t].procPid # NoProc
        PROVE  /\ t <= lastBackend'
               /\ MyBackendId'[procState'[t].procPid] = t
               /\ procState'[t].sendOnly <=> procState'[t].procPid \in SendOnly
    BY <1>0, <2>1, <2>3, <2>4 DEF OwnInv
  <2>5. ASSUME NEW q \in Proc, MyBackendId'[q] # InvalidBackendId
        PROVE  procState'[MyBackendId'[q]].procPid = q
    <3>1. MyBackendId[q] \in Slots
      BY <1>0, <2>1, <2>5 DEF TypeOK
    <3> QED
      BY <1>0, <2>1, <2>3, <2>5, <3>1 DEF OwnInv, Attached, MyState
  <2>6. \A q \in Proc : MyBackendId'[q] # InvalidBackendId <=> pc'[q] \notin {"start", "exit"}
    BY <1>0, <1>1, <2>1, <2>2 DEF OwnInv, Attached
  <2> QED
    BY <2>4, <2>5, <2>6 DEF OwnInv, Attached, MyState
<1> QED
  BY <1>5, <1>6, <1>7

(* Every step keeps the locks in the hands the labels tell.                *)
LEMMA LockStep ==
  ASSUME IInv, NEW p \in Proc, ActionOf(p)
  PROVE  LockInv'
<1>0. LockInv /\ pc \in [Proc -> Pcs] /\ readLock \subseteq Proc /\ NoProc \notin Proc
  BY ConstantsAssumption DEF IInv, TypeOK
<1>1. CASE SharedInvalBackendInit(p)
  BY <1>1, <1>0 DEF LockInv, SharedInvalBackendInit, Go, segVars, lockVars, sendVars, recvVars,
     sigVars, idVars
<1>2. CASE CleanupInvalidationState(p)
  BY <1>2, <1>0 DEF LockInv, CleanupInvalidationState, Go, segVars, lockVars, sendVars,
     recvVars, sigVars, idVars
<1>3. CASE GetNextLocalTransactionId(p)
  BY <1>3, <1>0 DEF LockInv, GetNextLocalTransactionId, Go, segVars, lockVars, sendVars,
     recvVars, sigVars, idVars
<1>4. CASE SendSharedInvalidMessages(p)
  BY <1>4, <1>0 DEF LockInv, SendSharedInvalidMessages, Go, segVars, lockVars, sendVars,
     recvVars, sigVars, idVars
<1>5. CASE LockForInsert(p)
  BY <1>5, <1>0 DEF LockInv, LockForInsert, AcquireWriteLock, Go, segVars, lockVars, sendVars,
     recvVars, sigVars, idVars
<1>6. CASE CleanupForInsert(p)
  BY <1>6, <1>0 DEF LockInv, CleanupForInsert, Go
<1>7. CASE SignalForInsert(p)
  BY <1>7, <1>0 DEF LockInv, SignalForInsert, SendProcSignal, Go, segVars, lockVars, sendVars,
     recvVars, sigVars, idVars
<1>8. CASE RelockForInsert(p)
  BY <1>8, <1>0 DEF LockInv, RelockForInsert, AcquireWriteLock, Go, segVars, lockVars,
     sendVars, recvVars, sigVars, idVars
<1>9. CASE WriteBuffer(p)
  BY <1>9, <1>0 DEF LockInv, WriteBuffer, Go, segVars, lockVars, sendVars, recvVars, sigVars,
     idVars
<1>10. CASE PublishMaxMsgNum(p)
  BY <1>10, <1>0 DEF LockInv, PublishMaxMsgNum, Go, segVars, lockVars, sendVars, recvVars,
     sigVars, idVars
<1>11. CASE SetHasMessages(p)
  BY <1>11, <1>0 DEF LockInv, SetHasMessages, Go, segVars, lockVars, sendVars, recvVars,
     sigVars, idVars
<1>12. CASE EndBatch(p)
  BY <1>12, <1>0 DEF LockInv, EndBatch, Go, segVars, lockVars, sendVars, recvVars, sigVars,
     idVars
<1>13. CASE AcceptInvalidationMessages(p)
  BY <1>13, <1>0 DEF LockInv, AcceptInvalidationMessages, EnterReceive, Go, segVars, lockVars,
     sendVars, recvVars, sigVars, idVars
<1>14. CASE ProcessCatchupInterrupt(p)
  BY <1>14, <1>0 DEF LockInv, ProcessCatchupInterrupt, EnterReceive, Go, segVars, lockVars,
     sendVars, recvVars, sigVars, idVars
<1>15. CASE Recurse(p)
  BY <1>15, <1>0 DEF LockInv, Recurse, EnterReceive, Go, segVars, lockVars, sendVars, recvVars,
     sigVars, idVars
<1>16. CASE CallbackReturns(p)
  BY <1>16, <1>0 DEF LockInv, CallbackReturns, Go, segVars, lockVars, sendVars, recvVars,
     sigVars, idVars
<1>17. CASE CallbackError(p)
  BY <1>17, <1>0 DEF LockInv, CallbackError, Go, segVars, lockVars, sendVars, recvVars,
     sigVars, idVars
<1>18. CASE Invalidate(p)
  BY <1>18, <1>0 DEF LockInv, Invalidate, NextMessage, Go, segVars, lockVars, sendVars,
     recvVars, sigVars, idVars
<1>19. CASE LoopAgain(p)
  BY <1>19, <1>0 DEF LockInv, LoopAgain, SetLoc, Go, segVars, lockVars, sendVars, recvVars,
     sigVars, idVars
<1>20. CASE LoopEnds(p)
  BY <1>20, <1>0 DEF LockInv, LoopEnds, Go, segVars, lockVars, sendVars, recvVars, sigVars,
     idVars
<1>21. CASE TestHasMessages(p)
  BY <1>21, <1>0 DEF LockInv, TestHasMessages, Go, segVars, lockVars, sendVars, recvVars,
     sigVars, idVars
<1>22. CASE AcquireReadLock(p)
  BY <1>22, <1>0 DEF LockInv, AcquireReadLock, Go, segVars, lockVars, sendVars, recvVars,
     sigVars, idVars
<1>23. CASE FetchMaxMsgNum(p)
  BY <1>23, <1>0 DEF LockInv, FetchMaxMsgNum, Go, segVars, lockVars, sendVars, recvVars,
     sigVars, idVars
<1>24. CASE ReadReset(p)
  BY <1>24, <1>0 DEF LockInv, ReadReset, UpdateMyState, SetLoc, Go, segVars, lockVars,
     sendVars, recvVars, sigVars, idVars
<1>25. CASE ReadOne(p)
  BY <1>25, <1>0 DEF LockInv, ReadOne, UpdateMyState, Go, segVars, lockVars, sendVars,
     recvVars, sigVars, idVars
<1>26. CASE ReadEnd(p)
  BY <1>26, <1>0 DEF LockInv, ReadEnd, UpdateMyState, Go, segVars, lockVars, sendVars,
     recvVars, sigVars, idVars
<1>27. CASE PassOnCatchup(p)
  BY <1>27, <1>0 DEF LockInv, PassOnCatchup, Go, segVars, lockVars, sendVars, recvVars,
     sigVars, idVars
<1>28. CASE NoCatchup(p)
  BY <1>28, <1>0 DEF LockInv, NoCatchup, ReturnFromReceive, Go, segVars, lockVars, sendVars,
     recvVars, sigVars, idVars
<1>29. CASE LockForCleanup(p)
  BY <1>29, <1>0 DEF LockInv, LockForCleanup, AcquireWriteLock, Go, segVars, lockVars,
     sendVars, recvVars, sigVars, idVars
<1>30. CASE CleanupAfterCatchup(p)
  BY <1>30, <1>0 DEF LockInv, CleanupAfterCatchup, ReturnFromReceive, Go
<1>31. CASE SignalAfterCatchup(p)
  BY <1>31, <1>0 DEF LockInv, SignalAfterCatchup, SendProcSignal, ReturnFromReceive, Go,
     segVars, lockVars, sendVars, recvVars, sigVars, idVars
<1>32. CASE HandleCatchupInterrupt(p)
  BY <1>32, <1>0 DEF LockInv, HandleCatchupInterrupt, Go, segVars, lockVars, sendVars,
     recvVars, sigVars, idVars
<1> QED
  BY <1>1, <1>2, <1>3, <1>4, <1>5, <1>6, <1>7, <1>8, <1>9, <1>10, <1>11, <1>12, <1>13, <1>14,
     <1>15, <1>16, <1>17, <1>18, <1>19, <1>20, <1>21, <1>22, <1>23, <1>24, <1>25, <1>26, <1>27,
     <1>28, <1>29, <1>30, <1>31, <1>32 DEF ActionOf

(* Every step keeps local transaction ids consecutive.                     *)
LEMMA XidStep ==
  ASSUME IInv, NEW p \in Proc, ActionOf(p)
  PROVE  VirtualXidsConsecutive'
<1> DEFINE succ(x) == IF x = 0 THEN 0 ELSE (x + 1) % LXID_MODULUS
<1>0. TypeOK /\ OwnInv /\ OwnInv' /\ NoProc \notin Proc
  BY OwnStep, ConstantsAssumption DEF IInv
<1>1. \A t \in Slots :
        /\ procState[t].procPid = NoProc => procState[t].nextLXID = succ(lastLXID[t])
        /\ procState[t].procPid # NoProc =>
             nextLocalTransactionId[procState[t].procPid] = succ(lastLXID[t])
  BY DEF IInv, VirtualXidsConsecutive
<1>2. SUFFICES ASSUME NEW t \in Slots
               PROVE  /\ procState'[t].procPid = NoProc =>
                           procState'[t].nextLXID = succ(lastLXID'[t])
                      /\ procState'[t].procPid # NoProc =>
                           nextLocalTransactionId'[procState'[t].procPid] = succ(lastLXID'[t])
  BY DEF VirtualXidsConsecutive
<1>3. procState[t].procPid \in Proc \cup {NoProc}
  BY <1>0 DEF TypeOK, ProcStates
<1>4. \A q \in Proc : q # p => nextLocalTransactionId'[q] = nextLocalTransactionId[q]
  BY <1>0, PrivateFrame
<1>5. CASE SharedInvalBackendInit(p)
  <2>1. PICK u \in Slots :
           /\ procState[u].procPid = NoProc
           /\ nextLocalTransactionId' =
                [nextLocalTransactionId EXCEPT ![p] = procState[u].nextLXID]
           /\ \A v \in Slots : v # u => SameOwner(v)
           /\ procState'[u].procPid = p
    BY <1>0, <1>5, JoinEffect
  <2>2. pc[p] = "start" /\ lastLXID' = lastLXID
    BY <1>5 DEF SharedInvalBackendInit
  <2>3. nextLocalTransactionId'[p] = procState[u].nextLXID
    BY <1>0, <2>1 DEF TypeOK
  <2>4. MyBackendId[p] = InvalidBackendId
    BY <1>0, <2>2 DEF OwnInv, Attached
  <2> HIDE DEF succ
  <2>5. CASE t = u
    BY <1>0, <1>1, <2>1, <2>2, <2>3, <2>5
  <2>6. CASE t # u
    <3>1. procState'[t].procPid = procState[t].procPid
          /\ procState'[t].nextLXID = procState[t].nextLXID
      BY <2>1, <2>6 DEF SameOwner
    <3>2. procState[t].procPid # p
      BY <1>0, <2>4, ConstantsAssumption DEF OwnInv, Slots, InvalidBackendId
    <3> QED
      BY <1>1, <1>3, <1>4, <2>2, <3>1, <3>2
  <2> QED
    BY <2>5, <2>6
<1>6. CASE CleanupInvalidationState(p)
  <2> DEFINE u == MyBackendId[p]
  <2>1. /\ u \in Slots
        /\ \A v \in Slots : v # u => SameOwner(v)
        /\ procState'[u].procPid = NoProc
        /\ procState'[u].nextLXID = nextLocalTransactionId[p]
    BY <1>0, <1>6, ExitEffect
  <2>2. pc[p] \notin {"start", "exit"} /\ lastLXID' = lastLXID
    BY <1>6 DEF CleanupInvalidationState
  <2>3. procState[u].procPid = p
    BY <1>0, <2>2, OwnSlot DEF MyState
  <2> HIDE DEF succ
  <2>4. CASE t = u
    BY <1>0, <1>1, <2>1, <2>2, <2>3, <2>4
  <2>5. CASE t # u
    <3>1. procState'[t].procPid = procState[t].procPid
          /\ procState'[t].nextLXID = procState[t].nextLXID
      BY <2>1, <2>5 DEF SameOwner
    <3>2. procState[t].procPid # p
      BY <1>0, <2>5 DEF OwnInv
    <3> QED
      BY <1>1, <1>3, <1>4, <2>2, <3>1, <3>2
  <2> QED
    BY <2>4, <2>5
<1>7. CASE GetNextLocalTransactionId(p)
  <2> DEFINE u == MyBackendId[p]
             next == nextLocalTransactionId[p]
             result == IF next = 0 THEN 1 ELSE next
  <2>1. pc[p] = "idle" /\ procState' = procState
        /\ nextLocalTransactionId' = [nextLocalTransactionId EXCEPT ![p] = (result + 1) % LXID_MODULUS]
        /\ lastLXID' = [lastLXID EXCEPT ![u] = result]
    BY <1>7 DEF GetNextLocalTransactionId, segVars
  <2>2. u \in Slots /\ procState[u].procPid = p
    BY <1>0, <2>1, OwnSlot DEF MyState
  <2>3. result # 0
    OBVIOUS
  <2> HIDE DEF result
  <2>4. nextLocalTransactionId'[p] = succ(result) /\ lastLXID'[u] = result
    BY <1>0, <2>1, <2>2, <2>3 DEF TypeOK
  <2> HIDE DEF succ
  <2>5. CASE t = u
    BY <1>0, <2>1, <2>2, <2>4, <2>5
  <2>6. CASE t # u
    <3>1. lastLXID'[t] = lastLXID[t]
      BY <1>0, <2>1, <2>6 DEF TypeOK
    <3>2. procState[t].procPid # p
      BY <1>0, <2>6 DEF OwnInv
    <3> QED
      BY <1>1, <1>3, <1>4, <2>1, <3>1, <3>2
  <2> QED
    BY <2>5, <2>6
<1>8. CASE /\ ~SharedInvalBackendInit(p) /\ ~CleanupInvalidationState(p)
           /\ ~GetNextLocalTransactionId(p)
  <2>1. SameOwner(t)
    BY <1>8, OwnerFrame
  <2>2. lastLXID' = lastLXID /\ nextLocalTransactionId' = nextLocalTransactionId
    BY <1>8 DEF ActionOf, LockForInsert, RelockForInsert, LockForCleanup, AcquireWriteLock,
       SendSharedInvalidMessages, CleanupForInsert, SignalForInsert, SignalAfterCatchup,
       SendProcSignal, WriteBuffer, PublishMaxMsgNum, SetHasMessages, EndBatch,
       AcceptInvalidationMessages, ProcessCatchupInterrupt, Recurse, EnterReceive,
       CallbackReturns, CallbackError, Invalidate, LoopAgain, LoopEnds, TestHasMessages,
       AcquireReadLock, FetchMaxMsgNum, ReadReset, ReadOne, ReadEnd, UpdateMyState,
       PassOnCatchup, NoCatchup, CleanupAfterCatchup, HandleCatchupInterrupt, idVars
  <2> HIDE DEF succ
  <2> QED
    BY <1>1, <2>1, <2>2 DEF SameOwner
<1> QED
  BY <1>5, <1>6, <1>7, <1>8

(* What a step does to the entry of another process.                       *)
LEMMA EntryFrame ==
  ASSUME IInv, NEW p \in Proc, ActionOf(p), NEW q \in Proc, q # p, Attached(q)
  PROVE  /\ MyBackendId[q] \in Slots /\ MyBackendId'[q] = MyBackendId[q]
         /\ \/ CleanupForInsert(p) \/ CleanupAfterCatchup(p)
            \/ SamePlace(MyBackendId[q]) /\ base' = base
         /\ MyState(q).hasMessages => procState'[MyBackendId[q]].hasMessages
<1> DEFINE u == MyBackendId[q]
<1>0. TypeOK /\ OwnInv /\ NoProc \notin Proc /\ CountersOrdered
  BY ConstantsAssumption DEF IInv, CountInv
<1>33. u \in Slots /\ procState[u].procPid = q /\ pc[q] \notin {"start", "exit"}
  <2>1. pc[q] \notin {"start", "exit"}
    BY <1>0 DEF OwnInv
  <2> QED
    BY <1>0, <2>1, OwnSlot DEF MyState
<1>34. MyBackendId[p] \in Slots => u # MyBackendId[p]
  BY <1>0, <1>33, ConstantsAssumption DEF OwnInv, Attached, MyState, InvalidBackendId, Slots
<1>35. MyBackendId'[q] = u
  BY <1>0, PrivateFrame
<1>36. SUFFICES /\ \/ CleanupForInsert(p) \/ CleanupAfterCatchup(p)
                   \/ SamePlace(u) /\ base' = base
                /\ procState[u].hasMessages => procState'[u].hasMessages
  BY <1>33, <1>35 DEF MyState
<1> HIDE DEF u
<1>1. CASE SharedInvalBackendInit(p)
  <2>1. SamePlace(u) /\ SameFlag(u)
    BY <1>1, <1>0, <1>33, JoinEffect
  <2> QED
    BY <1>1, <2>1 DEF SameFlag, SharedInvalBackendInit
<1>2. CASE CleanupInvalidationState(p)
  <2>1. SamePlace(u) /\ SameFlag(u)
    BY <1>2, <1>0, <1>33, <1>34, ExitEffect
  <2> QED
    BY <1>2, <2>1 DEF SameFlag, CleanupInvalidationState
<1>3. CASE GetNextLocalTransactionId(p)
  BY <1>3 DEF SamePlace, GetNextLocalTransactionId, Go, segVars, lockVars, sendVars, recvVars,
     sigVars, idVars
<1>4. CASE SendSharedInvalidMessages(p)
  BY <1>4 DEF SamePlace, SendSharedInvalidMessages, Go, segVars, lockVars, sendVars, recvVars,
     sigVars, idVars
<1>5. CASE LockForInsert(p)
  BY <1>5 DEF SamePlace, LockForInsert, AcquireWriteLock, Go, segVars, lockVars, sendVars,
     recvVars, sigVars, idVars
<1>6. CASE CleanupForInsert(p)
  <2>1. PICK sig \in Slots \cup {InvalidBackendId} : CleanQueue(nthistime[p], sig)
    BY <1>6 DEF CleanupForInsert
  <2>2. nthistime[p] \in 0 .. WRITE_QUANTUM
    BY <1>0, ConstantsAssumption DEF TypeOK
  <2>3. SameFlag(u)
    BY <1>0, <1>33, <2>1, <2>2, CleanEffect
  <2> QED
    BY <1>6, <2>3 DEF SameFlag
<1>7. CASE SignalForInsert(p)
  BY <1>7 DEF SamePlace, SignalForInsert, SendProcSignal, Go, segVars, lockVars, sendVars,
     recvVars, sigVars, idVars
<1>8. CASE RelockForInsert(p)
  BY <1>8 DEF SamePlace, RelockForInsert, AcquireWriteLock, Go, segVars, lockVars, sendVars,
     recvVars, sigVars, idVars
<1>9. CASE WriteBuffer(p)
  BY <1>9 DEF SamePlace, WriteBuffer, Go, segVars, lockVars, sendVars, recvVars, sigVars, idVars
<1>10. CASE PublishMaxMsgNum(p)
  BY <1>10 DEF SamePlace, PublishMaxMsgNum, Go, segVars, lockVars, sendVars, recvVars, sigVars,
     idVars
<1>11. CASE SetHasMessages(p)
  <2>1. SamePlace(u)
    BY <1>11, <1>0, <1>33, SetEffect
  <2>2. procState[u].hasMessages => procState'[u].hasMessages
    BY <1>11, <1>0, <1>33, SetEffect DEF SameFlag
  <2> QED
    BY <1>11, <2>1, <2>2 DEF SetHasMessages
<1>12. CASE EndBatch(p)
  BY <1>12 DEF SamePlace, EndBatch, Go, segVars, lockVars, sendVars, recvVars, sigVars, idVars
<1>13. CASE AcceptInvalidationMessages(p)
  BY <1>13 DEF SamePlace, AcceptInvalidationMessages, EnterReceive, Go, segVars, lockVars,
     sendVars, recvVars, sigVars, idVars
<1>14. CASE ProcessCatchupInterrupt(p)
  BY <1>14 DEF SamePlace, ProcessCatchupInterrupt, EnterReceive, Go, segVars, lockVars,
     sendVars, recvVars, sigVars, idVars
<1>15. CASE Recurse(p)
  BY <1>15 DEF SamePlace, Recurse, EnterReceive, Go, segVars, lockVars, sendVars, recvVars,
     sigVars, idVars
<1>16. CASE CallbackReturns(p)
  BY <1>16 DEF SamePlace, CallbackReturns, Go, segVars, lockVars, sendVars, recvVars, sigVars,
     idVars
<1>17. CASE CallbackError(p)
  BY <1>17 DEF SamePlace, CallbackError, Go, segVars, lockVars, sendVars, recvVars, sigVars,
     idVars
<1>18. CASE Invalidate(p)
  BY <1>18 DEF SamePlace, Invalidate, NextMessage, Go, segVars, lockVars, sendVars, recvVars,
     sigVars, idVars
<1>19. CASE LoopAgain(p)
  BY <1>19 DEF SamePlace, LoopAgain, SetLoc, Go, segVars, lockVars, sendVars, recvVars,
     sigVars, idVars
<1>20. CASE LoopEnds(p)
  BY <1>20 DEF SamePlace, LoopEnds, Go, segVars, lockVars, sendVars, recvVars, sigVars, idVars
<1>21. CASE TestHasMessages(p)
  BY <1>21 DEF SamePlace, TestHasMessages, Go, segVars, lockVars, sendVars, recvVars, sigVars,
     idVars
<1>22. CASE AcquireReadLock(p)
  <2>1. MyBackendId[p] \in Slots
    BY <1>22, <1>0, OwnSlot DEF AcquireReadLock
  <2>2. SamePlace(u) /\ SameFlag(u)
    BY <1>22, <1>0, <1>33, <1>34, <2>1, ClearEffect
  <2>3. base' = base
    BY <1>22 DEF AcquireReadLock, UpdateMyState
  <2> QED
    BY <2>2, <2>3 DEF SameFlag
<1>23. CASE FetchMaxMsgNum(p)
  BY <1>23 DEF SamePlace, FetchMaxMsgNum, Go, segVars, lockVars, sendVars, recvVars, sigVars,
     idVars
<1>24. CASE ReadReset(p)
  <2>1. MyBackendId[p] \in Slots
    BY <1>24, <1>0, OwnSlot DEF ReadReset
  <2>2. SamePlace(u) /\ SameFlag(u)
    BY <1>24, <1>0, <1>33, <1>34, <2>1, ResetEffect
  <2>3. base' = base
    BY <1>24 DEF ReadReset, UpdateMyState
  <2> QED
    BY <2>2, <2>3 DEF SameFlag
<1>25. CASE ReadOne(p)
  <2>1. MyBackendId[p] \in Slots
    BY <1>25, <1>0, OwnSlot DEF ReadOne
  <2>2. SamePlace(u) /\ SameFlag(u)
    BY <1>25, <1>0, <1>33, <1>34, <2>1, ReadEffect
  <2>3. base' = base
    BY <1>25 DEF ReadOne, UpdateMyState
  <2> QED
    BY <2>2, <2>3 DEF SameFlag
<1>26. CASE ReadEnd(p)
  <2>1. MyBackendId[p] \in Slots
    BY <1>26, <1>0, OwnSlot DEF ReadEnd
  <2>2. SamePlace(u) /\ SameFlag(u)
    BY <1>26, <1>0, <1>33, <1>34, <2>1, EndEffect
  <2>3. base' = base
    BY <1>26 DEF ReadEnd, UpdateMyState
  <2> QED
    BY <2>2, <2>3 DEF SameFlag
<1>27. CASE PassOnCatchup(p)
  BY <1>27 DEF SamePlace, PassOnCatchup, Go, segVars, lockVars, sendVars, recvVars, sigVars,
     idVars
<1>28. CASE NoCatchup(p)
  BY <1>28 DEF SamePlace, NoCatchup, ReturnFromReceive, Go, segVars, lockVars, sendVars,
     recvVars, sigVars, idVars
<1>29. CASE LockForCleanup(p)
  BY <1>29 DEF SamePlace, LockForCleanup, AcquireWriteLock, Go, segVars, lockVars, sendVars,
     recvVars, sigVars, idVars
<1>30. CASE CleanupAfterCatchup(p)
  <2>1. PICK sig \in Slots \cup {InvalidBackendId} : CleanQueue(0, sig)
    BY <1>30 DEF CleanupAfterCatchup
  <2>2. 0 \in 0 .. WRITE_QUANTUM
    BY <1>0, ConstantsAssumption DEF TypeOK
  <2>3. SameFlag(u)
    BY <1>0, <1>33, <2>1, <2>2, CleanEffect
  <2> QED
    BY <1>30, <2>3 DEF SameFlag
<1>31. CASE SignalAfterCatchup(p)
  BY <1>31 DEF SamePlace, SignalAfterCatchup, SendProcSignal, ReturnFromReceive, Go, segVars,
     lockVars, sendVars, recvVars, sigVars, idVars
<1>32. CASE HandleCatchupInterrupt(p)
  BY <1>32 DEF SamePlace, HandleCatchupInterrupt, Go, segVars, lockVars, sendVars, recvVars,
     sigVars, idVars
<1> QED
  BY <1>1, <1>2, <1>3, <1>4, <1>5, <1>6, <1>7, <1>8, <1>9, <1>10, <1>11, <1>12, <1>13, <1>14,
     <1>15, <1>16, <1>17, <1>18, <1>19, <1>20, <1>21, <1>22, <1>23, <1>24, <1>25, <1>26, <1>27,
     <1>28, <1>29, <1>30, <1>31, <1>32 DEF ActionOf

(* The innermost call.                                                     *)
LEMMA LastCall ==
  ASSUME NEW st \in Seq(Calls), st # << >>
  PROVE  /\ Len(st) \in Nat \ {0}
         /\ st[Len(st)].loc \in {"pending", "batch", "reset"}
         /\ st[Len(st)].sent \in Nat
<1>1. Len(st) \in Nat \ {0} /\ Len(st) \in 1 .. Len(st)
  OBVIOUS
<1>2. st[Len(st)] \in Calls
  BY <1>1, ElementOfSeq
<1> QED
  BY <1>1, <1>2 DEF Calls

(* What entering, leaving and moving on make of a stack of calls.          *)
LEMMA StackFacts ==
  ASSUME NEW st \in Seq(Calls)
  PROVE  /\ \A c \in Calls :
              /\ Append(st, c) # << >> /\ Len(Append(st, c)) = Len(st) + 1
              /\ Append(st, c)[Len(st) + 1] = c
              /\ \A k \in 1 .. Len(st) : Append(st, c)[k] = st[k]
         /\ st # << >> =>
              /\ Len(st) \in Nat \ {0}
              /\ Len(SubSeq(st, 1, Len(st) - 1)) = Len(st) - 1
              /\ SubSeq(st, 1, Len(st) - 1) = << >> <=> Len(st) = 1
              /\ \A k \in 1 .. Len(st) - 1 : SubSeq(st, 1, Len(st) - 1)[k] = st[k]
         /\ st # << >> => \A l \in {"pending", "batch", "reset"} :
              /\ [st EXCEPT ![Len(st)].loc = l] # << >>
              /\ Len([st EXCEPT ![Len(st)].loc = l]) = Len(st)
              /\ [st EXCEPT ![Len(st)].loc = l][Len(st)].loc = l
              /\ \A k \in 1 .. Len(st) : [st EXCEPT ![Len(st)].loc = l][k].sent = st[k].sent
<1>1. ASSUME NEW c \in Calls
      PROVE  /\ Append(st, c) # << >> /\ Len(Append(st, c)) = Len(st) + 1
             /\ Append(st, c)[Len(st) + 1] = c
             /\ \A k \in 1 .. Len(st) : Append(st, c)[k] = st[k]
  OBVIOUS
<1>2. ASSUME st # << >>
      PROVE  /\ Len(st) \in Nat \ {0}
             /\ Len(SubSeq(st, 1, Len(st) - 1)) = Len(st) - 1
             /\ SubSeq(st, 1, Len(st) - 1) = << >> <=> Len(st) = 1
             /\ \A k \in 1 .. Len(st) - 1 : SubSeq(st, 1, Len(st) - 1)[k] = st[k]
  <2> DEFINE n == Len(st) - 1
             t == SubSeq(st, 1, n)
  <2>1. Len(st) \in Nat \ {0} /\ n \in 0 .. Len(st)
    BY <1>2
  <2>2. t \in Seq(Calls) /\ Len(t) = n /\ \A k \in 1 .. n : t[k] = st[k]
    <3> HIDE DEF n
    <3>1. 1 \in 1 .. Len(st) + 1
      BY <2>1
    <3>2. n \in 1 - 1 .. Len(st)
      BY <2>1
    <3> QED
      BY <2>1, <3>1, <3>2, SubSeqProperties
  <2> HIDE DEF t
  <2>3. t = << >> <=> Len(t) = 0
    BY <2>2
  <2> QED
    BY <2>1, <2>2, <2>3 DEF t
<1>3. ASSUME st # << >>, NEW l \in {"pending", "batch", "reset"}
      PROVE  /\ [st EXCEPT ![Len(st)].loc = l] # << >>
             /\ Len([st EXCEPT ![Len(st)].loc = l]) = Len(st)
             /\ [st EXCEPT ![Len(st)].loc = l][Len(st)].loc = l
             /\ \A k \in 1 .. Len(st) : [st EXCEPT ![Len(st)].loc = l][k].sent = st[k].sent
  <2> DEFINE n == Len(st)
             c == [st[n] EXCEPT !.loc = l]
             t == [st EXCEPT ![n] = c]
  <2>1. n \in 1 .. Len(st) /\ n \in Nat \ {0} /\ st[n] \in Calls
    BY <1>3
  <2>2. c \in Calls /\ c.loc = l /\ c.sent = st[n].sent
    BY <1>3, <2>1 DEF Calls
  <2> HIDE DEF c
  <2>3. t \in Seq(Calls) /\ Len(t) = n /\ t[n] = c /\ \A k \in 1 .. n : k # n => t[k] = st[k]
    BY <2>1, <2>2
  <2>4. t # << >>
    <3> HIDE DEF t, n
    <3> QED
      BY <2>1, <2>3
  <2> HIDE DEF t
  <2>5. \A k \in 1 .. n : t[k].sent = st[k].sent
    BY <2>2, <2>3
  <2> QED
    BY <2>2, <2>3, <2>4, <2>5 DEF t, c
<1> QED
  BY <1>1, <1>2, <1>3

(* ReceiveSharedInvalidMessages is entered.                                *)
LEMMA EnterEffect ==
  ASSUME TypeOK, CountInv, NEW p \in Proc, EnterReceive(p)
  PROVE  /\ stack'[p] # << >> /\ Len(stack'[p]) = Len(stack[p]) + 1
         /\ stack'[p][Len(stack[p]) + 1].loc = "pending"
         /\ stack'[p][Len(stack[p]) + 1].sent = Sent
         /\ \A k \in 1 .. Len(stack[p]) : stack'[p][k] = stack[p][k]
         /\ pc'[p] = "loop"
<1> DEFINE c == [loc |-> "pending", sent |-> Sent]
<1>1. stack[p] \in Seq(Calls) /\ stack'[p] = Append(stack[p], c) /\ pc'[p] = "loop"
  BY DEF TypeOK, EnterReceive, Go
<1>2. c \in Calls /\ c.loc = "pending" /\ c.sent = Sent
  BY SentNat DEF Calls
<1> HIDE DEF c
<1> QED
  BY <1>1, <1>2, StackFacts

(* ReceiveSharedInvalidMessages returns.                                   *)
LEMMA ReturnEffect ==
  ASSUME TypeOK, NEW p \in Proc, stack[p] # << >>, ReturnFromReceive(p)
  PROVE  /\ Len(stack[p]) \in Nat \ {0} /\ Len(stack'[p]) = Len(stack[p]) - 1
         /\ \A k \in 1 .. Len(stack[p]) - 1 : stack'[p][k] = stack[p][k]
         /\ \/ stack'[p] = << >> /\ pc'[p] = "idle"
            \/ stack'[p] # << >> /\ pc'[p] = "inval"
<1>1. /\ stack[p] \in Seq(Calls) /\ stack'[p] = SubSeq(stack[p], 1, Len(stack[p]) - 1)
      /\ pc'[p] = IF Len(stack[p]) = 1 THEN "idle" ELSE "inval"
  BY DEF TypeOK, ReturnFromReceive, Go
<1> QED
  BY <1>1, StackFacts

(* The innermost call moves on.                                            *)
LEMMA LocEffect ==
  ASSUME TypeOK, NEW p \in Proc, stack[p] # << >>,
         NEW l \in {"pending", "batch", "reset"}, SetLoc(p, l)
  PROVE  /\ stack'[p] # << >> /\ Len(stack'[p]) = Len(stack[p])
         /\ stack'[p][Len(stack[p])].loc = l
         /\ \A k \in 1 .. Len(stack[p]) : stack'[p][k].sent = stack[p][k].sent
<1>1. stack[p] \in Seq(Calls) /\ stack'[p] = [stack[p] EXCEPT ![Len(stack[p])].loc = l]
  BY DEF TypeOK, SetLoc
<1> QED
  BY <1>1, StackFacts

(* The others, while a process takes a step.                               *)
LEMMA PlaceFrame ==
  ASSUME IInv, NEW p \in Proc, ActionOf(p), NEW q \in Proc, q # p
  PROVE  PlaceAt(q)'
<1>0. TypeOK /\ OwnInv /\ LockInv /\ PlaceAt(q)
  BY DEF IInv, PlaceInv
<1>1. /\ pc'[q] = pc[q] /\ MyBackendId'[q] = MyBackendId[q]
      /\ messages'[q] = messages[q] /\ nextmsg'[q] = nextmsg[q] /\ stack'[q] = stack[q]
  BY <1>0, PrivateFrame
<1>2. pc[q] = "read" => procState'[MyBackendId[q]].resetState = procState[MyBackendId[q]].resetState
  <2> SUFFICES ASSUME pc[q] = "read"
               PROVE  procState'[MyBackendId[q]].resetState = procState[MyBackendId[q]].resetState
    OBVIOUS
  <2>1. Attached(q) /\ q \in readLock
    BY <1>0 DEF OwnInv, LockInv
  <2>2. ~CleanupForInsert(p) /\ ~CleanupAfterCatchup(p)
    BY <2>1 DEF CleanupForInsert, CleanupAfterCatchup, CleanQueue, ReadersOut
  <2> QED
    BY <2>1, <2>2, EntryFrame DEF SamePlace
<1> QED
  BY <1>0, <1>1, <1>2 DEF PlaceAt, MyState, Loc

(* Every step keeps the array and the stack as the labels tell.            *)
LEMMA PlaceStep ==
  ASSUME IInv, NEW p \in Proc, ActionOf(p)
  PROVE  PlaceInv'
<1> SUFFICES PlaceAt(p)'
  BY PlaceFrame DEF PlaceInv
<1>0. TypeOK /\ OwnInv /\ CountInv /\ PlaceAt(p)
  BY DEF IInv, PlaceInv
<1>33. /\ pc \in [Proc -> Pcs] /\ messages[p] \in Seq(Nat) /\ nextmsg[p] \in Nat
       /\ MAXINVALMSGS \in Nat \ {0} /\ stack[p] \in Seq(Calls)
       /\ messages \in [Proc -> Seq(Nat)] /\ nextmsg \in [Proc -> Nat]
       /\ stack \in [Proc -> Seq(Calls)] /\ procState \in [Slots -> ProcStates]
  BY <1>0, ConstantsAssumption DEF TypeOK
<1>1. CASE SharedInvalBackendInit(p)
  <2>1. nextmsg' = nextmsg /\ stack' = stack /\ messages' = messages
    BY <1>1 DEF SharedInvalBackendInit, segVars, recvVars, idVars
  <2> QED
    BY <1>1, <1>0, <1>33, <2>1 DEF PlaceAt, Loc, Receiving, Reading, Tailing,
       SharedInvalBackendInit, Go
<1>2. CASE CleanupInvalidationState(p)
  <2>1. /\ pc'[p] = "exit" /\ nextmsg'[p] = 0 /\ stack'[p] = << >> /\ messages'[p] = << >>
    BY <1>2, <1>33 DEF CleanupInvalidationState, Go
  <2>2. nextmsg'[p] <= Len(messages'[p]) /\ Len(messages'[p]) <= MAXINVALMSGS
    BY <1>33, <2>1
  <2> QED
    BY <1>0, <2>1, <2>2 DEF PlaceAt, Loc, Receiving, Reading, Tailing
<1>3. CASE GetNextLocalTransactionId(p)
  <2>1. nextmsg' = nextmsg /\ stack' = stack /\ messages' = messages
    BY <1>3 DEF GetNextLocalTransactionId, segVars, recvVars, idVars
  <2> QED
    BY <1>3, <1>0, <1>33, <2>1 DEF PlaceAt, Loc, Receiving, Reading, Tailing,
       GetNextLocalTransactionId, Go
<1>4. CASE SendSharedInvalidMessages(p)
  <2>1. nextmsg' = nextmsg /\ stack' = stack /\ messages' = messages
    BY <1>4 DEF SendSharedInvalidMessages, segVars, recvVars, idVars
  <2> QED
    BY <1>4, <1>0, <1>33, <2>1 DEF PlaceAt, Loc, Receiving, Reading, Tailing,
       SendSharedInvalidMessages, Go
<1>5. CASE LockForInsert(p)
  <2>1. nextmsg' = nextmsg /\ stack' = stack /\ messages' = messages
    BY <1>5 DEF LockForInsert, AcquireWriteLock, segVars, recvVars, idVars
  <2> QED
    BY <1>5, <1>0, <1>33, <2>1 DEF PlaceAt, Loc, Receiving, Reading, Tailing, LockForInsert,
       AcquireWriteLock, Go
<1>6. CASE CleanupForInsert(p)
  <2>1. /\ pc[p] = "scheck" /\ pc'[p] \in {"scheck", "ssignal"}
        /\ nextmsg' = nextmsg /\ stack' = stack /\ messages' = messages
    BY <1>6, <1>33 DEF CleanupForInsert, Go, recvVars
  <2> QED
    BY <1>0, <2>1 DEF PlaceAt, Loc, Receiving, Reading, Tailing
<1>7. CASE SignalForInsert(p)
  <2>1. nextmsg' = nextmsg /\ stack' = stack /\ messages' = messages
    BY <1>7 DEF SignalForInsert, SendProcSignal, segVars, recvVars, idVars
  <2> QED
    BY <1>7, <1>0, <1>33, <2>1 DEF PlaceAt, Loc, Receiving, Reading, Tailing, SignalForInsert,
       SendProcSignal, Go
<1>8. CASE RelockForInsert(p)
  <2>1. nextmsg' = nextmsg /\ stack' = stack /\ messages' = messages
    BY <1>8 DEF RelockForInsert, AcquireWriteLock, segVars, recvVars, idVars
  <2> QED
    BY <1>8, <1>0, <1>33, <2>1 DEF PlaceAt, Loc, Receiving, Reading, Tailing, RelockForInsert,
       AcquireWriteLock, Go
<1>9. CASE WriteBuffer(p)
  <2>1. nextmsg' = nextmsg /\ stack' = stack /\ messages' = messages
    BY <1>9 DEF WriteBuffer, segVars, recvVars, idVars
  <2> QED
    BY <1>9, <1>0, <1>33, <2>1 DEF PlaceAt, Loc, Receiving, Reading, Tailing, WriteBuffer, Go
<1>10. CASE PublishMaxMsgNum(p)
  <2>1. nextmsg' = nextmsg /\ stack' = stack /\ messages' = messages
    BY <1>10 DEF PublishMaxMsgNum, segVars, recvVars, idVars
  <2> QED
    BY <1>10, <1>0, <1>33, <2>1 DEF PlaceAt, Loc, Receiving, Reading, Tailing,
       PublishMaxMsgNum, Go
<1>11. CASE SetHasMessages(p)
  <2>1. nextmsg' = nextmsg /\ stack' = stack /\ messages' = messages
    BY <1>11 DEF SetHasMessages, segVars, recvVars, idVars
  <2> QED
    BY <1>11, <1>0, <1>33, <2>1 DEF PlaceAt, Loc, Receiving, Reading, Tailing, SetHasMessages,
       Go
<1>12. CASE EndBatch(p)
  <2>1. nextmsg' = nextmsg /\ stack' = stack /\ messages' = messages
    BY <1>12 DEF EndBatch, segVars, recvVars, idVars
  <2> QED
    BY <1>12, <1>0, <1>33, <2>1 DEF PlaceAt, Loc, Receiving, Reading, Tailing, EndBatch, Go
<1>13. CASE AcceptInvalidationMessages(p)
  <2>1. /\ stack'[p] # << >> /\ stack'[p][Len(stack'[p])].loc = "pending" /\ pc'[p] = "loop"
    BY <1>13, <1>0, EnterEffect DEF AcceptInvalidationMessages
  <2>2. p \notin SendOnly
    BY <1>13, <1>0 DEF AcceptInvalidationMessages, PlaceAt, Receiving
  <2>3. messages' = messages /\ nextmsg' = nextmsg
    BY <1>13 DEF AcceptInvalidationMessages, EnterReceive
  <2> QED
    BY <1>0, <2>1, <2>2, <2>3 DEF PlaceAt, Loc, Receiving, Reading, Tailing
<1>14. CASE ProcessCatchupInterrupt(p)
  <2>1. /\ stack'[p] # << >> /\ stack'[p][Len(stack'[p])].loc = "pending" /\ pc'[p] = "loop"
    BY <1>14, <1>0, EnterEffect DEF ProcessCatchupInterrupt
  <2>2. p \notin SendOnly
    BY <1>14, <1>0 DEF ProcessCatchupInterrupt, PlaceAt, Receiving
  <2>3. messages' = messages /\ nextmsg' = nextmsg
    BY <1>14 DEF ProcessCatchupInterrupt, EnterReceive
  <2> QED
    BY <1>0, <2>1, <2>2, <2>3 DEF PlaceAt, Loc, Receiving, Reading, Tailing
<1>15. CASE Recurse(p)
  <2>1. /\ stack'[p] # << >> /\ stack'[p][Len(stack'[p])].loc = "pending" /\ pc'[p] = "loop"
    BY <1>15, <1>0, EnterEffect DEF Recurse
  <2>2. p \notin SendOnly
    BY <1>15, <1>0 DEF Recurse, PlaceAt, Receiving
  <2>3. messages' = messages /\ nextmsg' = nextmsg
    BY <1>15 DEF Recurse, EnterReceive
  <2> QED
    BY <1>0, <2>1, <2>2, <2>3 DEF PlaceAt, Loc, Receiving, Reading, Tailing
<1>16. CASE CallbackReturns(p)
  <2>1. nextmsg' = nextmsg /\ stack' = stack /\ messages' = messages
    BY <1>16 DEF CallbackReturns, recvVars
  <2>2. pc[p] = "inval" /\ pc'[p] = IF Loc(p) = "reset" THEN "tail" ELSE "loop"
    BY <1>16, <1>33 DEF CallbackReturns, Go
  <2>3. stack[p] # << >>
    BY <1>0, <2>2 DEF PlaceAt, Receiving
  <2>4. Loc(p) \in {"pending", "batch", "reset"}
    BY <1>33, <2>3, LastCall DEF Loc
  <2> QED
    BY <1>0, <2>1, <2>2, <2>3, <2>4 DEF PlaceAt, Loc, Receiving, Reading, Tailing
<1>17. CASE CallbackError(p)
  <2>1. /\ pc'[p] = "idle" /\ nextmsg' = nextmsg /\ stack'[p] = << >> /\ messages' = messages
    BY <1>17, <1>33 DEF CallbackError, Go
  <2> QED
    BY <1>0, <2>1 DEF PlaceAt, Loc, Receiving, Reading, Tailing
<1>18. CASE Invalidate(p)
  <2>1. /\ pc[p] = "loop" /\ pc'[p] = "inval" /\ nextmsg'[p] = nextmsg[p] + 1 /\ stack' = stack
        /\ messages' = messages /\ nextmsg[p] < Len(messages[p])
    BY <1>18, <1>33 DEF Invalidate, NextMessage, Go
  <2>2. nextmsg'[p] <= Len(messages'[p])
    BY <1>33, <2>1
  <2> QED
    BY <1>0, <2>1, <2>2 DEF PlaceAt, Loc, Receiving, Reading, Tailing
<1>19. CASE LoopAgain(p)
  <2>1. stack[p] # << >> /\ p \notin SendOnly
    BY <1>19, <1>0 DEF LoopAgain, PlaceAt, Receiving
  <2>2. stack'[p] # << >> /\ stack'[p][Len(stack'[p])].loc = "batch"
    BY <1>19, <1>0, <2>1, LocEffect DEF LoopAgain
  <2>3. messages'[p] = << >> /\ nextmsg'[p] = 0 /\ pc'[p] = "quick"
    BY <1>19, <1>33 DEF LoopAgain, Go
  <2>4. nextmsg'[p] <= Len(messages'[p]) /\ Len(messages'[p]) <= MAXINVALMSGS
    BY <1>33, <2>3
  <2> QED
    BY <2>1, <2>2, <2>3, <2>4 DEF PlaceAt, Loc, Receiving, Reading, Tailing
<1>20. CASE LoopEnds(p)
  <2>1. nextmsg' = nextmsg /\ stack' = stack /\ messages' = messages
    BY <1>20 DEF LoopEnds, segVars, recvVars, idVars
  <2> QED
    BY <1>20, <1>0, <1>33, <2>1 DEF PlaceAt, Loc, Receiving, Reading, Tailing, LoopEnds, Go
<1>21. CASE TestHasMessages(p)
  <2>1. nextmsg' = nextmsg /\ stack' = stack /\ messages' = messages
    BY <1>21 DEF TestHasMessages, segVars, recvVars, idVars
  <2> QED
    BY <1>21, <1>0, <1>33, <2>1 DEF PlaceAt, Loc, Receiving, Reading, Tailing, TestHasMessages,
       Go
<1>22. CASE AcquireReadLock(p)
  <2>1. nextmsg' = nextmsg /\ stack' = stack /\ messages' = messages
    BY <1>22 DEF AcquireReadLock, segVars, recvVars, idVars
  <2> QED
    BY <1>22, <1>0, <1>33, <2>1 DEF PlaceAt, Loc, Receiving, Reading, Tailing, AcquireReadLock,
       Go
<1>23. CASE FetchMaxMsgNum(p)
  <2>1. /\ pc[p] = "rmax" /\ pc'[p] = "read" /\ nextmsg' = nextmsg /\ stack' = stack
        /\ messages' = messages
    BY <1>23, <1>33 DEF FetchMaxMsgNum, Go
  <2>2. messages[p] = << >> /\ nextmsg[p] = 0
    BY <1>0, <1>33, <2>1 DEF PlaceAt
  <2> QED
    BY <1>0, <2>1, <2>2 DEF PlaceAt, Loc, Receiving, Reading, Tailing
<1>24. CASE ReadReset(p)
  <2>1. stack[p] # << >> /\ p \notin SendOnly
    BY <1>24, <1>0 DEF ReadReset, PlaceAt, Receiving, Reading
  <2>2. stack'[p] # << >>
    BY <1>24, <1>0, <2>1, LocEffect DEF ReadReset
  <2>3. messages' = messages /\ nextmsg' = nextmsg /\ pc'[p] = "inval"
    BY <1>24, <1>33 DEF ReadReset, Go
  <2> QED
    BY <1>0, <2>1, <2>2, <2>3 DEF PlaceAt, Loc, Receiving, Reading, Tailing
<1>25. CASE ReadOne(p)
  <2>1. /\ pc[p] = "read" /\ pc' = pc /\ nextmsg' = nextmsg /\ stack' = stack
        /\ Len(messages[p]) < MAXINVALMSGS
        /\ MyBackendId' = MyBackendId
    BY <1>25 DEF ReadOne, UpdateMyState, idVars
  <2> DEFINE c == buffer[MyState(p).nextMsgNum % MAXNUMMESSAGES]
  <2>2. messages' = [messages EXCEPT ![p] = Append(messages[p], c)]
    BY <1>25 DEF ReadOne
  <2>3. Len(messages'[p]) = Len(messages[p]) + 1
    <3> HIDE DEF c
    <3>1. messages'[p] = Append(messages[p], c)
      BY <1>33, <2>2
    <3>2. \A x : Len(Append(messages[p], x)) = Len(messages[p]) + 1
      BY <1>33
    <3> QED
      BY <3>1, <3>2
  <2>4. ~procState'[MyBackendId[p]].resetState
    BY <1>25, <1>0, ReadEffect
  <2>5. nextmsg[p] = 0 /\ nextmsg'[p] = 0
    BY <1>0, <2>1 DEF PlaceAt
  <2>6. nextmsg'[p] <= Len(messages'[p]) /\ Len(messages'[p]) <= MAXINVALMSGS
    <3>1. Len(messages[p]) \in Nat
      BY <1>33
    <3> QED
      BY <1>33, <2>1, <2>3, <2>5, <3>1
  <2> QED
    BY <1>0, <2>1, <2>4, <2>5, <2>6 DEF PlaceAt, Loc, Receiving, Reading, Tailing, MyState
<1>26. CASE ReadEnd(p)
  <2>1. /\ pc[p] = "read" /\ pc'[p] = "loop" /\ nextmsg' = nextmsg /\ stack' = stack
        /\ messages' = messages
    BY <1>26, <1>33 DEF ReadEnd, Go
  <2> QED
    BY <1>0, <2>1 DEF PlaceAt, Loc, Receiving, Reading, Tailing
<1>27. CASE PassOnCatchup(p)
  <2>1. nextmsg' = nextmsg /\ stack' = stack /\ messages' = messages
    BY <1>27 DEF PassOnCatchup, segVars, recvVars, idVars
  <2> QED
    BY <1>27, <1>0, <1>33, <2>1 DEF PlaceAt, Loc, Receiving, Reading, Tailing, PassOnCatchup, Go
<1>28. CASE NoCatchup(p)
  <2>1. stack[p] # << >> /\ p \notin SendOnly
    BY <1>28, <1>0 DEF NoCatchup, PlaceAt, Receiving, Tailing
  <2>2. \/ stack'[p] = << >> /\ pc'[p] = "idle"
        \/ stack'[p] # << >> /\ pc'[p] = "inval"
    BY <1>28, <1>0, <2>1, ReturnEffect DEF NoCatchup
  <2>3. messages' = messages /\ nextmsg' = nextmsg
    BY <1>28 DEF NoCatchup, SendProcSignal
  <2> QED
    BY <1>0, <2>1, <2>2, <2>3 DEF PlaceAt, Loc, Receiving, Reading, Tailing
<1>29. CASE LockForCleanup(p)
  <2>1. nextmsg' = nextmsg /\ stack' = stack /\ messages' = messages
    BY <1>29 DEF LockForCleanup, AcquireWriteLock, segVars, recvVars, idVars
  <2> QED
    BY <1>29, <1>0, <1>33, <2>1 DEF PlaceAt, Loc, Receiving, Reading, Tailing, LockForCleanup,
       AcquireWriteLock, Go
<1>30. CASE CleanupAfterCatchup(p)
  <2>1. stack[p] # << >> /\ p \notin SendOnly
    BY <1>30, <1>0 DEF CleanupAfterCatchup, PlaceAt, Receiving, Tailing
  <2>2. \/ stack'[p] = << >> /\ pc'[p] = "idle"
        \/ stack'[p] # << >> /\ pc'[p] \in {"inval", "rsignal"}
    <3>1. \/ ReturnFromReceive(p)
          \/ UNCHANGED stack /\ Go(p, "rsignal")
      BY <1>30 DEF CleanupAfterCatchup
    <3>2. CASE ReturnFromReceive(p)
      BY <1>0, <2>1, <3>2, ReturnEffect
    <3>3. CASE UNCHANGED stack /\ Go(p, "rsignal")
      BY <1>33, <2>1, <3>3 DEF Go
    <3> QED
      BY <3>1, <3>2, <3>3
  <2>3. messages' = messages /\ nextmsg' = nextmsg
    BY <1>30 DEF CleanupAfterCatchup
  <2> QED
    BY <1>0, <2>1, <2>2, <2>3 DEF PlaceAt, Loc, Receiving, Reading, Tailing
<1>31. CASE SignalAfterCatchup(p)
  <2>1. stack[p] # << >> /\ p \notin SendOnly
    BY <1>31, <1>0 DEF SignalAfterCatchup, PlaceAt, Receiving, Tailing
  <2>2. \/ stack'[p] = << >> /\ pc'[p] = "idle"
        \/ stack'[p] # << >> /\ pc'[p] = "inval"
    BY <1>31, <1>0, <2>1, ReturnEffect DEF SignalAfterCatchup
  <2>3. messages' = messages /\ nextmsg' = nextmsg
    BY <1>31 DEF SignalAfterCatchup, SendProcSignal
  <2> QED
    BY <1>0, <2>1, <2>2, <2>3 DEF PlaceAt, Loc, Receiving, Reading, Tailing
<1>32. CASE HandleCatchupInterrupt(p)
  <2>1. /\ nextmsg' = nextmsg /\ stack' = stack /\ messages' = messages /\ pc' = pc
        /\ procState' = procState /\ MyBackendId' = MyBackendId
    BY <1>32 DEF HandleCatchupInterrupt, segVars, recvVars, idVars
  <2> QED
    BY <1>0, <2>1 DEF PlaceAt, Loc, Receiving, Reading, Tailing, MyState
<1> QED
  BY <1>1, <1>2, <1>3, <1>4, <1>5, <1>6, <1>7, <1>8, <1>9, <1>10, <1>11, <1>12, <1>13, <1>14,
     <1>15, <1>16, <1>17, <1>18, <1>19, <1>20, <1>21, <1>22, <1>23, <1>24, <1>25, <1>26, <1>27,
     <1>28, <1>29, <1>30, <1>31, <1>32 DEF ActionOf

(* The actions that change the counters or the place of an entry.          *)
Moves(p) ==
  \/ SharedInvalBackendInit(p) \/ CleanupInvalidationState(p)
  \/ CleanupForInsert(p) \/ CleanupAfterCatchup(p)
  \/ PublishMaxMsgNum(p) \/ ReadReset(p) \/ ReadOne(p)

(* All others leave them alone.                                            *)
LEMMA MovesFrame ==
  ASSUME IInv, NEW p \in Proc, ActionOf(p), ~Moves(p)
  PROVE  /\ minMsgNum' = minMsgNum /\ maxMsgNum' = maxMsgNum /\ base' = base
         /\ lastBackend' = lastBackend /\ MyBackendId' = MyBackendId
         /\ \A t \in Slots : SameOwner(t) /\ SamePlace(t)
<1>0. TypeOK /\ OwnInv
  BY DEF IInv
<1>33. (\A t \in Slots : SameOwner(t)) /\ MyBackendId' = MyBackendId /\ lastBackend' = lastBackend
  BY OwnerFrame DEF Moves
<1> USE <1>33
<1>1. CASE SharedInvalBackendInit(p)
  BY <1>1 DEF Moves
<1>2. CASE CleanupInvalidationState(p)
  BY <1>2 DEF Moves
<1>3. CASE GetNextLocalTransactionId(p)
  BY <1>3 DEF SamePlace, segVars, GetNextLocalTransactionId
<1>4. CASE SendSharedInvalidMessages(p)
  BY <1>4 DEF SamePlace, segVars, SendSharedInvalidMessages
<1>5. CASE LockForInsert(p)
  BY <1>5 DEF SamePlace, segVars, LockForInsert, AcquireWriteLock
<1>6. CASE CleanupForInsert(p)
  BY <1>6 DEF Moves
<1>7. CASE SignalForInsert(p)
  BY <1>7 DEF SamePlace, segVars, SignalForInsert, SendProcSignal
<1>8. CASE RelockForInsert(p)
  BY <1>8 DEF SamePlace, segVars, RelockForInsert, AcquireWriteLock
<1>9. CASE WriteBuffer(p)
  BY <1>9 DEF SamePlace, segVars, WriteBuffer
<1>10. CASE PublishMaxMsgNum(p)
  BY <1>10 DEF Moves
<1>11. CASE SetHasMessages(p)
  <2>1. \A t \in Slots : SamePlace(t)
    BY <1>11, <1>0, SetEffect
  <2> QED
    BY <1>11, <2>1 DEF SetHasMessages
<1>12. CASE EndBatch(p)
  BY <1>12 DEF SamePlace, segVars, EndBatch
<1>13. CASE AcceptInvalidationMessages(p)
  BY <1>13 DEF SamePlace, segVars, AcceptInvalidationMessages, EnterReceive
<1>14. CASE ProcessCatchupInterrupt(p)
  BY <1>14 DEF SamePlace, segVars, ProcessCatchupInterrupt, EnterReceive
<1>15. CASE Recurse(p)
  BY <1>15 DEF SamePlace, segVars, Recurse, EnterReceive
<1>16. CASE CallbackReturns(p)
  BY <1>16 DEF SamePlace, segVars, CallbackReturns
<1>17. CASE CallbackError(p)
  BY <1>17 DEF SamePlace, segVars, CallbackError
<1>18. CASE Invalidate(p)
  BY <1>18 DEF SamePlace, segVars, Invalidate, NextMessage
<1>19. CASE LoopAgain(p)
  BY <1>19 DEF SamePlace, segVars, LoopAgain, SetLoc
<1>20. CASE LoopEnds(p)
  BY <1>20 DEF SamePlace, segVars, LoopEnds
<1>21. CASE TestHasMessages(p)
  BY <1>21 DEF SamePlace, segVars, TestHasMessages
<1>22. CASE AcquireReadLock(p)
  <2>1. \A t \in Slots : SamePlace(t)
    BY <1>22, <1>0, ClearEffect
  <2> QED
    BY <1>22, <2>1 DEF AcquireReadLock
<1>23. CASE FetchMaxMsgNum(p)
  BY <1>23 DEF SamePlace, segVars, FetchMaxMsgNum
<1>24. CASE ReadReset(p)
  BY <1>24 DEF Moves
<1>25. CASE ReadOne(p)
  BY <1>25 DEF Moves
<1>26. CASE ReadEnd(p)
  <2>1. \A t \in Slots : SamePlace(t)
    BY <1>26, <1>0, EndEffect
  <2> QED
    BY <1>26, <2>1 DEF ReadEnd, UpdateMyState
<1>27. CASE PassOnCatchup(p)
  BY <1>27 DEF SamePlace, segVars, PassOnCatchup
<1>28. CASE NoCatchup(p)
  BY <1>28 DEF SamePlace, segVars, NoCatchup, ReturnFromReceive
<1>29. CASE LockForCleanup(p)
  BY <1>29 DEF SamePlace, segVars, LockForCleanup, AcquireWriteLock
<1>30. CASE CleanupAfterCatchup(p)
  BY <1>30 DEF Moves
<1>31. CASE SignalAfterCatchup(p)
  BY <1>31 DEF SamePlace, segVars, SignalAfterCatchup, SendProcSignal, ReturnFromReceive
<1>32. CASE HandleCatchupInterrupt(p)
  BY <1>32 DEF SamePlace, segVars, HandleCatchupInterrupt
<1> QED
  BY <1>1, <1>2, <1>3, <1>4, <1>5, <1>6, <1>7, <1>8, <1>9, <1>10, <1>11, <1>12, <1>13, <1>14,
     <1>15, <1>16, <1>17, <1>18, <1>19, <1>20, <1>21, <1>22, <1>23, <1>24, <1>25, <1>26, <1>27,
     <1>28, <1>29, <1>30, <1>31, <1>32 DEF ActionOf

(* The counters stay in order when no entry moves.                         *)
LEMMA OrderKept ==
  ASSUME TypeOK, CountersOrdered, lastBackend' = lastBackend, minMsgNum' = minMsgNum,
         maxMsgNum' = maxMsgNum, \A t \in Slots : SameOwner(t) /\ SamePlace(t)
  PROVE  CountersOrdered'
<1>1. Counted \subseteq Slots
  BY ConstantsAssumption DEF Counted, Slots, TypeOK
<1>2. 1 .. lastBackend \subseteq Slots
  BY ConstantsAssumption DEF Slots, TypeOK
<1>3. \A t \in 1 .. lastBackend :
        /\ procState'[t].procPid = procState[t].procPid
        /\ procState'[t].resetState = procState[t].resetState
        /\ procState'[t].sendOnly = procState[t].sendOnly
        /\ procState'[t].nextMsgNum = procState[t].nextMsgNum
  BY <1>2 DEF SameOwner, SamePlace
<1>4. \A t \in Counted' : t \in Counted /\ procState'[t].nextMsgNum = procState[t].nextMsgNum
  BY <1>3 DEF Counted
<1> QED
  BY <1>4 DEF CountersOrdered

(* A cleanup, for either caller.                                           *)
LEMMA Cleaning ==
  ASSUME IInv, NEW p \in Proc, CleanupForInsert(p) \/ CleanupAfterCatchup(p)
  PROVE  /\ \A q \in Proc : pc[q] \notin {"rmax", "read"}
         /\ pc[p] \in {"scheck", "rclean"} /\ writeLock = p
         /\ buffer' = buffer /\ lastBackend' = lastBackend /\ MyBackendId' = MyBackendId
         /\ nthistime' = nthistime /\ seen' = seen /\ messages' = messages
         /\ nextmsg' = nextmsg
         /\ \E m \in minMsgNum .. maxMsgNum, w \in Nat :
              /\ w <= m /\ w % MAXNUMMESSAGES = 0
              /\ minMsgNum' = m - w /\ maxMsgNum' = maxMsgNum - w /\ base' = base + w
              /\ maxMsgNum - m <= MAXNUMMESSAGES
              /\ \A t \in Slots : SameOwner(t) /\ SameFlag(t)
              /\ \A t \in Slots : t <= lastBackend =>
                   procState'[t].nextMsgNum = procState[t].nextMsgNum - w
              /\ \A t \in Slots : ~procState'[t].resetState =>
                   /\ ~procState[t].resetState
                   /\ t \in Counted => procState[t].nextMsgNum >= m
              /\ \A t \in Slots : procState'[t].resetState =>
                   \/ procState[t].resetState
                   \/ t \in Counted /\ procState[t].nextMsgNum < maxMsgNum
<1>1. TypeOK /\ CountersOrdered /\ LockInv /\ nthistime[p] \in 0 .. WRITE_QUANTUM
      /\ 0 \in 0 .. WRITE_QUANTUM
  <2>1. TypeOK /\ CountersOrdered /\ LockInv
    BY DEF IInv, CountInv
  <2>2. nthistime[p] \in 0 .. WRITE_QUANTUM
    BY <2>1 DEF TypeOK
  <2>3. 0 \in 0 .. WRITE_QUANTUM
    BY ConstantsAssumption
  <2> QED
    BY <2>1, <2>2, <2>3
<1>2. PICK f \in {nthistime[p], 0}, sig \in Slots \cup {InvalidBackendId} : CleanQueue(f, sig)
  BY DEF CleanupForInsert, CleanupAfterCatchup
<1>3. f \in 0 .. WRITE_QUANTUM
  BY <1>1
<1>4. PICK m \in minMsgNum .. maxMsgNum, w \in Nat :
              /\ w <= m /\ w % MAXNUMMESSAGES = 0
              /\ minMsgNum' = m - w /\ maxMsgNum' = maxMsgNum - w /\ base' = base + w
              /\ maxMsgNum - m + f <= MAXNUMMESSAGES
              /\ \A t \in Slots : SameOwner(t) /\ SameFlag(t)
              /\ \A t \in Slots : t <= lastBackend =>
                   procState'[t].nextMsgNum = procState[t].nextMsgNum - w
              /\ \A t \in Slots : ~procState'[t].resetState =>
                   /\ ~procState[t].resetState
                   /\ t \in Counted => procState[t].nextMsgNum >= m
              /\ \A t \in Slots : procState'[t].resetState =>
                   \/ procState[t].resetState
                   \/ t \in Counted /\ procState[t].nextMsgNum < maxMsgNum
  BY <1>1, <1>2, <1>3, CleanEffect
<1>5. maxMsgNum - m <= MAXNUMMESSAGES
  <2>1. m \in Int /\ maxMsgNum \in Int /\ f \in Nat /\ MAXNUMMESSAGES \in Int
    BY <1>1, <1>3, ConstantsAssumption DEF TypeOK
  <2> QED
    BY <1>4, <2>1
<1>6. \A q \in Proc : pc[q] \notin {"rmax", "read"}
  BY <1>1, <1>2 DEF CleanQueue, ReadersOut, LockInv
<1>7. pc[p] \in {"scheck", "rclean"}
  BY DEF CleanupForInsert, CleanupAfterCatchup
<1>8. writeLock = p
  BY <1>1, <1>7 DEF LockInv
<1>9. /\ buffer' = buffer /\ lastBackend' = lastBackend /\ MyBackendId' = MyBackendId
      /\ nthistime' = nthistime /\ seen' = seen /\ messages' = messages /\ nextmsg' = nextmsg
  BY DEF CleanupForInsert, CleanupAfterCatchup, idVars, sendVars, recvVars
<1> QED
  BY <1>4, <1>5, <1>6, <1>7, <1>8, <1>9

(* Every step keeps the counters in order.                                 *)
LEMMA OrderStep ==
  ASSUME IInv, NEW p \in Proc, ActionOf(p)
  PROVE  CountersOrdered'
<1>0. TypeOK /\ OwnInv /\ CountInv /\ CountersOrdered /\ TypeOK'
  BY TypeStep DEF IInv, CountInv
<1>1. /\ minMsgNum \in Nat /\ maxMsgNum \in Nat /\ lastBackend \in Nat /\ lastBackend' \in Nat
      /\ lastBackend <= MaxBackends /\ lastBackend' <= MaxBackends /\ MaxBackends \in Nat
      /\ MAXNUMMESSAGES \in Nat
  BY <1>0, ConstantsAssumption DEF TypeOK
<1>2. minMsgNum <= maxMsgNum /\ maxMsgNum - minMsgNum <= MAXNUMMESSAGES
  BY <1>0 DEF CountersOrdered
<1>3. \A t \in 1 .. lastBackend' : t \in Slots
  BY <1>1 DEF Slots
<1>4. \A t \in Slots : procState[t].procPid # NoProc => t \in 1 .. lastBackend
  BY <1>0, <1>1 DEF OwnInv, Slots
<1>5. ASSUME NEW t \in Slots, t \in Counted', SameOwner(t), SamePlace(t)
      PROVE  procState'[t].nextMsgNum \in minMsgNum .. maxMsgNum
  <2>1. /\ procState'[t].procPid = procState[t].procPid
        /\ procState'[t].resetState = procState[t].resetState
        /\ procState'[t].sendOnly = procState[t].sendOnly
        /\ procState'[t].nextMsgNum = procState[t].nextMsgNum
    BY <1>5 DEF SameOwner, SamePlace
  <2>2. t \in Counted
    BY <1>4, <1>5, <2>1 DEF Counted
  <2> QED
    BY <1>0, <2>1, <2>2 DEF CountersOrdered
<1>6. CASE SharedInvalBackendInit(p)
  <2>1. PICK u \in Slots :
           /\ \A t \in Slots : t # u => SameOwner(t) /\ SamePlace(t)
           /\ procState'[u].nextMsgNum = maxMsgNum
    BY <1>0, <1>6, JoinEffect
  <2>2. minMsgNum' = minMsgNum /\ maxMsgNum' = maxMsgNum
    BY <1>6 DEF SharedInvalBackendInit
  <2>3. \A t \in Counted' : procState'[t].nextMsgNum \in minMsgNum .. maxMsgNum
    <3> SUFFICES ASSUME NEW t \in Counted'
                 PROVE  procState'[t].nextMsgNum \in minMsgNum .. maxMsgNum
      OBVIOUS
    <3>1. t \in Slots
      BY <1>3 DEF Counted
    <3>2. CASE t = u
      BY <1>1, <1>2, <2>1, <3>2
    <3>3. CASE t # u
      BY <1>5, <2>1, <3>1, <3>3
    <3> QED
      BY <3>2, <3>3
  <2> QED
    BY <1>2, <2>2, <2>3 DEF CountersOrdered
<1>7. CASE CleanupInvalidationState(p)
  <2>1. /\ MyBackendId[p] \in Slots
        /\ \A t \in Slots : t # MyBackendId[p] => SameOwner(t) /\ SamePlace(t)
        /\ procState'[MyBackendId[p]].procPid = NoProc
    BY <1>0, <1>7, ExitEffect
  <2>2. minMsgNum' = minMsgNum /\ maxMsgNum' = maxMsgNum
    BY <1>7 DEF CleanupInvalidationState
  <2>3. \A t \in Counted' : procState'[t].nextMsgNum \in minMsgNum .. maxMsgNum
    <3> SUFFICES ASSUME NEW t \in Counted'
                 PROVE  procState'[t].nextMsgNum \in minMsgNum .. maxMsgNum
      OBVIOUS
    <3>1. t \in Slots /\ procState'[t].procPid # NoProc
      BY <1>3 DEF Counted
    <3> QED
      BY <1>5, <2>1, <3>1
  <2> QED
    BY <1>2, <2>2, <2>3 DEF CountersOrdered
<1>8. CASE CleanupForInsert(p) \/ CleanupAfterCatchup(p)
  <2>3. PICK m \in minMsgNum .. maxMsgNum, w \in Nat :
           /\ minMsgNum' = m - w /\ maxMsgNum' = maxMsgNum - w
           /\ maxMsgNum - m <= MAXNUMMESSAGES
           /\ \A t \in Slots : SameOwner(t)
           /\ \A t \in Slots : t <= lastBackend =>
                procState'[t].nextMsgNum = procState[t].nextMsgNum - w
           /\ \A t \in Slots : ~procState'[t].resetState =>
                /\ ~procState[t].resetState
                /\ t \in Counted => procState[t].nextMsgNum >= m
    BY <1>8, Cleaning
  <2>4. m \in Nat /\ m <= maxMsgNum
    BY <1>1
  <2>5. \A t \in Counted' : procState'[t].nextMsgNum \in m - w .. maxMsgNum - w
    <3> SUFFICES ASSUME NEW t \in Counted'
                 PROVE  procState'[t].nextMsgNum \in m - w .. maxMsgNum - w
      OBVIOUS
    <3>1. /\ t \in Slots /\ procState'[t].procPid # NoProc /\ ~procState'[t].resetState
          /\ ~procState'[t].sendOnly
      BY <1>3 DEF Counted
    <3>2. procState[t].procPid # NoProc /\ ~procState[t].resetState /\ ~procState[t].sendOnly
      BY <2>3, <3>1 DEF SameOwner
    <3>3. t \in 1 .. lastBackend
      BY <1>4, <3>1, <3>2
    <3>4. t \in Counted
      BY <3>2, <3>3 DEF Counted
    <3>5. procState[t].nextMsgNum >= m /\ procState[t].nextMsgNum \in minMsgNum .. maxMsgNum
      BY <1>0, <2>3, <3>1, <3>4 DEF CountersOrdered
    <3>6. procState'[t].nextMsgNum = procState[t].nextMsgNum - w
      BY <1>1, <2>3, <3>1, <3>3
    <3> QED
      BY <1>1, <2>4, <3>5, <3>6
  <2>6. minMsgNum' <= maxMsgNum' /\ maxMsgNum' - minMsgNum' <= MAXNUMMESSAGES
    BY <1>1, <2>3, <2>4
  <2> QED
    BY <2>3, <2>5, <2>6 DEF CountersOrdered
<1>9. CASE PublishMaxMsgNum(p)
  <2>1. /\ pc[p] = "spublish" /\ maxMsgNum' = maxMsgNum + nthistime[p]
        /\ minMsgNum' = minMsgNum /\ procState' = procState
    BY <1>9 DEF PublishMaxMsgNum
  <2>2. nthistime[p] \in Nat
    BY <1>0, ConstantsAssumption DEF TypeOK
  <2>3. maxMsgNum - minMsgNum + nthistime[p] <= MAXNUMMESSAGES
    BY <1>0, <2>1 DEF CountInv
  <2>4. \A t \in Counted' : procState'[t].nextMsgNum \in minMsgNum .. maxMsgNum + nthistime[p]
    <3> SUFFICES ASSUME NEW t \in Counted'
                 PROVE  procState'[t].nextMsgNum \in minMsgNum .. maxMsgNum + nthistime[p]
      OBVIOUS
    <3>1. t \in Slots /\ SameOwner(t) /\ SamePlace(t)
      BY <1>3, <2>1 DEF Counted, SameOwner, SamePlace
    <3>2. procState'[t].nextMsgNum \in minMsgNum .. maxMsgNum
      BY <1>5, <3>1
    <3> QED
      BY <1>1, <2>2, <3>2
  <2>5. minMsgNum' <= maxMsgNum' /\ maxMsgNum' - minMsgNum' <= MAXNUMMESSAGES
    BY <1>1, <1>2, <2>1, <2>2, <2>3
  <2> QED
    BY <2>1, <2>4, <2>5 DEF CountersOrdered
<1>10. CASE ReadReset(p) \/ ReadOne(p)
  <2> DEFINE u == MyBackendId[p]
  <2>1. minMsgNum' = minMsgNum /\ maxMsgNum' = maxMsgNum
    BY <1>10 DEF ReadReset, ReadOne, UpdateMyState
  <2>2. /\ \A t \in Slots : SameOwner(t)
        /\ \A t \in Slots : t # u => SamePlace(t)
    BY <1>0, <1>10, ResetEffect, ReadEffect
  <2>3. procState'[u].nextMsgNum \in minMsgNum .. maxMsgNum
    <3>1. CASE ReadReset(p)
      <4>1. procState'[u].nextMsgNum = max[p] /\ pc[p] = "read"
        BY <1>0, <3>1, ResetEffect DEF ReadReset
      <4>2. max[p] \in Nat /\ minMsgNum <= max[p] /\ max[p] <= maxMsgNum
        BY <1>0, <4>1 DEF CountInv, TypeOK
      <4> QED
        BY <1>1, <4>1, <4>2
    <3>2. CASE ReadOne(p)
      <4>1. procState'[u].nextMsgNum = procState[u].nextMsgNum + 1
        BY <1>0, <3>2, ReadEffect
      <4>2. procState[u].nextMsgNum \in minMsgNum .. maxMsgNum - 1
        BY <3>2, ReadFact DEF MyState
      <4> QED
        BY <1>1, <4>1, <4>2
    <3> QED
      BY <1>10, <3>1, <3>2
  <2>4. \A t \in Counted' : procState'[t].nextMsgNum \in minMsgNum .. maxMsgNum
    <3> SUFFICES ASSUME NEW t \in Counted'
                 PROVE  procState'[t].nextMsgNum \in minMsgNum .. maxMsgNum
      OBVIOUS
    <3>1. t \in Slots
      BY <1>3 DEF Counted
    <3>2. CASE t = u
      BY <2>3, <3>2
    <3>3. CASE t # u
      BY <1>5, <2>2, <3>1, <3>3
    <3> QED
      BY <3>2, <3>3
  <2> QED
    BY <1>2, <2>1, <2>4 DEF CountersOrdered
<1>11. CASE ~Moves(p)
  BY <1>0, <1>11, MovesFrame, OrderKept
<1> QED
  BY <1>6, <1>7, <1>8, <1>9, <1>10, <1>11 DEF Moves

(* Every step keeps the counters in order, also those that are read and    *)
(* written without SInvalReadLock.                                         *)
LEMMA CountStep ==
  ASSUME IInv, NEW p \in Proc, ActionOf(p)
  PROVE  CountInv'
<1>0. TypeOK /\ OwnInv /\ LockInv /\ CountInv /\ CountersOrdered /\ CountersOrdered'
  BY OrderStep DEF IInv, CountInv
<1>1. /\ minMsgNum \in Nat /\ maxMsgNum \in Nat /\ MAXNUMMESSAGES \in Nat
      /\ \A q \in Proc : nthistime[q] \in Nat /\ max[q] \in Nat
      /\ pc \in [Proc -> Pcs] /\ max \in [Proc -> Nat]
  <2>1. /\ minMsgNum \in Nat /\ maxMsgNum \in Nat /\ pc \in [Proc -> Pcs]
        /\ max \in [Proc -> Nat] /\ nthistime \in [Proc -> 0 .. WRITE_QUANTUM]
    BY <1>0 DEF TypeOK
  <2>2. 0 .. WRITE_QUANTUM \subseteq Nat
    OBVIOUS
  <2> QED
    BY <2>1, <2>2, ConstantsAssumption
<1>2. \A q \in Proc : q # p => pc'[q] = pc[q] /\ nthistime'[q] = nthistime[q] /\ max'[q] = max[q]
  BY <1>0, PrivateFrame
<1>3. SUFFICES ASSUME NEW q \in Proc
               PROVE  /\ pc'[q] = "spublish" =>
                           maxMsgNum' - minMsgNum' + nthistime'[q] <= MAXNUMMESSAGES
                      /\ pc'[q] = "sflag" => nthistime'[q] <= maxMsgNum'
                      /\ pc'[q] = "read" => minMsgNum' <= max'[q] /\ max'[q] <= maxMsgNum'
  BY <1>0 DEF CountInv
<1>4. CASE q # p
  <2>1. CASE CleanupForInsert(p) \/ CleanupAfterCatchup(p)
    <3>1. pc[q] \notin {"rmax", "read"} /\ writeLock = p
      BY <2>1, Cleaning
    <3>2. pc[q] \notin {"spublish", "sflag"}
      BY <1>0, <1>4, <3>1 DEF LockInv
    <3> QED
      BY <1>2, <1>4, <3>1, <3>2
  <2>2. CASE PublishMaxMsgNum(p)
    <3>1. pc[p] = "spublish" /\ maxMsgNum' = maxMsgNum + nthistime[p] /\ minMsgNum' = minMsgNum
      BY <2>2 DEF PublishMaxMsgNum
    <3>2. pc[q] \notin {"spublish", "sflag"}
      BY <1>0, <1>4, <3>1 DEF LockInv
    <3>3. pc[q] = "read" => minMsgNum <= max[q] /\ max[q] <= maxMsgNum
      BY <1>0 DEF CountInv
    <3> QED
      BY <1>1, <1>2, <1>4, <3>1, <3>2, <3>3
  <2>3. CASE SharedInvalBackendInit(p) \/ CleanupInvalidationState(p) \/ ReadReset(p) \/ ReadOne(p)
    <3>1. minMsgNum' = minMsgNum /\ maxMsgNum' = maxMsgNum
      BY <2>3 DEF SharedInvalBackendInit, CleanupInvalidationState, ReadReset, ReadOne,
         UpdateMyState
    <3> QED
      BY <1>0, <1>2, <1>4, <3>1 DEF CountInv
  <2>4. CASE ~Moves(p)
    <3>1. minMsgNum' = minMsgNum /\ maxMsgNum' = maxMsgNum
      BY <2>4, MovesFrame
    <3> QED
      BY <1>0, <1>2, <1>4, <3>1 DEF CountInv
  <2> QED
    BY <2>1, <2>2, <2>3, <2>4 DEF Moves
<1>5. CASE q = p
  <2>1. CASE WriteBuffer(p)
    <3>1. /\ maxMsgNum' = maxMsgNum /\ minMsgNum' = minMsgNum /\ nthistime' = nthistime
          /\ pc'[p] = "spublish"
      BY <1>1, <2>1 DEF WriteBuffer, Go, sendVars
    <3>2. maxMsgNum - minMsgNum + nthistime[p] <= MAXNUMMESSAGES
      BY <1>0, <2>1, WriteEffect
    <3> QED
      BY <1>5, <3>1, <3>2
  <2>2. CASE PublishMaxMsgNum(p)
    <3>1. /\ maxMsgNum' = maxMsgNum + nthistime[p] /\ nthistime' = nthistime /\ pc'[p] = "sflag"
      BY <1>1, <2>2 DEF PublishMaxMsgNum, Go
    <3> QED
      BY <1>1, <1>5, <3>1
  <2>3. CASE SetHasMessages(p)
    <3>1. /\ maxMsgNum' = maxMsgNum /\ nthistime' = nthistime /\ pc' = pc /\ pc[p] = "sflag"
      BY <2>3 DEF SetHasMessages
    <3> QED
      BY <1>0, <1>5, <3>1 DEF CountInv
  <2>4. CASE FetchMaxMsgNum(p)
    <3>1. /\ minMsgNum' = minMsgNum /\ maxMsgNum' = maxMsgNum /\ max'[p] = maxMsgNum
          /\ pc'[p] = "read"
      BY <1>1, <2>4 DEF FetchMaxMsgNum, Go, segVars
    <3> QED
      BY <1>0, <1>1, <1>5, <3>1 DEF CountersOrdered
  <2>5. CASE ReadOne(p)
    <3>1. /\ minMsgNum' = minMsgNum /\ maxMsgNum' = maxMsgNum /\ max' = max
          /\ pc' = pc /\ pc[p] = "read"
      BY <2>5 DEF ReadOne, UpdateMyState
    <3> QED
      BY <1>0, <1>5, <3>1 DEF CountInv
  <2>6. CASE HandleCatchupInterrupt(p)
    <3>1. /\ minMsgNum' = minMsgNum /\ maxMsgNum' = maxMsgNum /\ max' = max
          /\ pc' = pc /\ nthistime' = nthistime
      BY <2>6 DEF HandleCatchupInterrupt, segVars, recvVars, sendVars
    <3> QED
      BY <1>0, <1>5, <3>1 DEF CountInv
  <2>7. CASE /\ ~WriteBuffer(p) /\ ~PublishMaxMsgNum(p) /\ ~SetHasMessages(p)
             /\ ~FetchMaxMsgNum(p) /\ ~ReadOne(p) /\ ~HandleCatchupInterrupt(p)
    <3>1. pc'[p] \notin {"spublish", "sflag", "read"}
      BY <2>7, <1>1 DEF ActionOf, SharedInvalBackendInit, CleanupInvalidationState,
         GetNextLocalTransactionId, SendSharedInvalidMessages, LockForInsert, RelockForInsert,
         LockForCleanup, AcquireWriteLock, CleanupForInsert, SignalForInsert,
         SignalAfterCatchup, EndBatch, AcceptInvalidationMessages, ProcessCatchupInterrupt,
         Recurse, EnterReceive, CallbackReturns, CallbackError, Invalidate, LoopAgain,
         LoopEnds, TestHasMessages, AcquireReadLock, ReadReset, ReadEnd, PassOnCatchup,
         NoCatchup, CleanupAfterCatchup, ReturnFromReceive, Go
    <3> QED
      BY <1>5, <3>1
  <2> QED
    BY <2>1, <2>2, <2>3, <2>4, <2>5, <2>6, <2>7
<1> QED
  BY <1>4, <1>5

(* Every step keeps the unread messages in the buffer.                     *)
LEMMA BufferStep ==
  ASSUME IInv, NEW p \in Proc, ActionOf(p)
  PROVE  BufferInv'
<1> DEFINE N == MAXNUMMESSAGES
<1>0. TypeOK /\ LockInv /\ CountInv /\ CountersOrdered /\ BufferInv
  BY DEF IInv, CountInv
<1>1. /\ minMsgNum \in Nat /\ maxMsgNum \in Nat /\ base \in Nat /\ N \in Nat \ {0}
      /\ pc \in [Proc -> Pcs] /\ nthistime[p] \in Nat
  <2>1. nthistime[p] \in 0 .. WRITE_QUANTUM
    BY <1>0 DEF TypeOK
  <2> QED
    BY <1>0, <2>1, ConstantsAssumption DEF TypeOK
<1>2. \A n \in minMsgNum .. maxMsgNum - 1 : buffer[n % N] = base + n
  BY <1>0 DEF BufferInv, Holds
<1>3. \A q \in Proc : q # p => pc'[q] = pc[q] /\ nthistime'[q] = nthistime[q]
  BY <1>0, PrivateFrame
<1>4. CASE CleanupForInsert(p) \/ CleanupAfterCatchup(p)
  <2>1. writeLock = p /\ pc[p] \in {"scheck", "rclean"} /\ buffer' = buffer
    BY <1>4, Cleaning
  <2>2. PICK m \in minMsgNum .. maxMsgNum, w \in Nat :
              /\ w <= m /\ w % N = 0
              /\ minMsgNum' = m - w /\ maxMsgNum' = maxMsgNum - w /\ base' = base + w
    BY <1>4, Cleaning
  <2>3. \A q \in Proc : pc'[q] # "spublish"
    <3>1. pc'[p] # "spublish"
      BY <1>1, <1>4 DEF CleanupForInsert, CleanupAfterCatchup, ReturnFromReceive, Go
    <3>2. \A q \in Proc : q # p => pc[q] # "spublish"
      BY <1>0, <2>1 DEF LockInv
    <3> QED
      BY <1>3, <3>1, <3>2
  <2>4. ASSUME NEW n \in minMsgNum' .. maxMsgNum' - 1
        PROVE  buffer'[n % N] = base' + n
    <3>1. n \in Int /\ w \in Int
      BY <1>1, <2>2
    <3> DEFINE x == n + w
    <3>2. x \in minMsgNum .. maxMsgNum - 1 /\ x \in Int /\ x - w = n /\ base + x = base' + n
      BY <1>1, <2>2
    <3> HIDE DEF x, N
    <3>3. (x - w) % N = x % N
      BY <1>1, <2>2, <3>1, <3>2, ModShift
    <3>4. buffer[x % N] = base + x
      BY <1>2, <3>2
    <3> QED
      BY <2>1, <3>2, <3>3, <3>4
  <2> QED
    BY <2>3, <2>4 DEF BufferInv, Holds
<1>5. CASE WriteBuffer(p)
  <2>1. /\ \A n \in maxMsgNum .. maxMsgNum + nthistime[p] - 1 : buffer'[n % N] = base + n
        /\ \A n \in minMsgNum .. maxMsgNum - 1 : buffer'[n % N] = buffer[n % N]
    BY <1>0, <1>5, WriteEffect
  <2>2. /\ minMsgNum' = minMsgNum /\ maxMsgNum' = maxMsgNum /\ base' = base
        /\ nthistime' = nthistime /\ pc[p] = "scheck"
    BY <1>5 DEF WriteBuffer, sendVars
  <2>3. \A q \in Proc : q # p => pc'[q] # "spublish"
    BY <1>0, <1>3, <2>2 DEF LockInv
  <2>4. \A n \in minMsgNum .. maxMsgNum - 1 : buffer'[n % N] = base + n
    BY <1>2, <2>1
  <2>5. \A n \in minMsgNum' .. maxMsgNum' - 1 : buffer'[n % N] = base' + n
    BY <2>2, <2>4
  <2>6. \A q \in Proc : pc'[q] = "spublish" =>
          \A n \in maxMsgNum' .. maxMsgNum' + nthistime'[q] - 1 : buffer'[n % N] = base' + n
    BY <2>1, <2>2, <2>3
  <2> QED
    BY <2>5, <2>6 DEF BufferInv, Holds
<1>6. CASE PublishMaxMsgNum(p)
  <2>1. /\ pc[p] = "spublish" /\ maxMsgNum' = maxMsgNum + nthistime[p] /\ minMsgNum' = minMsgNum
        /\ base' = base /\ buffer' = buffer /\ pc'[p] = "sflag"
    BY <1>1, <1>6 DEF PublishMaxMsgNum, Go
  <2>2. \A n \in maxMsgNum .. maxMsgNum + nthistime[p] - 1 : buffer[n % N] = base + n
    BY <1>0, <2>1 DEF BufferInv, Holds
  <2>3. \A n \in minMsgNum' .. maxMsgNum' - 1 :
          n \in minMsgNum .. maxMsgNum - 1 \/ n \in maxMsgNum .. maxMsgNum + nthistime[p] - 1
    BY <1>1, <2>1
  <2>4. \A n \in minMsgNum' .. maxMsgNum' - 1 : buffer'[n % N] = base' + n
    <3> HIDE DEF N
    <3> QED
      BY <1>2, <2>1, <2>2, <2>3
  <2>5. \A q \in Proc : pc'[q] # "spublish"
    BY <1>0, <1>3, <2>1 DEF LockInv
  <2> QED
    BY <2>4, <2>5 DEF BufferInv, Holds
<1>7. CASE /\ ~CleanupForInsert(p) /\ ~CleanupAfterCatchup(p)
           /\ ~WriteBuffer(p) /\ ~PublishMaxMsgNum(p)
  <2>1. /\ buffer' = buffer /\ base' = base /\ minMsgNum' = minMsgNum /\ maxMsgNum' = maxMsgNum
    BY <1>7 DEF ActionOf, SharedInvalBackendInit, CleanupInvalidationState,
         GetNextLocalTransactionId, SendSharedInvalidMessages, LockForInsert, RelockForInsert,
         LockForCleanup, AcquireWriteLock, SignalForInsert, SendProcSignal,
         SignalAfterCatchup, EndBatch, SetHasMessages, AcceptInvalidationMessages,
         ProcessCatchupInterrupt, Recurse, EnterReceive, CallbackReturns, CallbackError,
         Invalidate, LoopAgain, LoopEnds, TestHasMessages, AcquireReadLock, FetchMaxMsgNum,
         ReadReset, ReadOne, ReadEnd, UpdateMyState, PassOnCatchup, NoCatchup,
         HandleCatchupInterrupt, segVars
  <2>2. pc'[p] = "spublish" => pc[p] = "spublish" /\ nthistime' = nthistime
    BY <1>1, <1>7 DEF ActionOf, SharedInvalBackendInit, CleanupInvalidationState,
         GetNextLocalTransactionId, SendSharedInvalidMessages, LockForInsert, RelockForInsert,
         LockForCleanup, AcquireWriteLock, SignalForInsert, SendProcSignal,
         SignalAfterCatchup, EndBatch, SetHasMessages, AcceptInvalidationMessages,
         ProcessCatchupInterrupt, Recurse, EnterReceive, CallbackReturns, CallbackError,
         Invalidate, LoopAgain, LoopEnds, TestHasMessages, AcquireReadLock, FetchMaxMsgNum,
         ReadReset, ReadOne, ReadEnd, UpdateMyState, PassOnCatchup, NoCatchup,
         HandleCatchupInterrupt, ReturnFromReceive, Go, sendVars
  <2>3. \A q \in Proc : pc'[q] = "spublish" => pc[q] = "spublish" /\ nthistime'[q] = nthistime[q]
    BY <1>3, <2>2
  <2>4. \A q \in Proc : pc'[q] = "spublish" =>
          \A n \in maxMsgNum' .. maxMsgNum' + nthistime'[q] - 1 : buffer'[n % N] = base' + n
    BY <1>0, <2>1, <2>3 DEF BufferInv, Holds
  <2>5. \A n \in minMsgNum' .. maxMsgNum' - 1 : buffer'[n % N] = base' + n
    BY <1>2, <2>1
  <2> QED
    BY <2>4, <2>5 DEF BufferInv, Holds
<1> QED
  BY <1>4, <1>5, <1>6, <1>7

(* What is kept is seen as before.                                         *)
LEMMA SeenKept ==
  ASSUME NEW q \in Proc, SeenAt(q), MyBackendId'[q] = MyBackendId[q],
         messages'[q] = messages[q], nextmsg'[q] = nextmsg[q], seen'[q] = seen[q],
         ~procState'[MyBackendId[q]].resetState =>
           /\ ~procState[MyBackendId[q]].resetState
           /\ base' + procState'[MyBackendId[q]].nextMsgNum =
                base + procState[MyBackendId[q]].nextMsgNum
  PROVE  SeenAt(q)'
BY DEF SeenAt, Left, MyState

(* Every step keeps the order in which a backend gets the messages.        *)
LEMMA SeenStep ==
  ASSUME IInv, NEW p \in Proc, ActionOf(p)
  PROVE  SeenInv'
<1>0. TypeOK /\ OwnInv /\ OwnInv' /\ CountInv /\ SeenInv /\ PlaceAt(p)
  BY OwnStep DEF IInv, PlaceInv
<1>1. base \in Nat /\ procState \in [Slots -> ProcStates] /\ lastBackend \in Nat
  BY <1>0, ConstantsAssumption DEF TypeOK
<1>2. \A t \in Slots : procState[t].nextMsgNum \in Int
  BY <1>1 DEF ProcStates
<1>3. ASSUME NEW q \in Proc, Receiver(q), CleanupForInsert(p) \/ CleanupAfterCatchup(p)
      PROVE  SeenAt(q)'
  <2> DEFINE u == MyBackendId[q]
  <2>1. pc[q] \notin {"start", "exit"}
    BY <1>0, <1>3 DEF OwnInv, Receiver
  <2>2. u \in Slots /\ procState[u].procPid = q
    BY <1>0, <2>1, OwnSlot DEF MyState
  <2>3. u <= lastBackend
    BY <1>0, <2>2, ConstantsAssumption DEF OwnInv
  <2>4. PICK w \in Nat :
           /\ base' = base + w
           /\ \A t \in Slots : t <= lastBackend =>
                procState'[t].nextMsgNum = procState[t].nextMsgNum - w
           /\ \A t \in Slots : ~procState'[t].resetState => ~procState[t].resetState
    BY <1>3, Cleaning
  <2>5. base' + procState'[u].nextMsgNum = base + procState[u].nextMsgNum
    BY <1>1, <1>2, <2>2, <2>3, <2>4
  <2>6. /\ MyBackendId' = MyBackendId /\ messages' = messages /\ nextmsg' = nextmsg
        /\ seen' = seen
    BY <1>3, Cleaning
  <2>7. SeenAt(q)
    BY <1>0, <1>3 DEF SeenInv
  <2> QED
    BY <2>2, <2>4, <2>5, <2>6, <2>7, SeenKept
<1>4. ASSUME NEW q \in Proc, q # p, Receiver(q)'
      PROVE  SeenAt(q)'
  <2>1. /\ MyBackendId'[q] = MyBackendId[q]
        /\ messages'[q] = messages[q] /\ nextmsg'[q] = nextmsg[q] /\ seen'[q] = seen[q]
    BY <1>0, <1>4, PrivateFrame
  <2>2. Receiver(q)
    BY <1>4, <2>1 DEF Receiver, Attached
  <2>3. CASE CleanupForInsert(p) \/ CleanupAfterCatchup(p)
    BY <1>3, <2>2, <2>3
  <2>4. CASE ~(CleanupForInsert(p) \/ CleanupAfterCatchup(p))
    <3>1. SamePlace(MyBackendId[q]) /\ base' = base
      BY <1>4, <2>2, <2>4, EntryFrame DEF Receiver
    <3>2. SeenAt(q)
      BY <1>0, <2>2 DEF SeenInv
    <3> QED
      BY <2>1, <3>1, <3>2, SeenKept DEF SamePlace
  <2> QED
    BY <2>3, <2>4
<1>5. ASSUME Receiver(p)'
      PROVE  SeenAt(p)'
  <2> DEFINE u == MyBackendId[p]
  <2>0. /\ messages[p] \in Seq(Nat) /\ nextmsg[p] \in Nat /\ Len(messages[p]) \in Nat
        /\ messages \in [Proc -> Seq(Nat)] /\ nextmsg \in [Proc -> Nat]
        /\ seen \in [Proc -> Nat] /\ seen[p] \in Nat /\ max[p] \in Nat /\ maxMsgNum \in Nat
        /\ MyBackendId \in [Proc -> Slots \cup {InvalidBackendId}]
    BY <1>0 DEF TypeOK
  <2>1. nextmsg[p] <= Len(messages[p])
    BY <1>0 DEF PlaceAt
  <2>2. CASE SharedInvalBackendInit(p)
    <3>1. PICK v \in Slots :
             /\ MyBackendId' = [MyBackendId EXCEPT ![p] = v]
             /\ procState'[v].nextMsgNum = maxMsgNum
      BY <1>0, <2>2, JoinEffect
    <3>2. /\ pc[p] = "start" /\ base' = base /\ messages' = messages /\ nextmsg' = nextmsg
          /\ seen'[p] = base + maxMsgNum
      BY <2>0, <2>2 DEF SharedInvalBackendInit, recvVars
    <3>3. messages[p] = << >> /\ nextmsg[p] = 0
      BY <1>0, <2>0, <3>2 DEF PlaceAt
    <3>4. Left(p)' = 0
      BY <3>2, <3>3 DEF Left
    <3>5. MyBackendId'[p] = v
      BY <2>0, <3>1
    <3>6. base' + procState'[v].nextMsgNum = seen'[p] + Left(p)'
      BY <1>1, <2>0, <3>1, <3>2, <3>4
    <3>7. 1 .. Left(p)' = {}
      BY <3>4
    <3> QED
      BY <3>5, <3>6, <3>7 DEF SeenAt, MyState
  <2>3. CASE CleanupInvalidationState(p)
    <3>1. MyBackendId'[p] = InvalidBackendId
      BY <2>0, <2>3 DEF CleanupInvalidationState
    <3> QED
      BY <1>5, <3>1 DEF Receiver, Attached
  <2>4. CASE CleanupForInsert(p) \/ CleanupAfterCatchup(p)
    <3>1. Receiver(p)
      BY <1>5, <2>4, Cleaning DEF Receiver, Attached
    <3> QED
      BY <1>3, <2>4, <3>1
  <2>5. CASE Invalidate(p)
    <3>1. /\ nextmsg'[p] = nextmsg[p] + 1 /\ messages' = messages /\ procState' = procState
          /\ base' = base /\ MyBackendId' = MyBackendId
          /\ seen'[p] = messages[p][nextmsg[p] + 1] + 1 /\ nextmsg[p] < Len(messages[p])
      BY <2>0, <2>5 DEF Invalidate, NextMessage, segVars, idVars
    <3>2. SeenAt(p)
      BY <1>0, <1>5, <3>1 DEF SeenInv, Receiver, Attached
    <3>3. Left(p) \in Nat /\ Left(p) >= 1 /\ Left(p)' = Left(p) - 1
      BY <2>0, <3>1 DEF Left
    <3>4. messages[p][nextmsg[p] + 1] = seen[p] + 1 - 1
      BY <3>2, <3>3 DEF SeenAt
    <3>5. seen'[p] = seen[p] + 1
      BY <2>0, <3>1, <3>4
    <3>6. ASSUME NEW i \in 1 .. Left(p)'
          PROVE  messages'[p][nextmsg'[p] + i] = seen'[p] + i - 1
      <4>1. i + 1 \in 1 .. Left(p) /\ i \in Int
        BY <3>3
      <4>2. messages[p][nextmsg[p] + (i + 1)] = seen[p] + (i + 1) - 1
        BY <3>2, <4>1 DEF SeenAt
      <4>3. nextmsg[p] + (i + 1) = nextmsg'[p] + i /\ seen[p] + (i + 1) - 1 = seen'[p] + i - 1
        <5>1. nextmsg'[p] = nextmsg[p] + 1 /\ nextmsg[p] \in Nat /\ seen[p] \in Nat
          BY <2>0, <3>1
        <5> QED
          BY <3>5, <4>1, <5>1
      <4> QED
        BY <3>1, <4>2, <4>3
    <3>7. seen'[p] + Left(p)' = seen[p] + Left(p)
      BY <2>0, <3>3, <3>5
    <3>8. ~procState'[u].resetState => base' + procState'[u].nextMsgNum = seen'[p] + Left(p)'
      BY <3>1, <3>2, <3>7 DEF SeenAt, MyState
    <3> QED
      BY <3>1, <3>6, <3>8 DEF SeenAt, MyState
  <2>6. CASE LoopAgain(p)
    <3>1. /\ nextmsg'[p] = 0 /\ messages'[p] = << >> /\ procState' = procState
          /\ base' = base /\ MyBackendId' = MyBackendId /\ seen' = seen
          /\ nextmsg[p] >= Len(messages[p])
      BY <2>0, <2>6 DEF LoopAgain, segVars, idVars
    <3>2. SeenAt(p)
      BY <1>0, <1>5, <3>1 DEF SeenInv, Receiver, Attached
    <3>3. Left(p) = 0
      BY <2>0, <2>1, <3>1 DEF Left
    <3>4. Left(p)' = 0
      BY <3>1 DEF Left
    <3>5. 1 .. Left(p)' = {}
      BY <3>4
    <3> QED
      BY <3>1, <3>2, <3>3, <3>4, <3>5 DEF SeenAt, MyState
  <2>7. CASE ReadReset(p)
    <3>1. /\ procState'[u].nextMsgNum = max[p]
      BY <1>0, <2>7, ResetEffect
    <3>2. /\ nextmsg' = nextmsg /\ messages' = messages /\ base' = base
          /\ MyBackendId' = MyBackendId /\ seen'[p] = base + max[p]
          /\ pc[p] = "read" /\ MyState(p).resetState
      BY <2>0, <2>7 DEF ReadReset, UpdateMyState, idVars
    <3>3. messages[p] = << >> /\ nextmsg[p] = 0
      BY <1>0, <3>2 DEF PlaceAt
    <3>4. Left(p)' = 0
      BY <3>2, <3>3 DEF Left
    <3>5. 1 .. Left(p)' = {}
      BY <3>4
    <3>6. base' + procState'[u].nextMsgNum = seen'[p] + Left(p)'
      BY <1>1, <2>0, <3>1, <3>2, <3>4
    <3> QED
      BY <3>2, <3>5, <3>6 DEF SeenAt, MyState
  <2>8. CASE ReadOne(p)
    <3> DEFINE n == procState[u].nextMsgNum
               c == buffer[n % MAXNUMMESSAGES]
    <3>1. procState'[u].nextMsgNum = n + 1
      BY <1>0, <2>8, ReadEffect
    <3>2. /\ nextmsg' = nextmsg /\ base' = base /\ MyBackendId' = MyBackendId /\ seen' = seen
          /\ pc[p] = "read" /\ ~procState[u].resetState
      BY <2>8 DEF ReadOne, UpdateMyState, idVars, MyState
    <3>3. messages'[p] = Append(messages[p], c)
      BY <2>0, <2>8 DEF ReadOne, MyState
    <3>4. n \in minMsgNum .. maxMsgNum - 1 /\ c = base + n
      BY <2>8, ReadFact DEF MyState
    <3>5. nextmsg[p] = 0
      BY <1>0, <3>2 DEF PlaceAt
    <3>6. SeenAt(p)
      BY <1>0, <1>5, <3>2 DEF SeenInv, Receiver, Attached
    <3>7. n \in Int
      <4>1. minMsgNum \in Int /\ maxMsgNum \in Int
        BY <1>0 DEF TypeOK
      <4> HIDE DEF n
      <4> QED
        BY <3>4, <4>1
    <3>8. base + n = seen[p] + Len(messages[p])
      <4>1. base + n = seen[p] + Left(p)
        BY <3>2, <3>6 DEF SeenAt, MyState
      <4> HIDE DEF n
      <4> QED
        BY <2>0, <3>5, <4>1 DEF Left
    <3> HIDE DEF n, c
    <3>9. Len(messages'[p]) = Len(messages[p]) + 1
          /\ messages'[p][Len(messages[p]) + 1] = c
          /\ \A i \in 1 .. Len(messages[p]) : messages'[p][i] = messages[p][i]
      BY <2>0, <3>3
    <3>10. ASSUME NEW i \in 1 .. Len(messages[p]) + 1
           PROVE  messages'[p][i] = seen[p] + i - 1
      <4>1. CASE i = Len(messages[p]) + 1
        <5>1. messages'[p][i] = seen[p] + Len(messages[p])
          BY <3>4, <3>8, <3>9, <4>1
        <5> QED
          BY <2>0, <4>1, <5>1
      <4>2. CASE i # Len(messages[p]) + 1
        <5>1. i \in 1 .. Len(messages[p]) /\ i \in Int
          BY <2>0, <4>2
        <5>2. i \in 1 .. Left(p) /\ nextmsg[p] + i = i
          BY <2>0, <3>5, <5>1 DEF Left
        <5>3. messages[p][i] = seen[p] + i - 1
          BY <3>6, <5>2 DEF SeenAt
        <5> QED
          BY <3>9, <5>1, <5>3
      <4> QED
        BY <4>1, <4>2
    <3>11. Left(p)' = Len(messages[p]) + 1
      BY <2>0, <3>2, <3>5, <3>9 DEF Left
    <3>12. \A i \in 1 .. Left(p)' : messages'[p][nextmsg'[p] + i] = seen'[p] + i - 1
      <4> SUFFICES ASSUME NEW i \in 1 .. Left(p)'
                   PROVE  messages'[p][nextmsg'[p] + i] = seen'[p] + i - 1
        OBVIOUS
      <4>1. i \in 1 .. Len(messages[p]) + 1
        BY <3>11
      <4>2. nextmsg'[p] + i = i
        BY <2>0, <3>2, <3>5, <4>1
      <4> QED
        BY <3>2, <3>10, <4>1, <4>2
    <3>13. base' + procState'[u].nextMsgNum = seen'[p] + Left(p)'
      <4>1. base \in Nat /\ seen[p] \in Nat /\ Len(messages[p]) \in Nat
        BY <1>1, <2>0
      <4>2. base + (n + 1) = seen[p] + (Len(messages[p]) + 1)
        BY <3>7, <3>8, <4>1
      <4> QED
        BY <3>1, <3>2, <3>11, <4>2
    <3> QED
      BY <3>2, <3>12, <3>13 DEF SeenAt, MyState
  <2>9. CASE /\ ~Moves(p) /\ ~Invalidate(p) /\ ~LoopAgain(p)
    <3>1. messages' = messages /\ nextmsg' = nextmsg /\ seen' = seen
      BY <2>9 DEF ActionOf, Moves, GetNextLocalTransactionId, SendSharedInvalidMessages,
         LockForInsert, RelockForInsert,
       LockForCleanup, AcquireWriteLock, SignalForInsert, SendProcSignal, SignalAfterCatchup,
       WriteBuffer, PublishMaxMsgNum, EndBatch, SetHasMessages, AcceptInvalidationMessages,
       ProcessCatchupInterrupt, Recurse, EnterReceive, CallbackReturns, CallbackError,
       LoopEnds, TestHasMessages, AcquireReadLock, FetchMaxMsgNum,
       ReadEnd, UpdateMyState, PassOnCatchup, NoCatchup,
       HandleCatchupInterrupt, recvVars
    <3>2. base' = base /\ MyBackendId' = MyBackendId /\ \A t \in Slots : SamePlace(t)
      BY <2>9, MovesFrame
    <3>3. Receiver(p) /\ u \in Slots
      BY <1>5, <2>0, <3>2 DEF Receiver, Attached
    <3>4. SeenAt(p)
      BY <1>0, <3>3 DEF SeenInv
    <3> QED
      BY <3>1, <3>2, <3>3, <3>4, SeenKept DEF SamePlace
  <2>10. CASE PublishMaxMsgNum(p)
    <3>1. /\ messages' = messages /\ nextmsg' = nextmsg /\ seen' = seen /\ base' = base
          /\ MyBackendId' = MyBackendId /\ procState' = procState
      BY <2>10 DEF PublishMaxMsgNum, recvVars, idVars
    <3>2. SeenAt(p)
      BY <1>0, <1>5, <3>1 DEF SeenInv, Receiver, Attached
    <3> QED
      BY <3>1, <3>2, SeenKept
  <2> QED
    BY <2>2, <2>3, <2>4, <2>5, <2>6, <2>7, <2>8, <2>9, <2>10 DEF Moves
<1> QED
  BY <1>4, <1>5 DEF SeenInv

(* The holder of SInvalWriteLock is setting flags.                         *)
Flagging == writeLock # NoProc /\ pc[writeLock] = "sflag"

(* The messages sent, for all and for one entry.                           *)
LEMMA SentBounds ==
  ASSUME TypeOK, CountInv, NEW u \in Int
  PROVE  /\ Sent \in Nat /\ SentFor(u) \in Nat
         /\ Sent <= SentFor(u) /\ SentFor(u) <= base + maxMsgNum
<1>1. base \in Nat /\ maxMsgNum \in Nat
  BY DEF TypeOK
<1>2. CASE Flagging
  <2>1. writeLock \in Proc
    BY <1>2 DEF TypeOK, Flagging
  <2>2. nthistime[writeLock] \in 0 .. WRITE_QUANTUM /\ nthistime[writeLock] <= maxMsgNum
    BY <1>2, <2>1 DEF TypeOK, CountInv, Flagging
  <2>3. nthistime[writeLock] \in Nat
    BY <2>2
  <2>4. Sent = base + maxMsgNum - nthistime[writeLock]
    BY <1>2 DEF Sent, Flagging
  <2>5. SentFor(u) = Sent \/ SentFor(u) = base + maxMsgNum
    BY <1>1, <1>2, <2>4 DEF SentFor, Flagging
  <2> QED
    BY <1>1, <2>2, <2>3, <2>4, <2>5
<1>3. CASE ~Flagging
  <2>1. Sent = base + maxMsgNum /\ SentFor(u) = base + maxMsgNum
    BY <1>1, <1>3 DEF Sent, SentFor, Flagging
  <2> QED
    BY <1>1, <2>1
<1> QED
  BY <1>2, <1>3

(* Only the sender itself begins, pursues and ends the setting of flags.   *)
LEMMA FlaggingFrame ==
  ASSUME IInv, NEW p \in Proc, ActionOf(p),
         ~PublishMaxMsgNum(p), ~SetHasMessages(p), ~EndBatch(p)
  PROVE  /\ Flagging' <=> Flagging
         /\ Flagging => /\ writeLock' = writeLock
                        /\ nthistime'[writeLock] = nthistime[writeLock]
                        /\ flagged'[writeLock] = flagged[writeLock]
         /\ base' + maxMsgNum' = base + maxMsgNum
<1>0. TypeOK /\ LockInv /\ LockInv' /\ pc \in [Proc -> Pcs] /\ NoProc \notin Proc
      /\ TypeOK' /\ base \in Nat /\ maxMsgNum \in Nat
  BY LockStep, TypeStep, ConstantsAssumption DEF IInv, TypeOK
<1>1. \A q \in Proc : q # p =>
        pc'[q] = pc[q] /\ nthistime'[q] = nthistime[q] /\ flagged'[q] = flagged[q]
  BY <1>0, PrivateFrame
<1>2. base' + maxMsgNum' = base + maxMsgNum
  <2>1. CASE CleanupForInsert(p) \/ CleanupAfterCatchup(p)
    <3>1. PICK w \in Nat : maxMsgNum' = maxMsgNum - w /\ base' = base + w
      BY <2>1, Cleaning
    <3> QED
      BY <1>0, <3>1
  <2>2. CASE SharedInvalBackendInit(p) \/ CleanupInvalidationState(p) \/ ReadReset(p) \/ ReadOne(p)
    BY <2>2 DEF SharedInvalBackendInit, CleanupInvalidationState, ReadReset, ReadOne,
       UpdateMyState
  <2>3. CASE ~Moves(p)
    BY <2>3, MovesFrame
  <2> QED
    BY <2>1, <2>2, <2>3 DEF Moves
<1>3. \/ pc'[p] # "sflag" /\ pc[p] # "sflag"
      \/ pc'[p] = pc[p] /\ nthistime' = nthistime /\ flagged' = flagged
  BY <1>0 DEF ActionOf, SharedInvalBackendInit, CleanupInvalidationState,
     GetNextLocalTransactionId, SendSharedInvalidMessages, LockForInsert, RelockForInsert,
     LockForCleanup, AcquireWriteLock, SignalForInsert, SendProcSignal,
     SignalAfterCatchup, AcceptInvalidationMessages,
     ProcessCatchupInterrupt, Recurse, EnterReceive, CallbackReturns, CallbackError,
     Invalidate, LoopAgain, LoopEnds, TestHasMessages, AcquireReadLock, FetchMaxMsgNum,
     ReadReset, ReadOne, ReadEnd, UpdateMyState, PassOnCatchup, NoCatchup,
     HandleCatchupInterrupt, WriteBuffer, CleanupForInsert, CleanupAfterCatchup,
                   ReturnFromReceive, Go, sendVars
<1>4. \A q \in Proc : pc'[q] = "sflag" <=> pc[q] = "sflag"
  BY <1>1, <1>3
<1>5. \A q \in Proc : pc[q] = "sflag" => writeLock = q /\ writeLock' = q
  BY <1>0, <1>4 DEF LockInv
<1>6. Flagging <=> \E q \in Proc : pc[q] = "sflag"
  <2>1. writeLock \in Proc \cup {NoProc}
    BY <1>0 DEF TypeOK
  <2> QED
    BY <1>0, <1>5, <2>1 DEF Flagging
<1>7. Flagging' <=> \E q \in Proc : pc'[q] = "sflag"
  <2>1. writeLock' \in Proc \cup {NoProc}
    BY <1>0 DEF TypeOK
  <2> QED
    BY <1>0, <1>4, <1>5, <2>1 DEF Flagging
<1>8. ASSUME Flagging
      PROVE  /\ writeLock' = writeLock
             /\ nthistime'[writeLock] = nthistime[writeLock]
             /\ flagged'[writeLock] = flagged[writeLock]
  <2>1. PICK q \in Proc : pc[q] = "sflag"
    BY <1>6, <1>8
  <2>2. writeLock = q /\ writeLock' = q
    BY <1>5, <2>1
  <2>3. nthistime'[q] = nthistime[q] /\ flagged'[q] = flagged[q]
    BY <1>1, <1>3, <2>1
  <2> QED
    BY <2>2, <2>3
<1> QED
  BY <1>2, <1>4, <1>6, <1>7, <1>8

(* What an entry must have been told of changes only when it is told.      *)
LEMMA SentForFrame ==
  ASSUME IInv, NEW p \in Proc, ActionOf(p), NEW u \in 1 .. lastBackend,
         ~(SetHasMessages(p) /\ u = flagged[p] + 1)
  PROVE  SentFor(u)' = SentFor(u)
<1>10. /\ TypeOK /\ LockInv /\ NoProc \notin Proc /\ base \in Nat /\ maxMsgNum \in Nat
      /\ lastBackend \in 0 .. MaxBackends /\ pc \in [Proc -> Pcs]
      /\ flagged \in [Proc -> 0 .. MaxBackends] /\ nthistime \in [Proc -> 0 .. WRITE_QUANTUM]
  BY ConstantsAssumption DEF IInv, TypeOK
<1>0. /\ TypeOK /\ LockInv /\ NoProc \notin Proc /\ base \in Nat /\ maxMsgNum \in Nat
      /\ lastBackend \in Nat /\ pc \in [Proc -> Pcs] /\ flagged \in [Proc -> 0 .. MaxBackends]
      /\ nthistime[p] \in 0 .. WRITE_QUANTUM /\ flagged[p] \in 0 .. MaxBackends
  BY <1>10
<1>1. u \in Nat /\ u > 0 /\ u <= lastBackend /\ nthistime[p] \in Nat /\ flagged[p] \in Nat
  BY <1>0
<1>2. CASE PublishMaxMsgNum(p)
  <2>1. /\ pc[p] = "spublish" /\ maxMsgNum' = maxMsgNum + nthistime[p] /\ base' = base
        /\ writeLock' = writeLock /\ nthistime' = nthistime /\ flagged'[p] = 0 /\ pc'[p] = "sflag"
    BY <1>0, <1>2 DEF PublishMaxMsgNum, Go, lockVars
  <2>2. writeLock = p /\ p # NoProc
    BY <1>0, <2>1 DEF LockInv
  <2>3. SentFor(u) = base + maxMsgNum
    BY <1>0, <2>1, <2>2 DEF SentFor
  <2>4. SentFor(u)' = base + (maxMsgNum + nthistime[p]) - nthistime[p]
    BY <1>1, <2>1, <2>2 DEF SentFor
  <2> QED
    BY <1>0, <1>1, <2>3, <2>4
<1>3. CASE SetHasMessages(p)
  <2>1. /\ pc[p] = "sflag" /\ maxMsgNum' = maxMsgNum /\ base' = base
        /\ writeLock' = writeLock /\ nthistime' = nthistime /\ flagged'[p] = flagged[p] + 1
        /\ pc' = pc
    BY <1>0, <1>3 DEF SetHasMessages, lockVars
  <2>2. writeLock = p /\ p # NoProc
    BY <1>0, <2>1 DEF LockInv
  <2>3. flagged[p] < u <=> flagged'[p] < u
    BY <1>1, <1>3, <2>1
  <2> QED
    BY <2>1, <2>2, <2>3 DEF SentFor
<1>4. CASE EndBatch(p)
  <2>1. /\ pc[p] = "sflag" /\ maxMsgNum' = maxMsgNum /\ base' = base
        /\ writeLock' = NoProc /\ flagged[p] >= lastBackend
    BY <1>0, <1>4 DEF EndBatch, segVars
  <2>2. writeLock = p /\ p # NoProc
    BY <1>0, <2>1 DEF LockInv
  <2>3. ~(flagged[p] < u)
    BY <1>0, <1>1, <2>1
  <2>4. SentFor(u) = base + maxMsgNum
    BY <1>0, <2>2, <2>3 DEF SentFor
  <2>5. SentFor(u)' = base + maxMsgNum
    BY <1>0, <2>1 DEF SentFor
  <2> QED
    BY <2>4, <2>5
<1>5. CASE ~PublishMaxMsgNum(p) /\ ~SetHasMessages(p) /\ ~EndBatch(p)
  <2>1. /\ Flagging' <=> Flagging
        /\ Flagging => /\ writeLock' = writeLock
                       /\ nthistime'[writeLock] = nthistime[writeLock]
                       /\ flagged'[writeLock] = flagged[writeLock]
        /\ base' + maxMsgNum' = base + maxMsgNum
    BY <1>5, FlaggingFrame
  <2>8. /\ TypeOK' /\ nthistime \in [Proc -> 0 .. WRITE_QUANTUM]
        /\ writeLock \in Proc \cup {NoProc}
    BY <1>0, TypeStep DEF TypeOK
  <2>9. /\ base' \in Nat /\ maxMsgNum' \in Nat /\ base \in Nat /\ maxMsgNum \in Nat
        /\ writeLock # NoProc => nthistime[writeLock] \in Nat
    BY <1>0, <2>8 DEF TypeOK
  <2>2. CASE Flagging
    <3> DEFINE d == IF flagged[writeLock] < u THEN nthistime[writeLock] ELSE 0
    <3>1. SentFor(u) = (base + maxMsgNum) - d
      BY <2>2, <2>9 DEF Flagging, SentFor
    <3>2. SentFor(u)' = (base' + maxMsgNum') - d
      BY <2>1, <2>2, <2>9 DEF Flagging, SentFor
    <3>4. d \in Int
      BY <2>2, <2>9 DEF Flagging
    <3>3. base' + maxMsgNum' = base + maxMsgNum
      BY <2>1
    <3> HIDE DEF d
    <3> QED
      BY <2>9, <3>1, <3>2, <3>3, <3>4
  <2>3. CASE ~Flagging
    <3>1. SentFor(u) = base + maxMsgNum
      BY <2>3, <2>9 DEF Flagging, SentFor
    <3>2. SentFor(u)' = base' + maxMsgNum'
      BY <2>1, <2>3, <2>9 DEF Flagging, SentFor
    <3>3. base' + maxMsgNum' = base + maxMsgNum
      BY <2>1
    <3> QED
      BY <2>9, <3>1, <3>2, <3>3
  <2> QED
    BY <2>2, <2>3
<1> QED
  BY <1>2, <1>3, <1>4, <1>5

(* The messages sent do not become fewer.                                  *)
LEMMA SentGrows ==
  ASSUME IInv, NEW p \in Proc, ActionOf(p)
  PROVE  Sent' \in Int /\ Sent <= Sent'
<1>0. /\ TypeOK /\ CountInv /\ LockInv /\ NoProc \notin Proc /\ base \in Nat /\ maxMsgNum \in Nat
      /\ pc \in [Proc -> Pcs] /\ nthistime[p] \in 0 .. WRITE_QUANTUM
  BY ConstantsAssumption DEF IInv, TypeOK
<1>1. nthistime[p] \in Nat /\ Sent \in Nat
  BY <1>0, SentNat
<1>2. CASE PublishMaxMsgNum(p)
  <2>1. /\ pc[p] = "spublish" /\ maxMsgNum' = maxMsgNum + nthistime[p] /\ base' = base
        /\ writeLock' = writeLock /\ nthistime' = nthistime /\ pc'[p] = "sflag"
    BY <1>0, <1>2 DEF PublishMaxMsgNum, Go, lockVars
  <2>2. writeLock = p /\ p # NoProc
    BY <1>0, <2>1 DEF LockInv
  <2>3. Sent = base + maxMsgNum
    BY <1>0, <2>1, <2>2 DEF Sent
  <2>4. Sent' = base + (maxMsgNum + nthistime[p]) - nthistime[p]
    BY <2>1, <2>2 DEF Sent
  <2> QED
    BY <1>0, <1>1, <2>3, <2>4
<1>3. CASE SetHasMessages(p)
  <2>1. /\ maxMsgNum' = maxMsgNum /\ base' = base
        /\ writeLock' = writeLock /\ nthistime' = nthistime /\ pc' = pc
    BY <1>3 DEF SetHasMessages, lockVars
  <2>2. Sent' = Sent
    BY <2>1 DEF Sent
  <2> QED
    BY <1>1, <2>2
<1>4. CASE EndBatch(p)
  <2>1. /\ pc[p] = "sflag" /\ maxMsgNum' = maxMsgNum /\ base' = base /\ writeLock' = NoProc
    BY <1>4 DEF EndBatch, segVars
  <2>2. writeLock = p /\ p # NoProc
    BY <1>0, <2>1 DEF LockInv
  <2>3. Sent = base + maxMsgNum - nthistime[p]
    BY <2>1, <2>2 DEF Sent
  <2>4. Sent' = base + maxMsgNum
    BY <1>0, <2>1 DEF Sent
  <2> QED
    BY <1>0, <1>1, <2>3, <2>4
<1>5. CASE ~PublishMaxMsgNum(p) /\ ~SetHasMessages(p) /\ ~EndBatch(p)
  <2>1. /\ Flagging' <=> Flagging
        /\ Flagging => /\ writeLock' = writeLock
                       /\ nthistime'[writeLock] = nthistime[writeLock]
        /\ base' + maxMsgNum' = base + maxMsgNum
    BY <1>5, FlaggingFrame
  <2>8. /\ TypeOK' /\ nthistime \in [Proc -> 0 .. WRITE_QUANTUM]
        /\ writeLock \in Proc \cup {NoProc}
    BY <1>0, TypeStep DEF TypeOK
  <2>9. /\ base' \in Nat /\ maxMsgNum' \in Nat /\ base \in Nat /\ maxMsgNum \in Nat
        /\ writeLock # NoProc => nthistime[writeLock] \in Nat
    BY <1>0, <2>8 DEF TypeOK
  <2>2. Sent' = Sent
    <3>1. CASE Flagging
      <4>1. Sent = (base + maxMsgNum) - nthistime[writeLock]
        BY <2>9, <3>1 DEF Flagging, Sent
      <4>2. Sent' = (base' + maxMsgNum') - nthistime[writeLock]
        BY <2>1, <2>9, <3>1 DEF Flagging, Sent
      <4>3. base' + maxMsgNum' = base + maxMsgNum
        BY <2>1
      <4> QED
        BY <2>9, <3>1, <4>1, <4>2, <4>3 DEF Flagging
    <3>2. CASE ~Flagging
      <4>1. Sent = base + maxMsgNum
        BY <2>9, <3>2 DEF Flagging, Sent
      <4>2. Sent' = base' + maxMsgNum'
        BY <2>1, <2>9, <3>2 DEF Flagging, Sent
      <4>3. base' + maxMsgNum' = base + maxMsgNum
        BY <2>1
      <4> QED
        BY <2>9, <4>1, <4>2, <4>3
    <3> QED
      BY <3>1, <3>2
  <2> QED
    BY <1>1, <2>2
<1> QED
  BY <1>2, <1>3, <1>4, <1>5

(* A backend that stays where it is, with its flag at most set, is told of *)
(* what it was told of before.                                             *)
LEMMA FlagKept ==
  ASSUME NEW q \in Proc, NEW u, MyBackendId[q] = u, MyBackendId'[q] = u, FlagAt(q),
         pc'[q] \in {"rmax", "read"} <=> pc[q] \in {"rmax", "read"},
         pc'[q] = "read" <=> pc[q] = "read",
         max'[q] = max[q], base' = base, SamePlace(u),
         procState[u].hasMessages => procState'[u].hasMessages,
         SentFor(u)' = SentFor(u) \/ procState'[u].hasMessages
  PROVE  FlagAt(q)'
<1>1. SentFor(MyBackendId[q])' = SentFor(u)' /\ SentFor(MyBackendId[q]) = SentFor(u)
  BY DEF SentFor
<1> QED
  BY <1>1 DEF FlagAt, MyState, SamePlace

(* Every step keeps a backend told of what was sent.                       *)
LEMMA FlagStep ==
  ASSUME IInv, NEW p \in Proc, ActionOf(p)
  PROVE  FlagInv'
<1>0. /\ TypeOK /\ OwnInv /\ LockInv /\ CountInv /\ FlagInv /\ NoProc \notin Proc
      /\ pc \in [Proc -> Pcs]
  BY ConstantsAssumption DEF IInv, TypeOK
<1>1. base \in Nat /\ procState \in [Slots -> ProcStates] /\ maxMsgNum \in Nat
  BY <1>0 DEF TypeOK
<1>2. \A t \in Slots : procState[t].nextMsgNum \in Int
  BY <1>1 DEF ProcStates
<1>3. ASSUME NEW q \in Proc, Receiver(q)
      PROVE  MyBackendId[q] \in 1 .. lastBackend /\ MyBackendId[q] \in Slots
  <2>1. pc[q] \notin {"start", "exit"}
    BY <1>0, <1>3 DEF OwnInv, Receiver
  <2>2. MyBackendId[q] \in Slots /\ procState[MyBackendId[q]].procPid = q
    BY <1>0, <2>1, OwnSlot DEF MyState
  <2>3. MyBackendId[q] <= lastBackend
    BY <1>0, <2>2 DEF OwnInv
  <2>4. lastBackend \in 0 .. MaxBackends
    BY <1>0 DEF TypeOK
  <2> QED
    BY <2>2, <2>3, <2>4, ConstantsAssumption DEF Slots
<1>4. ASSUME NEW q \in Proc, Receiver(q), CleanupForInsert(p) \/ CleanupAfterCatchup(p)
      PROVE  FlagAt(q)'
  <2>1. PICK u \in 1 .. lastBackend : u \in Slots /\ u = MyBackendId[q]
    BY <1>3, <1>4
  <2>2. /\ pc[q] \notin {"rmax", "read"} /\ pc[p] \in {"scheck", "rclean"} /\ writeLock = p
        /\ MyBackendId' = MyBackendId
    BY <1>4, Cleaning
  <2>3. PICK w \in Nat :
           /\ base' = base + w
           /\ \A t \in Slots : SameFlag(t)
           /\ \A t \in Slots : t <= lastBackend =>
                procState'[t].nextMsgNum = procState[t].nextMsgNum - w
           /\ \A t \in Slots : procState'[t].resetState =>
                \/ procState[t].resetState
                \/ procState[t].nextMsgNum < maxMsgNum
    BY <1>4, Cleaning
  <2>4. base' + procState'[u].nextMsgNum = base + procState[u].nextMsgNum
    BY <1>1, <1>2, <2>1, <2>3
  <2>5. SentFor(u) = base + maxMsgNum
    BY <1>0, <1>1, <2>2 DEF SentFor
  <2>6. SentFor(u)' = SentFor(u)
    <3>1. ~SetHasMessages(p)
      BY <2>2 DEF SetHasMessages
    <3> QED
      BY <2>1, <3>1, SentForFrame
  <2>7. procState[u].resetState \/ base + procState[u].nextMsgNum < SentFor(u)
           => procState[u].hasMessages
    BY <1>0, <1>4, <2>1, <2>2 DEF FlagInv, FlagAt, MyState
  <2>8. procState'[u].resetState => procState[u].hasMessages
    BY <1>1, <1>2, <2>1, <2>3, <2>5, <2>7
  <2>9. procState'[u].resetState \/ base' + procState'[u].nextMsgNum < SentFor(u)'
           => procState'[u].hasMessages
    BY <2>1, <2>3, <2>4, <2>6, <2>7, <2>8 DEF SameFlag
  <2>10. pc'[q] # "read"
    <3>1. CASE q = p
      BY <1>0, <1>4, <3>1 DEF CleanupForInsert, CleanupAfterCatchup, ReturnFromReceive, Go
    <3>2. CASE q # p
      BY <1>0, <2>2, <3>2, PrivateFrame
    <3> QED
      BY <3>1, <3>2
  <2>11. SentFor(MyBackendId[q])' = SentFor(u)'
    BY <2>1, <2>2 DEF SentFor
  <2> QED
    BY <2>1, <2>2, <2>9, <2>10, <2>11 DEF FlagAt, MyState
<1>5. ASSUME NEW q \in Proc, q # p, Receiver(q)'
      PROVE  FlagAt(q)'
  <2>1. pc'[q] = pc[q] /\ MyBackendId'[q] = MyBackendId[q] /\ max'[q] = max[q]
    BY <1>0, <1>5, PrivateFrame
  <2>2. Receiver(q)
    BY <1>5, <2>1 DEF Receiver, Attached
  <2>3. CASE CleanupForInsert(p) \/ CleanupAfterCatchup(p)
    BY <1>4, <2>2, <2>3
  <2>4. CASE ~(CleanupForInsert(p) \/ CleanupAfterCatchup(p))
    <3>1. PICK u \in 1 .. lastBackend : u \in Slots /\ u = MyBackendId[q]
      BY <1>3, <2>2
    <3>2. /\ SamePlace(u) /\ base' = base
          /\ procState[u].hasMessages => procState'[u].hasMessages
      BY <1>5, <2>2, <2>4, <3>1, EntryFrame DEF Receiver, MyState
    <3>3. SentFor(u)' = SentFor(u) \/ procState'[u].hasMessages
      <4>1. CASE SetHasMessages(p) /\ u = flagged[p] + 1
        BY <1>0, <4>1, SetEffect
      <4>2. CASE ~(SetHasMessages(p) /\ u = flagged[p] + 1)
        BY <4>2, SentForFrame
      <4> QED
        BY <4>1, <4>2
    <3>4. FlagAt(q)
      BY <1>0, <2>2 DEF FlagInv
    <3> QED
      BY <2>1, <3>1, <3>2, <3>3, <3>4, FlagKept
  <2> QED
    BY <2>3, <2>4
<1>6. ASSUME Receiver(p)'
      PROVE  FlagAt(p)'
  <2>0. /\ MyBackendId \in [Proc -> Slots \cup {InvalidBackendId}]
        /\ max \in [Proc -> Nat] /\ max[p] \in Nat
    BY <1>0 DEF TypeOK
  <2>1. CASE SharedInvalBackendInit(p)
    <3>1. PICK v \in Slots :
             /\ MyBackendId' = [MyBackendId EXCEPT ![p] = v]
             /\ procState'[v].nextMsgNum = maxMsgNum
             /\ ~procState'[v].resetState
      BY <1>0, <2>1, JoinEffect
    <3>2. /\ pc'[p] = "idle" /\ base' = base /\ maxMsgNum' = maxMsgNum
          /\ writeLock' = NoProc
      BY <1>0, <2>1 DEF SharedInvalBackendInit, Go, lockVars
    <3>3. MyBackendId'[p] = v
      BY <2>0, <3>1
    <3>4. SentFor(MyBackendId[p])' = base + maxMsgNum
      BY <1>1, <3>2 DEF SentFor
    <3>5. ~(base' + procState'[v].nextMsgNum < SentFor(MyBackendId[p])')
      BY <1>1, <3>1, <3>2, <3>4
    <3> QED
      BY <3>1, <3>2, <3>3, <3>5 DEF FlagAt, MyState
  <2>2. CASE CleanupInvalidationState(p)
    <3>1. MyBackendId'[p] = InvalidBackendId
      BY <2>0, <2>2 DEF CleanupInvalidationState
    <3> QED
      BY <1>6, <3>1 DEF Receiver, Attached
  <2>3. CASE CleanupForInsert(p) \/ CleanupAfterCatchup(p)
    <3>1. Receiver(p)
      BY <1>6, <2>3, Cleaning DEF Receiver, Attached
    <3> QED
      BY <1>4, <2>3, <3>1
  <2>4. CASE ~SharedInvalBackendInit(p) /\ ~CleanupInvalidationState(p)
    <3>1. MyBackendId' = MyBackendId /\ \A t \in Slots : SameOwner(t)
      BY <2>4, OwnerFrame
    <3>2. Receiver(p)
      BY <1>6, <3>1 DEF Receiver, Attached
    <3>3. PICK u \in 1 .. lastBackend : u \in Slots /\ u = MyBackendId[p]
      BY <1>3, <3>2
    <3>4. FlagAt(p) /\ MyBackendId'[p] = u
      BY <1>0, <3>1, <3>2, <3>3 DEF FlagInv
    <3>5. ~(SetHasMessages(p) /\ u = flagged[p] + 1) => SentFor(u)' = SentFor(u)
      BY SentForFrame
    <3>6. SentFor(MyBackendId[p])' = SentFor(u)' /\ SentFor(MyBackendId[p]) = SentFor(u)
      BY <3>3, <3>4 DEF SentFor
    <3>7. SentFor(u) \in Nat /\ SentFor(u) <= base + maxMsgNum /\ procState[u].nextMsgNum \in Int
      BY <1>0, <1>2, <3>3, SentBounds
    <3>8. CASE SetHasMessages(p)
      <4>1. /\ \A t \in Slots : SamePlace(t)
            /\ \A t \in Slots : t # flagged[p] + 1 => SameFlag(t)
            /\ procState'[flagged[p] + 1].hasMessages
        BY <1>0, <3>8, SetEffect
      <4>2. pc' = pc /\ max' = max /\ base' = base
        BY <3>8 DEF SetHasMessages, recvVars
      <4>3. SentFor(u)' = SentFor(u) \/ procState'[u].hasMessages
        BY <3>5, <4>1
      <4>4. procState[u].hasMessages => procState'[u].hasMessages
        BY <3>3, <4>1 DEF SameFlag
      <4> QED
        BY <3>3, <3>4, <4>1, <4>2, <4>3, <4>4, FlagKept
    <3>9. CASE AcquireReadLock(p)
      <4>1. pc'[p] = "rmax"
        BY <1>0, <3>9 DEF AcquireReadLock, Go
      <4> QED
        BY <4>1 DEF FlagAt
    <3>10. CASE FetchMaxMsgNum(p)
      <4>1. pc'[p] = "read" /\ max'[p] = maxMsgNum /\ base' = base /\ pc[p] = "rmax"
        BY <1>0, <2>0, <3>10 DEF FetchMaxMsgNum, Go
      <4>2. SentFor(u)' = SentFor(u)
        BY <3>5, <4>1 DEF SetHasMessages
      <4>3. ~(base' + max'[p] < SentFor(u)')
        BY <1>1, <3>7, <4>1, <4>2
      <4> QED
        BY <3>6, <4>1, <4>3 DEF FlagAt
    <3>11. CASE ReadReset(p)
      <4>1. pc[p] = "read" /\ pc'[p] = "inval" /\ base' = base
        BY <1>0, <3>11 DEF ReadReset, Go, UpdateMyState
      <4>2. SentFor(u)' = SentFor(u)
        BY <3>5, <4>1 DEF SetHasMessages
      <4>3. /\ procState'[u].nextMsgNum = max[p] /\ ~procState'[u].resetState
            /\ SameFlag(u)
        BY <1>0, <3>3, <3>11, ResetEffect
      <4>4. base + max[p] < SentFor(u) => procState[u].hasMessages
        BY <3>3, <3>4, <3>6, <4>1 DEF FlagAt, MyState
      <4>5. base' + procState'[u].nextMsgNum < SentFor(u)' => procState'[u].hasMessages
        BY <4>1, <4>2, <4>3, <4>4 DEF SameFlag
      <4> QED
        BY <3>4, <3>6, <4>1, <4>3, <4>5 DEF FlagAt, MyState
    <3>12. CASE ReadOne(p)
      <4>1. pc[p] = "read" /\ pc' = pc /\ base' = base /\ max' = max
        BY <3>12 DEF ReadOne, UpdateMyState
      <4>2. SentFor(u)' = SentFor(u)
        BY <3>5, <4>1 DEF SetHasMessages
      <4>3. SameFlag(u)
        BY <1>0, <3>3, <3>12, ReadEffect
      <4>4. base + max[p] < SentFor(u) => procState[u].hasMessages
        BY <3>3, <3>4, <3>6, <4>1 DEF FlagAt, MyState
      <4>5. base' + max'[p] < SentFor(u)' => procState'[u].hasMessages
        BY <4>1, <4>2, <4>3, <4>4 DEF SameFlag
      <4> QED
        BY <3>4, <3>6, <4>1, <4>5 DEF FlagAt, MyState
    <3>13. CASE ReadEnd(p)
      <4>1. pc[p] = "read" /\ pc'[p] = "loop" /\ base' = base
        BY <1>0, <3>13 DEF ReadEnd, Go, UpdateMyState
      <4>2. SentFor(u)' = SentFor(u)
        BY <3>5, <4>1 DEF SetHasMessages
      <4>3. /\ SamePlace(u)
            /\ procState[u].hasMessages => procState'[u].hasMessages
            /\ procState[u].nextMsgNum < max[p] => procState'[u].hasMessages
        BY <1>0, <3>3, <3>13, EndEffect
      <4>4. base + max[p] < SentFor(u) => procState[u].hasMessages
        BY <3>3, <3>4, <3>6, <4>1 DEF FlagAt, MyState
      <4>5. ~procState[u].resetState
        BY <3>3, <3>13 DEF ReadEnd, MyState
      <4>6. base + procState[u].nextMsgNum < SentFor(u) => procState'[u].hasMessages
        BY <1>1, <2>0, <3>7, <4>3, <4>4
      <4>7. /\ ~procState'[u].resetState
            /\ base' + procState'[u].nextMsgNum < SentFor(u)' => procState'[u].hasMessages
        BY <4>1, <4>2, <4>3, <4>5, <4>6 DEF SamePlace
      <4> QED
        BY <3>4, <3>6, <4>1, <4>7 DEF FlagAt, MyState
    <3>14. CASE /\ ~CleanupForInsert(p) /\ ~CleanupAfterCatchup(p)
                /\ ~SetHasMessages(p) /\ ~AcquireReadLock(p) /\ ~FetchMaxMsgNum(p)
                /\ ~ReadReset(p) /\ ~ReadOne(p) /\ ~ReadEnd(p)
      <4>1. /\ procState' = procState /\ max' = max /\ base' = base
        BY <2>4, <3>14 DEF ActionOf, GetNextLocalTransactionId, SendSharedInvalidMessages,
           LockForInsert, RelockForInsert,
       LockForCleanup, AcquireWriteLock, SignalForInsert, SendProcSignal, SignalAfterCatchup,
       WriteBuffer, PublishMaxMsgNum, EndBatch, AcceptInvalidationMessages,
       ProcessCatchupInterrupt, Recurse, EnterReceive, CallbackReturns, CallbackError,
       Invalidate, LoopAgain, LoopEnds, TestHasMessages, PassOnCatchup, NoCatchup,
       HandleCatchupInterrupt, ReturnFromReceive, segVars, recvVars
      <4>2. \/ pc' = pc
            \/ pc[p] \notin {"rmax", "read"} /\ pc'[p] \notin {"rmax", "read"}
        BY <1>0, <2>4, <3>14 DEF ActionOf, Go, GetNextLocalTransactionId,
           SendSharedInvalidMessages, LockForInsert, RelockForInsert,
       LockForCleanup, AcquireWriteLock, SignalForInsert, SendProcSignal, SignalAfterCatchup,
       WriteBuffer, PublishMaxMsgNum, EndBatch, AcceptInvalidationMessages,
       ProcessCatchupInterrupt, Recurse, EnterReceive, CallbackReturns, CallbackError,
       Invalidate, LoopAgain, LoopEnds, TestHasMessages, PassOnCatchup, NoCatchup,
       HandleCatchupInterrupt, ReturnFromReceive
      <4>3. SentFor(u)' = SentFor(u)
        BY <3>5, <3>14
      <4>4. SamePlace(u)
        BY <4>1 DEF SamePlace
      <4> QED
        BY <3>3, <3>4, <4>1, <4>2, <4>3, <4>4, FlagKept
    <3> QED
      BY <2>3, <3>8, <3>9, <3>10, <3>11, <3>12, <3>13, <3>14
  <2> QED
    BY <2>1, <2>2, <2>4
<1> QED
  BY <1>5, <1>6 DEF FlagInv

(* Fewer calls, entered as before, and more messages sent.                 *)
LEMMA SentKept ==
  ASSUME TypeOK, NEW p \in Proc, SentAt(p), Sent \in Nat, Sent' \in Int, Sent <= Sent',
         NEW n \in Nat, n <= Len(stack[p]), Len(stack'[p]) = n,
         \A k \in 1 .. n : stack'[p][k].sent = stack[p][k].sent
  PROVE  SentAt(p)'
<1>0. stack[p] \in Seq(Calls) /\ Len(stack[p]) \in Nat
  BY DEF TypeOK
<1>1. \A k \in 1 .. Len(stack[p]) : stack[p][k] \in Calls
  BY <1>0
<1>2. \A k \in 1 .. Len(stack[p]) : stack[p][k].sent \in Nat
  BY <1>1 DEF Calls
<1>3. \A k \in 1 .. n : k \in 1 .. Len(stack[p])
  BY <1>0
<1>4. ASSUME NEW k \in 1 .. n
      PROVE  stack'[p][k].sent <= Sent'
  <2>1. stack[p][k].sent <= Sent /\ stack[p][k].sent \in Nat
    BY <1>2, <1>3 DEF SentAt
  <2>2. stack[p][k].sent <= Sent'
    BY <2>1
  <2> QED
    BY <2>2
<1>5. \A j, k \in 1 .. n : j <= k => stack'[p][j].sent <= stack'[p][k].sent
  BY <1>3 DEF SentAt
<1> QED
  BY <1>4, <1>5 DEF SentAt

(* A call that enters notes what was sent.                                 *)
LEMMA SentEnter ==
  ASSUME TypeOK, CountInv, NEW p \in Proc, SentAt(p), EnterReceive(p),
         Sent' \in Int, Sent <= Sent'
  PROVE  SentAt(p)'
<1>0. stack[p] \in Seq(Calls) /\ Len(stack[p]) \in Nat /\ Sent \in Nat
  BY SentNat DEF TypeOK
<1>1. \A k \in 1 .. Len(stack[p]) : stack[p][k] \in Calls
  BY <1>0
<1>2. \A k \in 1 .. Len(stack[p]) : stack[p][k].sent \in Nat /\ stack[p][k].sent <= Sent
  BY <1>1 DEF Calls, SentAt
<1>3. /\ Len(stack'[p]) = Len(stack[p]) + 1
      /\ stack'[p][Len(stack[p]) + 1].sent = Sent
      /\ \A k \in 1 .. Len(stack[p]) : stack'[p][k] = stack[p][k]
  BY EnterEffect
<1>4. \A k \in 1 .. Len(stack[p]) + 1 : k \in 1 .. Len(stack[p]) \/ k = Len(stack[p]) + 1
  BY <1>0
<1>5. ASSUME NEW k \in 1 .. Len(stack[p]) + 1
      PROVE  stack'[p][k].sent \in Nat /\ stack'[p][k].sent <= Sent
  <2>1. CASE k \in 1 .. Len(stack[p])
    <3>1. stack'[p][k] = stack[p][k]
      BY <1>3, <2>1
    <3> QED
      BY <1>2, <2>1, <3>1
  <2>2. CASE k = Len(stack[p]) + 1
    BY <1>0, <1>3, <2>2
  <2> QED
    BY <1>4, <2>1, <2>2
<1>6. ASSUME NEW k \in 1 .. Len(stack[p]) + 1
      PROVE  stack'[p][k].sent <= Sent'
  <2>1. stack'[p][k].sent \in Nat /\ stack'[p][k].sent <= Sent
    BY <1>5
  <2> QED
    BY <1>0, <2>1
<1>7. ASSUME NEW j \in 1 .. Len(stack[p]) + 1, NEW k \in 1 .. Len(stack[p]) + 1, j <= k
      PROVE  stack'[p][j].sent <= stack'[p][k].sent
  <2>1. CASE k = Len(stack[p]) + 1
    BY <1>3, <1>5, <2>1
  <2>2. CASE k \in 1 .. Len(stack[p])
    <3>1. j \in 1 .. Len(stack[p])
      BY <1>0, <1>7, <2>2
    <3> QED
      BY <1>3, <1>7, <2>2, <3>1 DEF SentAt
  <2> QED
    BY <1>4, <2>1, <2>2
<1> QED
  BY <1>3, <1>6, <1>7 DEF SentAt

(* What the calls of a process have promised does not change when nothing  *)
(* of it does.                                                             *)
LEMMA TopKept ==
  ASSUME NEW q \in Proc, TopAt(q), pc'[q] = pc[q], stack'[q] = stack[q],
         messages'[q] = messages[q], nextmsg'[q] = nextmsg[q], seen'[q] = seen[q],
         pc[q] = "read" => max'[q] = max[q] /\ base' = base
  PROVE  TopAt(q)'
BY DEF TopAt, TopSent, Loc, Left

(* The sizes involved.                                                     *)
LEMMA TopTypes ==
  ASSUME TypeOK, PlaceInv, NEW p \in Proc, pc[p] \in Receiving
  PROVE  /\ TopSent(p) \in Nat /\ seen[p] \in Nat /\ Left(p) \in Nat
         /\ Len(stack[p]) \in Nat \ {0}
<1>1. stack[p] # << >> /\ stack[p] \in Seq(Calls) /\ nextmsg[p] <= Len(messages[p])
  BY DEF PlaceInv, PlaceAt, TypeOK
<1>2. Len(messages[p]) \in Nat /\ nextmsg[p] \in Nat /\ seen[p] \in Nat
  BY DEF TypeOK
<1>3. Len(stack[p]) \in Nat \ {0} /\ TopSent(p) \in Nat
  BY <1>1, LastCall DEF TopSent
<1> QED
  BY <1>1, <1>2, <1>3 DEF Left

(* Returning from a call that is done, an outer call is still owed nothing *)
(* that the inner one was not.                                             *)
LEMMA TopReturn ==
  ASSUME TypeOK, PlaceInv, NEW p \in Proc, pc[p] \in Tailing, SentAt(p), TopAt(p),
         ReturnFromReceive(p), seen' = seen, messages' = messages, nextmsg' = nextmsg
  PROVE  /\ Len(stack[p]) \in Nat \ {0} /\ Len(stack'[p]) = Len(stack[p]) - 1
         /\ \A k \in 1 .. Len(stack[p]) - 1 : stack'[p][k] = stack[p][k]
         /\ pc'[p] \in Receiving => TopAt(p)'
<1>0. pc[p] \in Receiving
  BY DEF Receiving
<1>1. stack[p] # << >>
  BY <1>0 DEF PlaceInv, PlaceAt
<1>2. TopSent(p) \in Nat /\ seen[p] \in Nat /\ Left(p) \in Nat /\ TopSent(p) <= seen[p]
  BY <1>0, TopTypes DEF TopAt
<1>3. /\ Len(stack[p]) \in Nat \ {0} /\ Len(stack'[p]) = Len(stack[p]) - 1
      /\ \A k \in 1 .. Len(stack[p]) - 1 : stack'[p][k] = stack[p][k]
      /\ \/ stack'[p] = << >> /\ pc'[p] = "idle"
         \/ stack'[p] # << >> /\ pc'[p] = "inval"
  BY <1>1, ReturnEffect
<1>4. ASSUME pc'[p] \in Receiving
      PROVE  TopAt(p)'
  <2>1. stack'[p] # << >> /\ pc'[p] = "inval"
    BY <1>3, <1>4 DEF Receiving, Reading, Tailing
  <2>2. Len(stack[p]) - 1 # 0
    <3>1. stack[p] \in Seq(Calls)
      BY DEF TypeOK
    <3>2. stack'[p] = SubSeq(stack[p], 1, Len(stack[p]) - 1)
      BY DEF ReturnFromReceive, TypeOK
    <3> QED
      BY <1>1, <2>1, <3>1, <3>2, StackFacts
  <2>3. /\ Len(stack[p]) - 1 \in 1 .. Len(stack[p]) - 1
        /\ Len(stack[p]) - 1 \in 1 .. Len(stack[p])
        /\ Len(stack[p]) \in 1 .. Len(stack[p]) /\ Len(stack[p]) - 1 <= Len(stack[p])
    <3> DEFINE n == Len(stack[p])
    <3>1. n \in Nat \ {0} /\ n - 1 # 0
      BY <1>3, <2>2
    <3> HIDE DEF n
    <3>2. n - 1 \in 1 .. n - 1 /\ n - 1 \in 1 .. n /\ n \in 1 .. n /\ n - 1 <= n
      BY <3>1
    <3> QED
      BY <3>2 DEF n
  <2>4. TopSent(p)' = stack[p][Len(stack[p]) - 1].sent
    BY <1>3, <2>3 DEF TopSent
  <2>5. stack[p][Len(stack[p]) - 1].sent <= TopSent(p)
    BY <2>3 DEF SentAt, TopSent
  <2>6. stack[p][Len(stack[p]) - 1].sent \in Nat
    <3>1. stack[p][Len(stack[p]) - 1] \in Calls
      BY <2>3 DEF TypeOK
    <3> QED
      BY <3>1 DEF Calls
  <2>7. TopSent(p)' <= seen[p] /\ TopSent(p)' <= seen[p] + Left(p)
    BY <1>2, <2>4, <2>5, <2>6
  <2>8. seen'[p] = seen[p] /\ Left(p)' = Left(p)
    BY DEF Left
  <2> QED
    BY <2>1, <2>7, <2>8 DEF TopAt, Tailing
<1> QED
  BY <1>3, <1>4

(* Every step keeps what the calls under way have promised.                *)
LEMMA CallStep ==
  ASSUME IInv, NEW p \in Proc, ActionOf(p)
  PROVE  CallInv'
<1>10. /\ TypeOK /\ OwnInv /\ CountInv /\ PlaceInv /\ CallInv
  BY DEF IInv
<1>11. PlaceAt(p) /\ SentAt(p)
  BY <1>10 DEF PlaceInv, CallInv
<1>12. /\ pc \in [Proc -> Pcs] /\ stack \in [Proc -> Seq(Calls)]
       /\ messages \in [Proc -> Seq(Nat)] /\ nextmsg \in [Proc -> Nat]
       /\ max \in [Proc -> Nat] /\ seen \in [Proc -> Nat] /\ base \in Nat /\ maxMsgNum \in Nat
  BY <1>10 DEF TypeOK
<1>13. stack[p] \in Seq(Calls) /\ Len(stack[p]) \in Nat
  BY <1>12
<1>0. /\ TypeOK /\ OwnInv /\ CountInv /\ PlaceInv /\ PlaceAt(p) /\ CallInv /\ SentAt(p)
      /\ pc \in [Proc -> Pcs] /\ stack \in [Proc -> Seq(Calls)]
      /\ messages \in [Proc -> Seq(Nat)] /\ nextmsg \in [Proc -> Nat]
      /\ max \in [Proc -> Nat] /\ seen \in [Proc -> Nat] /\ base \in Nat /\ maxMsgNum \in Nat
      /\ stack[p] \in Seq(Calls) /\ Len(stack[p]) \in Nat
  BY <1>10, <1>11, <1>12, <1>13
<1>1. Sent \in Nat /\ Sent <= base + maxMsgNum /\ Sent' \in Int /\ Sent <= Sent'
  BY <1>0, SentNat, SentGrows
<1>2. \A q \in Proc : SentAt(q) /\ (pc[q] \in Receiving => TopAt(q))
  BY <1>0 DEF CallInv
<1>3. ASSUME NEW q \in Proc, stack'[q] = stack[q]
      PROVE  SentAt(q)'
  <2>1. Len(stack[q]) \in Nat /\ SentAt(q)
    BY <1>0, <1>2
  <2>2. PICK n \in Nat : n = Len(stack[q])
    BY <2>1
  <2>3. n <= Len(stack[q]) /\ Len(stack'[q]) = n
    BY <1>3, <2>2
  <2>4. \A k \in 1 .. n : stack'[q][k].sent = stack[q][k].sent
    BY <1>3
  <2> QED
    BY <1>0, <1>1, <2>1, <2>3, <2>4, SentKept
<1>4. ASSUME NEW q \in Proc, q # p
      PROVE  SentAt(q)' /\ (pc'[q] \in Receiving => TopAt(q)')
  <2>1. /\ pc'[q] = pc[q] /\ stack'[q] = stack[q] /\ seen'[q] = seen[q] /\ max'[q] = max[q]
        /\ messages'[q] = messages[q] /\ nextmsg'[q] = nextmsg[q]
    BY <1>0, <1>4, PrivateFrame
  <2>2. ASSUME pc[q] = "read"
        PROVE  base' = base
    <3>1. ~(CleanupForInsert(p) \/ CleanupAfterCatchup(p))
      BY <2>2, Cleaning
    <3>2. Attached(q)
      BY <1>0, <2>2 DEF OwnInv
    <3> QED
      BY <1>4, <3>1, <3>2, EntryFrame
  <2>3. pc[q] \in Receiving => TopAt(q)'
    BY <1>2, <2>1, <2>2, TopKept
  <2> QED
    BY <1>3, <2>1, <2>3
<1>5. SentAt(p)' /\ (pc'[p] \in Receiving => TopAt(p)')
  <2>1. ASSUME EnterReceive(p)
        PROVE  SentAt(p)' /\ TopAt(p)'
    <3>1. SentAt(p)'
      BY <1>0, <1>1, <2>1, SentEnter
    <3>2. /\ Len(stack'[p]) = Len(stack[p]) + 1 /\ pc'[p] = "loop"
          /\ stack'[p][Len(stack[p]) + 1].loc = "pending"
      BY <1>0, <2>1, EnterEffect
    <3>3. Loc(p)' = "pending"
      BY <3>2 DEF Loc
    <3> QED
      BY <3>1, <3>2, <3>3 DEF TopAt, Tailing
  <2>2. ASSUME pc[p] \in Tailing, ReturnFromReceive(p), seen' = seen, messages' = messages,
               nextmsg' = nextmsg
        PROVE  SentAt(p)' /\ (pc'[p] \in Receiving => TopAt(p)')
    <3>1. TopAt(p)
      BY <1>2, <2>2 DEF Receiving
    <3>2. /\ Len(stack[p]) \in Nat \ {0} /\ Len(stack'[p]) = Len(stack[p]) - 1
          /\ \A k \in 1 .. Len(stack[p]) - 1 : stack'[p][k] = stack[p][k]
          /\ pc'[p] \in Receiving => TopAt(p)'
      BY <1>0, <2>2, <3>1, TopReturn
    <3>3. Len(stack[p]) - 1 \in Nat /\ Len(stack[p]) - 1 <= Len(stack[p])
      BY <3>2
    <3>4. \A k \in 1 .. Len(stack[p]) - 1 : stack'[p][k].sent = stack[p][k].sent
      BY <3>2
    <3>5. SentAt(p)'
      BY <1>0, <1>1, <3>2, <3>3, <3>4, SentKept
    <3> QED
      BY <3>2, <3>5
  <2>3. ASSUME stack'[p] = << >>, pc'[p] \notin Receiving
        PROVE  SentAt(p)' /\ (pc'[p] \in Receiving => TopAt(p)')
    <3>1. Len(stack'[p]) = 0
      BY <2>3
    <3>2. 1 .. Len(stack'[p]) = {}
      BY <3>1
    <3>3. SentAt(p)'
      BY <3>2 DEF SentAt
    <3> QED
      BY <2>3, <3>3
  <2>4. ASSUME NEW l \in {"batch", "reset"}, pc[p] \in Receiving, SetLoc(p, l)
        PROVE  SentAt(p)' /\ TopSent(p)' = TopSent(p) /\ Loc(p)' = l
    <3>1. stack[p] # << >>
      BY <1>0, <2>4 DEF PlaceAt
    <3>2. /\ Len(stack'[p]) = Len(stack[p]) /\ stack'[p][Len(stack[p])].loc = l
          /\ \A k \in 1 .. Len(stack[p]) : stack'[p][k].sent = stack[p][k].sent
      BY <1>0, <2>4, <3>1, LocEffect
    <3>3. Len(stack[p]) \in 1 .. Len(stack[p])
      <4>1. Len(stack[p]) \in Nat \ {0}
        BY <1>0, <3>1, LastCall
      <4> QED
        BY <4>1
    <3>4. SentAt(p)'
      <4>1. PICK n \in Nat : n = Len(stack[p])
        BY <1>0
      <4>2. n <= Len(stack[p]) /\ Len(stack'[p]) = n
        BY <3>2, <4>1
      <4>3. \A k \in 1 .. n : stack'[p][k].sent = stack[p][k].sent
        BY <3>2, <4>1
      <4> QED
        BY <1>0, <1>1, <4>2, <4>3, SentKept
    <3> QED
      BY <3>2, <3>3, <3>4 DEF TopSent, Loc
  <2>5. ASSUME stack' = stack
        PROVE  SentAt(p)' /\ TopSent(p)' = TopSent(p) /\ Loc(p)' = Loc(p)
    BY <1>3, <2>5 DEF TopSent, Loc
  <2>6. pc[p] \in Receiving =>
           /\ TopAt(p) /\ TopSent(p) \in Nat /\ seen[p] \in Nat /\ Left(p) \in Nat
           /\ Len(stack[p]) \in Nat \ {0}
    BY <1>0, <1>2, TopTypes
  <2>7. ASSUME pc[p] \in Receiving
        PROVE  /\ SeenAt(p) /\ FlagAt(p) /\ MyBackendId[p] \in Slots
               /\ MyBackendId[p] \in Int /\ MyState(p).nextMsgNum \in Int
    <3>1. pc[p] \notin {"start", "exit"} /\ p \notin SendOnly
      BY <1>0, <2>7 DEF PlaceAt, Receiving, Reading, Tailing
    <3>2. Receiver(p)
      BY <1>0, <3>1 DEF Receiver, OwnInv
    <3>3. MyBackendId[p] \in Slots /\ MyState(p) \in ProcStates
      BY <1>0, <3>1, OwnSlot
    <3> QED
      BY <3>2, <3>3, ConstantsAssumption DEF IInv, SeenInv, FlagInv, ProcStates, Slots
  <2>8. CASE AcceptInvalidationMessages(p) \/ ProcessCatchupInterrupt(p) \/ Recurse(p)
    <3>1. EnterReceive(p)
      BY <2>8 DEF AcceptInvalidationMessages, ProcessCatchupInterrupt, Recurse
    <3> QED
      BY <2>1, <3>1
  <2>9. CASE CallbackError(p) \/ CleanupInvalidationState(p)
    <3>1. stack'[p] = << >> /\ pc'[p] \in {"idle", "exit"}
      BY <1>0, <2>9 DEF CallbackError, CleanupInvalidationState, Go
    <3> QED
      BY <2>3, <3>1 DEF Receiving, Reading, Tailing
  <2>10. CASE NoCatchup(p) \/ SignalAfterCatchup(p)
    <3>1. /\ pc[p] \in {"tail", "rsignal"} /\ ReturnFromReceive(p) /\ seen' = seen
          /\ messages' = messages /\ nextmsg' = nextmsg
      BY <2>10 DEF NoCatchup, SignalAfterCatchup, SendProcSignal
    <3> QED
      BY <2>2, <3>1 DEF Tailing
  <2>11. CASE CleanupAfterCatchup(p)
    <3>1. pc[p] = "rclean" /\ seen' = seen /\ messages' = messages /\ nextmsg' = nextmsg
      BY <2>11 DEF CleanupAfterCatchup
    <3>2. ReturnFromReceive(p) \/ (stack' = stack /\ pc'[p] = "rsignal")
      BY <1>0, <2>11 DEF CleanupAfterCatchup, Go
    <3>3. CASE ReturnFromReceive(p)
      BY <2>2, <3>1, <3>3 DEF Tailing
    <3>4. CASE stack' = stack /\ pc'[p] = "rsignal"
      <4>1. TopSent(p) <= seen[p]
        BY <2>6, <3>1 DEF TopAt, Receiving, Tailing
      <4> QED
        BY <2>5, <3>1, <3>4, <4>1 DEF TopAt, Tailing
    <3> QED
      BY <3>2, <3>3, <3>4
  <2>12. CASE PassOnCatchup(p) \/ LockForCleanup(p)
    <3>1. /\ pc[p] \in {"tail", "rwlock"} /\ seen' = seen /\ stack' = stack
          /\ pc'[p] \in {"rwlock", "rclean"}
      BY <1>0, <2>12 DEF PassOnCatchup, LockForCleanup, AcquireWriteLock, Go, recvVars
    <3>2. TopSent(p) <= seen[p]
      BY <2>6, <3>1 DEF TopAt, Receiving, Tailing
    <3> QED
      BY <2>5, <3>1, <3>2 DEF TopAt, Tailing
  <2>13. CASE CallbackReturns(p)
    <3>1. /\ pc[p] = "inval" /\ pc'[p] = (IF Loc(p) = "reset" THEN "tail" ELSE "loop")
          /\ seen' = seen /\ stack' = stack /\ messages' = messages /\ nextmsg' = nextmsg
      BY <1>0, <2>13 DEF CallbackReturns, Go, recvVars
    <3>2. TopAt(p)
      BY <2>6, <3>1 DEF Receiving
    <3>3. Left(p)' = Left(p)
      BY <3>1 DEF Left
    <3>4. CASE Loc(p) = "reset"
      BY <2>5, <3>1, <3>2, <3>4 DEF TopAt, Tailing
    <3>5. CASE Loc(p) # "reset"
      BY <2>5, <3>1, <3>2, <3>3, <3>5 DEF TopAt, Tailing
    <3> QED
      BY <3>4, <3>5
  <2>14. CASE Invalidate(p)
    <3>1. /\ pc[p] = "loop" /\ pc'[p] = "inval" /\ stack' = stack /\ messages' = messages
          /\ nextmsg[p] < Len(messages[p]) /\ nextmsg'[p] = nextmsg[p] + 1
          /\ seen'[p] = messages[p][nextmsg[p] + 1] + 1
      BY <1>0, <2>14 DEF Invalidate, NextMessage, Go
    <3>2. TopAt(p) /\ seen[p] \in Nat /\ Left(p) \in Nat /\ SeenAt(p)
      BY <2>6, <2>7, <3>1 DEF Receiving
    <3>3. Len(messages[p]) \in Nat /\ nextmsg[p] \in Nat
      BY <1>0
    <3>4. 1 \in 1 .. Left(p) /\ Left(p)' = Left(p) - 1
      BY <3>1, <3>3 DEF Left
    <3>5. messages[p][nextmsg[p] + 1] = seen[p] + 1 - 1
      BY <3>2, <3>4 DEF SeenAt
    <3>6. seen'[p] + Left(p)' = seen[p] + Left(p)
      BY <3>1, <3>2, <3>4, <3>5
    <3>7. Loc(p) # "reset"
      BY <1>0, <3>1 DEF PlaceAt
    <3> QED
      BY <2>5, <3>1, <3>2, <3>6, <3>7 DEF TopAt, Tailing
  <2>15. CASE LoopAgain(p)
    <3>1. pc[p] = "loop" /\ pc'[p] = "quick" /\ SetLoc(p, "batch")
      BY <1>0, <2>15 DEF LoopAgain, Go
    <3>2. SentAt(p)'
      BY <2>4, <3>1 DEF Receiving
    <3> QED
      BY <3>1, <3>2 DEF TopAt, Tailing
  <2>16. CASE LoopEnds(p)
    <3>1. /\ pc[p] = "loop" /\ pc'[p] = "tail" /\ stack' = stack /\ seen' = seen
          /\ nextmsg[p] >= Len(messages[p]) /\ Loc(p) # "pending"
          /\ Len(messages[p]) # MAXINVALMSGS
      BY <1>0, <2>16 DEF LoopEnds, GetMore, Go, recvVars
    <3>2. /\ Loc(p) = "batch" /\ Len(messages[p]) <= MAXINVALMSGS
          /\ nextmsg[p] <= Len(messages[p])
      BY <1>0, <3>1 DEF PlaceAt
    <3>3. Len(messages[p]) \in Nat /\ nextmsg[p] \in Nat /\ MAXINVALMSGS \in Nat
      BY <1>0, ConstantsAssumption
    <3>4. Len(messages[p]) < MAXINVALMSGS /\ Left(p) = 0
      BY <3>1, <3>2, <3>3 DEF Left
    <3>5. TopAt(p) /\ TopSent(p) \in Nat /\ seen[p] \in Nat
      BY <2>6, <3>1 DEF Receiving
    <3>6. TopSent(p) <= seen[p] + Left(p)
      BY <3>1, <3>2, <3>4, <3>5 DEF TopAt
    <3>7. TopSent(p) <= seen[p]
      BY <3>4, <3>5, <3>6
    <3> QED
      BY <2>5, <3>1, <3>7 DEF TopAt, Tailing
  <2>17. CASE TestHasMessages(p)
    <3>1. /\ pc[p] = "quick" /\ stack' = stack /\ seen' = seen /\ messages' = messages
          /\ nextmsg' = nextmsg
          /\ pc'[p] = (IF MyState(p).hasMessages THEN "rlock" ELSE "loop")
      BY <1>0, <2>17 DEF TestHasMessages, Go, recvVars
    <3>2. CASE MyState(p).hasMessages
      BY <2>5, <3>1, <3>2 DEF TopAt, Tailing
    <3>3. CASE ~MyState(p).hasMessages
      <4>1. /\ SeenAt(p) /\ FlagAt(p) /\ MyBackendId[p] \in Int /\ MyState(p).nextMsgNum \in Int
            /\ TopSent(p) \in Nat /\ seen[p] \in Nat /\ Left(p) \in Nat
            /\ Len(stack[p]) \in Nat \ {0}
        BY <2>6, <2>7, <3>1 DEF Receiving, Reading
      <4>2. /\ ~MyState(p).resetState
            /\ ~(base + MyState(p).nextMsgNum < SentFor(MyBackendId[p]))
        BY <3>1, <3>3, <4>1 DEF FlagAt
      <4>3. base + MyState(p).nextMsgNum = seen[p] + Left(p)
        BY <4>1, <4>2 DEF SeenAt
      <4>4. Sent <= SentFor(MyBackendId[p]) /\ SentFor(MyBackendId[p]) \in Nat
        BY <1>0, <4>1, SentBounds
      <4>5. TopSent(p) <= Sent
        <5>1. Len(stack[p]) \in 1 .. Len(stack[p])
          BY <4>1
        <5> QED
          BY <1>0, <5>1 DEF SentAt, TopSent
      <4>6. TopSent(p) <= seen[p] + Left(p)
        BY <1>0, <1>1, <4>1, <4>2, <4>3, <4>4, <4>5
      <4>7. seen'[p] + Left(p)' = seen[p] + Left(p) /\ pc'[p] = "loop"
        BY <3>1, <3>3 DEF Left
      <4> QED
        BY <2>5, <3>1, <4>6, <4>7 DEF TopAt, Tailing
    <3> QED
      BY <3>2, <3>3
  <2>18. CASE AcquireReadLock(p)
    <3>1. pc'[p] = "rmax" /\ stack' = stack
      BY <1>0, <2>18 DEF AcquireReadLock, Go, recvVars
    <3> QED
      BY <2>5, <3>1 DEF TopAt, Tailing
  <2>19. CASE FetchMaxMsgNum(p)
    <3>1. pc[p] = "rmax" /\ pc'[p] = "read" /\ stack' = stack /\ max'[p] = maxMsgNum /\ base' = base
      BY <1>0, <2>19 DEF FetchMaxMsgNum, Go
    <3>2. TopSent(p) \in Nat /\ Len(stack[p]) \in Nat \ {0}
      BY <2>6, <3>1 DEF Receiving, Reading
    <3>3. Len(stack[p]) \in 1 .. Len(stack[p])
      BY <3>2
    <3>4. TopSent(p) <= Sent
      BY <1>0, <3>3 DEF SentAt, TopSent
    <3>5. TopSent(p) <= base + maxMsgNum
      BY <1>0, <1>1, <3>2, <3>4
    <3> QED
      BY <2>5, <3>1, <3>5 DEF TopAt, Tailing
  <2>20. CASE ReadReset(p)
    <3>1. /\ pc[p] = "read" /\ pc'[p] = "inval" /\ seen'[p] = base + max[p] /\ SetLoc(p,
                  "reset")
      BY <1>0, <2>20 DEF ReadReset, Go
    <3>2. SentAt(p)' /\ TopSent(p)' = TopSent(p) /\ Loc(p)' = "reset"
      BY <2>4, <3>1 DEF Receiving, Reading
    <3>3. TopSent(p) <= base + max[p]
      BY <2>6, <3>1 DEF Receiving, Reading, TopAt
    <3> QED
      BY <3>1, <3>2, <3>3 DEF TopAt, Tailing
  <2>21. CASE ReadOne(p)
    <3>1. /\ pc[p] = "read" /\ pc' = pc /\ stack' = stack /\ max' = max /\ base' = base
      BY <2>21 DEF ReadOne, UpdateMyState
    <3>2. TopSent(p) <= base + max[p]
      BY <2>6, <3>1 DEF Receiving, Reading, TopAt
    <3> QED
      BY <2>5, <3>1, <3>2 DEF TopAt, Tailing
  <2>22. CASE ReadEnd(p)
    <3>1. /\ pc[p] = "read" /\ pc'[p] = "loop" /\ stack' = stack /\ seen' = seen
          /\ messages' = messages /\ nextmsg' = nextmsg /\ ~MyState(p).resetState
          /\ ~(Len(messages[p]) < MAXINVALMSGS /\ MyState(p).nextMsgNum < max[p])
      BY <1>0, <2>22 DEF ReadEnd, Go
    <3>2. /\ SeenAt(p) /\ MyState(p).nextMsgNum \in Int /\ TopAt(p)
          /\ TopSent(p) \in Nat /\ seen[p] \in Nat /\ Left(p) \in Nat /\ max[p] \in Nat
      BY <1>0, <2>6, <2>7, <3>1 DEF Receiving, Reading
    <3>3. base + MyState(p).nextMsgNum = seen[p] + Left(p)
      BY <3>1, <3>2 DEF SeenAt
    <3>4. TopSent(p) <= base + max[p]
      BY <3>1, <3>2 DEF TopAt
    <3>5. Len(messages[p]) < MAXINVALMSGS => TopSent(p) <= seen[p] + Left(p)
      BY <1>0, <3>1, <3>2, <3>3, <3>4
    <3>6. seen'[p] + Left(p)' = seen[p] + Left(p)
      BY <3>1 DEF Left
    <3> QED
      BY <2>5, <3>1, <3>5, <3>6 DEF TopAt, Tailing
  <2>23. CASE HandleCatchupInterrupt(p)
    <3>1. /\ pc' = pc /\ stack' = stack /\ messages' = messages /\ nextmsg' = nextmsg
          /\ seen' = seen /\ max' = max /\ base' = base
      BY <2>23 DEF HandleCatchupInterrupt, recvVars
    <3>2. pc[p] \in Receiving => TopAt(p)'
      BY <2>6, <3>1, TopKept
    <3> QED
      BY <2>5, <3>1, <3>2
  <2>24. CASE \/ SharedInvalBackendInit(p) \/ GetNextLocalTransactionId(p)
              \/ SendSharedInvalidMessages(p) \/ LockForInsert(p) \/ CleanupForInsert(p)
              \/ SignalForInsert(p) \/ RelockForInsert(p) \/ WriteBuffer(p)
              \/ PublishMaxMsgNum(p) \/ SetHasMessages(p) \/ EndBatch(p)
    <3>1. stack' = stack
      BY <2>24 DEF SharedInvalBackendInit, GetNextLocalTransactionId, SendSharedInvalidMessages,
         LockForInsert, CleanupForInsert, SignalForInsert, RelockForInsert, WriteBuffer,
         PublishMaxMsgNum, SetHasMessages, EndBatch, AcquireWriteLock, recvVars
    <3>2. pc'[p] \in {"idle", "swlock", "scheck", "ssignal", "srelock", "spublish", "sflag"}
      BY <1>0, <2>24 DEF SharedInvalBackendInit, GetNextLocalTransactionId,
         SendSharedInvalidMessages, LockForInsert, CleanupForInsert, SignalForInsert,
         RelockForInsert, WriteBuffer, PublishMaxMsgNum, SetHasMessages, EndBatch,
         AcquireWriteLock, Go
    <3> QED
      BY <2>5, <3>1, <3>2 DEF Receiving, Reading, Tailing
  <2> QED
    BY <2>8, <2>9, <2>10, <2>11, <2>12, <2>13, <2>14, <2>15, <2>16, <2>17, <2>18, <2>19,
       <2>20, <2>21, <2>22, <2>23, <2>24 DEF ActionOf
<1> QED
  BY <1>4, <1>5 DEF CallInv

-----------------------------------------------------------------------------
(* CreateSharedInvalidationState establishes the invariant.                *)
LEMMA InitInv == Init => IInv
<1> SUFFICES ASSUME Init
             PROVE  IInv
  OBVIOUS
<1>1. /\ minMsgNum = 0 /\ maxMsgNum = 0 /\ lastBackend = 0 /\ base = 0
      /\ procState = [s \in Slots |-> Inactive]
      /\ writeLock = NoProc /\ readLock = {}
      /\ pc = [p \in Proc |-> "start"]
      /\ MyBackendId = [p \in Proc |-> InvalidBackendId]
      /\ messages = [p \in Proc |-> << >>] /\ nextmsg = [p \in Proc |-> 0]
      /\ stack = [p \in Proc |-> << >>] /\ lastLXID = [s \in Slots |-> 0]
      /\ NoProc \notin Proc
  BY ConstantsAssumption DEF Init
<1>2. TypeOK
  <2>1. 0 \in LocalTransactionId /\ 0 \in 0 .. WRITE_QUANTUM /\ 0 \in 0 .. MaxBackends
        /\ CLEANUP_MIN \in Nat
    BY ConstantsAssumption DEF LocalTransactionId
  <2>2. Inactive \in ProcStates
    BY <2>1 DEF Inactive, ProcStates
  <2>3. NoSig \in Targets
    BY DEF NoSig, Targets
  <2>4. << >> \in Seq(Nat) /\ << >> \in Seq(Calls) /\ "start" \in Pcs
    BY DEF Pcs
  <2>5. buffer \in [0 .. MAXNUMMESSAGES - 1 -> Nat \cup {-1}]
    BY DEF Init
  <2>6. /\ minMsgNum \in Nat /\ maxMsgNum \in Nat /\ nextThreshold \in Nat
        /\ lastBackend \in 0 .. MaxBackends /\ base \in Nat
        /\ writeLock \in Proc \cup {NoProc} /\ readLock \in SUBSET Proc
    BY <2>1 DEF Init
  <2>7. /\ procState \in [Slots -> ProcStates]
        /\ signalFlag \in [Proc -> BOOLEAN] /\ catchupInterruptPending \in [Proc -> BOOLEAN]
        /\ pc \in [Proc -> Pcs]
        /\ MyBackendId \in [Proc -> Slots \cup {InvalidBackendId}]
    BY <2>2, <2>4 DEF Init
  <2>8. /\ nextLocalTransactionId \in [Proc -> LocalTransactionId]
        /\ toSend \in [Proc -> Nat] /\ nthistime \in [Proc -> 0 .. WRITE_QUANTUM]
        /\ flagged \in [Proc -> 0 .. MaxBackends]
        /\ max \in [Proc -> Nat] /\ nextmsg \in [Proc -> Nat] /\ seen \in [Proc -> Nat]
        /\ lastLXID \in [Slots -> LocalTransactionId]
    BY <2>1 DEF Init
  <2>9. /\ needSig \in [Proc -> Targets]
        /\ messages \in [Proc -> Seq(Nat)] /\ stack \in [Proc -> Seq(Calls)]
    BY <2>3, <2>4 DEF Init
  <2> QED
    BY <2>5, <2>6, <2>7, <2>8, <2>9 DEF TypeOK
<1>3. \A t \in Slots : procState[t].procPid = NoProc /\ procState[t].nextLXID = 0
  BY <1>1 DEF Inactive
<1>4. \A p \in Proc : ~Attached(p) /\ pc[p] = "start" /\ stack[p] = << >> /\ messages[p] = << >>
                      /\ nextmsg[p] = 0
  BY <1>1 DEF Attached
<1>5. OwnInv
  BY <1>3, <1>4 DEF OwnInv
<1>6. LockInv
  BY <1>1, <1>4 DEF LockInv
<1>7. PlaceInv
  <2>1. Len(<< >>) = 0 /\ 0 <= MAXINVALMSGS
    BY ConstantsAssumption
  <2> QED
    BY <1>4, <2>1 DEF PlaceInv, PlaceAt, Receiving, Reading, Tailing
<1>8. CountInv
  <2>1. 1 .. lastBackend = {} /\ MAXNUMMESSAGES \in Nat
    BY <1>1, ConstantsAssumption
  <2>2. CountersOrdered
    BY <1>1, <2>1 DEF CountersOrdered, Counted
  <2> QED
    BY <1>4, <2>2 DEF CountInv
<1>9. BufferInv
  <2>1. minMsgNum .. maxMsgNum - 1 = {}
    BY <1>1
  <2> QED
    BY <1>4, <2>1 DEF BufferInv
<1>10. SeenInv /\ FlagInv
  BY <1>4 DEF SeenInv, FlagInv, Receiver
<1>11. CallInv
  <2>1. ASSUME NEW p \in Proc
        PROVE  SentAt(p) /\ pc[p] \notin Receiving
    <3>1. Len(stack[p]) = 0 /\ pc[p] = "start"
      BY <1>4
    <3>2. 1 .. Len(stack[p]) = {}
      BY <3>1
    <3> QED
      BY <3>1, <3>2 DEF SentAt, Receiving, Reading, Tailing
  <2> QED
    BY <2>1 DEF CallInv
<1>12. VirtualXidsConsecutive
  BY <1>1, <1>3 DEF VirtualXidsConsecutive
<1> QED
  BY <1>2, <1>5, <1>6, <1>7, <1>8, <1>9, <1>10, <1>11, <1>12 DEF IInv

(* Every step keeps it.                                                    *)
LEMMA InvStep == IInv /\ [Next]_vars => IInv'
<1> SUFFICES ASSUME IInv, [Next]_vars
             PROVE  IInv'
  OBVIOUS
<1>1. CASE Next
  <2>1. PICK p \in Proc : ActionOf(p)
    BY <1>1, NextIsAction
  <2> QED
    BY <2>1, TypeStep, OwnStep, LockStep, PlaceStep, CountStep, BufferStep, SeenStep,
       FlagStep, CallStep, XidStep DEF IInv
<1>2. CASE UNCHANGED vars
  <2>1. UNCHANGED <<segVars, lockVars, sendVars, recvVars, sigVars, idVars, pc, base, seen>>
    BY <1>2 DEF vars
  <2>2. /\ UNCHANGED <<minMsgNum, maxMsgNum, nextThreshold, lastBackend, buffer, procState>>
        /\ UNCHANGED <<writeLock, readLock, toSend, nthistime, flagged>>
        /\ UNCHANGED <<max, messages, nextmsg, stack>>
        /\ UNCHANGED <<signalFlag, catchupInterruptPending, needSig>>
        /\ UNCHANGED <<MyBackendId, nextLocalTransactionId, lastLXID, pc, base, seen>>
    BY <2>1 DEF segVars, lockVars, sendVars, recvVars, sigVars, idVars
  <2>3. TypeOK'
    BY <2>2 DEF IInv, TypeOK
  <2>4. OwnInv' /\ LockInv'
    BY <2>2 DEF IInv, OwnInv, LockInv, Attached, MyState
  <2>5. PlaceInv'
    BY <2>2 DEF IInv, PlaceInv, PlaceAt, Loc, MyState
  <2>6. CountInv'
    BY <2>2 DEF IInv, CountInv, CountersOrdered, Counted
  <2>7. BufferInv'
    BY <2>2 DEF IInv, BufferInv, Holds
  <2>8. SeenInv'
    BY <2>2 DEF IInv, SeenInv, SeenAt, Receiver, Attached, Left, MyState
  <2>9. FlagInv'
    BY <2>2 DEF IInv, FlagInv, FlagAt, Receiver, Attached, SentFor, MyState
  <2>10. CallInv'
    BY <2>2 DEF IInv, CallInv, SentAt, TopAt, TopSent, Loc, Left, Sent
  <2>11. VirtualXidsConsecutive'
    BY <2>2 DEF IInv, VirtualXidsConsecutive
  <2> QED
    BY <2>3, <2>4, <2>5, <2>6, <2>7, <2>8, <2>9, <2>10, <2>11 DEF IInv
<1> QED
  BY <1>1, <1>2

(* The inductive invariant holds in every reachable state.                 *)
LEMMA Invariant == Spec => []IInv
BY InitInv, InvStep, PTL DEF Spec

(* No backend that reads messages misses one, gets one twice or out of     *)
(* order, whatever the sizes of the queue and of the arrays, the number of *)
(* backends, the resets, the recursive calls and the errors: what is left  *)
(* in messages[] and then in the buffer continues what invalFunction was   *)
(* given, and none of it was overwritten.                                  *)
THEOREM NothingIsMissed == Spec => []NothingMissed
<1>1. IInv => NothingMissed
  <2> SUFFICES ASSUME IInv
               PROVE  NothingMissed
    OBVIOUS
  <2>1. TypeOK /\ OwnInv /\ CountersOrdered /\ BufferInv /\ SeenInv
    BY DEF IInv, CountInv
  <2>2. ASSUME NEW p \in Proc, Attached(p), p \notin SendOnly
        PROVE  /\ \A i \in 1 .. Len(messages[p]) - nextmsg[p] :
                    messages[p][nextmsg[p] + i] = seen[p] + i - 1
               /\ ~MyState(p).resetState =>
                    /\ base + MyState(p).nextMsgNum = seen[p] + (Len(messages[p]) - nextmsg[p])
                    /\ \A n \in MyState(p).nextMsgNum .. maxMsgNum - 1 :
                         buffer[n % MAXNUMMESSAGES] = base + n
    <3>1. SeenAt(p)
      BY <2>1, <2>2 DEF SeenInv, Receiver
    <3>2. ASSUME ~MyState(p).resetState, NEW n \in MyState(p).nextMsgNum .. maxMsgNum - 1
          PROVE  buffer[n % MAXNUMMESSAGES] = base + n
      <4>1. MyBackendId[p] \in Counted
        BY <2>1, <2>2, <3>2, CountedMine
      <4>2. MyState(p).nextMsgNum \in minMsgNum .. maxMsgNum
        BY <2>1, <4>1 DEF CountersOrdered, MyState
      <4>3. minMsgNum \in Nat /\ maxMsgNum \in Nat
        BY <2>1 DEF TypeOK
      <4>4. n \in minMsgNum .. maxMsgNum - 1
        BY <4>2, <4>3
      <4> QED
        BY <2>1, <4>4 DEF BufferInv, Holds
    <3> QED
      BY <3>1, <3>2 DEF SeenAt, Left
  <2> QED
    BY <2>1, <2>2 DEF NothingMissed
<1> QED
  BY <1>1, Invariant, PTL

(* A call of ReceiveSharedInvalidMessages that returns has seen to it that *)
(* every message queued before it was entered was given to invalFunction,  *)
(* or that resetFunction was called, although SIGetDataEntries tests       *)
(* hasMessages before it takes a lock.                                     *)
THEOREM ProcessedHolds == Spec => []ProcessedBeforeReturn
<1>1. IInv => ProcessedBeforeReturn
  <2> SUFFICES ASSUME IInv, NEW p \in Proc, pc[p] = "tail"
               PROVE  seen[p] >= stack[p][Len(stack[p])].sent
    BY DEF ProcessedBeforeReturn
  <2>1. pc[p] \in Receiving /\ pc[p] \in Tailing
    BY DEF Receiving, Tailing
  <2>2. TopAt(p) /\ TopSent(p) \in Nat /\ seen[p] \in Nat
    BY <2>1, TopTypes DEF IInv, CallInv
  <2> QED
    BY <2>1, <2>2 DEF TopAt, TopSent
<1> QED
  BY <1>1, Invariant, PTL

(* The backends that follow each other in an entry of procState[] use      *)
(* consecutive local transaction ids, so that no virtual transaction id is *)
(* used again before the counter has gone around.                          *)
THEOREM XidsConsecutiveHold == Spec => []VirtualXidsConsecutive
BY Invariant, PTL DEF IInv

(* SICleanupQueue, called because there was no room for a batch, makes     *)
(* room for it and moves nextThreshold above what is left.                 *)
THEOREM CleanupRoom == Spec => CleanupMakesRoom
<1>1. IInv /\ [Next]_vars => [\A p \in Proc : CleanupForInsert(p) => ~NoRoom(p)']_vars
  <2> SUFFICES ASSUME IInv, NEW p \in Proc, CleanupForInsert(p)
               PROVE  ~NoRoom(p)'
    OBVIOUS
  <2>1. PICK sig \in Slots \cup {InvalidBackendId} : CleanQueue(nthistime[p], sig)
    BY DEF CleanupForInsert
  <2>2. /\ TypeOK /\ CountersOrdered /\ nthistime[p] \in 0 .. WRITE_QUANTUM
        /\ minMsgNum \in Nat /\ maxMsgNum \in Nat
    BY DEF IInv, CountInv, TypeOK
  <2>3. PICK m \in minMsgNum .. maxMsgNum, w \in Nat :
           /\ w <= m
           /\ minMsgNum' = m - w /\ maxMsgNum' = maxMsgNum - w
           /\ maxMsgNum - m + nthistime[p] <= MAXNUMMESSAGES
           /\ nextThreshold' \in Nat /\ nextThreshold' > maxMsgNum - m
    BY <2>1, <2>2, CleanEffect
  <2>4. nthistime' = nthistime
    BY DEF CleanupForInsert, sendVars
  <2>5. maxMsgNum' - minMsgNum' = maxMsgNum - m
    BY <2>2, <2>3
  <2>6. maxMsgNum - m \in Nat /\ nthistime[p] \in Nat /\ MAXNUMMESSAGES \in Nat
    BY <2>2, <2>3, ConstantsAssumption
  <2>7. ~(maxMsgNum' - minMsgNum' + nthistime'[p] > MAXNUMMESSAGES)
    BY <2>3, <2>4, <2>5, <2>6
  <2>8. ~(maxMsgNum' - minMsgNum' >= nextThreshold')
    BY <2>3, <2>5, <2>6
  <2> QED
    BY <2>7, <2>8 DEF NoRoom
<1> QED
  BY <1>1, Invariant, PTL DEF Spec, CleanupMakesRoom

=============================================================================
