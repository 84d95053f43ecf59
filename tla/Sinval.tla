------------------------------- MODULE Sinval -------------------------------
(***************************************************************************)
(* Shared cache invalidation: the message queue of                         *)
(* backend/storage/ipc/sinvaladt.c and the delivery loop of sinval.c.      *)
(*                                                                         *)
(* Messages are numbered in the order in which they enter the queue; a     *)
(* message is modelled by that number, its ordinal.  Message number n of   *)
(* the code's counters has ordinal base + n, where base sums up the        *)
(* MSGNUMWRAPAROUND that SICleanupQueue has subtracted.  base, seen,       *)
(* lastLXID and the field sent of a stack frame are history: no guard      *)
(* reads them.                                                             *)
(*                                                                         *)
(* SInvalWriteLock and SInvalReadLock are LWLocks; here they are the       *)
(* readers-writer locks of RWLock, which LWLock implements.  What is done  *)
(* under an exclusive lock with nothing in it that others read unlocked is *)
(* one step; what others may read meanwhile (the buffer, maxMsgNum,        *)
(* hasMessages) changes in steps of its own.                               *)
(***************************************************************************)
EXTENDS Integers, Sequences, FiniteSets, FiniteSetsExt

CONSTANTS
  Proc,              \* processes; each attaches at most once
  SendOnly,          \* those that attach with sendOnly (the startup process)
  MaxBackends,       \* size of procState[]
  MAXNUMMESSAGES,    \* size of the circular buffer
  MSGNUMWRAPAROUND,
  CLEANUP_MIN,
  CLEANUP_QUANTUM,
  SIG_THRESHOLD,
  WRITE_QUANTUM,
  MAXINVALMSGS,      \* size of messages[] in ReceiveSharedInvalidMessages
  LXID_MODULUS,      \* 2^32, the number of values of LocalTransactionId
  MaxSend,           \* bound: messages of one SendSharedInvalidMessages call
  MaxDepth           \* bound: nesting of ReceiveSharedInvalidMessages

NoProc == "NoProc"
Slots  == 1 .. MaxBackends
InvalidBackendId == 0

ASSUME ConstantsAssumption ==
  /\ NoProc \notin Proc
  /\ SendOnly \subseteq Proc
  /\ {MaxBackends, MAXNUMMESSAGES, MSGNUMWRAPAROUND, CLEANUP_MIN, CLEANUP_QUANTUM,
      WRITE_QUANTUM, MAXINVALMSGS, MaxSend, MaxDepth} \subseteq Nat \ {0}
  /\ SIG_THRESHOLD \in Nat /\ LXID_MODULUS \in Nat /\ LXID_MODULUS > 1

(* "Must be a multiple of MAXNUMMESSAGES"; a batch fits in the buffer.     *)
ASSUME WraparoundAssumption ==
  /\ MSGNUMWRAPAROUND % MAXNUMMESSAGES = 0
  /\ WRITE_QUANTUM <= MAXNUMMESSAGES

VARIABLES
  \* shared memory: SISeg
  minMsgNum, maxMsgNum, nextThreshold, lastBackend,
  buffer,      \* slot -> ordinal of the message in it (-1: never used)
  procState,   \* the array of ProcState
  writeLock,   \* holder of SInvalWriteLock in exclusive mode, or NoProc
  readLock,    \* holders of SInvalReadLock in shared mode
  signalFlag,  \* PROCSIG_CATCHUP_INTERRUPT sent, handler not yet run
  \* private to a process
  pc,
  MyBackendId,
  nextLocalTransactionId,
  toSend,      \* messages the call has still to insert after this batch
  nthistime,   \* size of the batch
  flagged,     \* backends whose hasMessages this batch has set
  needSig,     \* the slot SICleanupQueue found to signal, and its pid
  max,         \* maxMsgNum as read by SIGetDataEntries
  messages,    \* messages[0 .. nummsgs - 1], static
  nextmsg,     \* static
  stack,       \* frames of ReceiveSharedInvalidMessages, innermost last
  catchupInterruptPending,
  \* history
  base, seen, lastLXID

segVars   == <<minMsgNum, maxMsgNum, nextThreshold, lastBackend, buffer, procState>>
lockVars  == <<writeLock, readLock>>
sendVars  == <<toSend, nthistime, flagged>>
recvVars  == <<max, messages, nextmsg, stack>>
sigVars   == <<signalFlag, catchupInterruptPending, needSig>>
idVars    == <<MyBackendId, nextLocalTransactionId, lastLXID>>
vars == <<segVars, lockVars, sendVars, recvVars, sigVars, idVars, pc, base, seen>>

NoSig == [slot |-> InvalidBackendId, pid |-> NoProc]

Inactive == [procPid |-> NoProc, nextMsgNum |-> 0, resetState |-> FALSE, signaled |-> FALSE,
             hasMessages |-> FALSE, sendOnly |-> FALSE, nextLXID |-> 0]

(* CreateSharedInvalidationState                                           *)
Init ==
  /\ minMsgNum = 0 /\ maxMsgNum = 0
  /\ nextThreshold = CLEANUP_MIN
  /\ lastBackend = 0
  /\ buffer = [i \in 0 .. MAXNUMMESSAGES - 1 |-> -1]
  /\ procState = [s \in Slots |-> Inactive]
  /\ writeLock = NoProc /\ readLock = {}
  /\ signalFlag = [p \in Proc |-> FALSE]
  /\ pc = [p \in Proc |-> "start"]
  /\ MyBackendId = [p \in Proc |-> InvalidBackendId]
  /\ nextLocalTransactionId = [p \in Proc |-> 0]
  /\ toSend = [p \in Proc |-> 0]
  /\ nthistime = [p \in Proc |-> 0]
  /\ flagged = [p \in Proc |-> 0]
  /\ needSig = [p \in Proc |-> NoSig]
  /\ max = [p \in Proc |-> 0]
  /\ messages = [p \in Proc |-> << >>]
  /\ nextmsg = [p \in Proc |-> 0]
  /\ stack = [p \in Proc |-> << >>]
  /\ catchupInterruptPending = [p \in Proc |-> FALSE]
  /\ base = 0
  /\ seen = [p \in Proc |-> 0]
  /\ lastLXID = [s \in Slots |-> 0]

Go(p, to) == pc' = [pc EXCEPT ![p] = to]

MyState(p) == procState[MyBackendId[p]]

(***************************************************************************)
(* Attaching and detaching, under SInvalWriteLock                          *)
(***************************************************************************)
(* The lowest inactive entry, or the next one; beyond MaxBackends the code *)
(* reports "too many clients" and the process ends.                        *)
FreeSlot ==
  LET free == {s \in 1 .. lastBackend : procState[s].procPid = NoProc}
  IN  IF free # {} THEN Min(free) ELSE lastBackend + 1

(* Active, with all extant messages already read.                          *)
JoinState(p, s) ==
  [Inactive EXCEPT !.procPid = p, !.nextMsgNum = maxMsgNum, !.sendOnly = (p \in SendOnly),
                   !.nextLXID = procState[s].nextLXID]

SharedInvalBackendInit(p) ==
  LET s == FreeSlot
  IN  /\ pc[p] = "start"
      /\ writeLock = NoProc
      /\ s <= MaxBackends
      /\ lastBackend' = IF s > lastBackend THEN s ELSE lastBackend
      /\ MyBackendId' = [MyBackendId EXCEPT ![p] = s]
      /\ nextLocalTransactionId' =
           [nextLocalTransactionId EXCEPT ![p] = procState[s].nextLXID]
      /\ procState' = [procState EXCEPT ![s] = JoinState(p, s)]
      /\ seen' = [seen EXCEPT ![p] = base + maxMsgNum]
      /\ Go(p, "idle")
      /\ UNCHANGED <<minMsgNum, maxMsgNum, nextThreshold, buffer, lockVars, sendVars,
                     recvVars, sigVars, lastLXID, base>>

(* Mutant of ExitState: the next backend in the slot starts over.          *)
ExitStateForgetsLXID(p) ==
  [MyState(p) EXCEPT !.procPid = NoProc, !.nextMsgNum = 0, !.resetState = FALSE,
                     !.signaled = FALSE]

(* The entry a leaving backend leaves behind.                              *)
ExitState(p) ==
  [MyState(p) EXCEPT !.procPid = NoProc, !.nextMsgNum = 0, !.resetState = FALSE,
                     !.signaled = FALSE, !.nextLXID = nextLocalTransactionId[p]]

(* At exit, from outside sinval.c or (FATAL) from a callback.  The private *)
(* variables end with the process.                                         *)
CleanupInvalidationState(p) ==
  LET s == MyBackendId[p]
      active == {t \in Slots \ {s} : procState[t].procPid # NoProc}
  IN  /\ pc[p] \in {"idle", "inval"}
      /\ writeLock = NoProc
      /\ procState' = [procState EXCEPT ![s] = ExitState(p)]
      /\ lastBackend' = IF active = {} THEN 0 ELSE Max(active)
      /\ Go(p, "exit")
      /\ signalFlag' = [signalFlag EXCEPT ![p] = FALSE]
      /\ catchupInterruptPending' = [catchupInterruptPending EXCEPT ![p] = FALSE]
      /\ messages' = [messages EXCEPT ![p] = << >>]
      /\ nextmsg' = [nextmsg EXCEPT ![p] = 0]
      /\ stack' = [stack EXCEPT ![p] = << >>]
      /\ MyBackendId' = [MyBackendId EXCEPT ![p] = InvalidBackendId]
      /\ nextLocalTransactionId' = [nextLocalTransactionId EXCEPT ![p] = 0]
      /\ seen' = [seen EXCEPT ![p] = 0]
      /\ UNCHANGED <<minMsgNum, maxMsgNum, nextThreshold, buffer, lockVars, sendVars, max,
                     needSig, lastLXID, base>>

(* GetNextLocalTransactionId skips InvalidLocalTransactionId (0).          *)
GetNextLocalTransactionId(p) ==
  LET next == nextLocalTransactionId[p]
      result == IF next = 0 THEN 1 ELSE next
  IN  /\ pc[p] = "idle"
      /\ nextLocalTransactionId' =
           [nextLocalTransactionId EXCEPT ![p] = (result + 1) % LXID_MODULUS]
      /\ lastLXID' = [lastLXID EXCEPT ![MyBackendId[p]] = result]
      /\ UNCHANGED <<segVars, lockVars, sendVars, recvVars, sigVars, MyBackendId, pc, base, seen>>

(***************************************************************************)
(* SIInsertDataEntries                                                     *)
(***************************************************************************)
SendSharedInvalidMessages(p) ==
  \E n \in 1 .. MaxSend :
    /\ pc[p] = "idle"
    /\ nthistime' = [nthistime EXCEPT ![p] = Min({n, WRITE_QUANTUM})]
    /\ toSend' = [toSend EXCEPT ![p] = n - Min({n, WRITE_QUANTUM})]
    /\ Go(p, "swlock")
    /\ UNCHANGED <<segVars, lockVars, flagged, recvVars, sigVars, idVars, base, seen>>

(* LWLockAcquire(SInvalWriteLock, LW_EXCLUSIVE).                           *)
AcquireWriteLock(p, from, to) ==
  /\ pc[p] = from
  /\ writeLock = NoProc
  /\ writeLock' = p
  /\ Go(p, to)
  /\ UNCHANGED <<segVars, readLock, sendVars, recvVars, sigVars, idVars, base, seen>>

LockForInsert(p) == AcquireWriteLock(p, "swlock", "scheck")

(* Mutant of NoRoom: the batch size is left out.                           *)
NoRoomIgnoresBatch(p) ==
  \/ maxMsgNum - minMsgNum > MAXNUMMESSAGES
  \/ maxMsgNum - minMsgNum >= nextThreshold

NoRoom(p) ==
  \/ maxMsgNum - minMsgNum + nthistime[p] > MAXNUMMESSAGES
  \/ maxMsgNum - minMsgNum >= nextThreshold

WriteBuffer(p) ==
  LET new == maxMsgNum .. maxMsgNum + nthistime[p] - 1
      at(i) == {n \in new : n % MAXNUMMESSAGES = i}
  IN  /\ pc[p] = "scheck"
      /\ ~NoRoom(p)
      /\ buffer' = [i \in DOMAIN buffer |->
                      IF at(i) = {} THEN buffer[i] ELSE base + (CHOOSE n \in at(i) : TRUE)]
      /\ Go(p, "spublish")
      /\ UNCHANGED <<minMsgNum, maxMsgNum, nextThreshold, lastBackend, procState, lockVars,
                     sendVars, recvVars, sigVars, idVars, base, seen>>

(* Under the spinlock msgnumLock.                                          *)
PublishMaxMsgNum(p) ==
  /\ pc[p] = "spublish"
  /\ maxMsgNum' = maxMsgNum + nthistime[p]
  /\ flagged' = [flagged EXCEPT ![p] = 0]
  /\ Go(p, "sflag")
  /\ UNCHANGED <<minMsgNum, nextThreshold, lastBackend, buffer, procState, lockVars,
                 toSend, nthistime, recvVars, sigVars, idVars, base, seen>>

SetHasMessages(p) ==
  LET s == flagged[p] + 1
  IN  /\ pc[p] = "sflag"
      /\ s <= lastBackend
      /\ procState' = [procState EXCEPT ![s].hasMessages = TRUE]
      /\ flagged' = [flagged EXCEPT ![p] = s]
      /\ UNCHANGED <<minMsgNum, maxMsgNum, nextThreshold, lastBackend, buffer, lockVars,
                     toSend, nthistime, recvVars, sigVars, idVars, pc, base, seen>>

(* Release SInvalWriteLock; the next batch, if any, starts over.           *)
EndBatch(p) ==
  /\ pc[p] = "sflag"
  /\ flagged[p] >= lastBackend
  /\ writeLock' = NoProc
  /\ nthistime' = [nthistime EXCEPT ![p] = Min({toSend[p], WRITE_QUANTUM})]
  /\ toSend' = [toSend EXCEPT ![p] = @ - Min({@, WRITE_QUANTUM})]
  /\ flagged' = [flagged EXCEPT ![p] = 0]
  /\ Go(p, IF toSend[p] > 0 THEN "swlock" ELSE "idle")
  /\ UNCHANGED <<segVars, readLock, recvVars, sigVars, idVars, base, seen>>

(***************************************************************************)
(* SICleanupQueue.  Holding SInvalWriteLock, it waits until no reader      *)
(* holds SInvalReadLock; what it then does up to the release is one step.  *)
(***************************************************************************)
(* The entries that are neither inactive, nor in reset state, nor sendOnly.*)
Counted ==
  {s \in 1 .. lastBackend : /\ procState[s].procPid # NoProc
                            /\ ~procState[s].resetState
                            /\ ~procState[s].sendOnly}

(* Mutant of TooFarBack: only those whose messages are lost already.       *)
TooFarBackNow(minFree) ==
  {s \in Counted : procState[s].nextMsgNum < maxMsgNum - MAXNUMMESSAGES}

(* The backends to reset, so that minFree messages fit in.                 *)
TooFarBack(minFree) ==
  {s \in Counted : procState[s].nextMsgNum < maxMsgNum - MAXNUMMESSAGES + minFree}

(* The furthest-back unsignaled backend; the loop keeps the first of two.  *)
NeedSig(kept) ==
  LET far == {s \in kept : /\ procState[s].nextMsgNum < maxMsgNum - SIG_THRESHOLD
                           /\ ~procState[s].signaled}
      back == {s \in far : \A t \in far : procState[s].nextMsgNum <= procState[t].nextMsgNum}
  IN  IF far = {} THEN InvalidBackendId ELSE Min(back)

(* What is subtracted from all counters to forestall overflow.             *)
Wrap(min) == IF min >= MSGNUMWRAPAROUND THEN MSGNUMWRAPAROUND ELSE 0

(* Where SIInsertDataEntries cleans up again: above the present count.     *)
Threshold(numMsgs) ==
  IF numMsgs < CLEANUP_MIN THEN CLEANUP_MIN
  ELSE (numMsgs \div CLEANUP_QUANTUM + 1) * CLEANUP_QUANTUM

(* LWLockAcquire(SInvalReadLock, LW_EXCLUSIVE) succeeds.                   *)
ReadersOut == readLock = {}

CleanQueue(minFree, sig) ==
  LET reset == TooFarBack(minFree)
      kept  == Counted \ reset
      min   == Min({maxMsgNum} \cup {procState[s].nextMsgNum : s \in kept})
      w     == Wrap(min)
  IN  /\ ReadersOut
      /\ sig = NeedSig(kept)
      /\ minMsgNum' = min - w
      /\ maxMsgNum' = maxMsgNum - w
      /\ procState' = [s \in Slots |->
           [procState[s] EXCEPT
              !.resetState = @ \/ s \in reset,
              !.nextMsgNum = IF s <= lastBackend THEN @ - w ELSE @,
              !.signaled = @ \/ s = sig]]
      /\ nextThreshold' = Threshold(maxMsgNum - min)
      /\ base' = base + w

(* ReceiveSharedInvalidMessages returns, to its caller or to the callback  *)
(* that called it.                                                         *)
ReturnFromReceive(p) ==
  /\ stack' = [stack EXCEPT ![p] = SubSeq(@, 1, Len(@) - 1)]
  /\ Go(p, IF Len(stack[p]) = 1 THEN "idle" ELSE "inval")

Target(sig) == [slot |-> sig, pid |-> procState[sig].procPid]

(* Called by SIInsertDataEntries, which holds SInvalWriteLock and checks   *)
(* again afterwards.                                                       *)
CleanupForInsert(p) ==
  \E sig \in Slots \cup {InvalidBackendId} :
    /\ pc[p] = "scheck"
    /\ NoRoom(p)
    /\ CleanQueue(nthistime[p], sig)
    /\ IF sig = InvalidBackendId
       THEN UNCHANGED <<pc, writeLock, needSig>>
       ELSE /\ needSig' = [needSig EXCEPT ![p] = Target(sig)]
            /\ writeLock' = NoProc
            /\ Go(p, "ssignal")
    /\ UNCHANGED <<lastBackend, buffer, readLock, sendVars, recvVars, signalFlag,
                   catchupInterruptPending, idVars, seen>>

(* Called at the end of ReceiveSharedInvalidMessages with minFree = 0.     *)
CleanupAfterCatchup(p) ==
  \E sig \in Slots \cup {InvalidBackendId} :
    /\ pc[p] = "rclean"
    /\ CleanQueue(0, sig)
    /\ writeLock' = NoProc
    /\ IF sig = InvalidBackendId
       THEN ReturnFromReceive(p) /\ UNCHANGED needSig
       ELSE /\ needSig' = [needSig EXCEPT ![p] = Target(sig)]
            /\ Go(p, "rsignal")
            /\ UNCHANGED stack
    /\ UNCHANGED <<lastBackend, buffer, readLock, sendVars, max, messages, nextmsg,
                   signalFlag, catchupInterruptPending, idVars, seen>>

LockForCleanup(p) == AcquireWriteLock(p, "rwlock", "rclean")

RelockForInsert(p) == AcquireWriteLock(p, "srelock", "scheck")

(* SendProcSignal does nothing when the process has left its slot.         *)
SendProcSignal(p) ==
  LET sig == needSig[p]
  IN  /\ needSig' = [needSig EXCEPT ![p] = NoSig]
      /\ signalFlag' = [signalFlag EXCEPT ![sig.pid] = @ \/ MyBackendId[sig.pid] = sig.slot]
      /\ UNCHANGED <<segVars, lockVars, sendVars, max, messages, nextmsg,
                     catchupInterruptPending, idVars, base, seen>>

SignalForInsert(p) ==
  /\ pc[p] = "ssignal"
  /\ SendProcSignal(p)
  /\ Go(p, "srelock")
  /\ UNCHANGED stack

SignalAfterCatchup(p) ==
  /\ pc[p] = "rsignal"
  /\ SendProcSignal(p)
  /\ ReturnFromReceive(p)

(* The signal handler.                                                     *)
HandleCatchupInterrupt(p) ==
  /\ signalFlag[p]
  /\ signalFlag' = [signalFlag EXCEPT ![p] = FALSE]
  /\ catchupInterruptPending' = [catchupInterruptPending EXCEPT ![p] = TRUE]
  /\ UNCHANGED <<segVars, lockVars, sendVars, recvVars, needSig, idVars, pc, base, seen>>

(***************************************************************************)
(* ReceiveSharedInvalidMessages.  A frame says where its call is: "pending"*)
(* in the first loop, "batch" in the do loop, "reset" in resetFunction.    *)
(* Any callback may call it again, or end in an ERROR.                     *)
(***************************************************************************)
(* Messages whose sender has released SInvalWriteLock: everything but the  *)
(* batch whose hasMessages flags are being set.                            *)
Sent ==
  base + maxMsgNum
    - (IF writeLock # NoProc /\ pc[writeLock] = "sflag" THEN nthistime[writeLock] ELSE 0)

EnterReceive(p) ==
  /\ stack' = [stack EXCEPT ![p] = Append(@, [loc |-> "pending", sent |-> Sent])]
  /\ Go(p, "loop")
  /\ UNCHANGED <<segVars, lockVars, sendVars, max, messages, nextmsg, sigVars, idVars, base,
                 seen>>

(* A backend reads its messages whenever it starts to use the caches.      *)
AcceptInvalidationMessages(p) ==
  /\ pc[p] = "idle"
  /\ p \notin SendOnly
  /\ EnterReceive(p)

(* An idle backend does so when it was told to catch up.                   *)
ProcessCatchupInterrupt(p) ==
  /\ pc[p] = "idle"
  /\ p \notin SendOnly
  /\ catchupInterruptPending[p]
  /\ EnterReceive(p)

Recurse(p) ==
  /\ pc[p] = "inval"
  /\ Len(stack[p]) < MaxDepth
  /\ EnterReceive(p)

Loc(p) == stack[p][Len(stack[p])].loc

SetLoc(p, l) == stack' = [stack EXCEPT ![p][Len(stack[p])].loc = l]

CallbackReturns(p) ==
  /\ pc[p] = "inval"
  /\ Go(p, IF Loc(p) = "reset" THEN "tail" ELSE "loop")
  /\ UNCHANGED <<segVars, lockVars, sendVars, recvVars, sigVars, idVars, base, seen>>

(* An ERROR leaves all frames; the static variables keep their values.     *)
CallbackError(p) ==
  /\ pc[p] = "inval"
  /\ stack' = [stack EXCEPT ![p] = << >>]
  /\ Go(p, "idle")
  /\ UNCHANGED <<segVars, lockVars, sendVars, max, messages, nextmsg, sigVars, idVars, base,
                 seen>>

NextMessage(p) == nextmsg[p] + 1

(* invalFunction is called for the next message of the array.              *)
Invalidate(p) ==
  /\ pc[p] = "loop"
  /\ nextmsg[p] < Len(messages[p])
  /\ nextmsg' = [nextmsg EXCEPT ![p] = NextMessage(p)]
  /\ seen' = [seen EXCEPT ![p] = messages[p][nextmsg[p] + 1] + 1]
  /\ Go(p, "inval")
  /\ UNCHANGED <<segVars, lockVars, sendVars, max, messages, stack, sigVars, idVars, base>>

(* The first loop is over, or the last SIGetDataEntries filled the array.  *)
GetMore(p) == Loc(p) = "pending" \/ Len(messages[p]) = MAXINVALMSGS

LoopAgain(p) ==
  /\ pc[p] = "loop"
  /\ nextmsg[p] >= Len(messages[p])
  /\ GetMore(p)
  /\ messages' = [messages EXCEPT ![p] = << >>]
  /\ nextmsg' = [nextmsg EXCEPT ![p] = 0]
  /\ SetLoc(p, "batch")
  /\ Go(p, "quick")
  /\ UNCHANGED <<segVars, lockVars, sendVars, max, sigVars, idVars, base, seen>>

LoopEnds(p) ==
  /\ pc[p] = "loop"
  /\ nextmsg[p] >= Len(messages[p])
  /\ ~GetMore(p)
  /\ Go(p, "tail")
  /\ UNCHANGED <<segVars, lockVars, sendVars, recvVars, sigVars, idVars, base, seen>>

(* SIGetDataEntries: the unlocked test.                                    *)
TestHasMessages(p) ==
  /\ pc[p] = "quick"
  /\ Go(p, IF MyState(p).hasMessages THEN "rlock" ELSE "loop")
  /\ UNCHANGED <<segVars, lockVars, sendVars, recvVars, sigVars, idVars, base, seen>>

AcquireReadLock(p) ==
  /\ pc[p] = "rlock"
  /\ readLock' = readLock \cup {p}
  /\ procState' = [procState EXCEPT ![MyBackendId[p]].hasMessages = FALSE]
  /\ Go(p, "rmax")
  /\ UNCHANGED <<minMsgNum, maxMsgNum, nextThreshold, lastBackend, buffer, writeLock, sendVars,
                 recvVars, sigVars, idVars, base, seen>>

FetchMaxMsgNum(p) ==
  /\ pc[p] = "rmax"
  /\ max' = [max EXCEPT ![p] = maxMsgNum]
  /\ Go(p, "read")
  /\ UNCHANGED <<segVars, lockVars, sendVars, messages, nextmsg, stack, sigVars, idVars, base,
                 seen>>

UpdateMyState(p, st) ==
  /\ procState' = [procState EXCEPT ![MyBackendId[p]] = st]
  /\ UNCHANGED <<minMsgNum, maxMsgNum, nextThreshold, lastBackend, buffer, writeLock, sendVars,
                 sigVars, idVars, base>>

(* Returns -1, and resetFunction is called.                                *)
ReadReset(p) ==
  /\ pc[p] = "read"
  /\ MyState(p).resetState
  /\ UpdateMyState(p, [MyState(p) EXCEPT !.nextMsgNum = max[p], !.resetState = FALSE,
                                         !.signaled = FALSE])
  /\ readLock' = readLock \ {p}
  /\ max' = [max EXCEPT ![p] = 0]
  /\ seen' = [seen EXCEPT ![p] = base + max[p]]
  /\ SetLoc(p, "reset")
  /\ Go(p, "inval")
  /\ UNCHANGED <<messages, nextmsg>>

ReadOne(p) ==
  LET n == MyState(p).nextMsgNum
  IN  /\ pc[p] = "read"
      /\ ~MyState(p).resetState
      /\ Len(messages[p]) < MAXINVALMSGS /\ n < max[p]
      /\ messages' = [messages EXCEPT ![p] = Append(@, buffer[n % MAXNUMMESSAGES])]
      /\ UpdateMyState(p, [MyState(p) EXCEPT !.nextMsgNum = n + 1])
      /\ UNCHANGED <<readLock, max, nextmsg, stack, pc, seen>>

(* Mutant of CaughtUp: the flag is not restored when messages are left.    *)
CaughtUpAssumed(p) == [MyState(p) EXCEPT !.signaled = FALSE]

(* signaled is cleared when all was read, else hasMessages set again.      *)
CaughtUp(p) ==
  IF MyState(p).nextMsgNum >= max[p] THEN [MyState(p) EXCEPT !.signaled = FALSE]
                                     ELSE [MyState(p) EXCEPT !.hasMessages = TRUE]

ReadEnd(p) ==
  /\ pc[p] = "read"
  /\ ~MyState(p).resetState
  /\ ~(Len(messages[p]) < MAXINVALMSGS /\ MyState(p).nextMsgNum < max[p])
  /\ UpdateMyState(p, CaughtUp(p))
  /\ readLock' = readLock \ {p}
  /\ max' = [max EXCEPT ![p] = 0]
  /\ Go(p, "loop")
  /\ UNCHANGED <<messages, nextmsg, stack, seen>>

(* The end: pass on a catchup signal, or just return.                      *)
PassOnCatchup(p) ==
  /\ pc[p] = "tail"
  /\ catchupInterruptPending[p]
  /\ catchupInterruptPending' = [catchupInterruptPending EXCEPT ![p] = FALSE]
  /\ Go(p, "rwlock")
  /\ UNCHANGED <<segVars, lockVars, sendVars, recvVars, signalFlag, needSig, idVars, base, seen>>

NoCatchup(p) ==
  /\ pc[p] = "tail"
  /\ ~catchupInterruptPending[p]
  /\ ReturnFromReceive(p)
  /\ UNCHANGED <<segVars, lockVars, sendVars, max, messages, nextmsg, sigVars, idVars, base,
                 seen>>

-----------------------------------------------------------------------------
Life(p) ==
  \/ SharedInvalBackendInit(p) \/ CleanupInvalidationState(p) \/ GetNextLocalTransactionId(p)

InsertStep(p) ==
  \/ LockForInsert(p) \/ CleanupForInsert(p) \/ SignalForInsert(p) \/ RelockForInsert(p)
  \/ WriteBuffer(p) \/ PublishMaxMsgNum(p) \/ SetHasMessages(p) \/ EndBatch(p)

ReceiveStep(p) ==
  \/ Invalidate(p) \/ LoopAgain(p) \/ LoopEnds(p)
  \/ TestHasMessages(p) \/ AcquireReadLock(p) \/ FetchMaxMsgNum(p)
  \/ ReadReset(p) \/ ReadOne(p) \/ ReadEnd(p)
  \/ PassOnCatchup(p) \/ NoCatchup(p)
  \/ LockForCleanup(p) \/ CleanupAfterCatchup(p) \/ SignalAfterCatchup(p)

Callback(p) == Recurse(p) \/ CallbackReturns(p) \/ CallbackError(p)

Next ==
  \E p \in Proc :
    \/ Life(p) \/ SendSharedInvalidMessages(p) \/ InsertStep(p)
    \/ AcceptInvalidationMessages(p) \/ ProcessCatchupInterrupt(p)
    \/ ReceiveStep(p) \/ Callback(p) \/ HandleCatchupInterrupt(p)

Spec == Init /\ [][Next]_vars

-----------------------------------------------------------------------------
(***************************************************************************)
(* Properties                                                              *)
(***************************************************************************)
Pcs == {"start", "idle", "exit", "inval", "loop", "tail"}
       \cup {"swlock", "scheck", "ssignal", "srelock", "spublish", "sflag"}
       \cup {"quick", "rlock", "rmax", "read", "rwlock", "rclean", "rsignal"}

LocalTransactionId == 0 .. LXID_MODULUS - 1

ProcStates ==
  [procPid : Proc \cup {NoProc}, nextMsgNum : Int, resetState : BOOLEAN, signaled : BOOLEAN,
   hasMessages : BOOLEAN, sendOnly : BOOLEAN, nextLXID : LocalTransactionId]

Targets == [slot : Slots \cup {InvalidBackendId}, pid : Proc \cup {NoProc}]

Calls == [loc : {"pending", "batch", "reset"}, sent : Nat]

(* The type of every variable.                                             *)
TypeOK ==
  /\ minMsgNum \in Nat /\ maxMsgNum \in Nat /\ nextThreshold \in Nat
  /\ lastBackend \in 0 .. MaxBackends
  /\ buffer \in [0 .. MAXNUMMESSAGES - 1 -> Nat \cup {-1}]
  /\ procState \in [Slots -> ProcStates]
  /\ writeLock \in Proc \cup {NoProc} /\ readLock \in SUBSET Proc
  /\ signalFlag \in [Proc -> BOOLEAN] /\ catchupInterruptPending \in [Proc -> BOOLEAN]
  /\ pc \in [Proc -> Pcs]
  /\ MyBackendId \in [Proc -> Slots \cup {InvalidBackendId}]
  /\ nextLocalTransactionId \in [Proc -> LocalTransactionId]
  /\ toSend \in [Proc -> Nat] /\ nthistime \in [Proc -> 0 .. WRITE_QUANTUM]
  /\ flagged \in [Proc -> 0 .. MaxBackends]
  /\ needSig \in [Proc -> Targets]
  /\ max \in [Proc -> Nat]
  /\ messages \in [Proc -> Seq(Nat)] /\ nextmsg \in [Proc -> Nat]
  /\ stack \in [Proc -> Seq(Calls)]
  /\ base \in Nat /\ seen \in [Proc -> Nat]
  /\ lastLXID \in [Slots -> LocalTransactionId]

Attached(p) == MyBackendId[p] # InvalidBackendId

(* The counters of sinvaladt.c's head comment: no more than MAXNUMMESSAGES *)
(* messages are kept, and each backend that is neither in reset state nor  *)
(* sendOnly is between minMsgNum and maxMsgNum.                            *)
CountersOrdered ==
  /\ minMsgNum <= maxMsgNum /\ maxMsgNum - minMsgNum <= MAXNUMMESSAGES
  /\ \A s \in Counted : procState[s].nextMsgNum \in minMsgNum .. maxMsgNum

(* No backend misses a message, gets one twice or out of order: what its   *)
(* array still holds and what it has not read from the queue continue the  *)
(* messages given to invalFunction, and nothing unread was overwritten,    *)
(* across recursive calls, errors, resets and wraparound of the counters.  *)
(* Every variable has its type and the counters are in order, also after   *)
(* SICleanupQueue has reset the slow backends or subtracted                *)
(* MSGNUMWRAPAROUND everywhere.                                            *)
NothingMissed ==
  /\ TypeOK /\ CountersOrdered
  /\ \A p \in Proc : Attached(p) /\ p \notin SendOnly =>
       LET st == MyState(p)
           left == Len(messages[p]) - nextmsg[p]
       IN  /\ \A i \in 1 .. left : messages[p][nextmsg[p] + i] = seen[p] + i - 1
           /\ ~st.resetState =>
                /\ base + st.nextMsgNum = seen[p] + left
                /\ \A n \in st.nextMsgNum .. maxMsgNum - 1 : buffer[n % MAXNUMMESSAGES] = base + n

(* "We guarantee to process all messages that had been queued before the   *)
(* routine was entered": when a call of ReceiveSharedInvalidMessages is    *)
(* about to return, invalFunction was called for all of them, by it, by a  *)
(* nested call or by an outer one, although hasMessages is tested and set  *)
(* without a lock.                                                         *)
ProcessedBeforeReturn ==
  \A p \in Proc : pc[p] = "tail" => seen[p] >= stack[p][Len(stack[p])].sent

(* Successive backends in a slot use consecutive local transaction ids, so *)
(* that a virtual transaction id is not used again before all 2^32 - 1     *)
(* others of the slot were: the id to be given out next, kept by the       *)
(* backend or, between two backends, by the slot, follows the last one.    *)
VirtualXidsConsecutive ==
  \A s \in Slots :
    LET st == procState[s]
        next == IF st.procPid = NoProc THEN st.nextLXID ELSE nextLocalTransactionId[st.procPid]
    IN  next = IF lastLXID[s] = 0 THEN 0 ELSE (lastLXID[s] + 1) % LXID_MODULUS

(* The loop of SIInsertDataEntries ends: a cleanup always makes the room   *)
(* that the batch needs and moves nextThreshold above what is left, so     *)
(* that the test fails the next time unless others, let in for a signal to *)
(* be sent, have filled the buffer again.                                  *)
CleanupMakesRoom == [][\A p \in Proc : CleanupForInsert(p) => ~NoRoom(p)']_vars
=============================================================================
