-------------------------- MODULE ConditionVariable --------------------------
(***************************************************************************)
(* Condition variables (backend/storage/lmgr/condition_variable.c), with   *)
(* the predicate loop that their users write around them:                  *)
(*                                                                         *)
(*     ConditionVariablePrepareToSleep(cv);      -- optional               *)
(*     while (condition not true) ConditionVariableSleep(cv);              *)
(*     ConditionVariableCancelSleep();                                     *)
(*                                                                         *)
(* One action is one critical section of cv->mutex, one operation on a     *)
(* latch or one test of the condition.  The process latch is a Boolean:    *)
(* WaitLatch returns when it is set.  It is shared with every other use of *)
(* the process's latch, so it may be set for no reason visible here.       *)
(* CHECK_FOR_INTERRUPTS inside a sleep may run a handler that broadcasts   *)
(* (as ProcessProcSignalBarrier does) or itself waits for a condition      *)
(* variable, or may end in an ERROR; transaction abort then cancels the    *)
(* sleep.                                                                  *)
(***************************************************************************)
EXTENDS Integers, Sequences, SequencesExt, FiniteSets

CONSTANTS
  Proc,        \* processes that own a PGPROC, with its single cvWaitLink
  CVs,         \* condition variables
  MaxNesting,  \* bound: handlers that interrupt one another
  MaxSpurious  \* bound: times a latch is set for another reason

NoCV   == "NoCV"
NoProc == "NoProc"

ASSUME ConstantsAssumption ==
  /\ NoProc \notin Proc /\ NoCV \notin CVs
  /\ MaxNesting \in Nat /\ MaxSpurious \in Nat

VARIABLES
  \* shared
  wakeup,           \* cv->wakeup, the list of waiting processes
  latch,            \* is_set of each process's latch
  cond,             \* the condition that a cv's users wait for
  \* private to a process
  cv_sleep_target,
  pc,
  cv,               \* the condition variable of the current call
  done,             \* local of ConditionVariableTimedSleep
  proc,             \* process taken off the list whose latch is not yet set
  have_sentinel,    \* local of ConditionVariableBroadcast
  frames,           \* sleeps interrupted by a handler, innermost last
  \* history and bounds
  owed,             \* waiters on the list when the broadcast began, still on it
  spurious

callVars == <<cv, done, frames>>
wakeVars == <<proc, have_sentinel>>
vars == <<wakeup, latch, cond, cv_sleep_target, pc, callVars, wakeVars, owed, spurious>>

(* ConditionVariableInit; nobody is prepared to sleep.                     *)
Init ==
  /\ wakeup = [c \in CVs |-> << >>]
  /\ latch = [p \in Proc |-> FALSE]
  /\ cond = [c \in CVs |-> FALSE]
  /\ cv_sleep_target = [p \in Proc |-> NoCV]
  /\ pc = [p \in Proc |-> "idle"]
  /\ cv = [p \in Proc |-> NoCV]
  /\ done = [p \in Proc |-> FALSE]
  /\ proc = [p \in Proc |-> NoProc]
  /\ have_sentinel = [p \in Proc |-> FALSE]
  /\ frames = [p \in Proc |-> << >>]
  /\ owed = [p \in Proc |-> {}]
  /\ spurious = 0

Go(p, to) == pc' = [pc EXCEPT ![p] = to]

(* Process q leaves the list of c.                                         *)
Owed(q, c) == [b \in Proc |-> IF cv[b] = c THEN owed[b] \ {q} ELSE owed[b]]

(* Its node is taken out of the list, if it is there.                      *)
Without(s, q) == RemoveFirst(s, q)

(***************************************************************************)
(* Calls: from idle, or from a handler while a sleep is interrupted        *)
(***************************************************************************)
Callable(p) == pc[p] = "idle" \/ pc[p] = "interrupt"

Begin(p, c, to) ==
  /\ Callable(p)
  /\ cv' = [cv EXCEPT ![p] = c]
  /\ Go(p, to)

(* A predicate loop, with or without the optional call before it.          *)
CallWait(p) ==
  \E c \in CVs, to \in {"prepare", "test"} :
    /\ Begin(p, c, to)
    /\ UNCHANGED <<wakeup, latch, cond, cv_sleep_target, done, frames, wakeVars, owed, spurious>>

CallSignal(p) ==
  \E c \in CVs :
    /\ Begin(p, c, "signal")
    /\ UNCHANGED <<wakeup, latch, cond, cv_sleep_target, done, frames, wakeVars, owed, spurious>>

(* The condition is made true first, if this is what the broadcast is for. *)
CallBroadcast(p) ==
  \E c \in CVs, true \in BOOLEAN :
    /\ Begin(p, c, "bcancel")
    /\ cond' = [cond EXCEPT ![c] = @ \/ true]
    /\ UNCHANGED <<wakeup, latch, cv_sleep_target, done, frames, wakeVars, owed, spurious>>

(* Back to the interrupted sleep, or to idle.                              *)
Return(p) ==
  /\ Go(p, IF frames[p] = << >> THEN "idle" ELSE "interrupt")
  /\ cv' = [cv EXCEPT ![p] = NoCV]

(***************************************************************************)
(* ConditionVariableCancelSleep                                            *)
(***************************************************************************)
CancelSleep(p) ==
  LET c == cv_sleep_target[p]
  IN  /\ cv_sleep_target' = [cv_sleep_target EXCEPT ![p] = NoCV]
      /\ IF c = NoCV THEN UNCHANGED <<wakeup, owed>>
         ELSE /\ wakeup' = [wakeup EXCEPT ![c] = Without(@, p)]
              /\ owed' = Owed(p, c)

(* The end of a predicate loop.                                            *)
Cancel(p) ==
  /\ pc[p] = "cancel"
  /\ CancelSleep(p)
  /\ Return(p)
  /\ UNCHANGED <<latch, cond, done, frames, wakeVars, spurious>>

(***************************************************************************)
(* ConditionVariablePrepareToSleep                                         *)
(***************************************************************************)
(* Mutant of PrepareCancel: the other prepared sleep is left in place.     *)
PrepareNoCancel(p) ==
  /\ pc[p] = "prepare"
  /\ Go(p, "push")
  /\ UNCHANGED <<wakeup, latch, cond, cv_sleep_target, callVars, wakeVars, owed, spurious>>

PrepareCancel(p) ==
  /\ pc[p] = "prepare"
  /\ CancelSleep(p)
  /\ Go(p, "push")
  /\ UNCHANGED <<latch, cond, callVars, wakeVars, spurious>>

PreparePush(p) ==
  /\ pc[p] = "push"
  /\ cv_sleep_target' = [cv_sleep_target EXCEPT ![p] = cv[p]]
  /\ wakeup' = [wakeup EXCEPT ![cv[p]] = Append(@, p)]
  /\ Go(p, "test")
  /\ UNCHANGED <<latch, cond, callVars, wakeVars, owed, spurious>>

(***************************************************************************)
(* ConditionVariableTimedSleep                                             *)
(***************************************************************************)
(* The caller tests its condition; if need be it calls, and the call only  *)
(* prepares when no sleep on this condition variable is prepared.          *)
TestCondition(p) ==
  /\ pc[p] = "test"
  /\ Go(p, CASE cond[cv[p]] -> "cancel"
             [] ~cond[cv[p]] /\ cv_sleep_target[p] # cv[p] -> "prepare"
             [] OTHER -> "wait")
  /\ done' = [done EXCEPT ![p] = FALSE]
  /\ UNCHANGED <<wakeup, latch, cond, cv_sleep_target, cv, frames, wakeVars, owed, spurious>>

(* WaitLatch returns.                                                      *)
WaitLatch(p) ==
  /\ pc[p] = "wait"
  /\ latch[p]
  /\ Go(p, "reset")
  /\ UNCHANGED <<wakeup, latch, cond, cv_sleep_target, callVars, wakeVars, owed, spurious>>

(* WaitLatch returns because of WL_TIMEOUT; the loop will end in "true"    *)
(* unless the list shows a signal.                                         *)
WaitTimeout(p) ==
  /\ pc[p] = "wait"
  /\ Go(p, "treset")
  /\ UNCHANGED <<wakeup, latch, cond, cv_sleep_target, callVars, wakeVars, owed, spurious>>

ResetLatch(p, from, to) ==
  /\ pc[p] = from
  /\ latch' = [latch EXCEPT ![p] = FALSE]
  /\ Go(p, to)
  /\ UNCHANGED <<wakeup, cond, cv_sleep_target, callVars, wakeVars, owed, spurious>>

(* Off the list means signaled: get back on it and tell the caller.        *)
CheckList(p, from, to) ==
  /\ pc[p] = from
  /\ done' = [done EXCEPT ![p] = ~Contains(wakeup[cv[p]], p)]
  /\ wakeup' = [wakeup EXCEPT ![cv[p]] = IF Contains(@, p) THEN @ ELSE Append(@, p)]
  /\ Go(p, to)
  /\ UNCHANGED <<latch, cond, cv_sleep_target, cv, frames, wakeVars, owed, spurious>>

(* Mutants of AfterWait: the latch is reset after the list was examined.   *)
ResetAfterCheck(p) ==
  \/ CheckList(p, "reset", "check") \/ ResetLatch(p, "check", "cfi")
  \/ CheckList(p, "treset", "tcheck") \/ ResetLatch(p, "tcheck", "tcfi")

AfterWait(p) ==
  \/ ResetLatch(p, "reset", "check") \/ CheckList(p, "check", "cfi")
  \/ ResetLatch(p, "treset", "tcheck") \/ CheckList(p, "tcheck", "tcfi")

(* CHECK_FOR_INTERRUPTS runs a handler ...                                 *)
Interrupt(p, from, to) ==
  /\ pc[p] = from
  /\ Len(frames[p]) < MaxNesting
  /\ frames' = [frames EXCEPT ![p] = Append(@, [cv |-> cv[p], done |-> done[p], to |-> to])]
  /\ cv' = [cv EXCEPT ![p] = NoCV]
  /\ Go(p, "interrupt")
  /\ UNCHANGED <<wakeup, latch, cond, cv_sleep_target, done, wakeVars, owed, spurious>>

EndInterrupt(p) ==
  LET f == Last(frames[p])
  IN  /\ pc[p] = "interrupt"
      /\ cv' = [cv EXCEPT ![p] = f.cv]
      /\ done' = [done EXCEPT ![p] = f.done]
      /\ frames' = [frames EXCEPT ![p] = Front(@)]
      /\ Go(p, f.to)
      /\ UNCHANGED <<wakeup, latch, cond, cv_sleep_target, wakeVars, owed, spurious>>

(* ... or raises an ERROR, and AbortTransaction cancels the sleep.         *)
Abort(p) ==
  /\ pc[p] \in {"cfi", "tcfi"}
  /\ CancelSleep(p)
  /\ cv' = [cv EXCEPT ![p] = NoCV]
  /\ frames' = [frames EXCEPT ![p] = << >>]
  /\ Go(p, "idle")
  /\ UNCHANGED <<latch, cond, done, wakeVars, spurious>>

(* Mutant of Signaled: the process waits again although it was signaled.   *)
SignaledIgnoresDone(p) == cv[p] # cv_sleep_target[p]

(* The handler may have waited for, or cancelled, another sleep.           *)
Signaled(p) == done[p] \/ cv[p] # cv_sleep_target[p]

(* Return false to the predicate loop, or wait again.                      *)
AfterInterrupts(p) ==
  /\ pc[p] = "cfi"
  /\ Go(p, IF Signaled(p) THEN "test" ELSE "wait")
  /\ UNCHANGED <<wakeup, latch, cond, cv_sleep_target, callVars, wakeVars, owed, spurious>>

(* After a timeout: true unless signaled, and the caller gives up or tests *)
(* again; or the clock shows that some of the timeout is left.             *)
AfterTimeout(p) ==
  /\ pc[p] = "tcfi"
  /\ \/ Go(p, "test")
     \/ ~Signaled(p) /\ (Go(p, "cancel") \/ Go(p, "wait"))
  /\ UNCHANGED <<wakeup, latch, cond, cv_sleep_target, callVars, wakeVars, owed, spurious>>

(***************************************************************************)
(* ConditionVariableSignal and ConditionVariableBroadcast                  *)
(***************************************************************************)
(* proclist_pop_head_node, if the list is not empty.                       *)
PopHead(p) ==
  LET c == cv[p]
  IN  IF wakeup[c] = << >>
      THEN proc' = [proc EXCEPT ![p] = NoProc] /\ UNCHANGED <<wakeup, owed>>
      ELSE /\ proc' = [proc EXCEPT ![p] = Head(wakeup[c])]
           /\ wakeup' = [wakeup EXCEPT ![c] = Tail(@)]
           /\ owed' = Owed(Head(wakeup[c]), c)

Signal(p) ==
  /\ pc[p] = "signal"
  /\ PopHead(p)
  /\ Go(p, "setlatch")
  /\ UNCHANGED <<latch, cond, cv_sleep_target, callVars, have_sentinel, spurious>>

BroadcastCancel(p) ==
  /\ pc[p] = "bcancel"
  /\ CancelSleep(p)
  /\ Go(p, "bfirst")
  /\ UNCHANGED <<latch, cond, callVars, wakeVars, spurious>>

(* Mutant of BroadcastFirst: the sentinel goes to the head of the list.     *)
BroadcastSentinelAtHead(p) ==
  LET c == cv[p]
      rest == IF wakeup[c] = << >> THEN << >> ELSE Tail(wakeup[c])
  IN  /\ pc[p] = "bfirst"
      /\ proc' = [proc EXCEPT ![p] = IF wakeup[c] = << >> THEN NoProc ELSE Head(wakeup[c])]
      /\ wakeup' = [wakeup EXCEPT ![c] = IF rest = << >> THEN << >> ELSE <<p>> \o rest]
      /\ have_sentinel' = [have_sentinel EXCEPT ![p] = rest # << >>]
      /\ owed' = [(IF wakeup[c] = << >> THEN owed ELSE Owed(Head(wakeup[c]), c))
                    EXCEPT ![p] = ToSet(rest)]
      /\ Go(p, "setlatch")
      /\ UNCHANGED <<latch, cond, cv_sleep_target, callVars, spurious>>

(* Take the first waiter; if there are more, queue the sentinel.           *)
BroadcastFirst(p) ==
  LET c == cv[p]
      rest == IF wakeup[c] = << >> THEN << >> ELSE Tail(wakeup[c])
  IN  /\ pc[p] = "bfirst"
      /\ proc' = [proc EXCEPT ![p] = IF wakeup[c] = << >> THEN NoProc ELSE Head(wakeup[c])]
      /\ wakeup' = [wakeup EXCEPT ![c] = IF rest = << >> THEN << >> ELSE Append(rest, p)]
      /\ have_sentinel' = [have_sentinel EXCEPT ![p] = rest # << >>]
      /\ owed' = [(IF wakeup[c] = << >> THEN owed ELSE Owed(Head(wakeup[c]), c))
                    EXCEPT ![p] = ToSet(rest)]
      /\ Go(p, "setlatch")
      /\ UNCHANGED <<latch, cond, cv_sleep_target, callVars, spurious>>

(* The sentinel is no longer on the list, once its head was taken off.     *)
SentinelGone(p) ==
  \/ wakeup[cv[p]] = << >>
  \/ ~Contains(Tail(wakeup[cv[p]]), p)

(* One round of the loop: anybody may have taken the sentinel meanwhile.   *)
BroadcastLoop(p) ==
  /\ pc[p] = "bloop"
  /\ have_sentinel' = [have_sentinel EXCEPT ![p] = ~SentinelGone(p)]
  /\ PopHead(p)
  /\ Go(p, "lsetlatch")
  /\ UNCHANGED <<latch, cond, cv_sleep_target, callVars, spurious>>

(* SetLatch of the process found, unless the loop found its own sentinel;  *)
(* then the next round, or the end of the call.                            *)
SetLatch(p) ==
  LET none == IF pc[p] = "lsetlatch" THEN {NoProc, p} ELSE {NoProc}
  IN  /\ pc[p] \in {"setlatch", "lsetlatch"}
      /\ latch' = IF proc[p] \in none THEN latch ELSE [latch EXCEPT ![proc[p]] = TRUE]
      /\ proc' = [proc EXCEPT ![p] = NoProc]
      /\ IF have_sentinel[p] THEN Go(p, "bloop") /\ UNCHANGED cv ELSE Return(p)
      /\ UNCHANGED <<wakeup, cond, cv_sleep_target, done, frames, have_sentinel, owed, spurious>>

(* The latch is set by something that has nothing to do with the list.     *)
SpuriousSetLatch(p) ==
  /\ spurious < MaxSpurious
  /\ ~latch[p]
  /\ spurious' = spurious + 1
  /\ latch' = [latch EXCEPT ![p] = TRUE]
  /\ UNCHANGED <<wakeup, cond, cv_sleep_target, pc, callVars, wakeVars, owed>>

-----------------------------------------------------------------------------
Call(p) == CallWait(p) \/ CallSignal(p) \/ CallBroadcast(p)

(* What a process does by itself inside condition_variable.c.              *)
Step(p) ==
  \/ Cancel(p) \/ PrepareCancel(p) \/ PreparePush(p) \/ TestCondition(p)
  \/ WaitLatch(p) \/ AfterWait(p) \/ EndInterrupt(p) \/ AfterInterrupts(p) \/ AfterTimeout(p)
  \/ Signal(p) \/ BroadcastCancel(p) \/ BroadcastFirst(p) \/ BroadcastLoop(p) \/ SetLatch(p)

(* What may or may not happen to it.                                       *)
Event(p) ==
  \/ WaitTimeout(p) \/ Interrupt(p, "cfi", "cfi") \/ Interrupt(p, "tcfi", "tcfi") \/ Abort(p)
  \/ SpuriousSetLatch(p)

Next == \E p \in Proc : Call(p) \/ Step(p) \/ Event(p)

Spec == Init /\ [][Next]_vars

-----------------------------------------------------------------------------
(***************************************************************************)
(* Properties                                                              *)
(***************************************************************************)
Pcs == {"idle", "interrupt", "prepare", "push", "test", "wait", "reset", "check", "cfi",
        "treset", "tcheck", "tcfi", "cancel", "signal", "bcancel", "bfirst", "bloop", "setlatch", "lsetlatch"}

Frame == [cv : CVs, done : BOOLEAN, to : {"cfi", "tcfi"}]

(* The type of every variable; a process that is outside all calls has no  *)
(* interrupted sleep to go back to.                                        *)
TypeOK ==
  /\ wakeup \in [CVs -> Seq(Proc)]
  /\ latch \in [Proc -> BOOLEAN] /\ cond \in [CVs -> BOOLEAN]
  /\ cv_sleep_target \in [Proc -> CVs \cup {NoCV}]
  /\ pc \in [Proc -> Pcs] /\ cv \in [Proc -> CVs \cup {NoCV}]
  /\ done \in [Proc -> BOOLEAN] /\ have_sentinel \in [Proc -> BOOLEAN]
  /\ proc \in [Proc -> Proc \cup {NoProc}]
  /\ frames \in [Proc -> Seq(Frame)]
  /\ \A p \in Proc : /\ pc[p] = "idle" => frames[p] = << >>
                     /\ cv[p] = NoCV <=> pc[p] \in {"idle", "interrupt"}
  /\ owed \in [Proc -> SUBSET Proc] /\ spurious \in 0 .. MaxSpurious

(* A PGPROC has one cvWaitLink: a process is on one list, once, and only   *)
(* on that of its sleep target or as the sentinel of its broadcast.  This  *)
(* is what the Asserts of proclist.h and of ConditionVariableBroadcast     *)
(* rely on when a process queues itself.  Every variable has its type.     *)
MayBeQueued(p, c) ==
  \/ cv_sleep_target[p] = c
  \/ have_sentinel[p] /\ cv[p] = c /\ pc[p] \in {"setlatch", "lsetlatch", "bloop"}

WaitLinkUsedOnce ==
  /\ TypeOK
  /\ \A c \in CVs : IsInjective(wakeup[c])
  /\ \A c \in CVs : \A p \in ToSet(wakeup[c]) : MayBeQueued(p, c)
  /\ \A p \in Proc : pc[p] \in {"push", "bfirst"} => \A c \in CVs : ~Contains(wakeup[c], p)
  /\ \A p \in Proc : have_sentinel[p] => cv_sleep_target[p] = NoCV

(* No wakeup is lost: a process blocked in WaitLatch whose latch is not    *)
(* set is on the list it waits for, where the next signal finds it, or the *)
(* process that took it off the list is about to set its latch.            *)
SleeperCanBeWoken ==
  \A p \in Proc : pc[p] = "wait" /\ ~latch[p] =>
    \/ Contains(wakeup[cv[p]], p)
    \/ \E q \in Proc : proc[q] = p

(* "This guarantees to wake all processes that were sleeping on the CV at  *)
(* time of call": when a broadcast sees that its sentinel is gone, every   *)
(* process that was on the list has been taken off it, whoever else        *)
(* signaled, broadcast, cancelled or queued itself again meanwhile.        *)
BroadcastReachesAll ==
  \A p \in Proc : pc[p] \in {"setlatch", "lsetlatch"} /\ ~have_sentinel[p] => owed[p] = {}
=============================================================================
