------------------------ MODULE MCConditionVariable ------------------------
(* ConditionVariable for TLC: each process makes at most MaxCalls calls,   *)
(* and the calls and the spurious latch settings together are at most      *)
(* MaxTotal.                                                               *)
EXTENDS ConditionVariable, FiniteSetsExt

CONSTANTS MaxCalls, MaxTotal

VARIABLE calls

allVars == <<vars, calls>>

MCInit == Init /\ calls = [p \in Proc |-> 0]

Total == spurious + MapThenSumSet(LAMBDA q : calls[q], Proc)

Budgeted(p) ==
  /\ calls[p] < MaxCalls
  /\ Call(p)
  /\ calls' = [calls EXCEPT ![p] = @ + 1]
  /\ Total' <= MaxTotal

Own(p) == Step(p) /\ UNCHANGED calls

(* All budgets are used up and whoever still waits may wait for ever: its  *)
(* condition was never made true.                                          *)
Stop ==
  /\ \A p \in Proc : pc[p] \in {"idle", "wait"}
  /\ \A p \in Proc : pc[p] = "wait" => ~cond[cv[p]]
  /\ UNCHANGED allVars

MCNext ==
  \/ \E p \in Proc : Budgeted(p)
  \/ \E p \in Proc : Own(p)
  \/ \E p \in Proc : Event(p) /\ UNCHANGED calls /\ Total' <= MaxTotal
  \/ Stop

MCSpec == MCInit /\ [][MCNext]_allVars

(* A process that is not blocked in WaitLatch goes on; it returns from its *)
(* interrupt handlers.                                                     *)
FairSpec == MCSpec /\ \A p \in Proc : WF_allVars(Own(p))

(* Every call returns.  A predicate loop ends once its condition is true   *)
(* and stays true: no process is left for ever in a call on a variable     *)
(* whose condition holds.  And a broadcast ends although woken waiters     *)
(* queue themselves again at once: this is what the sentinel is for.       *)
CallsReturn ==
  \A p \in Proc :
    /\ []<>~(pc[p] # "idle" /\ cv[p] \in CVs /\ cond[cv[p]])
    /\ pc[p] = "bcancel" ~> pc[p] \in {"idle", "interrupt"}
=============================================================================
