------------------------------ MODULE MCLWLock ------------------------------
(* LWLock for TLC: each process makes at most MaxCalls waiting calls, and  *)
(* all of them together at most MaxTotal.                                  *)
EXTENDS LWLock, TLC, FiniteSetsExt

CONSTANTS MaxCalls, MaxTotal

VARIABLE calls

MCInit == Init /\ calls = [p \in Proc |-> 0]

HasBudget(p) ==
  /\ calls[p] < MaxCalls
  /\ MapThenSumSet(LAMBDA q : calls[q], Proc) < MaxTotal

Budgeted(p) ==
  /\ HasBudget(p)
  /\ Call(p)
  /\ calls' = [calls EXCEPT ![p] = @ + 1]

AllDone == \A p \in Proc : pc[p] = "idle" /\ ~HasBudget(p) /\ held[p] = << >>

(* The budget is used up and nobody holds a lock: the run may stop here.   *)
Stop == AllDone /\ UNCHANGED <<vars, calls>>

MCNext ==
  \/ \E p \in Proc : Budgeted(p)
  \/ \E p \in Proc : (CallEnd(p) \/ Step(p) \/ SpuriousPost(p)) /\ UNCHANGED calls
  \/ Stop

(* A process inside lwlock.c goes on, and one that holds locks ends up     *)
(* releasing them.  Nothing obliges a process to make a call.              *)
Fairness ==
  \A p \in Proc :
    /\ WF_<<vars, calls>>(Step(p) /\ UNCHANGED calls)
    /\ WF_<<vars, calls>>(CallEnd(p) /\ UNCHANGED calls)

MCSpec == MCInit /\ [][MCNext]_<<vars, calls>>

FairSpec == MCSpec /\ Fairness

(* Every call of lwlock.c returns, provided that lock holders release: no  *)
(* sleeper is forgotten whatever the order of its queueing and the others' *)
(* releases.                                                               *)
CallsReturn == \A p \in Proc : (pc[p] # "idle") ~> (pc[p] = "idle")

Symmetry == Permutations(Proc)
=============================================================================
