------------------------------- MODULE RWLock -------------------------------
(***************************************************************************)
(* What lwlock.c promises its callers: locks that one process holds        *)
(* exclusively or several hold in shared mode.  No word, no flags, no      *)
(* queue; only who is inside.                                              *)
(***************************************************************************)
CONSTANTS Proc, Locks

VARIABLES
  exclusive,  \* per lock, the set of its exclusive holders
  shared      \* per lock, the set of its shared holders

vars == <<exclusive, shared>>

Init ==
  /\ exclusive = [l \in Locks |-> {}]
  /\ shared    = [l \in Locks |-> {}]

(* An exclusive request is granted when nobody is inside.                  *)
AcquireExclusive(p, l) ==
  /\ exclusive[l] = {} /\ shared[l] = {}
  /\ exclusive' = [exclusive EXCEPT ![l] = {p}]
  /\ UNCHANGED shared

(* A shared request is granted when nobody is inside exclusively, to a     *)
(* process that is not inside yet.                                         *)
AcquireShared(p, l) ==
  /\ exclusive[l] = {} /\ p \notin shared[l]
  /\ shared' = [shared EXCEPT ![l] = @ \cup {p}]
  /\ UNCHANGED exclusive

(* A holder leaves.                                                        *)
ReleaseExclusive(p, l) ==
  /\ p \in exclusive[l]
  /\ exclusive' = [exclusive EXCEPT ![l] = @ \ {p}]
  /\ UNCHANGED shared

ReleaseShared(p, l) ==
  /\ p \in shared[l]
  /\ shared' = [shared EXCEPT ![l] = @ \ {p}]
  /\ UNCHANGED exclusive

Next ==
  \E p \in Proc, l \in Locks :
    \/ AcquireExclusive(p, l) \/ AcquireShared(p, l)
    \/ ReleaseExclusive(p, l) \/ ReleaseShared(p, l)

Spec == Init /\ [][Next]_vars
=============================================================================
