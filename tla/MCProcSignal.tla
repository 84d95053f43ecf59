---------------------------- MODULE MCProcSignal ----------------------------
(* ProcSignal for TLC.                                                     *)
EXTENDS ProcSignal

(* Bound: processes started, barriers emitted, other signals sent and      *)
(* failures, together.                                                     *)
CONSTANT MaxTotal

Started == {p \in Process : pc[p] # "out"}

(* Pids are given out in order, which makes the instance symmetric.        *)
InOrder == \A p \in Started, q \in Process : q < p => q \in Started

MCNext ==
  /\ Next
  /\ (Cardinality(Started) + emits + sends + fails <= MaxTotal)'
  /\ InOrder'

MCSpec == Init /\ [][MCNext]_vars

MCFairSpec == MCSpec /\ Fairness
=============================================================================
