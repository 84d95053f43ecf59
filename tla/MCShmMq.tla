------------------------------ MODULE MCShmMq -------------------------------
(* ShmMq for TLC.                                                          *)
EXTENDS ShmMq

(* Everybody is gone, or waits for a worker that will never attach.        *)
Stop ==
  /\ ~notify /\ status = "stopped"
  /\ pc[worker] = "exited"
  /\ pc[Other(worker)] = "exited" \/ Orphaned
  /\ UNCHANGED vars

MCNext == Next \/ Stop

MCSpec == Init /\ [][MCNext]_vars

MCFairSpec == MCSpec /\ Fairness
=============================================================================
