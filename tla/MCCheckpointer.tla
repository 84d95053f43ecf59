--------------------------- MODULE MCCheckpointer ---------------------------
(* Checkpointer for TLC: the backends start at most MaxOps operations and  *)
(* change pages at most MaxChanges times; these, the checkpoints caused by *)
(* time and the I/O errors together are at most MaxTotal.                  *)
EXTENDS Checkpointer

CONSTANTS MaxOps, MaxChanges, MaxTotal

VARIABLES ops, changes

allVars == <<vars, ops, changes>>
budget == <<ops, changes>>

MCInit == Init /\ ops = 0 /\ changes = 0

Budgeted(p) == Call(p) /\ ops < MaxOps /\ ops' = ops + 1 /\ UNCHANGED changes

Change(f) ==
  ModifyPage(f) /\ changes < MaxChanges /\ changes' = changes + 1 /\ UNCHANGED ops

(* The budget is used up and the checkpointer sleeps.                      *)
Stop ==
  /\ cpc = "sleep" /\ \A p \in Proc : pc[p] = "idle"
  /\ UNCHANGED allVars

Within == ops' + changes' + timed' + fails' <= MaxTotal

MCNext ==
  \/ CheckpointerStep /\ UNCHANGED budget /\ Within
  \/ CheckpointerEvent /\ UNCHANGED budget /\ Within
  \/ \E f \in Files : Change(f) /\ Within
  \/ \E p \in Proc : Budgeted(p) /\ Within
  \/ \E p \in Proc : Step(p) /\ UNCHANGED budget /\ Within
  \/ \E p \in Proc : SyncDirtySegmentError(p) /\ UNCHANGED budget /\ Within
  \/ Stop

MCSpec == MCInit /\ [][MCNext]_allVars

(* The checkpointer and the backends go on; the checkpointer need not be   *)
(* woken by a timeout, and nothing obliges a backend to make a call.       *)
MCFairSpec ==
  /\ MCSpec
  /\ WF_allVars(CheckpointerStep /\ UNCHANGED budget /\ Within)
  /\ \A p \in Proc : WF_allVars(Step(p) /\ UNCHANGED budget /\ Within)

(* Every operation returns (there are MaxOps at most, so the backends are  *)
(* idle in the end): a request for a checkpoint is seen even when its      *)
(* signal arrives during a nap or while the checkpointer decides to sleep, *)
(* the two waits end, and a backend that waits for room in the queue gets  *)
(* some.                                                                   *)
OperationsReturn == <>[](\A p \in Proc : pc[p] = "idle")
=============================================================================
