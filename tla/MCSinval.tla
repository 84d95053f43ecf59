------------------------------ MODULE MCSinval ------------------------------
(* Sinval for TLC: at most MaxMsgs messages are ever sent.                 *)
EXTENDS Sinval, TLC

CONSTANT MaxMsgs

(* Messages inserted so far and those of the calls under way.              *)
Promised ==
  base + maxMsgNum
    + MapThenSumSet(LAMBDA p : toSend[p] + (IF pc[p] = "sflag" THEN 0 ELSE nthistime[p]), Proc)

WithinBudget == Promised' <= MaxMsgs

(* The ids have nothing to do with the messages: a behaviour uses the one  *)
(* or the other.                                                           *)
NoIds == \A s \in Slots : lastLXID[s] = 0
NoMessages == Promised = 0

(* Every process has ended: the run may stop here.                         *)
Stop == (\A p \in Proc : pc[p] = "exit") /\ UNCHANGED vars

MCNext ==
  \/ \E p \in Proc : NoIds /\ SendSharedInvalidMessages(p) /\ WithinBudget
  \/ \E p \in Proc : SharedInvalBackendInit(p)
  \/ \E p \in Proc : CleanupInvalidationState(p)
  \/ \E p \in Proc : NoMessages /\ GetNextLocalTransactionId(p)
  \/ \E p \in Proc : InsertStep(p)
  \/ \E p \in Proc : AcceptInvalidationMessages(p) \/ ProcessCatchupInterrupt(p)
  \/ \E p \in Proc : ReceiveStep(p)
  \/ \E p \in Proc : Recurse(p) \/ CallbackReturns(p)
  \/ \E p \in Proc : CallbackError(p)
  \/ \E p \in Proc : HandleCatchupInterrupt(p)
  \/ Stop

MCSpec == Init /\ [][MCNext]_vars

Symmetry == Permutations(Proc \ SendOnly)
=============================================================================
