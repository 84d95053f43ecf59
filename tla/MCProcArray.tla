---------------------------- MODULE MCProcArray -----------------------------
(* ProcArray for TLC.  A scenario says how often each backend may make     *)
(* each call; a behaviour starts in one of the scenarios, so that one run  *)
(* covers several small instances.                                         *)
EXTENDS ProcArray

CONSTANTS
  Scenarios,     \* the names of the scenarios to start in
  XidlessExport  \* whether a transaction without an id may export a snapshot

VARIABLE calls   \* what is left of the scenario: [Backend -> [Kind -> Nat]]

mcVars == <<vars, calls>>

Nothing == [start |-> 0, vacuum |-> 0, xid |-> 0, abortsub |-> 0, snapshot |-> 0, export |-> 0,
            import |-> 0, horizon |-> 0, query |-> 0, prepare |-> 0, finish |-> 0, exit |-> 0,
            abort |-> 0, post |-> 0]

Xact == [Nothing EXCEPT !.start = 1]
Writer == [Xact EXCEPT !.xid = 1]
Reader == [Xact EXCEPT !.snapshot = 1]
Pruner == [Writer EXCEPT !.horizon = 1]

Scenario ==
  [snapshots |->         \* two snapshots of one transaction, group clearing
     <<[Writer EXCEPT !.xid = 2], Writer, [Reader EXCEPT !.snapshot = 2]>>,
   subtransactions |->   \* the cache overflows, some abort
     <<[Writer EXCEPT !.xid = 4, !.abortsub = 1, !.abort = 1],
       [Reader EXCEPT !.query = 2], Nothing>>,
   group |->             \* three transactions end, one gets a late wakeup
     <<[Writer EXCEPT !.post = 1, !.abort = 1], Writer, Writer>>,
   horizons |->          \* a VACUUM and a reader, and rows to remove
     <<[Reader EXCEPT !.vacuum = 1], [Reader EXCEPT !.snapshot = 2], Pruner>>,
   imports |->           \* a snapshot passed on, and rows to remove
     <<[Writer EXCEPT !.snapshot = 1, !.export = 1], [Xact EXCEPT !.import = 1], Pruner>>,
   prepared |->          \* prepared by one and finished by another
     <<[Writer EXCEPT !.xid = 2, !.prepare = 1], [Writer EXCEPT !.start = 2, !.finish = 1],
       [Reader EXCEPT !.query = 1]>>,
   parents |->           \* two snapshots, subtransactions, pg_subtrans truncated
     <<[Writer EXCEPT !.xid = 2], [Writer EXCEPT !.xid = 3, !.horizon = 1],
       [Reader EXCEPT !.snapshot = 2]>>,
   connections |->       \* entries move while ids are stored
     <<[Writer EXCEPT !.exit = 1], Writer, Reader>>]

Within(p, kind) == calls[p][kind] > 0 /\ calls' = [calls EXCEPT ![p][kind] = @ - 1]

MCInit == Init /\ \E name \in Scenarios : calls = Scenario[name]

Stop ==
  /\ \A p \in Backend : OutOfCalls(p)
  /\ UNCHANGED mcVars

MCNext ==
  \/ \E p \in Backend :
       \/ /\ \/ Step(p) \/ StartBackend(p) \/ RecordTransactionEnd(p, "committed")
             \/ \E s \in held[p] : ReleaseSnapshot(p, s)
          /\ UNCHANGED calls
       \/ Within(p, "abort") /\ RecordTransactionEnd(p, "aborted")
       \/ Within(p, "start") /\ StartTransaction(p)
       \/ Within(p, "vacuum") /\ SetVacuumFlag(p)
       \/ Within(p, "xid") /\ GetNewTransactionId(p)
       \/ Within(p, "abortsub") /\ \E x \in Xid : AbortSubTransaction(p, x)
       \/ Within(p, "prepare") /\ \E g \in Gxact : PrepareTransaction(p, g)
       \/ /\ Within(p, "finish")
          /\ \E g \in Gxact, o \in Outcomes : FinishPreparedTransaction(p, g, o)
       \/ Within(p, "exit") /\ ExitBackend(p)
       \/ Within(p, "snapshot") /\ TakeSnapshot(p)
       \/ /\ Within(p, "export")
          /\ XidlessExport \/ IsValid(pgproc[p].xid)
          /\ \E s \in held[p] : ExportSnapshot(p, s)
       \/ Within(p, "import") /\ \E q \in Backend : ImportSnapshot(p, q)
       \/ Within(p, "horizon") /\ ComputeXidHorizons(p)
       \/ /\ Within(p, "query")
          /\ \E x \in Xid : AnswerAtOnce(p, x) \/ TransactionIdIsInProgress(p, x)
       \/ Within(p, "post") /\ SpuriousPost(p)
  \/ Stop

MCSpec == MCInit /\ [][MCNext]_mcVars
MCFairSpec == MCSpec /\ \A p \in Backend : WF_mcVars(Step(p) /\ UNCHANGED calls)

(* Every call returns (a scenario has finitely many, so nobody is in one   *)
(* in the end): followers of a group are woken, a leader gets the lock,    *)
(* and nobody waits for XidGenLock and ProcArrayLock in a circle.          *)
CallsReturn == <>[](\A p \in Backend : OutOfCalls(p))
=============================================================================
