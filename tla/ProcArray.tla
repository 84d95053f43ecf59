----------------------------- MODULE ProcArray ------------------------------
(***************************************************************************)
(* The array of running transactions: storage/ipc/procarray.c, with the    *)
(* assignment of transaction ids (access/transam/varsup.c), the use of     *)
(* snapshots (utils/time/snapmgr.c) and the parts of xact.c, twophase.c    *)
(* and vacuum.c that start, prepare and end transactions.                  *)
(*                                                                         *)
(* ProcArrayLock and XidGenLock are readers-writer locks (RWLock).  What   *)
(* is done under ProcArrayLock in exclusive mode is one step, since nobody *)
(* looks at the array without the lock; a scan in shared mode takes one    *)
(* step for each entry, since ids, subtransactions and xmins are set       *)
(* without ProcArrayLock in exclusive mode.                                *)
(***************************************************************************)
EXTENDS Integers, SequencesExt, FiniteSetsExt, TLC

CONSTANTS
  Backend,      \* pgprocnos of the backends
  Gxact,        \* pgprocnos of the dummies for prepared transactions
  PGPROC_MAX_CACHED_SUBXIDS,
  MaxXid        \* bound: the last transaction id

ASSUME ConstantsAssumption ==
  /\ Backend \subseteq Nat /\ Gxact \subseteq Nat
  /\ \A b \in Backend, g \in Gxact : b < g
  /\ PGPROC_MAX_CACHED_SUBXIDS \in Nat
  /\ MaxXid \in Nat \ {0, 1}

InvalidTransactionId == 0
INVALID_PGPROCNO == -1
NoProc == -1

(* A transaction of before the start, and those of the model.              *)
FirstXid == 1
Xid == FirstXid .. MaxXid

VARIABLES
  (* ShmemVariableCache *)
  nextXid, latestCompletedXid, xactCompletionCount,
  (* ProcArrayStruct and the arrays of PROC_HDR that run parallel to it *)
  procArray,
  procArrayGroupFirst,
  pgproc,             \* the PGPROCs
  sem,                \* their semaphores
  procArrayLock,      \* [ex |-> the exclusive holder, sh |-> the shared ones]
  xidGenLock,         \* who has it, always in exclusive mode here
  clog,               \* pg_xact
  parent,             \* pg_subtrans
  gxact,              \* GlobalTransactionData: [xid, children, locking_backend]
  (* private to a backend *)
  pc,                 \* where it is
  loc,                \* the local variables of the function that it is in
  CurrentSnapshotData,
  held,               \* snapshots in use (pushed or registered)
  children,           \* subtransactions with an id that did not abort
  open,               \* those of them that are not over, the outermost first
  export,             \* the snapshot that it exported, if any
  nextLocalTransactionId,
  TransactionXmin, RecentXmin,
  query,              \* the last call of TransactionIdIsInProgress
  cachedXidIsNotInProgress,
  (* history *)
  completed,          \* the sets of ids that left the array, in this order
  removed,            \* rows deleted by ids before this one may be gone
  truncated           \* pg_subtrans may be truncated before this id

xidVars == <<nextXid, latestCompletedXid, xactCompletionCount>>
arrayVars == <<procArray, procArrayGroupFirst, pgproc, sem>>
lockVars == <<procArrayLock, xidGenLock>>
diskVars == <<clog, parent, gxact>>
snapVars == <<CurrentSnapshotData, held, TransactionXmin, RecentXmin, export>>
subVars == <<children, open>>
xactVars == <<subVars, nextLocalTransactionId>>
queryVars == <<query, cachedXidIsNotInProgress>>
histVars == <<completed, removed, truncated>>
vars == <<xidVars, arrayVars, lockVars, diskVars, pc, loc, snapVars, xactVars, queryVars,
           histVars>>

-----------------------------------------------------------------------------
Proc == Backend \cup Gxact

IsValid(xid) == xid # InvalidTransactionId

(* TransactionIdOlder: an invalid id does not count.                       *)
TransactionIdOlder(a, b) ==
  IF ~IsValid(a) THEN b ELSE IF ~IsValid(b) THEN a ELSE IF a < b THEN a ELSE b

(* The topmost parent of an id, or an id before TransactionXmin.           *)
SubTransGetTopmostTransaction(p, xid) ==
  LET Top[x \in Xid] ==
        IF x < TransactionXmin[p] \/ ~IsValid(parent[x]) THEN x ELSE Top[parent[x]]
  IN  Top[xid]

(* The ids that it calls SubTransGetParent for.                            *)
ParentsAsked(p, xid) ==
  LET Asked[x \in Xid] ==
        IF x < TransactionXmin[p] THEN {}
        ELSE {x} \cup (IF IsValid(parent[x]) THEN Asked[parent[x]] ELSE {})
  IN  Asked[xid]

NoSnapshot ==
  [xmin |-> 0, xmax |-> 0, xip |-> {}, subxip |-> {}, suboverflowed |-> FALSE,
   snapXactCompletionCount |-> 0, since |-> 0]

(* Whether a snapshot of p takes a transaction for one still running.      *)
XidInMVCCSnapshot(p, xid, s) ==
  LET top == SubTransGetTopmostTransaction(p, xid)
  IN  /\ xid >= s.xmin
      /\ \/ xid >= s.xmax
         \/ ~s.suboverflowed /\ xid \in s.subxip \cup s.xip
         \/ s.suboverflowed /\ top >= s.xmin /\ top \in s.xip

NoExport == [proc |-> NoProc, lxid |-> 0, snap |-> NoSnapshot, of |-> NoSnapshot]

NoLocals ==
  [idx |-> 0, snap |-> NoSnapshot, running |-> 0, nonremovable |-> 0, xid |-> 0, xids |-> {},
   nextidx |-> INVALID_PGPROCNO, wakeidx |-> INVALID_PGPROCNO, extraWaits |-> 0,
   gxact |-> NoProc, source |-> NoExport]

NoQuery == [xid |-> 0, ended |-> FALSE, result |-> "none"]

FreshProc ==
  [xid |-> 0, xmin |-> 0, lxid |-> 0, subxids |-> << >>, overflowed |-> FALSE,
   inVacuum |-> FALSE, pgxactoff |-> 0, member |-> FALSE, memberXid |-> 0,
   groupNext |-> INVALID_PGPROCNO]

NoGxact == [xid |-> 0, children |-> {}, locking_backend |-> NoProc]

(* An entry of pgprocnos[], xids[], subxidStates[] and statusFlags[].      *)
Entry(n, proc) ==
  [pgprocno |-> n, xid |-> proc.xid, count |-> Len(proc.subxids),
   overflowed |-> proc.overflowed, inVacuum |-> proc.inVacuum]

Init ==
  LET first == SetToSortSeq(Backend, <)
  IN  /\ nextXid = FirstXid + 1 /\ latestCompletedXid = FirstXid /\ xactCompletionCount = 1
      /\ pgproc = [n \in Proc |->
                    [FreshProc EXCEPT !.pgxactoff =
                       IF n \in Backend THEN CHOOSE i \in DOMAIN first : first[i] = n ELSE 0]]
      /\ procArray = [i \in DOMAIN first |-> Entry(first[i], FreshProc)]
      /\ procArrayGroupFirst = INVALID_PGPROCNO
      /\ sem = [n \in Backend |-> 0]
      /\ procArrayLock = [ex |-> NoProc, sh |-> {}] /\ xidGenLock = NoProc
      /\ clog = [x \in Xid |-> IF x = FirstXid THEN "committed" ELSE "in progress"]
      /\ parent = [x \in Xid |-> InvalidTransactionId]
      /\ gxact = [g \in Gxact |-> NoGxact]
      /\ pc = [p \in Backend |-> "idle"]
      /\ loc = [p \in Backend |-> NoLocals]
      /\ CurrentSnapshotData = [p \in Backend |-> NoSnapshot]
      /\ held = [p \in Backend |-> {}]
      /\ children = [p \in Backend |-> {}] /\ open = [p \in Backend |-> << >>]
      /\ export = [p \in Backend |-> NoExport]
      /\ nextLocalTransactionId = [p \in Backend |-> 1]
      /\ TransactionXmin = [p \in Backend |-> FirstXid]
      /\ RecentXmin = [p \in Backend |-> FirstXid]
      /\ query = [p \in Backend |-> NoQuery]
      /\ cachedXidIsNotInProgress = [p \in Backend |-> InvalidTransactionId]
      /\ completed = << >> /\ removed = FirstXid /\ truncated = FirstXid

Go(p, label) == pc' = [pc EXCEPT ![p] = label]

-----------------------------------------------------------------------------
(* The locks.                                                              *)

CanLockExclusive(p) == procArrayLock.ex = NoProc /\ procArrayLock.sh = {}

LockExclusive(p) ==
  CanLockExclusive(p) /\ procArrayLock' = [procArrayLock EXCEPT !.ex = p]

UnlockExclusive(p) ==
  procArrayLock.ex = p /\ procArrayLock' = [procArrayLock EXCEPT !.ex = NoProc]

LockShared(p) ==
  /\ procArrayLock.ex = NoProc
  /\ procArrayLock' = [procArrayLock EXCEPT !.sh = @ \cup {p}]

UnlockShared(p) == procArrayLock' = [procArrayLock EXCEPT !.sh = @ \ {p}]

(* A short critical section in exclusive mode.                             *)
Exclusively(p) == CanLockExclusive(p) /\ UNCHANGED procArrayLock

-----------------------------------------------------------------------------
(* Joining and leaving the array.  Both locks are taken, ProcArrayLock     *)
(* first.                                                                  *)

(* pgxactoff of everybody after a change of the array.                     *)
Renumbered(procs, arr) ==
  [n \in Proc |->
     IF \E i \in DOMAIN arr : arr[i].pgprocno = n
     THEN [procs[n] EXCEPT !.pgxactoff = CHOOSE i \in DOMAIN arr : arr[i].pgprocno = n]
     ELSE procs[n]]

(* Insert a PGPROC so that the array stays sorted.                         *)
Inserted(n, proc) ==
  LET before == Cardinality({i \in DOMAIN procArray : procArray[i].pgprocno < n})
  IN  InsertAt(procArray, before + 1, Entry(n, proc))

ProcArrayAdd(n, proc) ==
  /\ procArray' = Inserted(n, proc)
  /\ pgproc' = Renumbered([pgproc EXCEPT ![n] = proc], procArray')

ProcArrayRemove(n) ==
  /\ procArray' = RemoveAt(procArray, pgproc[n].pgxactoff)
  /\ pgproc' = Renumbered(pgproc, procArray')

(* Advance latestCompletedXid and xactCompletionCount for the transactions *)
(* that end together.                                                      *)
MaintainLatestCompletedXid(latest) ==
  latestCompletedXid' = IF latestCompletedXid < latest THEN latest ELSE latestCompletedXid

(* XidGenLock keeps the entries where they are while an id is stored.      *)
CanMoveEntries == xidGenLock = NoProc

LockForArray(p, from, to) ==
  /\ pc[p] = from /\ LockExclusive(p)
  /\ Go(p, to)
  /\ UNCHANGED <<xidVars, procArray, procArrayGroupFirst, pgproc, xidGenLock, diskVars, snapVars,
                 xactVars, queryVars, histVars>>

(* Mutant of CountCompleted: the counter is left alone.                    *)
CountNothing(n) == xactCompletionCount

(* xactCompletionCount after n transactions have ended.                    *)
CountCompleted(n) == xactCompletionCount + n

(* InitProcess resets the semaphore; RemoveProcFromArray runs at exit.     *)
StartBackend(p) ==
  LockForArray(p, "gone", "join") /\ sem' = [sem EXCEPT ![p] = 0] /\ UNCHANGED loc

ExitBackend(p) == LockForArray(p, "idle", "leave") /\ UNCHANGED <<sem, loc>>

InitProcessPhase2(p) ==
  /\ pc[p] = "join" /\ CanMoveEntries
  /\ ProcArrayAdd(p, FreshProc)
  /\ UnlockExclusive(p)
  /\ Go(p, "idle")
  /\ UNCHANGED <<xidVars, procArrayGroupFirst, sem, xidGenLock, diskVars, loc, snapVars, xactVars,
                 queryVars, histVars>>

RemoveProcFromArray(p) ==
  /\ pc[p] = "leave" /\ CanMoveEntries
  /\ ProcArrayRemove(p)
  /\ UnlockExclusive(p)
  /\ Go(p, "gone")
  /\ CurrentSnapshotData' = [CurrentSnapshotData EXCEPT ![p] = NoSnapshot]
  /\ TransactionXmin' = [TransactionXmin EXCEPT ![p] = FirstXid]
  /\ RecentXmin' = [RecentXmin EXCEPT ![p] = FirstXid]
  /\ cachedXidIsNotInProgress' = [cachedXidIsNotInProgress EXCEPT ![p] = InvalidTransactionId]
  /\ UNCHANGED <<xidVars, procArrayGroupFirst, sem, xidGenLock, diskVars, loc, held, export,
                 xactVars, query, histVars>>

-----------------------------------------------------------------------------
(* Transactions and their ids.                                             *)

StartTransaction(p) ==
  /\ pc[p] = "idle"
  /\ pgproc' = [pgproc EXCEPT ![p].lxid = nextLocalTransactionId[p]]
  /\ nextLocalTransactionId' = [nextLocalTransactionId EXCEPT ![p] = @ + 1]
  /\ Go(p, "xact")
  /\ UNCHANGED <<xidVars, procArray, procArrayGroupFirst, sem, lockVars, diskVars, loc, snapVars,
                 subVars, queryVars, histVars>>

(* vacuum_rel sets PROC_IN_VACUUM first thing in its transaction, before   *)
(* it takes a snapshot.                                                    *)
SetVacuumFlag(p) ==
  /\ pc[p] = "xact" /\ Exclusively(p)
  /\ held[p] = {} /\ ~IsValid(pgproc[p].xmin) /\ ~IsValid(pgproc[p].xid)
  /\ pgproc' = [pgproc EXCEPT ![p].inVacuum = TRUE]
  /\ procArray' = [procArray EXCEPT ![pgproc[p].pgxactoff].inVacuum = TRUE]
  /\ UNCHANGED <<xidVars, procArrayGroupFirst, sem, xidGenLock, diskVars, pc, loc, snapVars, xactVars,
                 queryVars, histVars>>

(* Mutant of CanTakeXid: XidGenLock is not taken.                          *)
TakeXidUnlocked(p) == TRUE

(* GetNewTransactionId: the id is taken and stored under XidGenLock, at    *)
(* the offset that the backend finds in its PGPROC.                        *)
CanTakeXid(p) == xidGenLock = NoProc

GetNewTransactionId(p) ==
  /\ pc[p] = "xact" /\ ~pgproc[p].inVacuum
  /\ CanTakeXid(p)
  /\ nextXid <= MaxXid
  /\ xidGenLock' = p
  /\ loc' = [loc EXCEPT ![p].xid = nextXid, ![p].idx = pgproc[p].pgxactoff]
  /\ nextXid' = nextXid + 1
  /\ Go(p, "assign")
  /\ UNCHANGED <<latestCompletedXid, xactCompletionCount, arrayVars, procArrayLock, diskVars,
                 snapVars, xactVars, queryVars, histVars>>

(* The first id is the transaction's, the others are of subtransactions: a *)
(* new one is begun in one that is open, after those inside that have      *)
(* committed.  AssignTransactionId then records the parent; nobody can ask *)
(* for it before.                                                          *)
StoreXid(p, off, xid) ==
  /\ pgproc' = [pgproc EXCEPT ![p].xid = xid]
  /\ procArray' = [procArray EXCEPT ![off].xid = xid]
  /\ UNCHANGED <<parent, subVars>>

StoreSubXid(p, off, xid) ==
  /\ IF Len(pgproc[p].subxids) < PGPROC_MAX_CACHED_SUBXIDS
     THEN /\ pgproc' = [pgproc EXCEPT ![p].subxids = Append(@, xid)]
          /\ procArray' = [procArray EXCEPT ![off].count = Len(pgproc[p].subxids) + 1]
     ELSE /\ pgproc' = [pgproc EXCEPT ![p].overflowed = TRUE]
          /\ procArray' = [procArray EXCEPT ![off].overflowed = TRUE]
  /\ \E depth \in 0 .. Len(open[p]) :
       /\ parent' = [parent EXCEPT ![xid] = IF depth = 0 THEN pgproc[p].xid ELSE open[p][depth]]
       /\ open' = [open EXCEPT ![p] = Append(SubSeq(@, 1, depth), xid)]
  /\ children' = [children EXCEPT ![p] = @ \cup {xid}]

StoreTransactionId(p) ==
  /\ pc[p] = "assign"
  /\ IF ~IsValid(pgproc[p].xid) THEN StoreXid(p, loc[p].idx, loc[p].xid)
     ELSE StoreSubXid(p, loc[p].idx, loc[p].xid)
  /\ xidGenLock' = IF xidGenLock = p THEN NoProc ELSE xidGenLock
  /\ loc' = [loc EXCEPT ![p] = NoLocals]
  /\ Go(p, "xact")
  /\ UNCHANGED <<xidVars, procArrayGroupFirst, sem, procArrayLock, clog, gxact, snapVars,
                 nextLocalTransactionId, queryVars, histVars>>

(* RecordTransactionAbort of an open subtransaction: the later ones are    *)
(* inside it.                                                              *)
AbortSubTransaction(p, x) ==
  LET tree == {y \in children[p] : y >= x}
  IN  /\ pc[p] = "xact" /\ x \in ToSet(open[p])
      /\ clog' = [y \in Xid |-> IF y \in tree THEN "aborted" ELSE clog[y]]
      /\ children' = [children EXCEPT ![p] = @ \ tree]
      /\ open' = [open EXCEPT ![p] = SelectSeq(@, LAMBDA y : y < x)]
      /\ loc' = [loc EXCEPT ![p].xids = tree]
      /\ Go(p, "subabort")
      /\ UNCHANGED <<xidVars, arrayVars, lockVars, parent, gxact, snapVars,
                     nextLocalTransactionId, queryVars, histVars>>

XidCacheRemoveRunningXids(p) ==
  LET tree == loc[p].xids
      left == SelectSeq(pgproc[p].subxids, LAMBDA x : x \notin tree)
  IN  /\ pc[p] = "subabort" /\ Exclusively(p)
      /\ pgproc' = [pgproc EXCEPT ![p].subxids = left]
      /\ procArray' = [procArray EXCEPT ![pgproc[p].pgxactoff].count = Len(left)]
      /\ MaintainLatestCompletedXid(Max(tree))
      /\ xactCompletionCount' = CountCompleted(1)
      /\ completed' = Append(completed, tree)
      /\ loc' = [loc EXCEPT ![p] = NoLocals]
      /\ Go(p, "xact")
      /\ UNCHANGED <<nextXid, procArrayGroupFirst, sem, xidGenLock, diskVars, snapVars, xactVars,
                     queryVars, removed, truncated>>

-----------------------------------------------------------------------------
(* Snapshots.                                                              *)

(* A snapshot comes into use: its xmin is advertised unless an older one   *)
(* is.                                                                     *)
UseSnapshot(p, s) ==
  /\ pgproc' = [pgproc EXCEPT ![p].xmin = IF IsValid(@) THEN @ ELSE s.xmin]
  /\ TransactionXmin' =
       [TransactionXmin EXCEPT ![p] = IF IsValid(pgproc[p].xmin) THEN @ ELSE s.xmin]
  /\ RecentXmin' = [RecentXmin EXCEPT ![p] = s.xmin]
  /\ CurrentSnapshotData' = [CurrentSnapshotData EXCEPT ![p] = s]
  /\ IF pc[p] = "import0" \/ loc[p].source # NoExport
     THEN UNCHANGED held /\ Go(p, "import")
     ELSE held' = [held EXCEPT ![p] = @ \cup {s}] /\ Go(p, "xact")

(* GetSnapshotDataReuse: no transaction with an id has ended since.        *)
CanReuse(p) ==
  /\ CurrentSnapshotData[p].snapXactCompletionCount # 0
  /\ CurrentSnapshotData[p].snapXactCompletionCount = xactCompletionCount

GetSnapshotDataReuse(p) ==
  /\ pc[p] \in {"xact", "import0"}
  /\ procArrayLock.ex = NoProc
  /\ CanReuse(p)
  /\ UseSnapshot(p, [CurrentSnapshotData[p] EXCEPT !.since = Len(completed)])
  /\ UNCHANGED <<xidVars, procArray, procArrayGroupFirst, sem, lockVars, diskVars, loc, export,
                 xactVars, queryVars, histVars>>

(* GetSnapshotData up to its loop, one round of the loop, and the rest.    *)
Xmax == latestCompletedXid + 1

GetSnapshotData(p) ==
  /\ pc[p] \in {"xact", "import0"}
  /\ LockShared(p)
  /\ ~CanReuse(p)
  /\ loc' = [loc EXCEPT
                ![p].idx = 1,
                ![p].snap = [NoSnapshot EXCEPT
                               !.xmax = Xmax,
                               !.xmin = TransactionIdOlder(pgproc[p].xid, Xmax),
                               !.snapXactCompletionCount = xactCompletionCount,
                               !.since = Len(completed)]]
  /\ Go(p, "snap")
  /\ UNCHANGED <<xidVars, arrayVars, xidGenLock, diskVars, snapVars, xactVars, queryVars, histVars>>

WithEntry(s, e) ==
  LET sub == pgproc[e.pgprocno].subxids
  IN  [s EXCEPT
         !.xmin = IF e.xid < @ THEN e.xid ELSE @,
         !.xip = @ \cup {e.xid},
         !.suboverflowed = @ \/ e.overflowed,
         !.subxip = IF s.suboverflowed \/ e.overflowed THEN @ ELSE @ \cup ToSet(SubSeq(sub, 1, e.count))]

CollectXid(p) ==
  LET i == loc[p].idx
      e == procArray[i]
      skip == ~IsValid(e.xid) \/ i = pgproc[p].pgxactoff \/ e.xid >= loc[p].snap.xmax \/ e.inVacuum
  IN  /\ pc[p] = "snap" /\ i <= Len(procArray)
      /\ loc' = [loc EXCEPT ![p].idx = i + 1,
                            ![p].snap = IF skip THEN @ ELSE WithEntry(@, e)]
      /\ UNCHANGED <<xidVars, arrayVars, lockVars, diskVars, pc, snapVars, xactVars, queryVars,
                     histVars>>

SnapshotComplete(p) ==
  /\ pc[p] = "snap" /\ loc[p].idx > Len(procArray)
  /\ UseSnapshot(p, loc[p].snap)
  /\ UnlockShared(p)
  /\ loc' = [loc EXCEPT ![p] = [NoLocals EXCEPT !.source = loc[p].source]]
  /\ UNCHANGED <<xidVars, procArray, procArrayGroupFirst, sem, xidGenLock, diskVars, export,
                 xactVars, queryVars, histVars>>

(* UnregisterSnapshot or PopActiveSnapshot, with SnapshotResetXmin, which  *)
(* takes no lock and does nothing while one of the others is active.       *)
(* TransactionXmin stays.                                                  *)
ResetXmin(p, left) ==
  LET min == Min({s.xmin : s \in left})
      xmin == pgproc[p].xmin
  IN  IF left = {} THEN {InvalidTransactionId} ELSE {xmin, IF xmin < min THEN min ELSE xmin}

ReleaseSnapshot(p, s) ==
  LET left == held[p] \ {s}
  IN  /\ pc[p] = "xact" /\ s \in held[p] /\ s # export[p].of
      /\ held' = [held EXCEPT ![p] = left]
      /\ \E xmin \in ResetXmin(p, left) : pgproc' = [pgproc EXCEPT ![p].xmin = xmin]
      /\ UNCHANGED <<xidVars, procArray, procArrayGroupFirst, sem, lockVars, diskVars, pc, loc,
                     CurrentSnapshotData, TransactionXmin, RecentXmin, export, xactVars, queryVars,
                     histVars>>

(* ExportSnapshot adds the exporter's own transaction, which its snapshot  *)
(* leaves out, and keeps the snapshot registered until the transaction     *)
(* ends.  No subtransaction is open.                                       *)
GetMaxSnapshotSubxidCount == (PGPROC_MAX_CACHED_SUBXIDS + 1) * Cardinality(Proc)

Exported(p, s) ==
  LET own == {pgproc[p].xid} \ {InvalidTransactionId}
      sof == \/ s.suboverflowed
             \/ Cardinality(s.subxip) + Cardinality(children[p]) > GetMaxSnapshotSubxidCount
  IN  [s EXCEPT !.xip = @ \cup {x \in own : x < s.xmax},
                !.suboverflowed = sof,
                !.subxip = IF sof THEN {} ELSE @ \cup children[p],
                !.snapXactCompletionCount = 0]

ExportSnapshot(p, s) ==
  /\ pc[p] = "xact" /\ ~pgproc[p].inVacuum /\ export[p] = NoExport /\ s \in held[p]
  /\ export' = [export EXCEPT ![p] = [proc |-> p, lxid |-> pgproc[p].lxid,
                                      snap |-> Exported(p, s), of |-> s]]
  /\ open' = [open EXCEPT ![p] = << >>]
  /\ UNCHANGED <<xidVars, arrayVars, lockVars, diskVars, pc, loc, CurrentSnapshotData, held,
                 TransactionXmin, RecentXmin, children, nextLocalTransactionId, queryVars, histVars>>

(* ImportSnapshot reads the file and SetTransactionSnapshot takes a        *)
(* snapshot of its own first.                                              *)
ImportSnapshot(p, q) ==
  /\ pc[p] = "xact" /\ ~pgproc[p].inVacuum /\ q # p
  /\ held[p] = {} /\ ~IsValid(pgproc[p].xmin) /\ ~IsValid(pgproc[p].xid)
  /\ export[q] # NoExport
  /\ loc' = [loc EXCEPT ![p].source = export[q]]
  /\ Go(p, "import0")
  /\ UNCHANGED <<xidVars, arrayVars, lockVars, diskVars, snapVars, xactVars, queryVars, histVars>>

(* ProcArrayInstallImportedXmin: the source must be running with an xmin   *)
(* that covers the snapshot.                                               *)
SourceRuns(src) ==
  LET proc == pgproc[src.proc]
  IN  /\ proc.lxid = src.lxid
      /\ IsValid(proc.xmin) /\ proc.xmin <= src.snap.xmin

CheckImportSource(p) ==
  /\ pc[p] = "import" /\ LockShared(p)
  /\ Go(p, IF SourceRuns(loc[p].source) THEN "install" ELSE "refuse")
  /\ UNCHANGED <<xidVars, arrayVars, xidGenLock, diskVars, loc, snapVars, xactVars, queryVars,
                 histVars>>

InstallImportedXmin(p) ==
  LET s == loc[p].source.snap
  IN  /\ pc[p] = "install" /\ UnlockShared(p)
      /\ pgproc' = [pgproc EXCEPT ![p].xmin = s.xmin]
      /\ TransactionXmin' = [TransactionXmin EXCEPT ![p] = s.xmin]
      /\ CurrentSnapshotData' = [CurrentSnapshotData EXCEPT ![p] = s]
      /\ held' = [held EXCEPT ![p] = {s}]
      /\ loc' = [loc EXCEPT ![p] = NoLocals]
      /\ Go(p, "xact")
      /\ UNCHANGED <<xidVars, procArray, procArrayGroupFirst, sem, xidGenLock, diskVars, RecentXmin,
                     export, xactVars, queryVars, histVars>>

(* The import fails with an ERROR.                                         *)
RefuseImport(p) ==
  /\ pc[p] = "refuse" /\ UnlockShared(p)
  /\ CurrentSnapshotData' = [CurrentSnapshotData EXCEPT ![p] = loc[p].source.snap]
  /\ loc' = [loc EXCEPT ![p] = NoLocals]
  /\ Go(p, "endro")
  /\ UNCHANGED <<xidVars, arrayVars, xidGenLock, diskVars, held, TransactionXmin, RecentXmin,
                 export, xactVars, queryVars, histVars>>

-----------------------------------------------------------------------------
(* ComputeXidHorizons, with what its callers do with the result: VACUUM    *)
(* and pruning remove rows, a checkpoint truncates pg_subtrans.            *)

ComputeXidHorizons(p) ==
  /\ pc[p] \in {"idle", "xact"}
  /\ LockShared(p)
  /\ loc' = [loc EXCEPT ![p].idx = 1, ![p].running = Xmax, ![p].nonremovable = Xmax]
  /\ Go(p, "horizon")
  /\ UNCHANGED <<xidVars, arrayVars, xidGenLock, diskVars, snapVars, xactVars, queryVars, histVars>>

(* Mutant of OldestOf: only the advertised xmin counts.                    *)
OldestXminOnly(e) == pgproc[e.pgprocno].xmin

(* A backend's id counts too, while it has no snapshot yet.                *)
OldestOf(e) == TransactionIdOlder(pgproc[e.pgprocno].xmin, e.xid)

HorizonEntry(p) ==
  LET i == loc[p].idx
      e == procArray[i]
      xmin == OldestOf(e)
  IN  /\ pc[p] = "horizon" /\ i <= Len(procArray)
      /\ loc' = [loc EXCEPT
                    ![p].idx = i + 1,
                    ![p].running = TransactionIdOlder(@, xmin),
                    ![p].nonremovable = IF e.inVacuum THEN @ ELSE TransactionIdOlder(@, xmin)]
      /\ UNCHANGED <<xidVars, arrayVars, lockVars, diskVars, pc, snapVars, xactVars, queryVars,
                     histVars>>

HorizonsComplete(p) ==
  /\ pc[p] = "horizon" /\ loc[p].idx > Len(procArray)
  /\ UnlockShared(p)
  /\ removed' = Max({removed, loc[p].nonremovable})
  /\ truncated' = Max({truncated, loc[p].running})
  /\ loc' = [loc EXCEPT ![p] = NoLocals]
  /\ Go(p, IF pgproc[p].lxid = 0 THEN "idle" ELSE "xact")
  /\ UNCHANGED <<xidVars, arrayVars, xidGenLock, diskVars, snapVars, xactVars, queryVars, completed>>

-----------------------------------------------------------------------------
(* TransactionIdIsInProgress.                                              *)

HasEnded(xid) == xid = FirstXid \/ \E i \in DOMAIN completed : xid \in completed[i]

Own(p) == {pgproc[p].xid} \cup children[p]

(* An id is known to others once AssignTransactionId has returned.         *)
Known(p) ==
  (FirstXid .. nextXid - 1) \ (Own(p) \cup {loc[q].xid : q \in {b \in Backend : pc[b] = "assign"}})

Answer(p, xid, ended, result) ==
  /\ query' = [query EXCEPT ![p] = [xid |-> xid, ended |-> ended, result |-> result]]
  /\ Go(p, "xact")

(* The answers that need no lock, or none but latestCompletedXid.          *)
AnswerAtOnce(p, xid) ==
  /\ pc[p] = "xact" /\ xid \in Known(p)
  /\ \/ /\ xid < RecentXmin[p] \/ xid = cachedXidIsNotInProgress[p]
        /\ Answer(p, xid, HasEnded(xid), "no")
     \/ /\ xid >= RecentXmin[p] /\ xid # cachedXidIsNotInProgress[p]
        /\ procArrayLock.ex = NoProc
        /\ latestCompletedXid < xid
        /\ Answer(p, xid, HasEnded(xid), "yes")
  /\ UNCHANGED <<xidVars, arrayVars, lockVars, diskVars, loc, snapVars, xactVars,
                 cachedXidIsNotInProgress, histVars>>

TransactionIdIsInProgress(p, xid) ==
  /\ pc[p] = "xact" /\ xid \in Known(p)
  /\ xid >= RecentXmin[p] /\ xid # cachedXidIsNotInProgress[p]
  /\ LockShared(p)
  /\ latestCompletedXid >= xid
  /\ query' = [query EXCEPT ![p] = [xid |-> xid, ended |-> HasEnded(xid), result |-> "none"]]
  /\ Go(p, "inprogress")
  /\ UNCHANGED <<xidVars, arrayVars, xidGenLock, diskVars, loc, snapVars, xactVars,
                 cachedXidIsNotInProgress, histVars>>

(* The scan of the array is one step: the id that it looks for can neither *)
(* come nor go while the lock is held.                                     *)
OtherEntries(p) == {procArray[i] : i \in DOMAIN procArray \ {pgproc[p].pgxactoff}}

CachedIn(e) == ToSet(SubSeq(pgproc[e.pgprocno].subxids, 1, e.count))

(* Mutant of UncachedParents: only the cached ones are looked at.          *)
UncachedIgnored(p, xid) == {}

UncachedParents(p, xid) ==
  {e.xid : e \in {f \in OtherEntries(p) : IsValid(f.xid) /\ f.xid <= xid /\ f.overflowed}}

NotInProgress(p, xid) ==
  /\ Answer(p, xid, query[p].ended, "no")
  /\ cachedXidIsNotInProgress' = [cachedXidIsNotInProgress EXCEPT ![p] = xid]

ScanForXid(p) ==
  LET xid == query[p].xid
      found == \E e \in OtherEntries(p) : xid = e.xid \/ (e.xid < xid /\ xid \in CachedIn(e))
      parents == UncachedParents(p, xid)
  IN  /\ pc[p] = "inprogress" /\ UnlockShared(p)
      /\ \/ /\ found
            /\ Answer(p, xid, query[p].ended, "yes")
            /\ UNCHANGED <<loc, cachedXidIsNotInProgress>>
         \/ /\ ~found /\ parents = {}
            /\ NotInProgress(p, xid)
            /\ UNCHANGED loc
         \/ /\ ~found /\ parents # {}
            /\ loc' = [loc EXCEPT ![p].xids = parents]
            /\ Go(p, "subtrans")
            /\ UNCHANGED <<query, cachedXidIsNotInProgress>>
      /\ UNCHANGED <<xidVars, arrayVars, xidGenLock, diskVars, snapVars, xactVars, histVars>>

(* Step 4: an aborted subtransaction is not running, and others are if     *)
(* their topmost parent was in the array.                                  *)
SearchSubTrans(p) ==
  LET xid == query[p].xid
      top == SubTransGetTopmostTransaction(p, xid)
  IN  /\ pc[p] = "subtrans"
      /\ \/ /\ clog[xid] # "aborted" /\ top # xid /\ top \in loc[p].xids
            /\ Answer(p, xid, query[p].ended, "yes")
            /\ UNCHANGED cachedXidIsNotInProgress
         \/ /\ clog[xid] = "aborted" \/ top = xid \/ top \notin loc[p].xids
            /\ NotInProgress(p, xid)
      /\ loc' = [loc EXCEPT ![p] = NoLocals]
      /\ UNCHANGED <<xidVars, arrayVars, lockVars, diskVars, snapVars, xactVars, histVars>>

-----------------------------------------------------------------------------
(* The end of a transaction.  pg_xact is updated first, then the array.    *)

WithOutcome(tree, outcome) == [x \in Xid |-> IF x \in tree THEN outcome ELSE clog[x]]

(* CommitTransaction or AbortTransaction up to ProcArrayEndTransaction.    *)
RecordTransactionEnd(p, outcome) ==
  LET tree == Own(p)
  IN  /\ pc[p] = "xact"
      /\ held' = [held EXCEPT ![p] = {}]
      /\ query' = [query EXCEPT ![p] = NoQuery]
      /\ IF IsValid(pgproc[p].xid)
         THEN /\ clog' = WithOutcome(tree, outcome)
              /\ loc' = [loc EXCEPT ![p].xid = Max(tree)]
              /\ Go(p, "end")
         ELSE /\ outcome = "committed"
              /\ Go(p, "endro")
              /\ UNCHANGED <<clog, loc>>
      /\ UNCHANGED <<xidVars, arrayVars, lockVars, parent, gxact, CurrentSnapshotData,
                     TransactionXmin, RecentXmin, export, xactVars, cachedXidIsNotInProgress, histVars>>

(* ProcArrayEndTransaction without an id takes no lock, except to clear    *)
(* the flag of a VACUUM.                                                   *)
EndWithoutXid(p) ==
  /\ pc[p] = "endro"
  /\ pgproc' = [pgproc EXCEPT ![p].lxid = 0, ![p].xmin = InvalidTransactionId]
  /\ export' = [export EXCEPT ![p] = NoExport]
  /\ Go(p, IF pgproc[p].inVacuum THEN "unflag" ELSE "idle")
  /\ UNCHANGED <<xidVars, procArray, procArrayGroupFirst, sem, lockVars, diskVars, loc,
                 CurrentSnapshotData, held, TransactionXmin, RecentXmin, xactVars, queryVars, histVars>>

ClearVacuumFlag(p) ==
  /\ pc[p] = "unflag" /\ Exclusively(p)
  /\ pgproc' = [pgproc EXCEPT ![p].inVacuum = FALSE]
  /\ procArray' = [procArray EXCEPT ![pgproc[p].pgxactoff].inVacuum = FALSE]
  /\ Go(p, "idle")
  /\ UNCHANGED <<xidVars, procArrayGroupFirst, sem, xidGenLock, diskVars, loc, snapVars, xactVars,
                 queryVars, histVars>>

(* ProcArrayEndTransactionInternal for the transactions of a set of        *)
(* backends, whose latest ids are given.                                   *)
EndTransactions(procs, latest) ==
  /\ procArray' = [i \in DOMAIN procArray |->
                     IF procArray[i].pgprocno \in procs
                     THEN Entry(procArray[i].pgprocno, FreshProc) ELSE procArray[i]]
  /\ pgproc' = [n \in Proc |->
                  IF n \in procs
                  THEN [pgproc[n] EXCEPT !.xid = InvalidTransactionId, !.lxid = 0,
                                         !.xmin = InvalidTransactionId, !.inVacuum = FALSE,
                                         !.subxids = << >>, !.overflowed = FALSE]
                  ELSE pgproc[n]]
  /\ MaintainLatestCompletedXid(Max(latest))
  /\ xactCompletionCount' = CountCompleted(Cardinality(procs))
  /\ completed' = Append(completed, UNION {Own(n) : n \in procs})

(* What is left of the transaction when ProcArrayEndTransaction returns.   *)
Ended(p) ==
  /\ children' = [children EXCEPT ![p] = {}]
  /\ open' = [open EXCEPT ![p] = << >>]
  /\ export' = [export EXCEPT ![p] = NoExport]
  /\ loc' = [loc EXCEPT ![p] = NoLocals]
  /\ Go(p, "idle")

endUnchanged == <<nextXid, xidGenLock, diskVars, CurrentSnapshotData, held, TransactionXmin,
                  RecentXmin, nextLocalTransactionId, queryVars, removed, truncated>>

(* The lock is free: the backend clears its own id.                        *)
ConditionalAcquire(p) ==
  /\ pc[p] = "end" /\ LockExclusive(p)
  /\ Go(p, "endlocked")
  /\ UNCHANGED <<endUnchanged, latestCompletedXid, xactCompletionCount, arrayVars, loc, export,
                 subVars, completed>>

EndTransaction(p) ==
  /\ pc[p] = "endlocked" /\ UnlockExclusive(p)
  /\ EndTransactions({p}, {loc[p].xid})
  /\ Ended(p)
  /\ UNCHANGED <<endUnchanged, procArrayGroupFirst, sem>>

(* The lock is not free: ProcArrayGroupClearXid.                           *)
StartGroupClear(p) ==
  /\ pc[p] = "end" /\ ~CanLockExclusive(p)
  /\ pgproc' = [pgproc EXCEPT ![p].member = TRUE, ![p].memberXid = loc[p].xid]
  /\ loc' = [loc EXCEPT ![p].nextidx = procArrayGroupFirst]
  /\ Go(p, "cas")
  /\ UNCHANGED <<endUnchanged, latestCompletedXid, xactCompletionCount, procArray,
                 procArrayGroupFirst, sem, procArrayLock, export, subVars, completed>>

(* Mutant of HeadSeen: the exchange fails and does not say why.            *)
HeadAsExpected(p) == loc[p].nextidx

(* What a failed compare-and-exchange leaves in nextidx.                   *)
HeadSeen(p) == procArrayGroupFirst

(* One round of the loop around the compare-and-exchange.                  *)
JoinGroup(p) ==
  LET next == loc[p].nextidx
  IN  /\ pc[p] = "cas"
      /\ pgproc' = [pgproc EXCEPT ![p].groupNext = next]
      /\ \/ /\ procArrayGroupFirst = next
            /\ procArrayGroupFirst' = p
            /\ Go(p, IF next = INVALID_PGPROCNO THEN "lead" ELSE "follow")
            /\ UNCHANGED loc
         \/ /\ procArrayGroupFirst # next
            /\ loc' = [loc EXCEPT ![p].nextidx = HeadSeen(p)]
            /\ UNCHANGED <<procArrayGroupFirst, pc>>
      /\ UNCHANGED <<endUnchanged, latestCompletedXid, xactCompletionCount, procArray, sem,
                     procArrayLock, export, subVars, completed>>

(* A follower sleeps until it is no longer a member, and gives back the    *)
(* posts that were not for this.                                           *)
Follow(p) ==
  /\ pc[p] = "follow" /\ sem[p] > 0
  /\ \/ /\ pgproc[p].member
        /\ sem' = [sem EXCEPT ![p] = @ - 1]
        /\ loc' = [loc EXCEPT ![p].extraWaits = @ + 1]
        /\ UNCHANGED <<pc, export, subVars>>
     \/ /\ ~pgproc[p].member
        /\ sem' = [sem EXCEPT ![p] = @ - 1 + loc[p].extraWaits]
        /\ Ended(p)
  /\ UNCHANGED <<endUnchanged, latestCompletedXid, xactCompletionCount, procArray,
                 procArrayGroupFirst, pgproc, procArrayLock, completed>>

(* The leader takes the lock, takes the whole list, and clears all ids.    *)
LeaderLock(p) ==
  /\ pc[p] = "lead" /\ LockExclusive(p)
  /\ Go(p, "clear")
  /\ UNCHANGED <<endUnchanged, latestCompletedXid, xactCompletionCount, arrayVars, loc, export,
                 subVars, completed>>

(* The members of the list that begins with n.                             *)
ListFrom(n) ==
  LET list[k \in 0 .. Cardinality(Backend)] ==
        IF k = 0 THEN n
        ELSE IF list[k - 1] = INVALID_PGPROCNO THEN INVALID_PGPROCNO
        ELSE pgproc[list[k - 1]].groupNext
  IN  {list[k] : k \in DOMAIN list} \ {INVALID_PGPROCNO}

(* Mutant of ListAfterClear: the list is read but stays.                   *)
ListKept == procArrayGroupFirst

(* What the exchange puts in the place of the list.                        *)
ListAfterClear == INVALID_PGPROCNO

LeaderClear(p) ==
  LET group == ListFrom(procArrayGroupFirst)
  IN  /\ pc[p] = "clear" /\ UnlockExclusive(p)
      /\ procArrayGroupFirst' = ListAfterClear
      /\ EndTransactions(group, {pgproc[n].memberXid : n \in group})
      /\ loc' = [loc EXCEPT ![p].wakeidx = procArrayGroupFirst]
      /\ Go(p, "wake")
      /\ UNCHANGED <<endUnchanged, sem, export, subVars>>

(* One round of the wakeup loop; the semaphore is posted in a step of its  *)
(* own, since the member may be awake already.                             *)
LeaderWake(p) ==
  LET n == loc[p].wakeidx
  IN  /\ pc[p] = "wake" /\ n # INVALID_PGPROCNO
      /\ loc' = [loc EXCEPT ![p].wakeidx = pgproc[n].groupNext, ![p].nextidx = n]
      /\ pgproc' = [pgproc EXCEPT ![n].groupNext = INVALID_PGPROCNO, ![n].member = FALSE]
      /\ Go(p, IF n = p THEN "wake" ELSE "post")
      /\ UNCHANGED <<endUnchanged, latestCompletedXid, xactCompletionCount, procArray,
                     procArrayGroupFirst, sem, procArrayLock, export, subVars, completed>>

LeaderPost(p) ==
  /\ pc[p] = "post"
  /\ sem' = [sem EXCEPT ![loc[p].nextidx] = @ + 1]
  /\ Go(p, "wake")
  /\ UNCHANGED <<endUnchanged, latestCompletedXid, xactCompletionCount, procArray,
                 procArrayGroupFirst, pgproc, procArrayLock, loc, export, subVars, completed>>

LeaderDone(p) ==
  /\ pc[p] = "wake" /\ loc[p].wakeidx = INVALID_PGPROCNO
  /\ Ended(p)
  /\ UNCHANGED <<endUnchanged, latestCompletedXid, xactCompletionCount, arrayVars, procArrayLock,
                 completed>>

(* The semaphore is posted for another reason: a late wakeup of an LWLock. *)
SpuriousPost(p) ==
  /\ sem' = [sem EXCEPT ![p] = @ + 1]
  /\ UNCHANGED <<endUnchanged, latestCompletedXid, xactCompletionCount, procArray,
                 procArrayGroupFirst, pgproc, procArrayLock, pc, loc, export, subVars, completed>>

-----------------------------------------------------------------------------
(* Prepared transactions.                                                  *)

(* PrepareTransaction up to ProcArrayAdd of the dummy.                     *)
PrepareTransaction(p, g) ==
  /\ pc[p] = "xact" /\ IsValid(pgproc[p].xid) /\ export[p] = NoExport
  /\ gxact[g] = NoGxact
  /\ gxact' = [gxact EXCEPT ![g] = [xid |-> pgproc[p].xid, children |-> children[p],
                                    locking_backend |-> p]]
  /\ held' = [held EXCEPT ![p] = {}]
  /\ query' = [query EXCEPT ![p] = NoQuery]
  /\ loc' = [loc EXCEPT ![p].gxact = g]
  /\ LockExclusive(p)
  /\ Go(p, "prepare")
  /\ UNCHANGED <<xidVars, arrayVars, xidGenLock, clog, parent, CurrentSnapshotData,
                 TransactionXmin, RecentXmin, export, xactVars, cachedXidIsNotInProgress, histVars>>

(* GXactLoadSubxactData and MarkAsPrepared.                                *)
DummyProc(g) ==
  LET sub == SetToSortSeq(gxact[g].children, <)
      room == PGPROC_MAX_CACHED_SUBXIDS
  IN  [FreshProc EXCEPT !.xid = gxact[g].xid,
                        !.overflowed = Len(sub) > room,
                        !.subxids = SubSeq(sub, 1, Min({Len(sub), room}))]

MarkAsPrepared(p) ==
  LET g == loc[p].gxact
  IN  /\ pc[p] = "prepare" /\ CanMoveEntries
      /\ ProcArrayAdd(g, DummyProc(g))
      /\ UnlockExclusive(p)
      /\ Go(p, "prepared")
      /\ UNCHANGED <<xidVars, procArrayGroupFirst, sem, xidGenLock, diskVars, loc, snapVars,
                     xactVars, queryVars, histVars>>

(* The id stays in the array, with the dummy.                              *)
ProcArrayClearTransaction(p) ==
  /\ pc[p] = "prepared" /\ Exclusively(p)
  /\ procArray' = [procArray EXCEPT ![pgproc[p].pgxactoff] = Entry(p, FreshProc)]
  /\ pgproc' = [pgproc EXCEPT ![p] = [FreshProc EXCEPT !.pgxactoff = pgproc[p].pgxactoff]]
  /\ xactCompletionCount' = CountCompleted(1)
  /\ gxact' = [gxact EXCEPT ![loc[p].gxact].locking_backend = NoProc]
  /\ children' = [children EXCEPT ![p] = {}]
  /\ open' = [open EXCEPT ![p] = << >>]
  /\ loc' = [loc EXCEPT ![p] = NoLocals]
  /\ Go(p, "idle")
  /\ UNCHANGED <<nextXid, latestCompletedXid, procArrayGroupFirst, sem, xidGenLock, clog, parent,
                 snapVars, nextLocalTransactionId, queryVars, histVars>>

(* FinishPreparedTransaction: pg_xact, then ProcArrayRemove.               *)
FinishPreparedTransaction(p, g, outcome) ==
  /\ pc[p] = "xact" /\ ~pgproc[p].inVacuum /\ held[p] = {} /\ ~IsValid(pgproc[p].xid)
  /\ IsValid(gxact[g].xid) /\ gxact[g].locking_backend = NoProc
  /\ clog' = WithOutcome({gxact[g].xid} \cup gxact[g].children, outcome)
  /\ gxact' = [gxact EXCEPT ![g].locking_backend = p]
  /\ loc' = [loc EXCEPT ![p].gxact = g]
  /\ Go(p, "finish")
  /\ UNCHANGED <<xidVars, arrayVars, lockVars, parent, snapVars, xactVars, queryVars, histVars>>

LockToFinish(p) == LockForArray(p, "finish", "finish2") /\ UNCHANGED <<sem, loc>>

RemovePrepared(p) ==
  LET g == loc[p].gxact
      tree == {gxact[g].xid} \cup gxact[g].children
  IN  /\ pc[p] = "finish2" /\ CanMoveEntries
      /\ procArray' = RemoveAt(procArray, pgproc[g].pgxactoff)
      /\ pgproc' = Renumbered([pgproc EXCEPT ![g] = FreshProc], procArray')
      /\ MaintainLatestCompletedXid(Max(tree))
      /\ xactCompletionCount' = CountCompleted(1)
      /\ completed' = Append(completed, tree)
      /\ gxact' = [gxact EXCEPT ![g] = NoGxact]
      /\ UnlockExclusive(p)
      /\ loc' = [loc EXCEPT ![p] = NoLocals]
      /\ Go(p, "xact")
      /\ UNCHANGED <<nextXid, procArrayGroupFirst, sem, xidGenLock, clog, parent, snapVars, xactVars,
                     queryVars, removed, truncated>>

-----------------------------------------------------------------------------
Outcomes == {"committed", "aborted"}

(* The steps of a function that a backend is in.                           *)
ArrayStep(p) == InitProcessPhase2(p) \/ RemoveProcFromArray(p)
XidStep(p) == StoreTransactionId(p) \/ XidCacheRemoveRunningXids(p)
SnapshotStep(p) == CollectXid(p) \/ SnapshotComplete(p)
ImportStep(p) ==
  \/ pc[p] = "import0" /\ (GetSnapshotData(p) \/ GetSnapshotDataReuse(p))
  \/ CheckImportSource(p) \/ InstallImportedXmin(p) \/ RefuseImport(p)
HorizonStep(p) == HorizonEntry(p) \/ HorizonsComplete(p)
QueryStep(p) == ScanForXid(p) \/ SearchSubTrans(p)
EndStep(p) ==
  \/ EndWithoutXid(p) \/ ClearVacuumFlag(p)
  \/ ConditionalAcquire(p) \/ EndTransaction(p)
  \/ StartGroupClear(p) \/ JoinGroup(p) \/ Follow(p)
  \/ LeaderLock(p) \/ LeaderClear(p) \/ LeaderWake(p) \/ LeaderPost(p) \/ LeaderDone(p)
PreparedStep(p) ==
  MarkAsPrepared(p) \/ ProcArrayClearTransaction(p) \/ LockToFinish(p) \/ RemovePrepared(p)

Step(p) ==
  \/ ArrayStep(p) \/ XidStep(p) \/ SnapshotStep(p) \/ ImportStep(p) \/ HorizonStep(p)
  \/ QueryStep(p) \/ EndStep(p) \/ PreparedStep(p)

(* The calls that a backend may make.                                      *)
TakeSnapshot(p) == pc[p] = "xact" /\ (GetSnapshotData(p) \/ GetSnapshotDataReuse(p))

Next ==
  \E p \in Backend :
    \/ Step(p)
    \/ StartBackend(p) \/ ExitBackend(p) \/ StartTransaction(p) \/ SetVacuumFlag(p)
    \/ (\E o \in Outcomes : RecordTransactionEnd(p, o))
    \/ GetNewTransactionId(p) \/ (\E x \in Xid : AbortSubTransaction(p, x))
    \/ TakeSnapshot(p) \/ (\E s \in held[p] : ReleaseSnapshot(p, s) \/ ExportSnapshot(p, s))
    \/ (\E q \in Backend : ImportSnapshot(p, q))
    \/ ComputeXidHorizons(p)
    \/ (\E x \in Xid : AnswerAtOnce(p, x) \/ TransactionIdIsInProgress(p, x))
    \/ (\E g \in Gxact : PrepareTransaction(p, g))
    \/ (\E g \in Gxact, o \in Outcomes : FinishPreparedTransaction(p, g, o))
    \/ SpuriousPost(p)

Spec == Init /\ [][Next]_vars

(* A backend goes on with what it has begun.                               *)
FairSpec == Spec /\ \A p \in Backend : WF_vars(Step(p))

-----------------------------------------------------------------------------
(* Properties.                                                             *)

(* What a snapshot sees is what was complete when GetSnapshotData took     *)
(* ProcArrayLock: the transactions that had left the array, all of them    *)
(* and no others, so that any two snapshots are in the order in which they *)
(* were taken and none misses a transaction that ended before.  It is so   *)
(* for a snapshot that was reused or imported, with subtransactions,       *)
(* cached or not, and for as long as the snapshot is used.                 *)
SnapshotIsExact ==
  \A p \in Backend : \A s \in held[p] :
    \A x \in {y \in Xid : clog[y] = "committed"} :
      XidInMVCCSnapshot(p, x, s) <=>
        x # FirstXid /\ \A i \in 1 .. s.since : x \notin completed[i]

(* A transaction that a snapshot takes for finished has its outcome in     *)
(* pg_xact, so that what the snapshot sees of it never changes: no id      *)
(* below xmax is missing in the array while its transaction runs, prepared *)
(* ones included.                                                          *)
FinishedIsDecided ==
  \A p \in Backend : \A s \in held[p] :
    \A x \in (FirstXid .. nextXid - 1) \ Own(p) :
      ~XidInMVCCSnapshot(p, x, s) => clog[x] # "in progress"

(* Nobody ever computes a horizon that is past the xmin of a snapshot in   *)
(* use, now or later: the rows that it may still see are not removed, and  *)
(* pg_subtrans is not truncated from its xmin on (what a lookup asks for   *)
(* before its xmin is another matter: ParentsKept).                        *)
HorizonSafe ==
  \A p \in Backend : \A s \in held[p] :
    /\ truncated <= s.xmin
    /\ pgproc[p].inVacuum \/ removed <= s.xmin

(* "Can't ask about stuff that might not be around anymore": a snapshot    *)
(* with suboverflowed looks up the parents of the ids between its xmin and *)
(* its xmax, and nothing that pg_subtrans was truncated of.                *)
ParentsKept ==
  \A p \in Backend : \A s \in held[p] : s.suboverflowed =>
    \A x \in s.xmin .. s.xmax - 1 : \A y \in ParentsAsked(p, x) : y >= truncated

(* The lock-free list of ProcArrayGroupClearXid: if it is not empty, one   *)
(* leader is on its way, the last in the list; each member still has an id *)
(* to clear at its place in the array; each follower that waits is in the  *)
(* list or in that of a leader who is about to wake it up, and has had its *)
(* id cleared when it leaves.                                              *)
GroupHasLeader ==
  LET list == ListFrom(procArrayGroupFirst)
      leaders == {p \in Backend : pc[p] \in {"lead", "clear"}}
      toWake == UNION {ListFrom(loc[p].wakeidx) : p \in {q \in Backend : pc[q] \in {"wake", "post"}}}
  IN  /\ Cardinality(leaders) = (IF list = {} THEN 0 ELSE 1)
      /\ \A p \in leaders : p \in list /\ pgproc[p].groupNext = INVALID_PGPROCNO
      /\ \A p \in list :
           /\ pgproc[p].member /\ IsValid(pgproc[p].xid)
           /\ procArray[pgproc[p].pgxactoff].pgprocno = p
           /\ procArray[pgproc[p].pgxactoff].xid = pgproc[p].xid
      /\ \A p \in Backend : pc[p] = "follow" =>
           IF pgproc[p].member THEN p \in list \cup toWake
           ELSE ~IsValid(pgproc[p].xid) /\ pgproc[p].groupNext = INVALID_PGPROCNO

(* TransactionIdIsInProgress says no only of a transaction whose outcome   *)
(* is in pg_xact, and yes only of one that had not left the array when it  *)
(* was called, subtransactions that are not cached included.               *)
InProgressAnswer ==
  \A p \in Backend :
    /\ query[p].result = "no" => clog[query[p].xid] # "in progress"
    /\ query[p].result = "yes" => ~query[p].ended

(* A backend is not in any of the functions.                               *)
OutOfCalls(p) == pc[p] \in {"idle", "xact", "gone"}

=============================================================================
