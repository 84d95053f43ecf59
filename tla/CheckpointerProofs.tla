------------------------- MODULE CheckpointerProofs -------------------------
(***************************************************************************)
(* Proofs about Checkpointer, for any number of backends, segments and     *)
(* checkpoints, any queue length and any width of the counters: a          *)
(* completed checkpoint is durable, a cancel arrives before the file goes, *)
(* no entry of the sync table is older than one cycle, a file is unlinked  *)
(* only by a checkpoint that began after its drop; and, if fewer           *)
(* checkpoints fail or are caused by time than a counter has values, a     *)
(* request is honoured and every unlink request forwarded before it was    *)
(* processed.                                                              *)
(*                                                                         *)
(* What makes the proof long is that a request is in one of several        *)
(* places: with the backend that is about to forward it, in the queue, in  *)
(* a table. After(q, r, S) says that r is in the queue q and no request of *)
(* S behind it; with it Wanted(f) says that absorbing the queue leaves an  *)
(* entry for f that is not cancelled, wherever the request is now. The     *)
(* first sections show what ForwardSyncRequest with                        *)
(* CompactCheckpointerRequestQueue and what AbsorbSyncRequests do to these *)
(* notions, once for all; the invariant speaks of nothing else.            *)
(*                                                                         *)
(* The inductive invariant is IInv, one named part per idea, and each part *)
(* is preserved by a lemma of its own with one leaf per action.            *)
(***************************************************************************)
EXTENDS Checkpointer, SequenceTheorems, WellFoundedInduction, NaturalsInduction, TLAPS

(* The requests that are made.                                             *)
SyncR(f)   == [type |-> SYNC, file |-> f]
ForgetR(f) == [type |-> FORGET, file |-> f]
UnlinkR    == [type |-> UNLINK, file |-> FirstSegment]
FilterR    == [type |-> FILTER, file |-> NoFile]

RequestsMade ==
  {SyncR(f) : f \in Files} \cup {ForgetR(f) : f \in Files} \cup {UnlinkR, FilterR}

(* Those that cancel the sync request of f.                                *)
Cancels(f) == {ForgetR(f), FilterR}

(* Among the first n requests of q is r, and none of S after it.           *)
AfterIn(q, n, r, S) ==
  \E i \in 1 .. n : q[i] = r /\ \A j \in 1 .. n : j > i => q[j] \notin S

After(q, r, S) == AfterIn(q, Len(q), r, S)

Queued(r) == After(requests, r, {})

(* There is one unlink request at most in the queue q.                      *)
UniqueUnlink(q) == \A i, j \in DOMAIN q : q[i] = UnlinkR /\ q[j] = UnlinkR => i = j

(* The table tells to sync f; absorbing the queue, it will.                *)
Pending(f) == f \in DOMAIN pendingOps /\ ~pendingOps[f].canceled

Wanted(f) ==
  \/ After(requests, SyncR(f), Cancels(f))
  \/ Pending(f) /\ ~Queued(ForgetR(f)) /\ ~Queued(FilterR)

(* An entry of the list of unlinks that will be served, and one that this  *)
(* checkpoint will serve.                                                  *)
Serves(e) == ~e.canceled

UnlinkPending == \E i \in DOMAIN pendingUnlinks : Serves(pendingUnlinks[i])

DuePending ==
  \E i \in DOMAIN pendingUnlinks : Serves(pendingUnlinks[i]) /\ ~TooNew(pendingUnlinks[i])

-----------------------------------------------------------------------------
(* Where a backend can be, and in which operation.                         *)
Places == {"idle", "forward", "clear", "register", "unlink", "request", "signal", "started?",
           "startsleep", "done?", "donesleep", "success", "failed"}
Operations == {"none", "flush", "create", "drop", "dropdb", "checkpoint"}

UnlinkEntry == [file : {FirstSegment}, cycle : 0 .. CYCLE_MODULUS - 1, canceled : BOOLEAN]

TypeInv ==
  /\ TypeOK
  /\ requests \in Seq(RequestsMade)
  /\ pendingUnlinks \in Seq(UnlinkEntry)
  /\ pc \in [Proc -> Places] /\ op \in [Proc -> Operations]
  /\ arg \in [Proc -> RequestsMade \cup {NoRequest}]
  /\ old_failed \in [Proc -> Nat] /\ old_started \in [Proc -> Nat] /\ new_started \in [Proc -> Nat]
  /\ asked \in [Proc -> {"no", "asked", "started", "ok", "failed"}]
  /\ owed \in [Proc -> SUBSET {FirstSegment}] /\ young \subseteq {FirstSegment}
  /\ timed \in 0 .. MaxTimed /\ fails \in 0 .. MaxFails

(* Where a backend waits in RequestCheckpoint.                             *)
Waiting == {"signal", "started?", "startsleep", "done?", "donesleep", "success", "failed"}

(* Where a backend is in its operation, and with which request.            *)
PlaceAt(p) ==
  \/ op[p] = "none" /\ pc[p] = "idle" /\ arg[p] = NoRequest
  \/ op[p] = "flush" /\ pc[p] \in {"forward", "clear"} /\ \E f \in Files : arg[p] = SyncR(f)
  \/ op[p] = "create" /\ pc[p] = "forward" /\ \E f \in Files : arg[p] = SyncR(f)
  \/ op[p] = "drop" /\ pc[p] = "register" /\ arg[p] = UnlinkR
  \/ op[p] = "drop" /\ pc[p] \in {"register", "unlink"} /\ \E f \in Segments : arg[p] = ForgetR(f)
  \/ op[p] = "dropdb" /\ pc[p] \in {"register", "request"} \cup Waiting /\ arg[p] = FilterR
  \/ op[p] = "checkpoint" /\ pc[p] \in Waiting /\ arg[p] = NoRequest

PlaceInv == \A p \in Proc : PlaceAt(p)

(* The phases of a checkpoint.                                             *)
Active == cpc \in {"startcast", "pre", "redo", "mark", "write", "delay", "nap", "scan", "try",
                   "record", "post", "done", "error", "missing"}
Writing == {"write", "delay", "nap"}
Syncing == {"scan", "try"}
Redone == {"mark"} \cup Writing \cup Syncing \cup {"record"}

(* The counters, and what a backend that waits knows of them.              *)
AskedAt(p) ==
  /\ pc[p] \in Waiting <=> asked[p] # "no"
  /\ asked[p] = "asked" =>
       ckpt_flags /\ old_started[p] = ckpt_started /\ pc[p] \in {"signal", "started?", "startsleep"}
  /\ asked[p] = "started" =>
       /\ Active /\ pc[p] \notin {"success", "failed"}
       /\ pc[p] \in {"done?", "donesleep"} => new_started[p] = ckpt_started
       /\ cpc \in {"startcast", "pre", "redo"} => forced

CounterInv ==
  /\ IF Active THEN ckpt_started = Next_(ckpt_done, CTR_MODULUS) ELSE ckpt_started = ckpt_done
  /\ cpc # "missing"
  /\ \A p \in Proc : AskedAt(p)

(* The files, and who may be at work on them.                              *)
LiveInv ==
  /\ \A f \in Files : Live(f) => Live(FirstSegment)
  /\ \A f \in Files : ~Live(f) => buf[f] = {} /\ os[f] = {}
  /\ \A p \in Proc, f \in Files : arg[p] = SyncR(f) => Live(f)

IoInv == \A p \in Proc, f \in Files : io[f] = p <=> op[p] = "flush" /\ arg[p] = SyncR(f)

DropInv ==
  /\ \A p \in Proc : op[p] \in {"drop", "dropdb"} => ~Live(FirstSegment)
  /\ \A p, q \in Proc : op[p] \in {"drop", "dropdb"} /\ op[q] \in {"drop", "dropdb"} => p = q
  /\ \A p \in Proc : op[p] = "dropdb" => \A f \in Files : fstate[f] \in {"invalid", "gone", "left"}
  /\ \A p \in Proc, f \in Segments : arg[p] = ForgetR(f) => fstate[f] = "dropped"
  /\ \A p \in Proc : arg[p] = UnlinkR => fstate[FirstSegment] = "dropped"

FileInv == LiveInv /\ IoInv /\ DropInv

(* Unlink requests.                                                        *)
UnlinkInv ==
  /\ UniqueUnlink(requests)
  /\ \A i, j \in DOMAIN pendingUnlinks :
       Serves(pendingUnlinks[i]) /\ Serves(pendingUnlinks[j]) => i = j
  /\ ~(Queued(UnlinkR) /\ UnlinkPending)
  /\ Queued(UnlinkR) \/ UnlinkPending =>
       fstate[FirstSegment] \in {"dropped", "invalid"} /\ \A p \in Proc : arg[p] # UnlinkR
  /\ fstate[FirstSegment] = "dropped" /\ (\A p \in Proc : arg[p] # UnlinkR) =>
       Queued(UnlinkR) \/ UnlinkPending

(* DROP DATABASE once its request was forwarded, and once a checkpoint     *)
(* that started after this has begun to absorb.                            *)
Absorbs(p) == asked[p] \in {"ok", "failed"} \/ (asked[p] = "started" /\ cpc \notin {"startcast", "pre"})

FilterInv ==
  /\ Queued(FilterR) => \E p \in Proc : op[p] = "dropdb" /\ pc[p] # "register"
  /\ \A p \in Proc : op[p] = "dropdb" /\ pc[p] # "register" =>
       /\ ~After(requests, UnlinkR, {FilterR})
       /\ UnlinkPending => Queued(FilterR)
       /\ \A f \in Files : ~Wanted(f)
       /\ Absorbs(p) => requests = << >>

(* No sync request is left for a file that is gone, or about to go.        *)
GoneInv ==
  /\ \A f \in Files : fstate[f] = "gone" => ~Wanted(f)
  /\ \A p \in Proc, f \in Segments : pc[p] = "unlink" /\ arg[p] = ForgetR(f) => ~Wanted(f)

DueInv ==
  cpc \in Redone \cup {"redo", "post"} /\ DuePending =>
    /\ ~Queued(SyncR(FirstSegment))
    /\ cpc \in Syncing /\ Pending(FirstSegment) => pendingOps[FirstSegment].cycle # sync_cycle_ctr
    /\ cpc \in {"record", "post"} => ~Pending(FirstSegment)

RetryInv == cpc = "try" /\ failures = 1 => pendingOps[entry].canceled

CancelInv == GoneInv /\ DueInv /\ RetryInv

(* No cancel is in the queue for a file that lives.                        *)
ForgetInv == \A f \in Files : Queued(ForgetR(f)) => ~Live(f)

(* The cycles of the sync requests.                                        *)
CycleInv ==
  /\ cpc \in Syncing => sync_in_progress
  /\ \A f \in DOMAIN pendingOps :
       IF sync_in_progress
       THEN sync_cycle_ctr \in {pendingOps[f].cycle, Next_(pendingOps[f].cycle, CYCLE_MODULUS)}
       ELSE pendingOps[f].cycle = sync_cycle_ctr

(* What was handed to the kernel is still in the buffer, or will be synced. *)
FlushedInv ==
  /\ \A f \in Files : os[f] \subseteq buf[f] \/ Wanted(f)
  /\ \A p \in Proc, f \in Files : pc[p] = "clear" /\ arg[p] = SyncR(f) => Wanted(f) \/ os[f] = {}

(* Where the changes before the redo pointer are.                          *)
OldInv ==
  /\ cpc \in Writing => \A f \in Files : "old" \in buf[f] => f \in toWrite
  /\ cpc \in Syncing \cup {"record"} => \A f \in Files : "old" \notin buf[f]
  /\ cpc \in Syncing => \A f \in Files : "old" \in os[f] =>
       Pending(f) /\ pendingOps[f].cycle # sync_cycle_ctr
  /\ cpc = "record" => \A f \in Files : "old" \notin os[f]

DurableInv == FlushedInv /\ OldInv

(* Unlink requests that came after the redo pointer was set look new.      *)
YoungInv ==
  cpc \in Redone \cup {"post"} /\ FirstSegment \in young /\ fstate[FirstSegment] = "dropped" =>
    ~DuePending

(* The age of an unlink request, in checkpoints.                           *)
Age(ctr, e) == (ctr - e.cycle) % CYCLE_MODULUS

(* No request of u is older than bound, and older ones come first.         *)
Aged(u, ctr, bound) ==
  /\ \A i \in DOMAIN u : Age(ctr, u[i]) <= bound
  /\ \A i, j \in DOMAIN u : i < j => Age(ctr, u[i]) >= Age(ctr, u[j])

(* A checkpoint that will serve the old requests has made them older; one  *)
(* that may find nothing to do was counted before it does.                 *)
Owing == cpc \in Redone \cup {"post"} \/ (cpc = "redo" /\ forced)
Early == (cpc = "begin" /\ ~ckpt_flags) \/ (cpc \in {"startcast", "pre"} /\ ~forced)

(* Checkpoints that failed or found nothing to do leave requests behind.   *)
AgeBound == fails + timed + (IF Owing THEN 1 ELSE 0) - (IF Early THEN 1 ELSE 0)

AgeInv == AgeBound >= 0 /\ Aged(pendingUnlinks, checkpoint_cycle_ctr, AgeBound)

(* What was dropped before the request will be unlinked.                   *)
OwedInv ==
  \A p \in Proc : FirstSegment \in owed[p] =>
    /\ asked[p] # "no" /\ ~Live(FirstSegment) /\ (\A q \in Proc : arg[q] # UnlinkR)
    /\ fstate[FirstSegment] = "dropped" =>
         /\ asked[p] # "ok"
         /\ asked[p] = "started" => cpc # "done"
         /\ asked[p] = "started" /\ cpc \in Redone \cup {"redo", "post"} => DuePending

(* What a backend that waits knows of failures.                            *)
FailedAt(p) ==
  /\ pc[p] \in Waiting => old_failed[p] <= ckpt_failed
  /\ asked[p] = "failed" => old_failed[p] < ckpt_failed /\ pc[p] # "success"

FailedInv ==
  /\ ckpt_failed + (IF cpc = "error" THEN 1 ELSE 0) <= fails
  /\ \A p \in Proc : FailedAt(p)

IInv ==
  /\ TypeInv /\ PlaceInv /\ CounterInv /\ FileInv /\ UnlinkInv /\ FilterInv /\ CancelInv
  /\ ForgetInv /\ CycleInv /\ DurableInv /\ YoungInv

-----------------------------------------------------------------------------
(***************************************************************************)
(* The request queue                                                       *)
(***************************************************************************)
(* A set of naturals that is not empty has a least element.                *)
LEMMA LeastNat ==
  ASSUME NEW T \in SUBSET Nat, T # {}
  PROVE  \E x \in T : \A y \in T : x <= y
<1>1. PICK x \in T : \A y \in T : ~(<<y, x>> \in OpToRel(<, Nat))
  BY NatLessThanWellFounded, WFMin
<1>2. ASSUME NEW y \in T, y < x
      PROVE  FALSE
  <2>1. <<y, x>> \in {ss \in Nat \X Nat : ss[1] < ss[2]}
    BY <1>2
  <2>2. <<y, x>> \in OpToRel(<, Nat)
    BY <2>1 DEF OpToRel
  <2> QED
    BY <1>1, <2>2
<1>3. ASSUME NEW y \in T
      PROVE  x <= y
  BY <1>2, <1>3
<1> QED
  BY <1>3

(* The requests are told apart by type and file.                           *)
LEMMA RequestForms ==
  /\ \A f, g : SyncR(f) = SyncR(g) => f = g
  /\ \A f, g : ForgetR(f) = ForgetR(g) => f = g
  /\ \A f, g : SyncR(f) # ForgetR(g) /\ SyncR(f) # UnlinkR /\ SyncR(f) # FilterR
  /\ \A f : ForgetR(f) # UnlinkR /\ ForgetR(f) # FilterR
  /\ UnlinkR # FilterR
  /\ \A f : /\ SyncR(f).type = SYNC /\ SyncR(f).file = f /\ SyncR(f) # NoRequest
            /\ ForgetR(f).type = FORGET /\ ForgetR(f).file = f /\ ForgetR(f) # NoRequest
  /\ UnlinkR.type = UNLINK /\ UnlinkR.file = FirstSegment /\ UnlinkR # NoRequest
  /\ FilterR.type = FILTER /\ FilterR.file = NoFile /\ FilterR # NoRequest
  /\ NoRequest.type = "none" /\ NoRequest.file = NoFile
BY DEF SyncR, ForgetR, UnlinkR, FilterR, NoRequest, SYNC, FORGET, UNLINK, FILTER

(* The four request types are different.                                   *)
LEMMA TypesDiffer ==
  SYNC # UNLINK /\ SYNC # FORGET /\ SYNC # FILTER /\ UNLINK # FORGET /\ UNLINK # FILTER /\ FORGET # FILTER
BY DEF SYNC, FORGET, UNLINK, FILTER

(* One more request.                                                       *)
LEMMA AfterStep ==
  ASSUME NEW q, NEW n \in Nat, NEW r, NEW S
  PROVE  AfterIn(q, n + 1, r, S) <=> q[n + 1] = r \/ (q[n + 1] \notin S /\ AfterIn(q, n, r, S))
<1>1. CASE q[n + 1] = r
  <2>1. n + 1 \in 1 .. n + 1 /\ \A j \in 1 .. n + 1 : j > n + 1 => FALSE
    OBVIOUS
  <2> QED
    BY <1>1, <2>1 DEF AfterIn
<1>2. CASE q[n + 1] # r
  <2>1. ASSUME AfterIn(q, n + 1, r, S)
        PROVE  q[n + 1] \notin S /\ AfterIn(q, n, r, S)
    <3>1. PICK i \in 1 .. n + 1 : q[i] = r /\ \A j \in 1 .. n + 1 : j > i => q[j] \notin S
      BY <2>1 DEF AfterIn
    <3>2. i \in 1 .. n /\ n + 1 > i /\ n + 1 \in 1 .. n + 1
      BY <1>2, <3>1
    <3> QED
      BY <3>1, <3>2 DEF AfterIn
  <2>2. ASSUME q[n + 1] \notin S, AfterIn(q, n, r, S)
        PROVE  AfterIn(q, n + 1, r, S)
    <3>1. PICK i \in 1 .. n : q[i] = r /\ \A j \in 1 .. n : j > i => q[j] \notin S
      BY <2>2 DEF AfterIn
    <3>2. i \in 1 .. n + 1 /\ \A j \in 1 .. n + 1 : j \in 1 .. n \/ j = n + 1
      BY <3>1
    <3> QED
      BY <2>2, <3>1, <3>2 DEF AfterIn
  <2> QED
    BY <1>2, <2>1, <2>2
<1> QED
  BY <1>1, <1>2

(* AfterIn depends on the first n requests only.                           *)
LEMMA AfterSame ==
  ASSUME NEW q, NEW s, NEW n \in Nat, NEW r, NEW S, \A i \in 1 .. n : q[i] = s[i]
  PROVE  AfterIn(q, n, r, S) <=> AfterIn(s, n, r, S)
BY DEF AfterIn

(* No request, nothing is queued.                                          *)
LEMMA AfterNone ==
  ASSUME NEW q, NEW r, NEW S
  PROVE  ~AfterIn(q, 0, r, S)
BY DEF AfterIn

(* A queue that gets one request more.                                     *)
LEMMA AfterAppend ==
  ASSUME NEW q \in Seq(RequestsMade), NEW x \in RequestsMade, NEW r, NEW S
  PROVE  After(Append(q, x), r, S) <=> x = r \/ (x \notin S /\ After(q, r, S))
<1>1. /\ Len(Append(q, x)) = Len(q) + 1 /\ Append(q, x)[Len(q) + 1] = x
      /\ \A i \in 1 .. Len(q) : Append(q, x)[i] = q[i]
  OBVIOUS
<1>2. PICK n \in Nat : n = Len(q)
  OBVIOUS
<1>3. PICK z : z = Append(q, x)
  OBVIOUS
<1>4. AfterIn(z, n + 1, r, S) <=> z[n + 1] = r \/ (z[n + 1] \notin S /\ AfterIn(z, n, r, S))
  BY AfterStep
<1>5. AfterIn(z, n, r, S) <=> AfterIn(q, n, r, S)
  BY <1>1, <1>2, <1>3, AfterSame
<1> QED
  BY <1>1, <1>2, <1>3, <1>4, <1>5 DEF After

-----------------------------------------------------------------------------
(* The defining equation of KeptOf, for the first m requests.              *)
KeptEquation(q, m, g) ==
  g = [n \in 0 .. m |-> IF n = 0 THEN << >> ELSE Append(Without(g[n - 1], q[n]), q[n])]

(* It has a solution.                                                      *)
LEMMA KeptExists ==
  ASSUME NEW q, NEW m \in Nat
  PROVE  \E g : KeptEquation(q, m, g)
<1> DEFINE T == {n \in Nat : ~\E g : KeptEquation(q, n, g)}
<1> SUFFICES ASSUME T # {}
             PROVE  FALSE
  OBVIOUS
<1>1. PICK k \in T : \A y \in T : k <= y
  BY LeastNat
<1>2. CASE k = 0
  <2>1. PICK g : g = [n \in 0 .. 0 |-> << >>]
    OBVIOUS
  <2>2. g = [n \in 0 .. 0 |-> IF n = 0 THEN << >> ELSE Append(Without(g[n - 1], q[n]), q[n])]
    BY <2>1
  <2> QED
    BY <1>1, <1>2, <2>2 DEF KeptEquation
<1>3. CASE k # 0
  <2>1. k - 1 \in Nat /\ k - 1 \notin T
    BY <1>1, <1>3
  <2>2. PICK g : KeptEquation(q, k - 1, g)
    BY <2>1
  <2>3. PICK h : h = [n \in 0 .. k |-> IF n < k THEN g[n]
                                       ELSE Append(Without(g[k - 1], q[k]), q[k])]
    OBVIOUS
  <2>4. ASSUME NEW n \in 0 .. k
        PROVE  h[n] = IF n = 0 THEN << >> ELSE Append(Without(h[n - 1], q[n]), q[n])
    <3>1. CASE n = k
      BY <1>3, <2>1, <2>3, <3>1
    <3>2. CASE n < k
      <4>1. h[n] = g[n] /\ n \in 0 .. k - 1
        BY <2>3, <3>2
      <4>2. n # 0 => h[n - 1] = g[n - 1]
        BY <2>3, <3>2
      <4>3. g[n] = IF n = 0 THEN << >> ELSE Append(Without(g[n - 1], q[n]), q[n])
        BY <2>2, <4>1 DEF KeptEquation
      <4> QED
        BY <4>1, <4>2, <4>3
    <3> QED
      BY <3>1, <3>2
  <2>5. h = [n \in 0 .. k |-> h[n]]
    BY <2>3
  <2>6. KeptEquation(q, k, h)
    BY <2>4, <2>5 DEF KeptEquation
  <2> QED
    BY <1>1, <2>6
<1> QED
  BY <1>2, <1>3

(* So KeptOf is one.                                                       *)
LEMMA KeptUnfolds ==
  ASSUME NEW q, Len(q) \in Nat
  PROVE  /\ KeptOf(q)[0] = << >>
         /\ \A n \in 1 .. Len(q) : KeptOf(q)[n] = Append(Without(KeptOf(q)[n - 1], q[n]), q[n])
<1>1. PICK g : KeptEquation(q, Len(q), g)
  BY KeptExists
<1>2. KeptEquation(q, Len(q), KeptOf(q))
  BY <1>1 DEF KeptEquation, KeptOf
<1>3. 0 \in 0 .. Len(q) /\ \A n \in 1 .. Len(q) : n \in 0 .. Len(q) /\ n # 0
  OBVIOUS
<1> QED
  BY <1>2, <1>3 DEF KeptEquation

(* A queue without duplicates.                                             *)
Distinct(q) == \A i, j \in 1 .. Len(q) : q[i] = q[j] => i = j

(* What leaving out the i-th request does.                                 *)
Left(k, i, w) ==
  /\ w \in Seq(RequestsMade) /\ Len(w) = Len(k) - 1
  /\ \A j \in 1 .. Len(w) : w[j] = IF j < i THEN k[j] ELSE k[j + 1]

(* RemoveAt leaves one out.                                                *)
LEMMA RemoveAtLeaves ==
  ASSUME NEW k \in Seq(RequestsMade), NEW i \in 1 .. Len(k)
  PROVE  Left(k, i, RemoveAt(k, i))
<1>1. PICK a : a = SubSeq(k, 1, i - 1)
  OBVIOUS
<1>2. PICK b : b = SubSeq(k, i + 1, Len(k))
  OBVIOUS
<1>3. /\ a \in Seq(RequestsMade) /\ Len(a) = i - 1
      /\ \A j \in 1 .. i - 1 : a[j] = k[j]
  BY <1>1
<1>4. /\ b \in Seq(RequestsMade) /\ Len(b) = Len(k) - i
      /\ \A j \in 1 .. Len(k) - i : b[j] = k[i + j]
  BY <1>2
<1>5. PICK w : w = a \o b
  OBVIOUS
<1>6. /\ w \in Seq(RequestsMade) /\ Len(w) = Len(k) - 1
      /\ \A j \in 1 .. Len(k) - 1 : w[j] = IF j <= i - 1 THEN a[j] ELSE b[j - (i - 1)]
  BY <1>3, <1>4, <1>5
<1>7. ASSUME NEW j \in 1 .. Len(k) - 1
      PROVE  w[j] = IF j < i THEN k[j] ELSE k[j + 1]
  <2>1. CASE j < i
    BY <1>3, <1>6, <2>1
  <2>2. CASE ~(j < i)
    <3>1. j - (i - 1) \in 1 .. Len(k) - i /\ i + (j - (i - 1)) = j + 1
      BY <2>2
    <3>2. b[j - (i - 1)] = k[i + (j - (i - 1))]
      BY <1>4, <3>1
    <3> QED
      BY <1>6, <2>2, <3>1, <3>2
  <2> QED
    BY <2>1, <2>2
<1>8. w = RemoveAt(k, i)
  BY <1>1, <1>2, <1>5 DEF RemoveAt
<1> QED
  BY <1>6, <1>7, <1>8 DEF Left

(* Leaving out x, the queue has neither duplicates nor x, and other        *)
(* requests come in the same order.                                        *)
LeavesOut(k, x, w) ==
  /\ Distinct(w) /\ \A j \in 1 .. Len(w) : w[j] # x
  /\ \A r, S : r # x /\ x \notin S => (After(w, r, S) <=> After(k, r, S))

(* That is what leaving out the i-th request of a queue without duplicates *)
(* does.                                                                   *)
LEMMA LeftFacts ==
  ASSUME NEW k \in Seq(RequestsMade), Distinct(k), NEW i \in 1 .. Len(k), NEW w, Left(k, i, w)
  PROVE  LeavesOut(k, k[i], w)
<1>1. PICK n \in Nat : n = Len(w)
  BY DEF Left
<1>2. Len(k) = n + 1 /\ i \in 1 .. n + 1
  BY <1>1 DEF Left
<1>3. PICK at : at = [j \in 1 .. n |-> IF j < i THEN j ELSE j + 1]
  OBVIOUS
<1>4. /\ \A j \in 1 .. n : at[j] \in 1 .. n + 1 /\ at[j] # i
      /\ \A j, m \in 1 .. n : j < m <=> at[j] < at[m]
      /\ \A j, m \in 1 .. n : at[j] = at[m] => j = m
  BY <1>2, <1>3
<1>5. \A j \in 1 .. n : w[j] = k[at[j]]
  BY <1>1, <1>3 DEF Left
<1>6. ASSUME NEW m \in 1 .. n + 1, m # i
      PROVE  \E j \in 1 .. n : at[j] = m
  <2>1. CASE m < i
    <3>1. m \in 1 .. n
      BY <1>2, <2>1
    <3> QED
      BY <1>3, <2>1, <3>1
  <2>2. CASE m > i
    <3>1. m - 1 \in 1 .. n /\ ~(m - 1 < i) /\ (m - 1) + 1 = m
      BY <1>2, <2>2
    <3> QED
      BY <1>3, <3>1
  <2> QED
    BY <1>2, <1>6, <2>1, <2>2
<1>7. Distinct(w) /\ \A j \in 1 .. Len(w) : w[j] # k[i]
  BY <1>1, <1>2, <1>4, <1>5 DEF Distinct
<1>8. ASSUME NEW r, NEW S, r # k[i], k[i] \notin S
      PROVE  After(w, r, S) <=> After(k, r, S)
  <2>1. ASSUME After(w, r, S)
        PROVE  After(k, r, S)
    <3>1. PICK j \in 1 .. n : w[j] = r /\ \A m \in 1 .. n : m > j => w[m] \notin S
      BY <1>1, <2>1 DEF After, AfterIn
    <3>2. ASSUME NEW m \in 1 .. n + 1, m > at[j]
          PROVE  k[m] \notin S
      <4>1. CASE m = i
        BY <1>8, <4>1
      <4>2. CASE m # i
        <5>1. PICK j2 \in 1 .. n : at[j2] = m
          BY <1>6, <4>2
        <5>2. j2 > j
          BY <1>4, <3>2, <5>1
        <5> QED
          BY <1>5, <3>1, <5>1, <5>2
      <4> QED
        BY <4>1, <4>2
    <3> QED
      BY <1>2, <1>4, <1>5, <3>1, <3>2 DEF After, AfterIn
  <2>2. ASSUME After(k, r, S)
        PROVE  After(w, r, S)
    <3>1. PICK m \in 1 .. n + 1 : k[m] = r /\ \A m2 \in 1 .. n + 1 : m2 > m => k[m2] \notin S
      BY <1>2, <2>2 DEF After, AfterIn
    <3>2. PICK j \in 1 .. n : at[j] = m
      BY <1>6, <1>8, <3>1
    <3>3. w[j] = r /\ \A j2 \in 1 .. n : j2 > j => w[j2] \notin S
      BY <1>4, <1>5, <3>1, <3>2
    <3> QED
      BY <1>1, <3>3 DEF After, AfterIn
  <2> QED
    BY <2>1, <2>2
<1> QED
  BY <1>7, <1>8 DEF LeavesOut

(* The queue z is k with x as the latest of its kind.                      *)
Keeps(k, x, z) ==
  /\ z \in Seq(RequestsMade) /\ Distinct(z) /\ Len(z) <= Len(k) + 1
  /\ \A r, S : r \notin S => (After(z, r, S) <=> x = r \/ (x \notin S /\ After(k, r, S)))

(* One step of CompactCheckpointerRequestQueue.                            *)
LEMMA KeepFacts ==
  ASSUME NEW k \in Seq(RequestsMade), Distinct(k), NEW x \in RequestsMade, NEW z,
         z = Append(Without(k, x), x)
  PROVE  Keeps(k, x, z)
<1>1. PICK w : w = Without(k, x)
  OBVIOUS
<1>2. /\ w \in Seq(RequestsMade) /\ Distinct(w) /\ Len(w) <= Len(k)
      /\ \A j \in 1 .. Len(w) : w[j] # x
      /\ \A r, S : r # x /\ x \notin S => (After(w, r, S) <=> After(k, r, S))
  <2>1. CASE \E i \in DOMAIN k : k[i] = x
    <3>1. PICK i : i = CHOOSE j \in DOMAIN k : k[j] = x
      OBVIOUS
    <3>2. i \in 1 .. Len(k) /\ k[i] = x
      BY <2>1, <3>1
    <3>3. w = RemoveAt(k, i)
      BY <1>1, <2>1, <3>1 DEF Without
    <3>4. Left(k, i, w)
      BY <3>2, <3>3, RemoveAtLeaves
    <3>5. LeavesOut(k, x, w)
      BY <3>2, <3>4, LeftFacts
    <3>6. w \in Seq(RequestsMade) /\ Len(w) <= Len(k)
      BY <3>4 DEF Left
    <3> QED
      BY <3>5, <3>6 DEF LeavesOut
  <2>2. CASE ~\E i \in DOMAIN k : k[i] = x
    BY <1>1, <2>2 DEF Without
  <2> QED
    BY <2>1, <2>2
<1>3. /\ z \in Seq(RequestsMade) /\ Len(z) = Len(w) + 1 /\ z[Len(w) + 1] = x
      /\ \A j \in 1 .. Len(w) : z[j] = w[j]
  BY <1>1, <1>2
<1>4. Distinct(z)
  <2> SUFFICES ASSUME NEW i \in 1 .. Len(w) + 1, NEW j \in 1 .. Len(w) + 1, z[i] = z[j]
               PROVE  i = j
    BY <1>3 DEF Distinct
  <2>1. (i \in 1 .. Len(w) \/ i = Len(w) + 1) /\ (j \in 1 .. Len(w) \/ j = Len(w) + 1)
    BY <1>2
  <2> QED
    BY <1>2, <1>3, <2>1 DEF Distinct
<1>5. ASSUME NEW r, NEW S, r \notin S
      PROVE  After(z, r, S) <=> x = r \/ (x \notin S /\ After(k, r, S))
  <2>1. After(z, r, S) <=> x = r \/ (x \notin S /\ After(w, r, S))
    BY <1>1, <1>2, AfterAppend
  <2> QED
    BY <1>2, <2>1
<1> QED
  BY <1>2, <1>3, <1>4, <1>5 DEF Keeps

(* What is kept of the first n requests of q.                              *)
KeptAs(q, n, k) ==
  /\ k \in Seq(RequestsMade) /\ Distinct(k) /\ Len(k) <= n
  /\ \A r, S : r \notin S => (After(k, r, S) <=> AfterIn(q, n, r, S))

(* What CompactCheckpointerRequestQueue keeps of the first m requests.     *)
LEMMA KeptFacts ==
  ASSUME NEW q \in Seq(RequestsMade), NEW m \in 0 .. Len(q)
  PROVE  KeptAs(q, m, KeptOf(q)[m])
<1> DEFINE T == {n \in Nat : n <= Len(q) /\ ~KeptAs(q, n, KeptOf(q)[n])}
<1> SUFFICES ASSUME T # {}
             PROVE  FALSE
  OBVIOUS
<1>1. PICK n \in T : \A y \in T : n <= y
  BY LeastNat
<1>2. CASE n = 0
  <2>1. KeptOf(q)[0] = << >>
    BY KeptUnfolds
  <2>2. << >> \in Seq(RequestsMade) /\ Distinct(<< >>) /\ Len(<< >>) = 0
    BY DEF Distinct
  <2>3. \A r, S : ~After(<< >>, r, S) /\ ~AfterIn(q, 0, r, S)
    BY <2>2, AfterNone DEF After
  <2> QED
    BY <1>1, <1>2, <2>1, <2>2, <2>3 DEF KeptAs
<1>3. CASE n # 0
  <2>1. PICK m1 \in Nat : m1 = n - 1
    BY <1>1, <1>3
  <2>2. n = m1 + 1 /\ m1 \notin T /\ m1 <= Len(q) /\ n \in 1 .. Len(q)
    BY <1>1, <1>3, <2>1
  <2>3. PICK k : k = KeptOf(q)[m1]
    OBVIOUS
  <2>4. KeptAs(q, m1, k)
    BY <2>2, <2>3
  <2>5. PICK x \in RequestsMade : x = q[n]
    BY <2>2
  <2>6. PICK z : z = KeptOf(q)[n]
    OBVIOUS
  <2>7. z = Append(Without(k, x), x)
    BY <2>1, <2>2, <2>3, <2>5, <2>6, KeptUnfolds
  <2>8. Keeps(k, x, z)
    <3>1. k \in Seq(RequestsMade) /\ Distinct(k)
      BY <2>4 DEF KeptAs
    <3> QED
      BY <2>7, <3>1, KeepFacts
  <2>9. \A r, S : AfterIn(q, n, r, S) <=> x = r \/ (x \notin S /\ AfterIn(q, m1, r, S))
    BY <2>2, <2>5, AfterStep
  <2>10. KeptAs(q, n, z)
    BY <2>2, <2>4, <2>8, <2>9 DEF KeptAs, Keeps
  <2> QED
    BY <1>1, <2>6, <2>10
<1> QED
  BY <1>2, <1>3

-----------------------------------------------------------------------------
(* Making room in the queue changes nothing that matters.                  *)
LEMMA RoomyFacts ==
  ASSUME requests \in Seq(RequestsMade)
  PROVE  /\ Roomy \in Seq(RequestsMade)
         /\ \A r, S : r \notin S => (After(Roomy, r, S) <=> After(requests, r, S))
         /\ UniqueUnlink(requests) => UniqueUnlink(Roomy)
<1>1. CASE Len(requests) < MAX_REQUESTS
  BY <1>1 DEF Roomy
<1>2. CASE ~(Len(requests) < MAX_REQUESTS)
  <2>1. Roomy = KeptOf(requests)[Len(requests)]
    BY <1>2 DEF Roomy, CompactCheckpointerRequestQueue
  <2>2. KeptAs(requests, Len(requests), Roomy)
    BY <2>1, KeptFacts
  <2> QED
    BY <2>2 DEF KeptAs, After, Distinct, UniqueUnlink
<1> QED
  BY <1>1, <1>2

(* The queue after ForwardSyncRequest.                                     *)
Forwarded(x) ==
  /\ requests' \in Seq(RequestsMade) /\ Len(requests') <= MAX_REQUESTS
  /\ \A r, S : r \notin S => (After(requests, r, S)' <=> x = r \/ (x \notin S /\ After(requests, r, S)))
  /\ UniqueUnlink(requests) /\ (x = UnlinkR => ~Queued(UnlinkR)) => UniqueUnlink(requests)'

(* What ForwardSyncRequest leaves in the queue: the new request last, and  *)
(* of the earlier ones what compaction keeps.                              *)
LEMMA ForwardFacts ==
  ASSUME requests \in Seq(RequestsMade), NEW x \in RequestsMade, ForwardSyncRequest(x)
  PROVE  Forwarded(x)
<1>1. PICK k : k = Roomy
  OBVIOUS
<1>2. /\ k \in Seq(RequestsMade)
      /\ \A r, S : r \notin S => (After(k, r, S) <=> After(requests, r, S))
      /\ UniqueUnlink(requests) => UniqueUnlink(k)
  BY <1>1, RoomyFacts
<1>3. requests' = Append(k, x) /\ Len(k) < MAX_REQUESTS
  BY <1>1 DEF ForwardSyncRequest, CanForward
<1>4. /\ requests' \in Seq(RequestsMade) /\ Len(requests') = Len(k) + 1
      /\ requests'[Len(k) + 1] = x /\ \A i \in 1 .. Len(k) : requests'[i] = k[i]
  BY <1>2, <1>3
<1>5. Len(requests') <= MAX_REQUESTS
  BY <1>2, <1>3, <1>4, ConstantsAssumption
<1>6. ASSUME NEW r, NEW S, r \notin S
      PROVE  After(requests, r, S)' <=> x = r \/ (x \notin S /\ After(requests, r, S))
  BY <1>2, <1>3, <1>6, AfterAppend
<1>7. ASSUME UniqueUnlink(requests), x = UnlinkR => ~Queued(UnlinkR)
      PROVE  UniqueUnlink(requests)'
  <2>1. x = UnlinkR => ~After(k, UnlinkR, {})
    BY <1>2, <1>7 DEF Queued
  <2>2. x = UnlinkR => \A i \in 1 .. Len(k) : k[i] # UnlinkR
    BY <2>1 DEF After, AfterIn
  <2>3. UniqueUnlink(k)
    BY <1>2, <1>7
  <2> SUFFICES ASSUME NEW i \in 1 .. Len(k) + 1, NEW j \in 1 .. Len(k) + 1,
                      requests'[i] = UnlinkR, requests'[j] = UnlinkR
               PROVE  i = j
    BY <1>4 DEF UniqueUnlink
  <2>4. (i \in 1 .. Len(k) \/ i = Len(k) + 1) /\ (j \in 1 .. Len(k) \/ j = Len(k) + 1)
    BY <1>2
  <2> QED
    BY <1>2, <1>4, <2>2, <2>3, <2>4 DEF UniqueUnlink
<1> QED
  BY <1>4, <1>5, <1>6, <1>7 DEF Forwarded

-----------------------------------------------------------------------------
(***************************************************************************)
(* RememberSyncRequest and AbsorbSyncRequests                              *)
(***************************************************************************)
(* The tables after one more request.                                      *)
NewEntry == [cycle |-> sync_cycle_ctr, canceled |-> FALSE]
NewUnlink == [file |-> FirstSegment, cycle |-> checkpoint_cycle_ctr, canceled |-> FALSE]

RememberedOps(o, x, o2) ==
  \/ \E f \in Files : /\ x = SyncR(f) /\ f \in DOMAIN o /\ ~o[f].canceled
                      /\ o2 = o
  \/ \E f \in Files : /\ x = SyncR(f) /\ ~(f \in DOMAIN o /\ ~o[f].canceled)
                      /\ DOMAIN o2 = DOMAIN o \cup {f} /\ o2[f] = NewEntry
                      /\ \A g \in DOMAIN o : g # f => o2[g] = o[g]
  \/ \E f \in Files : /\ x = ForgetR(f)
                      /\ DOMAIN o2 = DOMAIN o
                      /\ \A g \in DOMAIN o : o2[g] = IF g = f THEN Cancel(o[g]) ELSE o[g]
  \/ x = FilterR /\ DOMAIN o2 = DOMAIN o /\ \A g \in DOMAIN o : o2[g] = Cancel(o[g])
  \/ x = UnlinkR /\ o2 = o

RememberedUnlinks(u, x, u2) ==
  \/ \E f \in Files : x \in {SyncR(f), ForgetR(f)} /\ u2 = u
  \/ x = FilterR /\ u2 = [i \in DOMAIN u |-> Cancel(u[i])]
  \/ x = UnlinkR /\ u2 = Append(u, NewUnlink)

Remembers(o, u, x, t2) ==
  /\ t2 = [ops |-> t2.ops, unlinks |-> t2.unlinks]
  /\ RememberedOps(o, x, t2.ops) /\ RememberedUnlinks(u, x, t2.unlinks)

(* What RememberSyncRequest does, for each type of request.                *)
LEMMA RememberForms ==
  ASSUME NEW o, NEW u, NEW x \in RequestsMade, NEW t, t = [ops |-> o, unlinks |-> u],
         NEW t2, t2 = Remember(t, x)
  PROVE  Remembers(o, u, x, t2)
<1> USE RequestForms, TypesDiffer DEF Remembers
<1>1. CASE \E f \in Files : x = SyncR(f)
  <2>1. PICK f \in Files : x = SyncR(f)
    BY <1>1
  <2>2. x.type = SYNC /\ x.file = f
    BY <2>1
  <2>3. CASE f \in DOMAIN o /\ ~o[f].canceled
    <3>1. t2 = t
      BY <2>2, <2>3 DEF Remember
    <3> QED
      BY <2>1, <2>3, <3>1 DEF RememberedOps, RememberedUnlinks
  <2>4. CASE ~(f \in DOMAIN o /\ ~o[f].canceled)
    <3>1. PICK o2 : o2 = [g \in DOMAIN o \cup {f} |-> IF g = f THEN NewEntry ELSE o[g]]
      OBVIOUS
    <3>2. t2 = [ops |-> o2, unlinks |-> u]
      BY <2>2, <2>4, <3>1 DEF Remember, NewEntry
    <3>3. /\ DOMAIN o2 = DOMAIN o \cup {f} /\ o2[f] = NewEntry
          /\ \A g \in DOMAIN o : g # f => o2[g] = o[g]
      BY <3>1
    <3> QED
      BY <2>1, <2>4, <3>2, <3>3 DEF RememberedOps, RememberedUnlinks
  <2> QED
    BY <2>3, <2>4
<1>2. CASE \E f \in Files : x = ForgetR(f)
  <2>1. PICK f \in Files : x = ForgetR(f)
    BY <1>2
  <2>2. x.type = FORGET /\ x.file = f
    BY <2>1
  <2>3. t2 = [ops |-> [g \in DOMAIN o |-> IF g = f THEN Cancel(o[g]) ELSE o[g]], unlinks |-> u]
    BY <2>2 DEF Remember
  <2> QED
    BY <2>1, <2>3 DEF RememberedOps, RememberedUnlinks
<1>3. CASE x = FilterR
  <2>1. t2 = [ops |-> [g \in DOMAIN o |-> Cancel(o[g])],
              unlinks |-> [i \in DOMAIN u |-> Cancel(u[i])]]
    BY <1>3 DEF Remember
  <2> QED
    BY <1>3, <2>1 DEF RememberedOps, RememberedUnlinks
<1>4. CASE x = UnlinkR
  <2>1. t2 = [ops |-> o, unlinks |-> Append(u, NewUnlink)]
    BY <1>4 DEF Remember, NewUnlink
  <2> QED
    BY <1>4, <2>1 DEF RememberedOps, RememberedUnlinks
<1> QED
  BY <1>1, <1>2, <1>3, <1>4 DEF RequestsMade

-----------------------------------------------------------------------------
(* The defining equation of AbsorbedUpTo, for the first m requests.        *)
TablesEquation(m, g) ==
  g = [n \in 0 .. m |-> IF n = 0 THEN [ops |-> pendingOps, unlinks |-> pendingUnlinks]
                        ELSE Remember(g[n - 1], requests[n])]

(* It has a solution.                                                      *)
LEMMA TablesExist ==
  ASSUME NEW m \in Nat
  PROVE  \E g : TablesEquation(m, g)
<1> DEFINE T == {n \in Nat : ~\E g : TablesEquation(n, g)}
<1> SUFFICES ASSUME T # {}
             PROVE  FALSE
  OBVIOUS
<1>1. PICK k \in T : \A y \in T : k <= y
  BY LeastNat
<1>2. CASE k = 0
  <2>1. PICK g : g = [n \in 0 .. 0 |-> [ops |-> pendingOps, unlinks |-> pendingUnlinks]]
    OBVIOUS
  <2>2. g = [n \in 0 .. 0 |-> IF n = 0 THEN [ops |-> pendingOps, unlinks |-> pendingUnlinks]
                              ELSE Remember(g[n - 1], requests[n])]
    BY <2>1
  <2> QED
    BY <1>1, <1>2, <2>2 DEF TablesEquation
<1>3. CASE k # 0
  <2>1. k - 1 \in Nat /\ k - 1 \notin T
    BY <1>1, <1>3
  <2>2. PICK g : TablesEquation(k - 1, g)
    BY <2>1
  <2>3. PICK h : h = [n \in 0 .. k |-> IF n < k THEN g[n] ELSE Remember(g[k - 1], requests[k])]
    OBVIOUS
  <2>4. ASSUME NEW n \in 0 .. k
        PROVE  h[n] = IF n = 0 THEN [ops |-> pendingOps, unlinks |-> pendingUnlinks]
                      ELSE Remember(h[n - 1], requests[n])
    <3>1. CASE n = k
      BY <1>3, <2>1, <2>3, <3>1
    <3>2. CASE n < k
      <4>1. h[n] = g[n] /\ n \in 0 .. k - 1
        BY <2>3, <3>2
      <4>2. n # 0 => h[n - 1] = g[n - 1]
        BY <2>3, <3>2
      <4>3. g[n] = IF n = 0 THEN [ops |-> pendingOps, unlinks |-> pendingUnlinks]
                   ELSE Remember(g[n - 1], requests[n])
        BY <2>2, <4>1 DEF TablesEquation
      <4> QED
        BY <4>1, <4>2, <4>3
    <3> QED
      BY <3>1, <3>2
  <2>5. h = [n \in 0 .. k |-> h[n]]
    BY <2>3
  <2>6. TablesEquation(k, h)
    BY <2>4, <2>5 DEF TablesEquation
  <2> QED
    BY <1>1, <2>6
<1> QED
  BY <1>2, <1>3

(* So AbsorbedUpTo is one.                                                 *)
LEMMA TablesUnfold ==
  ASSUME Len(requests) \in Nat
  PROVE  /\ AbsorbedUpTo[0] = [ops |-> pendingOps, unlinks |-> pendingUnlinks]
         /\ \A n \in 1 .. Len(requests) :
              AbsorbedUpTo[n] = Remember(AbsorbedUpTo[n - 1], requests[n])
<1>1. PICK g : TablesEquation(Len(requests), g)
  BY TablesExist
<1>2. TablesEquation(Len(requests), AbsorbedUpTo)
  BY <1>1 DEF TablesEquation, AbsorbedUpTo
<1>3. 0 \in 0 .. Len(requests) /\ \A n \in 1 .. Len(requests) : n \in 0 .. Len(requests) /\ n # 0
  OBVIOUS
<1> QED
  BY <1>2, <1>3 DEF TablesEquation

-----------------------------------------------------------------------------
(* The table after the first n requests tells to sync f.                   *)
WantedIn(n, f) ==
  \/ AfterIn(requests, n, SyncR(f), Cancels(f))
  \/ Pending(f) /\ ~AfterIn(requests, n, ForgetR(f), {}) /\ ~AfterIn(requests, n, FilterR, {})

(* The table of sync requests after the first n requests.                  *)
OpsAs(o, n) ==
  /\ DOMAIN o \subseteq Files /\ \A f \in DOMAIN o : o[f] \in Entry
  /\ \A f \in Files : f \in DOMAIN o /\ ~o[f].canceled <=> WantedIn(n, f)
  /\ DOMAIN pendingOps \subseteq DOMAIN o
  /\ \A f \in DOMAIN o : \/ o[f].cycle = sync_cycle_ctr
                         \/ f \in DOMAIN pendingOps /\ o[f].cycle = pendingOps[f].cycle
  /\ \A f \in DOMAIN o : ~AfterIn(requests, n, SyncR(f), {}) =>
       f \in DOMAIN pendingOps /\ o[f].cycle = pendingOps[f].cycle
  /\ \A f \in Files :
       Pending(f) /\ ~AfterIn(requests, n, ForgetR(f), {}) /\ ~AfterIn(requests, n, FilterR, {}) =>
         o[f].cycle = pendingOps[f].cycle

(* One more request.                                                       *)
LEMMA OpsStep ==
  ASSUME TypeInv, NEW n \in Nat, NEW x, x = requests[n + 1], NEW o, OpsAs(o, n),
         NEW o2, RememberedOps(o, x, o2)
  PROVE  OpsAs(o2, n + 1)
<1> USE RequestForms
<1>1. \A r, S : AfterIn(requests, n + 1, r, S) <=> x = r \/ (x \notin S /\ AfterIn(requests, n, r, S))
  BY AfterStep
<1>2. /\ \A f : AfterIn(requests, n + 1, ForgetR(f), {}) <=>
                  x = ForgetR(f) \/ AfterIn(requests, n, ForgetR(f), {})
      /\ AfterIn(requests, n + 1, FilterR, {}) <=> x = FilterR \/ AfterIn(requests, n, FilterR, {})
      /\ \A f : AfterIn(requests, n + 1, SyncR(f), {}) <=>
                  x = SyncR(f) \/ AfterIn(requests, n, SyncR(f), {})
      /\ \A f : AfterIn(requests, n + 1, SyncR(f), Cancels(f)) <=>
                  \/ x = SyncR(f)
                  \/ x # ForgetR(f) /\ x # FilterR /\ AfterIn(requests, n, SyncR(f), Cancels(f))
  BY <1>1 DEF Cancels
<1>3. sync_cycle_ctr \in 0 .. CYCLE_MODULUS - 1
  BY DEF TypeInv, TypeOK
<1>4. \A e \in Entry : Cancel(e) \in Entry /\ Cancel(e).canceled /\ Cancel(e).cycle = e.cycle
  BY DEF Cancel, Entry
<1>5. NewEntry \in Entry /\ ~NewEntry.canceled /\ NewEntry.cycle = sync_cycle_ctr
  BY <1>3 DEF NewEntry, Entry
<1>6. /\ DOMAIN o \subseteq Files /\ \A f \in DOMAIN o : o[f] \in Entry
      /\ \A f \in Files : f \in DOMAIN o /\ ~o[f].canceled <=> WantedIn(n, f)
      /\ DOMAIN pendingOps \subseteq DOMAIN o
  BY DEF OpsAs
<1>7. CASE \E f \in Files : x = SyncR(f) /\ f \in DOMAIN o /\ ~o[f].canceled /\ o2 = o
  <2>1. PICK f \in Files : x = SyncR(f) /\ f \in DOMAIN o /\ ~o[f].canceled /\ o2 = o
    BY <1>7
  <2>2. \A g \in Files : WantedIn(n + 1, g) <=> WantedIn(n, g)
    BY <1>2, <1>6, <2>1 DEF WantedIn
  <2> QED
    BY <1>2, <2>1, <2>2 DEF OpsAs
<1>8. CASE \E f \in Files : /\ x = SyncR(f) /\ ~(f \in DOMAIN o /\ ~o[f].canceled)
                            /\ DOMAIN o2 = DOMAIN o \cup {f} /\ o2[f] = NewEntry
                            /\ \A g \in DOMAIN o : g # f => o2[g] = o[g]
  <2>1. PICK f \in Files : /\ x = SyncR(f) /\ ~(f \in DOMAIN o /\ ~o[f].canceled)
                           /\ DOMAIN o2 = DOMAIN o \cup {f} /\ o2[f] = NewEntry
                           /\ \A g \in DOMAIN o : g # f => o2[g] = o[g]
    BY <1>8
  <2>2. WantedIn(n + 1, f) /\ \A g \in Files : g # f => (WantedIn(n + 1, g) <=> WantedIn(n, g))
    BY <1>2, <2>1 DEF WantedIn
  <2>3. ~(Pending(f) /\ ~AfterIn(requests, n, ForgetR(f), {}) /\ ~AfterIn(requests, n, FilterR, {}))
    BY <1>6, <2>1 DEF WantedIn
  <2>4. DOMAIN o2 \subseteq Files /\ \A g \in DOMAIN o2 : o2[g] \in Entry
    BY <1>5, <1>6, <2>1
  <2>5. \A g \in Files : g \in DOMAIN o2 /\ ~o2[g].canceled <=> WantedIn(n + 1, g)
    BY <1>5, <1>6, <2>1, <2>2
  <2>6. ASSUME NEW g \in DOMAIN o2
        PROVE  /\ \/ o2[g].cycle = sync_cycle_ctr
                  \/ g \in DOMAIN pendingOps /\ o2[g].cycle = pendingOps[g].cycle
               /\ ~AfterIn(requests, n + 1, SyncR(g), {}) =>
                    g \in DOMAIN pendingOps /\ o2[g].cycle = pendingOps[g].cycle
    <3>1. CASE g = f
      BY <1>2, <1>5, <2>1, <3>1
    <3>2. CASE g # f
      BY <1>2, <2>1, <3>2 DEF OpsAs
    <3> QED
      BY <3>1, <3>2
  <2>7. ASSUME NEW g \in Files, Pending(g), ~AfterIn(requests, n + 1, ForgetR(g), {}),
               ~AfterIn(requests, n + 1, FilterR, {})
        PROVE  o2[g].cycle = pendingOps[g].cycle
    <3>1. ~AfterIn(requests, n, ForgetR(g), {}) /\ ~AfterIn(requests, n, FilterR, {})
      BY <1>2, <2>7
    <3>2. g # f /\ g \in DOMAIN o
      BY <1>6, <2>3, <2>7, <3>1 DEF Pending
    <3> QED
      BY <2>1, <2>7, <3>1, <3>2 DEF OpsAs
  <2> QED
    BY <1>6, <2>1, <2>4, <2>5, <2>6, <2>7 DEF OpsAs
<1>9. CASE \E f \in Files : /\ x = ForgetR(f) /\ DOMAIN o2 = DOMAIN o
                            /\ \A g \in DOMAIN o : o2[g] = IF g = f THEN Cancel(o[g]) ELSE o[g]
  <2>1. PICK f \in Files : /\ x = ForgetR(f) /\ DOMAIN o2 = DOMAIN o
                           /\ \A g \in DOMAIN o : o2[g] = IF g = f THEN Cancel(o[g]) ELSE o[g]
    BY <1>9
  <2>2. ~WantedIn(n + 1, f) /\ \A g \in Files : g # f => (WantedIn(n + 1, g) <=> WantedIn(n, g))
    BY <1>2, <2>1 DEF WantedIn
  <2>3. \A g \in DOMAIN o : o2[g] \in Entry /\ o2[g].cycle = o[g].cycle
    BY <1>4, <1>6, <2>1
  <2>4. \A g \in DOMAIN o : o2[g].canceled <=> g = f \/ o[g].canceled
    BY <1>4, <1>6, <2>1
  <2>5. \A g \in Files : g \in DOMAIN o2 /\ ~o2[g].canceled <=> WantedIn(n + 1, g)
    BY <1>6, <2>1, <2>2, <2>4
  <2>6. DOMAIN o2 = DOMAIN o
    BY <2>1
  <2>7. \A g \in Files : Pending(g) => g \in DOMAIN o
    BY <1>6 DEF Pending
  <2> QED
    BY <1>2, <2>1, <2>3, <2>5, <2>6, <2>7 DEF OpsAs
<1>10. CASE x = FilterR /\ DOMAIN o2 = DOMAIN o /\ \A g \in DOMAIN o : o2[g] = Cancel(o[g])
  <2>1. \A g \in Files : ~WantedIn(n + 1, g)
    BY <1>2, <1>10 DEF WantedIn
  <2>2. \A g \in DOMAIN o : o2[g] \in Entry /\ o2[g].cycle = o[g].cycle /\ o2[g].canceled
    BY <1>4, <1>6, <1>10
  <2>3. AfterIn(requests, n + 1, FilterR, {})
    BY <1>2, <1>10
  <2>4. \A f : AfterIn(requests, n + 1, SyncR(f), {}) <=> AfterIn(requests, n, SyncR(f), {})
    BY <1>2, <1>10
  <2> QED
    BY <1>10, <2>1, <2>2, <2>3, <2>4 DEF OpsAs
<1>11. CASE x = UnlinkR /\ o2 = o
  <2>1. \A g \in Files : WantedIn(n + 1, g) <=> WantedIn(n, g)
    BY <1>2, <1>11 DEF WantedIn
  <2> QED
    BY <1>2, <1>11, <2>1 DEF OpsAs
<1> QED
  BY <1>7, <1>8, <1>9, <1>10, <1>11 DEF RememberedOps

(* The list of unlink requests after the first n requests.                 *)
UnlinksAs(u, n) ==
  /\ u \in Seq(UnlinkEntry) /\ Len(u) >= Len(pendingUnlinks)
  /\ \A i \in 1 .. Len(pendingUnlinks) :
       /\ u[i].cycle = pendingUnlinks[i].cycle
       /\ Serves(u[i]) <=> Serves(pendingUnlinks[i]) /\ ~AfterIn(requests, n, FilterR, {})
  /\ \A i \in Len(pendingUnlinks) + 1 .. Len(u) : u[i].cycle = checkpoint_cycle_ctr
  /\ (\E i \in Len(pendingUnlinks) + 1 .. Len(u) : Serves(u[i])) <=>
       AfterIn(requests, n, UnlinkR, {FilterR})
  /\ (\A i, j \in 1 .. n : requests[i] = UnlinkR /\ requests[j] = UnlinkR => i = j) =>
       \A i, j \in Len(pendingUnlinks) + 1 .. Len(u) : Serves(u[i]) /\ Serves(u[j]) => i = j

(* One more request.                                                       *)
LEMMA UnlinksStep ==
  ASSUME TypeInv, NEW n \in Nat, NEW x, x = requests[n + 1], NEW u, UnlinksAs(u, n),
         NEW u2, RememberedUnlinks(u, x, u2)
  PROVE  UnlinksAs(u2, n + 1)
<1> USE RequestForms
<1>1. \A r, S : AfterIn(requests, n + 1, r, S) <=> x = r \/ (x \notin S /\ AfterIn(requests, n, r, S))
  BY AfterStep
<1>2. /\ AfterIn(requests, n + 1, FilterR, {}) <=> x = FilterR \/ AfterIn(requests, n, FilterR, {})
      /\ AfterIn(requests, n + 1, UnlinkR, {FilterR}) <=>
           x = UnlinkR \/ (x # FilterR /\ AfterIn(requests, n, UnlinkR, {FilterR}))
  BY <1>1
<1>3. PICK m \in Nat : m = Len(pendingUnlinks)
  BY DEF TypeInv
<1>4. PICK k \in Nat : k = Len(u)
  BY DEF UnlinksAs
<1>5. /\ u \in Seq(UnlinkEntry) /\ k >= m
      /\ \A i \in 1 .. m : /\ u[i].cycle = pendingUnlinks[i].cycle
                           /\ Serves(u[i]) <=> Serves(pendingUnlinks[i]) /\ ~AfterIn(requests, n, FilterR, {})
      /\ \A i \in m + 1 .. k : u[i].cycle = checkpoint_cycle_ctr
      /\ (\E i \in m + 1 .. k : Serves(u[i])) <=> AfterIn(requests, n, UnlinkR, {FilterR})
  BY <1>3, <1>4 DEF UnlinksAs
<1>6. (\A i, j \in 1 .. n + 1 : requests[i] = UnlinkR /\ requests[j] = UnlinkR => i = j) =>
        \A i, j \in 1 .. n : requests[i] = UnlinkR /\ requests[j] = UnlinkR => i = j
  OBVIOUS
<1>7. CASE \E f \in Files : x \in {SyncR(f), ForgetR(f)} /\ u2 = u
  <2>1. x # FilterR /\ x # UnlinkR /\ u2 = u
    BY <1>7
  <2> QED
    BY <1>2, <1>6, <2>1 DEF UnlinksAs
<1>8. CASE x = FilterR /\ u2 = [i \in DOMAIN u |-> Cancel(u[i])]
  <2>1. \A e \in UnlinkEntry : Cancel(e) \in UnlinkEntry /\ ~Serves(Cancel(e)) /\ Cancel(e).cycle = e.cycle
    BY DEF Cancel, UnlinkEntry, Serves
  <2>2. DOMAIN u = 1 .. k /\ \A i \in 1 .. k : u[i] \in UnlinkEntry
    BY <1>4, <1>5
  <2>3. u2 \in [1 .. k -> UnlinkEntry]
    BY <1>8, <2>1, <2>2
  <2>4. u2 \in Seq(UnlinkEntry) /\ Len(u2) = k
    BY <2>3, IsASeq
  <2>5. \A i \in 1 .. k : ~Serves(u2[i]) /\ u2[i].cycle = u[i].cycle
    BY <1>8, <2>1, <2>2
  <2>6. /\ \A i \in 1 .. m : i \in 1 .. k
        /\ \A i \in m + 1 .. k : i \in 1 .. k
    BY <1>5
  <2>7. \A i \in m + 1 .. k : ~Serves(u2[i]) /\ u2[i].cycle = checkpoint_cycle_ctr
    BY <1>5, <2>5, <2>6
  <2>8. \A i \in 1 .. m : ~Serves(u2[i]) /\ u2[i].cycle = pendingUnlinks[i].cycle
    BY <1>5, <2>5, <2>6
  <2>9. AfterIn(requests, n + 1, FilterR, {}) /\ ~AfterIn(requests, n + 1, UnlinkR, {FilterR})
    BY <1>2, <1>8
  <2> QED
    BY <1>3, <1>5, <2>4, <2>7, <2>8, <2>9 DEF UnlinksAs
<1>9. CASE x = UnlinkR /\ u2 = Append(u, NewUnlink)
  <2>1. NewUnlink \in UnlinkEntry /\ Serves(NewUnlink) /\ NewUnlink.cycle = checkpoint_cycle_ctr
    BY DEF NewUnlink, UnlinkEntry, Serves, TypeInv, TypeOK
  <2>2. /\ u2 \in Seq(UnlinkEntry) /\ Len(u2) = k + 1 /\ u2[k + 1] = NewUnlink
        /\ \A i \in 1 .. k : u2[i] = u[i]
    BY <1>4, <1>5, <1>9, <2>1
  <2>3. /\ \A i \in 1 .. m : i \in 1 .. k
        /\ \A i \in m + 1 .. k + 1 : i \in m + 1 .. k \/ i = k + 1
        /\ \A i \in m + 1 .. k : i \in 1 .. k
        /\ k + 1 \in m + 1 .. k + 1
    BY <1>5
  <2>4. \A i \in 1 .. m : /\ u2[i].cycle = pendingUnlinks[i].cycle
                          /\ Serves(u2[i]) <=> Serves(pendingUnlinks[i]) /\ ~AfterIn(requests, n + 1, FilterR, {})
    BY <1>2, <1>5, <1>9, <2>2, <2>3
  <2>5. \A i \in m + 1 .. k + 1 : u2[i].cycle = checkpoint_cycle_ctr
    BY <1>5, <2>1, <2>2, <2>3
  <2>6. (\E i \in m + 1 .. k + 1 : Serves(u2[i])) /\ AfterIn(requests, n + 1, UnlinkR, {FilterR})
    BY <1>2, <1>9, <2>1, <2>2, <2>3
  <2>7. ASSUME \A i, j \in 1 .. n + 1 : requests[i] = UnlinkR /\ requests[j] = UnlinkR => i = j
        PROVE  \A i, j \in m + 1 .. k + 1 : Serves(u2[i]) /\ Serves(u2[j]) => i = j
    <3>1. ASSUME NEW i \in m + 1 .. k
          PROVE  ~Serves(u2[i])
      <4>1. \A i2 \in 1 .. n : requests[i2] # UnlinkR
        <5> SUFFICES ASSUME NEW i2 \in 1 .. n, requests[i2] = UnlinkR
                     PROVE  FALSE
          OBVIOUS
        <5>1. i2 \in 1 .. n + 1 /\ n + 1 \in 1 .. n + 1 /\ i2 # n + 1
          OBVIOUS
        <5> QED
          BY <1>9, <2>7, <5>1
      <4>2. ~AfterIn(requests, n, UnlinkR, {FilterR})
        BY <4>1 DEF AfterIn
      <4> QED
        BY <1>5, <2>2, <2>3, <4>2
    <3> QED
      BY <2>3, <3>1
  <2> QED
    BY <1>3, <1>5, <2>2, <2>4, <2>5, <2>6, <2>7 DEF UnlinksAs
<1> QED
  BY <1>7, <1>8, <1>9 DEF RememberedUnlinks

(* The tables after the first n requests.                                  *)
TablesAs(t, n) ==
  t = [ops |-> t.ops, unlinks |-> t.unlinks] /\ OpsAs(t.ops, n) /\ UnlinksAs(t.unlinks, n)

(* AbsorbSyncRequests, one request after the other.                        *)
LEMMA TablesFacts ==
  ASSUME TypeInv, NEW m \in 0 .. Len(requests)
  PROVE  TablesAs(AbsorbedUpTo[m], m)
<1>0. requests \in Seq(RequestsMade) /\ Len(requests) \in Nat
  BY DEF TypeInv
<1> DEFINE T == {n \in Nat : n <= Len(requests) /\ ~TablesAs(AbsorbedUpTo[n], n)}
<1> SUFFICES ASSUME T # {}
             PROVE  FALSE
  BY <1>0
<1>1. PICK n \in T : \A y \in T : n <= y
  BY LeastNat
<1>2. CASE n = 0
  <2>1. PICK t : t = [ops |-> pendingOps, unlinks |-> pendingUnlinks]
    OBVIOUS
  <2>2. /\ t.ops = pendingOps /\ t.unlinks = pendingUnlinks
        /\ t = [ops |-> t.ops, unlinks |-> t.unlinks]
    BY <2>1
  <2>3. \A r, S : ~AfterIn(requests, 0, r, S)
    BY AfterNone
  <2>4. OpsAs(pendingOps, 0)
    BY <2>3 DEF OpsAs, WantedIn, Pending, TypeInv, TypeOK
  <2>5. UnlinksAs(pendingUnlinks, 0)
    <3>1. pendingUnlinks \in Seq(UnlinkEntry) /\ Len(pendingUnlinks) \in Nat
      BY DEF TypeInv
    <3> QED
      BY <2>3, <3>1 DEF UnlinksAs
  <2>6. t = AbsorbedUpTo[0]
    BY <1>0, <2>1, TablesUnfold
  <2> QED
    BY <1>1, <1>2, <2>2, <2>4, <2>5, <2>6 DEF TablesAs
<1>3. CASE n # 0
  <2>1. PICK m1 \in Nat : m1 = n - 1
    BY <1>1, <1>3
  <2>2. n = m1 + 1 /\ m1 \notin T /\ m1 <= Len(requests) /\ n \in 1 .. Len(requests)
    BY <1>0, <1>1, <1>3, <2>1
  <2>3. PICK t : t = AbsorbedUpTo[m1]
    OBVIOUS
  <2>4. TablesAs(t, m1)
    BY <2>2, <2>3
  <2>5. PICK x \in RequestsMade : x = requests[n]
    BY <1>0, <2>2
  <2>6. PICK z : z = AbsorbedUpTo[n]
    OBVIOUS
  <2>7. z = Remember(t, x)
    BY <1>0, <2>1, <2>2, <2>3, <2>5, <2>6, TablesUnfold
  <2>8. PICK o, u : o = t.ops /\ u = t.unlinks
    OBVIOUS
  <2>9. t = [ops |-> o, unlinks |-> u] /\ OpsAs(o, m1) /\ UnlinksAs(u, m1)
    BY <2>4, <2>8 DEF TablesAs
  <2>10. Remembers(o, u, x, z)
    BY <2>5, <2>7, <2>9, RememberForms
  <2>11. PICK o2, u2 : o2 = z.ops /\ u2 = z.unlinks
    OBVIOUS
  <2>12. OpsAs(o2, m1 + 1)
    BY <2>2, <2>5, <2>9, <2>10, <2>11, OpsStep DEF Remembers
  <2>13. UnlinksAs(u2, m1 + 1)
    BY <2>2, <2>5, <2>9, <2>10, <2>11, UnlinksStep DEF Remembers
  <2> QED
    BY <1>1, <2>2, <2>6, <2>10, <2>11, <2>12, <2>13 DEF TablesAs, Remembers
<1> QED
  BY <1>2, <1>3

-----------------------------------------------------------------------------
(***************************************************************************)
(* What the steps do to the queue and the tables                           *)
(***************************************************************************)
(* An unlink request in the queue will be remembered and not be cancelled. *)
LastUnlink == After(requests, UnlinkR, {FilterR})

TablesStay ==
  /\ \A r : Queued(r)' <=> Queued(r)
  /\ LastUnlink' <=> LastUnlink
  /\ UniqueUnlink(requests)' <=> UniqueUnlink(requests)
  /\ \A f : Wanted(f)' <=> Wanted(f)
  /\ \A f : Pending(f)' <=> Pending(f)
  /\ UnlinkPending' <=> UnlinkPending
  /\ DuePending' <=> DuePending

(* The request x is forwarded.                                             *)
Forwards(x) ==
  /\ \A r : Queued(r)' <=> x = r \/ Queued(r)
  /\ LastUnlink' <=> x = UnlinkR \/ (x # FilterR /\ LastUnlink)
  /\ UniqueUnlink(requests) /\ (x = UnlinkR => ~Queued(UnlinkR)) => UniqueUnlink(requests)'
  /\ \A f : Wanted(f)' <=> x = SyncR(f) \/ (x \notin Cancels(f) /\ Wanted(f))
  /\ \A f : Pending(f)' <=> Pending(f)
  /\ UnlinkPending' <=> UnlinkPending
  /\ DuePending' <=> DuePending

(* The same, as seen by whoever absorbs the queue next.                    *)
LEMMA ForwardView ==
  ASSUME TypeInv, NEW x \in RequestsMade, ForwardSyncRequest(x),
         UNCHANGED <<pendingOps, pendingUnlinks, checkpoint_cycle_ctr>>
  PROVE  Forwards(x)
<1> USE RequestForms
<1>1. Forwarded(x)
  BY ForwardFacts DEF TypeInv
<1>2. /\ \A r, S : r \notin S =>
           (After(requests, r, S)' <=> x = r \/ (x \notin S /\ After(requests, r, S)))
      /\ UniqueUnlink(requests) /\ (x = UnlinkR => ~Queued(UnlinkR)) => UniqueUnlink(requests)'
  BY <1>1 DEF Forwarded
<1>3. \A r : Queued(r)' <=> x = r \/ Queued(r)
  BY <1>2 DEF Queued
<1>4. LastUnlink' <=> x = UnlinkR \/ (x # FilterR /\ LastUnlink)
  BY <1>2 DEF LastUnlink
<1>5. \A f : Pending(f)' <=> Pending(f)
  BY DEF Pending
<1>6. ASSUME NEW f
      PROVE  Wanted(f)' <=> x = SyncR(f) \/ (x \notin Cancels(f) /\ Wanted(f))
  <2>1. SyncR(f) \notin Cancels(f)
    BY DEF Cancels
  <2>2. After(requests, SyncR(f), Cancels(f))' <=>
          x = SyncR(f) \/ (x \notin Cancels(f) /\ After(requests, SyncR(f), Cancels(f)))
    BY <1>2, <2>1
  <2>3. x \in Cancels(f) <=> x = ForgetR(f) \/ x = FilterR
    BY DEF Cancels
  <2> QED
    BY <1>3, <1>5, <2>2, <2>3 DEF Wanted
<1>7. UnlinkPending' <=> UnlinkPending
  BY DEF UnlinkPending
<1>8. DuePending' <=> DuePending
  BY DEF DuePending, TooNew
<1> QED
  BY <1>2, <1>3, <1>4, <1>5, <1>6, <1>7, <1>8 DEF Forwards

(* The tables that AbsorbSyncRequests makes.                               *)
OpsAfter(o) ==
  /\ DOMAIN o \subseteq Files /\ \A f \in DOMAIN o : o[f] \in Entry
  /\ \A f \in Files : f \in DOMAIN o /\ ~o[f].canceled <=> Wanted(f)
  /\ DOMAIN pendingOps \subseteq DOMAIN o
  /\ \A f \in DOMAIN o : \/ o[f].cycle = sync_cycle_ctr
                         \/ f \in DOMAIN pendingOps /\ o[f].cycle = pendingOps[f].cycle
  /\ \A f \in DOMAIN o : ~Queued(SyncR(f)) =>
       f \in DOMAIN pendingOps /\ o[f].cycle = pendingOps[f].cycle
  /\ \A f \in Files : Pending(f) /\ ~Queued(ForgetR(f)) /\ ~Queued(FilterR) =>
       o[f].cycle = pendingOps[f].cycle

UnlinksAfter(u) ==
  /\ u \in Seq(UnlinkEntry) /\ Len(u) >= Len(pendingUnlinks)
  /\ \A i \in 1 .. Len(pendingUnlinks) :
       /\ u[i].cycle = pendingUnlinks[i].cycle
       /\ Serves(u[i]) <=> Serves(pendingUnlinks[i]) /\ ~Queued(FilterR)
  /\ \A i \in Len(pendingUnlinks) + 1 .. Len(u) : u[i].cycle = checkpoint_cycle_ctr
  /\ (\E i \in Len(pendingUnlinks) + 1 .. Len(u) : Serves(u[i])) <=> LastUnlink
  /\ UniqueUnlink(requests) =>
       \A i, j \in Len(pendingUnlinks) + 1 .. Len(u) : Serves(u[i]) /\ Serves(u[j]) => i = j

(* What AbsorbSyncRequests makes of the two tables, in one step for the    *)
(* whole queue.                                                            *)
LEMMA AbsorbFacts ==
  ASSUME TypeInv
  PROVE  OpsAfter(Absorbed.ops) /\ UnlinksAfter(Absorbed.unlinks)
<1>1. Len(requests) \in 0 .. Len(requests) /\ DOMAIN requests = 1 .. Len(requests)
  BY DEF TypeInv
<1>2. PICK t : t = Absorbed
  OBVIOUS
<1>3. TablesAs(t, Len(requests))
  BY <1>1, <1>2, TablesFacts DEF Absorbed
<1>4. PICK o, u : o = t.ops /\ u = t.unlinks
  OBVIOUS
<1>5. OpsAs(o, Len(requests)) /\ UnlinksAs(u, Len(requests))
  BY <1>3, <1>4 DEF TablesAs
<1>6. OpsAfter(o)
  BY <1>5 DEF OpsAs, OpsAfter, WantedIn, Wanted, Queued, After
<1>7. UnlinksAfter(u)
  BY <1>1, <1>5 DEF UnlinksAs, UnlinksAfter, Queued, After, LastUnlink, UniqueUnlink
<1> QED
  BY <1>2, <1>4, <1>6, <1>7

(* The queue is empty.                                                     *)
Emptied ==
  /\ \A r : ~Queued(r)'
  /\ ~LastUnlink'
  /\ UniqueUnlink(requests)'
  /\ \A f : Wanted(f)' <=> Pending(f)'

(* Nothing is queued after the queue was absorbed.                         *)
LEMMA EmptyFacts ==
  ASSUME requests' = << >>
  PROVE  Emptied
<1>1. \A r, S : ~After(requests, r, S)'
  BY DEF After, AfterIn
<1>2. \A r : ~Queued(r)'
  BY <1>1 DEF Queued
<1>3. \A f : Wanted(f)' <=> Pending(f)'
  BY <1>1, <1>2 DEF Wanted
<1>4. UniqueUnlink(requests)'
  BY DEF UniqueUnlink
<1> QED
  BY <1>1, <1>2, <1>3, <1>4 DEF LastUnlink, Emptied

(* AbsorbSyncRequests: the sync requests, with or without a new cycle.     *)
OpsAbsorbed ==
  /\ Emptied
  /\ \A f \in Files : /\ Pending(f)' <=> Wanted(f)
                      /\ Wanted(f)' <=> Wanted(f)

(* Absorbing the queue leaves the syncs wanted as they were.               *)
LEMMA OpsView ==
  ASSUME TypeInv, requests' = << >>, pendingOps' \in {Absorbed.ops, Restamp(Absorbed.ops)}
  PROVE  OpsAbsorbed
<1>1. PICK o : o = Absorbed.ops
  OBVIOUS
<1>2. OpsAfter(o)
  BY <1>1, AbsorbFacts
<1>3. Emptied
  BY EmptyFacts
<1>4. \A e \in Entry : [e EXCEPT !.cycle = sync_cycle_ctr].canceled = e.canceled
  BY DEF Entry
<1>5. /\ DOMAIN pendingOps' = DOMAIN o
      /\ \A f \in DOMAIN o : pendingOps'[f].canceled = o[f].canceled
  <2>1. CASE pendingOps' = o
    BY <2>1
  <2>2. CASE pendingOps' = Restamp(o)
    BY <1>2, <1>4, <2>2 DEF OpsAfter, Restamp
  <2> QED
    BY <1>1, <2>1, <2>2
<1>6. \A f \in Files : Pending(f)' <=> Wanted(f)
  BY <1>2, <1>5 DEF OpsAfter, Pending
<1> QED
  BY <1>3, <1>6 DEF OpsAbsorbed, Emptied

(* No two unlink requests are served.                                      *)
UniqueServing ==
  \A i, j \in DOMAIN pendingUnlinks : Serves(pendingUnlinks[i]) /\ Serves(pendingUnlinks[j]) => i = j

(* AbsorbSyncRequests: the unlink requests.                                *)
UnlinksAbsorbed ==
  /\ Emptied
  /\ UnlinkPending' <=> LastUnlink \/ (UnlinkPending /\ ~Queued(FilterR))
  /\ checkpoint_cycle_ctr' = checkpoint_cycle_ctr => (DuePending' <=> DuePending /\ ~Queued(FilterR))
  /\ DuePending' => UnlinkPending'
  /\ UniqueUnlink(requests) /\ UniqueServing /\ ~(Queued(UnlinkR) /\ UnlinkPending) => UniqueServing'

(* The unlink requests of the queue and a DROP DATABASE behind them.       *)
LEMMA LastUnlinkFacts ==
  /\ LastUnlink => Queued(UnlinkR)
  /\ Queued(UnlinkR) /\ ~Queued(FilterR) => LastUnlink
BY DEF LastUnlink, Queued, After, AfterIn

(* Absorbing the queue moves the unlink request into its table, unless a   *)
(* DROP DATABASE behind it cancels it.                                     *)
LEMMA UnlinksView ==
  ASSUME TypeInv, requests' = << >>, pendingUnlinks' = Absorbed.unlinks
  PROVE  UnlinksAbsorbed
<1>1. PICK u : u = Absorbed.unlinks
  OBVIOUS
<1>2. UnlinksAfter(u)
  BY <1>1, AbsorbFacts
<1>3. pendingUnlinks' = u
  BY <1>1
<1>4. Emptied
  BY EmptyFacts
<1>6. PICK m \in Nat : m = Len(pendingUnlinks)
  BY DEF TypeInv
<1>7. PICK k \in Nat : k = Len(u)
  BY <1>2 DEF UnlinksAfter
<1>8. /\ DOMAIN u = 1 .. k /\ DOMAIN pendingUnlinks = 1 .. m /\ k >= m
      /\ \A i \in 1 .. m : /\ u[i].cycle = pendingUnlinks[i].cycle
                           /\ Serves(u[i]) <=> Serves(pendingUnlinks[i]) /\ ~Queued(FilterR)
      /\ \A i \in m + 1 .. k : u[i].cycle = checkpoint_cycle_ctr
      /\ (\E i \in m + 1 .. k : Serves(u[i])) <=> LastUnlink
      /\ UniqueUnlink(requests) =>
           \A i, j \in m + 1 .. k : Serves(u[i]) /\ Serves(u[j]) => i = j
  BY <1>2, <1>6, <1>7 DEF UnlinksAfter, TypeInv
<1>9. /\ \A i \in 1 .. m : i \in 1 .. k
      /\ \A i \in m + 1 .. k : i \in 1 .. k
      /\ \A i \in 1 .. k : i \in 1 .. m \/ i \in m + 1 .. k
  BY <1>8
<1>10. UnlinkPending' <=> LastUnlink \/ (UnlinkPending /\ ~Queued(FilterR))
  BY <1>3, <1>8, <1>9 DEF UnlinkPending
<1>11. ASSUME checkpoint_cycle_ctr' = checkpoint_cycle_ctr
       PROVE  DuePending' <=> DuePending /\ ~Queued(FilterR)
  BY <1>3, <1>8, <1>9, <1>11 DEF DuePending, TooNew
<1>12. DuePending' => UnlinkPending'
  BY DEF DuePending, UnlinkPending
<1>13. ASSUME UniqueUnlink(requests), UniqueServing, ~(Queued(UnlinkR) /\ UnlinkPending)
       PROVE  UniqueServing'
  <2> SUFFICES ASSUME NEW i \in 1 .. k, NEW j \in 1 .. k, Serves(u[i]), Serves(u[j])
               PROVE  i = j
    BY <1>3, <1>8 DEF UniqueServing
  <2>1. CASE i \in 1 .. m /\ j \in 1 .. m
    BY <1>8, <1>13, <2>1 DEF UniqueServing
  <2>2. CASE i \in m + 1 .. k /\ j \in m + 1 .. k
    BY <1>8, <1>13, <2>2
  <2>3. ~(UnlinkPending /\ LastUnlink)
    BY <1>13, LastUnlinkFacts
  <2>4. \A i2 \in 1 .. m : Serves(u[i2]) => UnlinkPending
    BY <1>8 DEF UnlinkPending
  <2>5. \A i2 \in m + 1 .. k : Serves(u[i2]) => LastUnlink
    BY <1>8
  <2> QED
    BY <1>9, <2>1, <2>2, <2>3, <2>4, <2>5
<1> QED
  BY <1>4, <1>10, <1>11, <1>12, <1>13 DEF UnlinksAbsorbed

-----------------------------------------------------------------------------
(***************************************************************************)
(* Where the backends are                                                  *)
(***************************************************************************)
LEMMA FilesFacts ==
  /\ FirstSegment \in Files /\ Segments \subseteq Files /\ FirstSegment \notin Segments
  /\ \A f \in Files : f = FirstSegment \/ f \in Segments
  /\ NoFile \notin Files /\ NoProc \notin Proc
BY ConstantsAssumption, NamesAssumption DEF Files

(* What the request of a backend says of its place, and the other way      *)
(* round.                                                                  *)
PlaceFactsAt(p) ==
  /\ \A f : arg[p] = SyncR(f) =>
       op[p] \in {"flush", "create"} /\ pc[p] \in {"forward", "clear"} /\ f \in Files
  /\ op[p] \in {"flush", "create"} => \E f \in Files : arg[p] = SyncR(f)
  /\ pc[p] = "forward" => op[p] \in {"flush", "create"}
  /\ pc[p] = "clear" => op[p] = "flush"
  /\ \A f : arg[p] = ForgetR(f) => op[p] = "drop" /\ pc[p] \in {"register", "unlink"} /\ f \in Segments
  /\ pc[p] = "unlink" => op[p] = "drop" /\ \E f \in Segments : arg[p] = ForgetR(f)
  /\ arg[p] = UnlinkR => op[p] = "drop" /\ pc[p] = "register"
  /\ op[p] = "drop" => /\ pc[p] \in {"register", "unlink"}
                       /\ arg[p] = UnlinkR \/ \E f \in Segments : arg[p] = ForgetR(f)
  /\ pc[p] = "register" => op[p] \in {"drop", "dropdb"}
  /\ op[p] = "dropdb" <=> arg[p] = FilterR
  /\ op[p] = "dropdb" => pc[p] \in {"register", "request"} \cup Waiting
  /\ op[p] = "none" <=> pc[p] = "idle"
  /\ arg[p] = NoRequest <=> op[p] \in {"none", "checkpoint"}
  /\ op[p] = "checkpoint" => pc[p] \in Waiting
  /\ pc[p] \in Waiting => op[p] \in {"checkpoint", "dropdb"}
  /\ pc[p] = "request" => op[p] = "dropdb"
  /\ op[p] \in {"none", "flush", "create", "drop", "dropdb", "checkpoint"}

(* The places of a backend, as cases of what it is about to ask.           *)
LEMMA PlaceFacts ==
  ASSUME PlaceInv, NEW p \in Proc
  PROVE  PlaceFactsAt(p)
<1> USE RequestForms
<1>1. PlaceAt(p)
  BY DEF PlaceInv
<1> QED
  BY <1>1 DEF PlaceAt, PlaceFactsAt, Waiting

(* One backend goes elsewhere.                                             *)
Elsewhere(p) ==
  /\ \A q \in Proc : q # p => pc'[q] = pc[q] /\ op'[q] = op[q] /\ arg'[q] = arg[q]
  /\ PlaceAt(p)'

(* A step of p keeps the places of the others.                             *)
LEMMA PlaceOther ==
  ASSUME PlaceInv, NEW p \in Proc, Elsewhere(p)
  PROVE  PlaceInv'
<1>1. \A q \in Proc : q # p => PlaceAt(q)'
  BY DEF PlaceInv, PlaceAt, Elsewhere
<1> QED
  BY <1>1 DEF PlaceInv, Elsewhere

(* Nobody goes anywhere.                                                   *)
LEMMA PlaceSame ==
  ASSUME PlaceInv, UNCHANGED <<pc, op, arg>>
  PROVE  PlaceInv'
BY DEF PlaceInv, PlaceAt

(* mdunlinkfork goes on with the next segment.                             *)
GoesOn(p) ==
  \/ pc'[p] = "idle" /\ op'[p] = "none" /\ arg'[p] = NoRequest
  \/ /\ pc'[p] = "register" /\ op'[p] = op[p]
     /\ \E g \in Segments : arg'[p] = ForgetR(g) /\ fstate'[g] = "dropped"

(* mdunlinkfork goes on with the next segment, or is done.                 *)
LEMMA NextSegmentFacts ==
  ASSUME TypeInv, NEW p \in Proc, NextSegment(p)
  PROVE  /\ \A q \in Proc : q # p => pc'[q] = pc[q] /\ op'[q] = op[q] /\ arg'[q] = arg[q]
         /\ GoesOn(p)
<1>1. PICK left : left = {f \in Segments : fstate'[f] = "dropped"}
  OBVIOUS
<1>2. pc \in [Proc -> Places] /\ op \in [Proc -> Operations] /\ arg \in [Proc -> RequestsMade \cup {NoRequest}]
  BY DEF TypeInv
<1>3. CASE left = {}
  BY <1>1, <1>2, <1>3 DEF NextSegment, Return, Go, GoesOn
<1>4. CASE left # {}
  <2>1. PICK g : g = CHOOSE f \in left : TRUE
    OBVIOUS
  <2>2. g \in left
    BY <1>4, <2>1
  <2>3. arg' = [arg EXCEPT ![p] = ForgetR(g)] /\ Go(p, "register") /\ UNCHANGED op
    BY <1>1, <1>4, <2>1 DEF NextSegment, ForgetR
  <2> QED
    BY <1>1, <1>2, <2>2, <2>3 DEF Go, GoesOn
<1> QED
  BY <1>3, <1>4

(* The places of the backends.                                             *)
LEMMA PlaceStep ==
  ASSUME TypeInv, PlaceInv, Next
  PROVE  PlaceInv'
<1> USE RequestForms, TypesDiffer DEF ctlVars, cvVars, syncVars, loopVars, ckptVars, procVars,
  fileVars, histVars, backendVars, checkpointerVars, OthersUnchanged, SyncTablesUnchanged,
  RequestUnchanged, CGo, CJump, Go
<1>t. /\ pc \in [Proc -> Places] /\ op \in [Proc -> Operations]
      /\ arg \in [Proc -> RequestsMade \cup {NoRequest}]
  BY DEF TypeInv
<1>1. CASE StartCheckpointer
  BY <1>1, PlaceSame DEF StartCheckpointer
<1>2. CASE LoopResetLatch
  BY <1>2, PlaceSame DEF LoopResetLatch
<1>3. CASE LoopAbsorb
  BY <1>3, PlaceSame DEF LoopAbsorb
<1>4. CASE LoopTest
  BY <1>4, PlaceSame DEF LoopTest
<1>5. CASE BeginCheckpoint
  BY <1>5, PlaceSame DEF BeginCheckpoint
<1>6. CASE BroadcastStart
  BY <1>6, PlaceSame DEF BroadcastStart
<1>7. CASE EndCheckpoint
  BY <1>7, PlaceSame DEF EndCheckpoint
<1>8. CASE CheckpointError
  BY <1>8, PlaceSame DEF CheckpointError
<1>9. CASE BroadcastDone
  BY <1>9, PlaceSame DEF BroadcastDone
<1>10. CASE LoopRecheck
  BY <1>10, PlaceSame DEF LoopRecheck
<1>11. CASE WaitLatch
  BY <1>11, PlaceSame DEF WaitLatch
<1>12. CASE SyncPreCheckpoint
  BY <1>12, PlaceSame DEF SyncPreCheckpoint
<1>13. CASE SetRedo
  BY <1>13, PlaceSame DEF SetRedo
<1>14. CASE BufferSyncMark
  BY <1>14, PlaceSame DEF BufferSyncMark
<1>15. CASE CheckpointWriteDelay
  BY <1>15, PlaceSame DEF CheckpointWriteDelay
<1>16. CASE Nap
  BY <1>16, PlaceSame DEF Nap
<1>17. ASSUME NEW f \in Files, SyncOneBuffer(f)
      PROVE  PlaceInv'
  BY <1>17, PlaceSame DEF SyncOneBuffer
<1>18. ASSUME NEW f \in Files, NextEntry(f)
      PROVE  PlaceInv'
  BY <1>18, PlaceSame DEF NextEntry
<1>19. CASE ProcessSyncRequests
  BY <1>19, PlaceSame DEF ProcessSyncRequests
<1>20. CASE SyncCanceled
  BY <1>20, PlaceSame DEF SyncCanceled
<1>21. CASE SyncFile
  BY <1>21, PlaceSame DEF SyncFile
<1>22. CASE SyncRetry
  BY <1>22, PlaceSame DEF SyncRetry
<1>23. CASE EndSync
  BY <1>23, PlaceSame DEF EndSync
<1>24. CASE WriteRecord
  BY <1>24, PlaceSame DEF WriteRecord
<1>25. CASE SyncPostCheckpoint
  BY <1>25, PlaceSame DEF SyncPostCheckpoint
<1>26. CASE EndPostCheckpoint
  BY <1>26, PlaceSame DEF EndPostCheckpoint
<1>27. CASE WriteError
  BY <1>27, PlaceSame DEF WriteError
<1>28. CASE SyncError
  BY <1>28, PlaceSame DEF SyncError
<1>29. CASE WaitLatchTimeout
  BY <1>29, PlaceSame DEF WaitLatchTimeout
<1>30. ASSUME NEW f \in Files, ModifyPage(f)
      PROVE  PlaceInv'
  BY <1>30, PlaceSame DEF ModifyPage
<1>31. ASSUME NEW p \in Proc, NEW f \in Files, FlushBuffer(p, f)
      PROVE  PlaceInv'
  <2>1. Elsewhere(p)
    BY <1>31, <1>t, PlaceFacts DEF FlushBuffer, Begin, SyncR, Elsewhere, PlaceAt, PlaceFactsAt,
      Waiting
  <2> QED
    BY <2>1, PlaceOther
<1>32. ASSUME NEW p \in Proc, NEW f \in Files, CreateFile(p, f)
      PROVE  PlaceInv'
  <2>1. Elsewhere(p)
    BY <1>32, <1>t, PlaceFacts DEF CreateFile, Begin, SyncR, Elsewhere, PlaceAt, PlaceFactsAt,
      Waiting
  <2> QED
    BY <2>1, PlaceOther
<1>33. ASSUME NEW p \in Proc, DropRelation(p)
      PROVE  PlaceInv'
  <2>1. Elsewhere(p)
    BY <1>33, <1>t, PlaceFacts DEF DropRelation, Begin, UnlinkR, Elsewhere, PlaceAt,
       PlaceFactsAt,
      Waiting
  <2> QED
    BY <2>1, PlaceOther
<1>34. ASSUME NEW p \in Proc, DropDatabase(p)
      PROVE  PlaceInv'
  <2>1. Elsewhere(p)
    BY <1>34, <1>t, PlaceFacts DEF DropDatabase, Begin, FilterR, Elsewhere, PlaceAt,
       PlaceFactsAt,
      Waiting
  <2> QED
    BY <2>1, PlaceOther
<1>35. ASSUME NEW p \in Proc, Checkpoint(p)
      PROVE  PlaceInv'
  <2>1. Elsewhere(p)
    BY <1>35, <1>t, PlaceFacts DEF Checkpoint, Begin, SetRequestFlags, Elsewhere, PlaceAt,
      PlaceFactsAt, Waiting
  <2> QED
    BY <2>1, PlaceOther
<1>36. ASSUME NEW p \in Proc, RegisterDirtySegment(p)
      PROVE  PlaceInv'
  <2>1. Elsewhere(p)
    BY <1>36, <1>t, PlaceFacts DEF RegisterDirtySegment, AfterRegister, Return, Elsewhere,
       PlaceAt,
      PlaceFactsAt, Waiting
  <2> QED
    BY <2>1, PlaceOther
<1>37. ASSUME NEW p \in Proc, SyncDirtySegment(p)
      PROVE  PlaceInv'
  <2>1. Elsewhere(p)
    BY <1>37, <1>t, PlaceFacts DEF SyncDirtySegment, AfterRegister, Return, Elsewhere, PlaceAt,
      PlaceFactsAt, Waiting
  <2> QED
    BY <2>1, PlaceOther
<1>38. ASSUME NEW p \in Proc, TerminateBufferIO(p)
      PROVE  PlaceInv'
  <2>1. Elsewhere(p)
    BY <1>38, <1>t, PlaceFacts DEF TerminateBufferIO, Return, Elsewhere, PlaceAt, PlaceFactsAt,
      Waiting
  <2> QED
    BY <2>1, PlaceOther
<1>39. ASSUME NEW p \in Proc, RegisterSyncRequest(p)
      PROVE  PlaceInv'
  <2>1. CASE arg[p].type = UNLINK
    <3>1. NextSegment(p) /\ op[p] = "drop"
      BY <1>39, <2>1, PlaceFacts DEF RegisterSyncRequest, PlaceFactsAt
    <3>2. Elsewhere(p)
      BY <3>1, NextSegmentFacts DEF GoesOn, Elsewhere, PlaceAt
    <3> QED
      BY <3>2, PlaceOther
  <2>2. CASE arg[p].type = FORGET
    <3>1. Go(p, "unlink") /\ UNCHANGED <<op, arg>>
      BY <1>39, <2>2 DEF RegisterSyncRequest
    <3>2. Elsewhere(p)
      BY <1>39, <1>t, <2>2, <3>1, PlaceFacts DEF RegisterSyncRequest, Elsewhere, PlaceAt,
         PlaceFactsAt
    <3> QED
      BY <3>2, PlaceOther
  <2>3. CASE arg[p].type = FILTER
    <3>1. Go(p, "request") /\ UNCHANGED <<op, arg>>
      BY <1>39, <2>3 DEF RegisterSyncRequest
    <3>2. Elsewhere(p)
      BY <1>39, <1>t, <2>3, <3>1, PlaceFacts DEF RegisterSyncRequest, Elsewhere, PlaceAt,
         PlaceFactsAt
    <3> QED
      BY <3>2, PlaceOther
  <2> QED
    BY <1>39, <2>1, <2>2, <2>3, PlaceFacts DEF RegisterSyncRequest, PlaceFactsAt
<1>40. ASSUME NEW p \in Proc, UnlinkFile(p)
      PROVE  PlaceInv'
  <2>1. NextSegment(p) /\ op[p] = "drop"
    BY <1>40, PlaceFacts DEF UnlinkFile, PlaceFactsAt
  <2>2. Elsewhere(p)
    BY <2>1, NextSegmentFacts DEF GoesOn, Elsewhere, PlaceAt
  <2> QED
    BY <2>2, PlaceOther
<1>41. ASSUME NEW p \in Proc, RequestCheckpoint(p)
      PROVE  PlaceInv'
  <2>1. Elsewhere(p)
    BY <1>41, <1>t, PlaceFacts DEF RequestCheckpoint, SetRequestFlags, Elsewhere, PlaceAt,
      PlaceFactsAt, Waiting
  <2> QED
    BY <2>1, PlaceOther
<1>42. ASSUME NEW p \in Proc, SignalCheckpointer(p)
      PROVE  PlaceInv'
  <2>1. Elsewhere(p)
    BY <1>42, <1>t, PlaceFacts DEF SignalCheckpointer, Elsewhere, PlaceAt, PlaceFactsAt, Waiting
  <2> QED
    BY <2>1, PlaceOther
<1>43. ASSUME NEW p \in Proc, TestStarted(p)
      PROVE  PlaceInv'
  <2>1. Elsewhere(p)
    BY <1>43, <1>t, PlaceFacts DEF TestStarted, Elsewhere, PlaceAt, PlaceFactsAt, Waiting
  <2> QED
    BY <2>1, PlaceOther
<1>44. ASSUME NEW p \in Proc, TestDone(p)
      PROVE  PlaceInv'
  <2>1. Elsewhere(p)
    BY <1>44, <1>t, PlaceFacts DEF TestDone, Elsewhere, PlaceAt, PlaceFactsAt, Waiting
  <2> QED
    BY <2>1, PlaceOther
<1>45. ASSUME NEW p \in Proc, SleepEnds(p)
      PROVE  PlaceInv'
  <2>1. Elsewhere(p)
    BY <1>45, <1>t, PlaceFacts DEF SleepEnds, Elsewhere, PlaceAt, PlaceFactsAt, Waiting
  <2> QED
    BY <2>1, PlaceOther
<1>46. ASSUME NEW p \in Proc, RequestReturns(p)
      PROVE  PlaceInv'
  <2>1. Elsewhere(p)
    BY <1>46, <1>t, PlaceFacts DEF RequestReturns, Return, Elsewhere, PlaceAt, PlaceFactsAt,
      Waiting
  <2> QED
    BY <2>1, PlaceOther
<1>47. ASSUME NEW p \in Proc, SyncDirtySegmentError(p)
      PROVE  PlaceInv'
  <2>1. Elsewhere(p)
    BY <1>47, <1>t, PlaceFacts DEF SyncDirtySegmentError, Return, Elsewhere, PlaceAt,
       PlaceFactsAt,
      Waiting
  <2> QED
    BY <2>1, PlaceOther
<1> QED
  BY <1>1, <1>2, <1>3, <1>4, <1>5, <1>6, <1>7, <1>8, <1>9, <1>10, <1>11, <1>12, <1>13, <1>14,
    <1>15, <1>16, <1>17, <1>18, <1>19, <1>20, <1>21, <1>22, <1>23, <1>24, <1>25, <1>26, <1>27,
    <1>28, <1>29, <1>30, <1>31, <1>32, <1>33, <1>34, <1>35, <1>36, <1>37, <1>38, <1>39, <1>40,
    <1>41, <1>42, <1>43, <1>44, <1>45, <1>46, <1>47 DEF Next, CheckpointerStep,
    CheckpointerEvent, Call, Step

-----------------------------------------------------------------------------
(***************************************************************************)
(* Types                                                                   *)
(***************************************************************************)
ControlType ==
  /\ running \in BOOLEAN /\ ckpt_flags \in BOOLEAN /\ latch \in BOOLEAN
  /\ ckpt_started \in 0 .. CTR_MODULUS - 1 /\ ckpt_done \in 0 .. CTR_MODULUS - 1
  /\ ckpt_failed \in 0 .. CTR_MODULUS - 1
  /\ start_cv \subseteq Proc /\ done_cv \subseteq Proc
  /\ timed \in 0 .. MaxTimed /\ fails \in 0 .. MaxFails

TablesType ==
  /\ requests \in Seq(RequestsMade) /\ Len(requests) <= MAX_REQUESTS
  /\ DOMAIN pendingOps \subseteq Files /\ \A f \in DOMAIN pendingOps : pendingOps[f] \in Entry
  /\ pendingUnlinks \in Seq(UnlinkEntry)

CheckpointerType ==
  /\ sync_cycle_ctr \in 0 .. CYCLE_MODULUS - 1 /\ checkpoint_cycle_ctr \in 0 .. CYCLE_MODULUS - 1
  /\ sync_in_progress \in BOOLEAN /\ forced \in BOOLEAN
  /\ cpc \in {"down", "loop", "absorb", "test", "begin", "startcast", "pre", "redo", "mark",
              "write", "delay", "nap", "scan", "try", "record", "post", "done", "donecast",
              "failcast", "error", "missing", "recheck", "sleep"}
  /\ toWrite \subseteq Files
  /\ entry \in Files \cup {NoFile} /\ failures \in {0, 1}

EntryType == cpc = "try" => entry \in DOMAIN pendingOps

BackendType ==
  /\ pc \in [Proc -> Places] /\ op \in [Proc -> Operations]
  /\ arg \in [Proc -> RequestsMade \cup {NoRequest}]
  /\ old_failed \in [Proc -> Nat] /\ old_started \in [Proc -> Nat] /\ new_started \in [Proc -> Nat]
  /\ asked \in [Proc -> {"no", "asked", "started", "ok", "failed"}]
  /\ owed \in [Proc -> SUBSET {FirstSegment}]

FileType ==
  /\ fstate \in [Files -> {"live", "dropped", "invalid", "gone", "left"}]
  /\ buf \in [Files -> Changes] /\ os \in [Files -> Changes] /\ io \in [Files -> Proc \cup {NoProc}]
  /\ wal \in BOOLEAN /\ young \subseteq {FirstSegment}

(* The parts make the type invariant.                                      *)
LEMMA TypeParts ==
  TypeInv <=> /\ ControlType /\ TablesType /\ CheckpointerType /\ EntryType /\ BackendType
              /\ FileType
<1>1. RequestsMade \subseteq Request
  BY FilesFacts DEF RequestsMade, Request, SyncR, ForgetR, UnlinkR, FilterR
<1>2. ASSUME TypeInv
      PROVE  ControlType /\ TablesType /\ CheckpointerType /\ EntryType /\ BackendType /\ FileType
  <2>1. ControlType
    BY <1>2 DEF TypeInv, TypeOK, ControlType
  <2>2. TablesType
    BY <1>2 DEF TypeInv, TypeOK, TablesType
  <2>3. CheckpointerType /\ EntryType
    BY <1>2 DEF TypeInv, TypeOK, CheckpointerType, EntryType
  <2>4. BackendType
    BY <1>2 DEF TypeInv, BackendType
  <2>5. FileType
    BY <1>2 DEF TypeInv, TypeOK, FileType
  <2> QED
    BY <2>1, <2>2, <2>3, <2>4, <2>5
<1>3. ASSUME ControlType, TablesType, CheckpointerType, EntryType, BackendType, FileType
      PROVE  TypeInv
  <2>1. /\ {running, ckpt_flags, latch, forced, sync_in_progress, wal} \subseteq BOOLEAN
        /\ {ckpt_started, ckpt_done, ckpt_failed} \subseteq 0 .. CTR_MODULUS - 1
        /\ {sync_cycle_ctr, checkpoint_cycle_ctr} \subseteq 0 .. CYCLE_MODULUS - 1
    BY <1>3 DEF ControlType, CheckpointerType, FileType
  <2>2. /\ \A i \in DOMAIN requests : requests[i] \in Request
        /\ \A p \in Proc : arg[p] \in Request \cup {NoRequest}
    BY <1>1, <1>3 DEF TablesType, BackendType
  <2>3. ASSUME NEW i \in DOMAIN pendingUnlinks
        PROVE  /\ pendingUnlinks[i].file = FirstSegment
               /\ [pendingUnlinks[i] EXCEPT !.file = NoFile] \in
                    [file : {NoFile}, cycle : 0 .. CYCLE_MODULUS - 1, canceled : BOOLEAN]
    <3>1. pendingUnlinks[i] \in UnlinkEntry
      BY <1>3 DEF TablesType
    <3>2. \A e \in UnlinkEntry :
            /\ e.file = FirstSegment
            /\ [e EXCEPT !.file = NoFile] \in
                 [file : {NoFile}, cycle : 0 .. CYCLE_MODULUS - 1, canceled : BOOLEAN]
      BY DEF UnlinkEntry
    <3> QED
      BY <3>1, <3>2
  <2>4. TypeOK
    BY <1>3, <2>1, <2>2, <2>3
    DEF ControlType, TablesType, CheckpointerType, EntryType, FileType, TypeOK
  <2> QED
    BY <1>3, <2>4 DEF ControlType, TablesType, BackendType, FileType, TypeInv
<1> QED
  BY <1>2, <1>3

(* Nothing changes in a part.                                              *)
LEMMA ControlTypeSame ==
  ASSUME ControlType, UNCHANGED <<ctlVars, cvVars, latch, timed, fails>>
  PROVE  ControlType'
BY DEF ControlType, ctlVars, cvVars

(* The tables keep their type when they stay as they are.                  *)
LEMMA TablesTypeSame ==
  ASSUME TablesType, UNCHANGED <<requests, pendingOps, pendingUnlinks>>
  PROVE  TablesType'
BY DEF TablesType

(* The checkpointer's variables keep their type when they stay as they     *)
(* are.                                                                    *)
LEMMA CheckpointerTypeSame ==
  ASSUME CheckpointerType,
         UNCHANGED <<sync_cycle_ctr, checkpoint_cycle_ctr, sync_in_progress, cpc, ckptVars, loopVars>>
  PROVE  CheckpointerType'
BY DEF CheckpointerType, ckptVars, loopVars

(* The entry being synced stays in the table.                              *)
LEMMA EntryTypeSame ==
  ASSUME EntryType, cpc' # "try" \/ (UNCHANGED <<cpc, entry>> /\ DOMAIN pendingOps \subseteq DOMAIN pendingOps')
  PROVE  EntryType'
BY DEF EntryType

(* The backends' variables keep their type when they stay as they are.     *)
LEMMA BackendTypeSame ==
  ASSUME BackendType, UNCHANGED <<backendVars, asked, owed>>
  PROVE  BackendType'
BY DEF BackendType, backendVars, procVars

(* The files keep their type when they stay as they are.                   *)
LEMMA FileTypeSame ==
  ASSUME FileType, UNCHANGED <<fileVars, young>>
  PROVE  FileType'
BY DEF FileType, fileVars

(* The counters stay in their ranges.                                      *)
LEMMA NextCounter ==
  ASSUME NEW m \in Nat \ {0}, NEW c \in Nat
  PROVE  Next_(c, m) \in 0 .. m - 1
BY DEF Next_

(* Shared control state.                                                   *)
LEMMA ControlTypeStep ==
  ASSUME TypeInv, Next
  PROVE  ControlType'
<1> USE DEF ctlVars, cvVars, syncVars, loopVars, ckptVars, procVars, fileVars, histVars,
  backendVars, checkpointerVars, OthersUnchanged, SyncTablesUnchanged, RequestUnchanged, CGo,
  CJump, Go
<1>t. ControlType
  BY TypeParts
<1>1. CASE StartCheckpointer
  BY <1>1, <1>t DEF StartCheckpointer, ControlType
<1>2. CASE LoopResetLatch
  BY <1>2, <1>t DEF LoopResetLatch, ControlType
<1>3. CASE LoopAbsorb
  BY <1>3, <1>t, ControlTypeSame DEF LoopAbsorb
<1>4. CASE LoopTest
  BY <1>4, <1>t, ConstantsAssumption DEF LoopTest, ControlType
<1>5. CASE BeginCheckpoint
  <2>1. /\ ckpt_flags' = FALSE /\ ckpt_started' = Next_(ckpt_started, CTR_MODULUS)
        /\ UNCHANGED <<running, ckpt_done, ckpt_failed, cvVars, latch, timed, fails>>
    BY <1>5 DEF BeginCheckpoint
  <2>2. Next_(ckpt_started, CTR_MODULUS) \in 0 .. CTR_MODULUS - 1
    BY <1>t, NextCounter, ConstantsAssumption DEF ControlType
  <2> QED
    BY <1>t, <2>1, <2>2 DEF ControlType
<1>6. CASE BroadcastStart
  BY <1>6, <1>t DEF BroadcastStart, ControlType
<1>7. CASE EndCheckpoint
  BY <1>7, <1>t, NextCounter, ConstantsAssumption DEF EndCheckpoint, ControlType
<1>8. CASE CheckpointError
  BY <1>8, <1>t, NextCounter, ConstantsAssumption DEF CheckpointError, ControlType
<1>9. CASE BroadcastDone
  BY <1>9, <1>t DEF BroadcastDone, ControlType
<1>10. CASE LoopRecheck
  BY <1>10, <1>t, ControlTypeSame DEF LoopRecheck
<1>11. CASE WaitLatch
  BY <1>11, <1>t, ControlTypeSame DEF WaitLatch
<1>12. CASE SyncPreCheckpoint
  BY <1>12, <1>t, ControlTypeSame DEF SyncPreCheckpoint
<1>13. CASE SetRedo
  BY <1>13, <1>t, ControlTypeSame DEF SetRedo
<1>14. CASE BufferSyncMark
  BY <1>14, <1>t, ControlTypeSame DEF BufferSyncMark
<1>15. CASE CheckpointWriteDelay
  BY <1>15, <1>t, ControlTypeSame DEF CheckpointWriteDelay
<1>16. CASE Nap
  BY <1>16, <1>t DEF Nap, ControlType
<1>17. ASSUME NEW f \in Files, SyncOneBuffer(f)
      PROVE  ControlType'
  BY <1>17, <1>t, ControlTypeSame DEF SyncOneBuffer
<1>18. ASSUME NEW f \in Files, NextEntry(f)
      PROVE  ControlType'
  BY <1>18, <1>t, ControlTypeSame DEF NextEntry
<1>19. CASE ProcessSyncRequests
  BY <1>19, <1>t, ControlTypeSame DEF ProcessSyncRequests
<1>20. CASE SyncCanceled
  BY <1>20, <1>t, ControlTypeSame DEF SyncCanceled
<1>21. CASE SyncFile
  BY <1>21, <1>t, ControlTypeSame DEF SyncFile
<1>22. CASE SyncRetry
  BY <1>22, <1>t, ControlTypeSame DEF SyncRetry
<1>23. CASE EndSync
  BY <1>23, <1>t, ControlTypeSame DEF EndSync
<1>24. CASE WriteRecord
  BY <1>24, <1>t, ControlTypeSame DEF WriteRecord
<1>25. CASE SyncPostCheckpoint
  BY <1>25, <1>t, ConstantsAssumption DEF SyncPostCheckpoint, UnlinkFiletag, ControlType
<1>26. CASE EndPostCheckpoint
  BY <1>26, <1>t, ControlTypeSame DEF EndPostCheckpoint
<1>27. CASE WriteError
  BY <1>27, <1>t, ConstantsAssumption DEF WriteError, ControlType
<1>28. CASE SyncError
  BY <1>28, <1>t, ConstantsAssumption DEF SyncError, ControlType
<1>29. CASE WaitLatchTimeout
  BY <1>29, <1>t, ControlTypeSame DEF WaitLatchTimeout
<1>30. ASSUME NEW f \in Files, ModifyPage(f)
      PROVE  ControlType'
  BY <1>30, <1>t, ControlTypeSame DEF ModifyPage
<1>31. ASSUME NEW p \in Proc, NEW f \in Files, FlushBuffer(p, f)
      PROVE  ControlType'
  BY <1>31, <1>t, ControlTypeSame DEF FlushBuffer, Begin
<1>32. ASSUME NEW p \in Proc, NEW f \in Files, CreateFile(p, f)
      PROVE  ControlType'
  BY <1>32, <1>t, ControlTypeSame DEF CreateFile, Begin
<1>33. ASSUME NEW p \in Proc, DropRelation(p)
      PROVE  ControlType'
  BY <1>33, <1>t, ControlTypeSame DEF DropRelation, Begin
<1>34. ASSUME NEW p \in Proc, DropDatabase(p)
      PROVE  ControlType'
  BY <1>34, <1>t, ControlTypeSame DEF DropDatabase, Begin
<1>35. ASSUME NEW p \in Proc, Checkpoint(p)
      PROVE  ControlType'
  BY <1>35, <1>t DEF Checkpoint, Begin, SetRequestFlags, ControlType
<1>36. ASSUME NEW p \in Proc, RegisterDirtySegment(p)
      PROVE  ControlType'
  <2>1. UNCHANGED <<ctlVars, cvVars, timed, fails>> /\ latch' = (latch \/ Len(requests') >= MAX_REQUESTS \div 2)
    BY <1>36 DEF RegisterDirtySegment, ForwardSyncRequest
  <2> QED
    BY <1>t, <2>1 DEF ControlType
<1>37. ASSUME NEW p \in Proc, SyncDirtySegment(p)
      PROVE  ControlType'
  BY <1>37, <1>t, ControlTypeSame DEF SyncDirtySegment
<1>38. ASSUME NEW p \in Proc, TerminateBufferIO(p)
      PROVE  ControlType'
  BY <1>38, <1>t, ControlTypeSame DEF TerminateBufferIO
<1>39. ASSUME NEW p \in Proc, RegisterSyncRequest(p)
      PROVE  ControlType'
  <2>1. UNCHANGED <<ctlVars, cvVars, timed, fails>> /\ latch' = (latch \/ Len(requests') >= MAX_REQUESTS \div 2)
    BY <1>39 DEF RegisterSyncRequest, ForwardSyncRequest
  <2> QED
    BY <1>t, <2>1 DEF ControlType
<1>40. ASSUME NEW p \in Proc, UnlinkFile(p)
      PROVE  ControlType'
  BY <1>40, <1>t, ConstantsAssumption DEF UnlinkFile, ControlType
<1>41. ASSUME NEW p \in Proc, RequestCheckpoint(p)
      PROVE  ControlType'
  BY <1>41, <1>t DEF RequestCheckpoint, SetRequestFlags, ControlType
<1>42. ASSUME NEW p \in Proc, SignalCheckpointer(p)
      PROVE  ControlType'
  BY <1>42, <1>t DEF SignalCheckpointer, ControlType
<1>43. ASSUME NEW p \in Proc, TestStarted(p)
      PROVE  ControlType'
  BY <1>43, <1>t DEF TestStarted, ControlType
<1>44. ASSUME NEW p \in Proc, TestDone(p)
      PROVE  ControlType'
  BY <1>44, <1>t DEF TestDone, ControlType
<1>45. ASSUME NEW p \in Proc, SleepEnds(p)
      PROVE  ControlType'
  BY <1>45, <1>t DEF SleepEnds, ControlType
<1>46. ASSUME NEW p \in Proc, RequestReturns(p)
      PROVE  ControlType'
  BY <1>46, <1>t, ControlTypeSame DEF RequestReturns
<1>47. ASSUME NEW p \in Proc, SyncDirtySegmentError(p)
      PROVE  ControlType'
  BY <1>47, <1>t, ConstantsAssumption DEF SyncDirtySegmentError, ControlType
<1> QED
  BY <1>1, <1>2, <1>3, <1>4, <1>5, <1>6, <1>7, <1>8, <1>9, <1>10, <1>11, <1>12, <1>13, <1>14,
    <1>15, <1>16, <1>17, <1>18, <1>19, <1>20, <1>21, <1>22, <1>23, <1>24, <1>25, <1>26, <1>27,
    <1>28, <1>29, <1>30, <1>31, <1>32, <1>33, <1>34, <1>35, <1>36, <1>37, <1>38, <1>39, <1>40,
    <1>41, <1>42, <1>43, <1>44, <1>45, <1>46, <1>47 DEF Next, CheckpointerStep,
    CheckpointerEvent, Call, Step

(* The queue and the tables.                                               *)
LEMMA TablesTypeStep ==
  ASSUME TypeInv, PlaceInv, Next
  PROVE  TablesType'
<1> USE DEF ctlVars, cvVars, syncVars, loopVars, ckptVars, procVars, fileVars, histVars,
  backendVars, checkpointerVars, OthersUnchanged, SyncTablesUnchanged, RequestUnchanged, CGo,
  CJump, Go
<1>t. TablesType
  BY TypeParts
<1>a. ASSUME AbsorbSyncRequests
      PROVE  TablesType'
  <2>1. PICK o, u : o = Absorbed.ops /\ u = Absorbed.unlinks
    OBVIOUS
  <2>2. OpsAfter(o) /\ UnlinksAfter(u)
    BY <2>1, AbsorbFacts
  <2>3. requests' = << >> /\ pendingOps' = o /\ pendingUnlinks' = u
    BY <1>a, <2>1 DEF AbsorbSyncRequests
  <2>4. << >> \in Seq(RequestsMade) /\ Len(<< >>) = 0 /\ 0 <= MAX_REQUESTS
    BY ConstantsAssumption
  <2> QED
    BY <2>2, <2>3, <2>4 DEF OpsAfter, UnlinksAfter, TablesType
<1>1. CASE StartCheckpointer
  BY <1>1, <1>t, TablesTypeSame DEF StartCheckpointer
<1>2. CASE LoopResetLatch
  BY <1>2, <1>t, TablesTypeSame DEF LoopResetLatch
<1>3. CASE LoopAbsorb
  BY <1>3, <1>a DEF LoopAbsorb
<1>4. CASE LoopTest
  BY <1>4, <1>t, TablesTypeSame DEF LoopTest
<1>5. CASE BeginCheckpoint
  BY <1>5, <1>t, TablesTypeSame DEF BeginCheckpoint
<1>6. CASE BroadcastStart
  BY <1>6, <1>t, TablesTypeSame DEF BroadcastStart
<1>7. CASE EndCheckpoint
  BY <1>7, <1>t, TablesTypeSame DEF EndCheckpoint
<1>8. CASE CheckpointError
  BY <1>8, <1>t, TablesTypeSame DEF CheckpointError
<1>9. CASE BroadcastDone
  BY <1>9, <1>t, TablesTypeSame DEF BroadcastDone
<1>10. CASE LoopRecheck
  BY <1>10, <1>t, TablesTypeSame DEF LoopRecheck
<1>11. CASE WaitLatch
  BY <1>11, <1>t, TablesTypeSame DEF WaitLatch
<1>12. CASE SyncPreCheckpoint
  BY <1>12, <1>a DEF SyncPreCheckpoint, PreAbsorb
<1>13. CASE SetRedo
  BY <1>13, <1>t, TablesTypeSame DEF SetRedo
<1>14. CASE BufferSyncMark
  BY <1>14, <1>t, TablesTypeSame DEF BufferSyncMark
<1>15. CASE CheckpointWriteDelay
  BY <1>15, <1>t, <1>a, TablesTypeSame DEF CheckpointWriteDelay
<1>16. CASE Nap
  BY <1>16, <1>t, TablesTypeSame DEF Nap
<1>17. ASSUME NEW f \in Files, SyncOneBuffer(f)
      PROVE  TablesType'
  <2>1. PICK t : t = [ops |-> pendingOps, unlinks |-> pendingUnlinks]
    OBVIOUS
  <2>2. PICK x \in RequestsMade : x = SyncR(f)
    BY DEF RequestsMade
  <2>3. PICK t2 : t2 = Remember(t, x)
    OBVIOUS
  <2>4. Remembers(pendingOps, pendingUnlinks, x, t2)
    BY <2>1, <2>2, <2>3, RememberForms
  <2>5. RememberedOps(pendingOps, x, t2.ops)
    BY <2>4 DEF Remembers
  <2>6. NewEntry \in Entry
    BY TypeParts DEF CheckpointerType, Entry, NewEntry
  <2>7. PICK o : o = t2.ops
    OBVIOUS
  <2>8. DOMAIN o \subseteq Files /\ \A g \in DOMAIN o : o[g] \in Entry
    BY <1>t, <2>2, <2>5, <2>6, <2>7, RequestForms DEF RememberedOps, TablesType
  <2>9. pendingOps' \in {pendingOps, o} /\ UNCHANGED <<requests, pendingUnlinks>>
    BY <1>17, <2>1, <2>2, <2>3, <2>7 DEF SyncOneBuffer, SyncR
  <2> QED
    BY <1>t, <2>8, <2>9 DEF TablesType
<1>18. ASSUME NEW f \in Files, NextEntry(f)
      PROVE  TablesType'
  BY <1>18, <1>t, <1>a, TablesTypeSame DEF NextEntry
<1>19. CASE ProcessSyncRequests
  <2>1. PICK o, u : o = Absorbed.ops /\ u = Absorbed.unlinks
    OBVIOUS
  <2>2. OpsAfter(o) /\ UnlinksAfter(u)
    BY <2>1, AbsorbFacts
  <2>3. requests' = << >> /\ pendingOps' = Restamp(o) /\ pendingUnlinks' = u
    BY <1>19, <2>1 DEF ProcessSyncRequests
  <2>4. << >> \in Seq(RequestsMade) /\ Len(<< >>) = 0 /\ 0 <= MAX_REQUESTS
    BY ConstantsAssumption
  <2>5. sync_cycle_ctr \in 0 .. CYCLE_MODULUS - 1
    BY TypeParts DEF CheckpointerType
  <2>6. \A e \in Entry : [e EXCEPT !.cycle = sync_cycle_ctr] \in Entry
    BY <2>5 DEF Entry
  <2>7. DOMAIN pendingOps' \subseteq Files /\ \A f \in DOMAIN pendingOps' : pendingOps'[f] \in Entry
    BY <2>2, <2>3, <2>6 DEF OpsAfter, Restamp
  <2> QED
    BY <2>2, <2>3, <2>4, <2>7 DEF UnlinksAfter, TablesType
<1>20. CASE SyncCanceled
  BY <1>20, <1>t DEF SyncCanceled, RemoveEntry, TablesType
<1>21. CASE SyncFile
  BY <1>21, <1>t DEF SyncFile, RemoveEntry, TablesType
<1>22. CASE SyncRetry
  BY <1>22, <1>t, <1>a, TablesTypeSame DEF SyncRetry, RetryAbsorb
<1>23. CASE EndSync
  BY <1>23, <1>t, TablesTypeSame DEF EndSync
<1>24. CASE WriteRecord
  BY <1>24, <1>t, TablesTypeSame DEF WriteRecord
<1>25. CASE SyncPostCheckpoint
  <2>1. CASE pendingUnlinks' = Tail(pendingUnlinks) /\ UNCHANGED <<requests, pendingOps>>
    <3>1. pendingUnlinks \in Seq(UnlinkEntry) /\ pendingUnlinks # << >>
      BY <1>25, <1>t DEF SyncPostCheckpoint, TablesType
    <3>2. Tail(pendingUnlinks) \in Seq(UnlinkEntry)
      BY <3>1
    <3> QED
      BY <1>t, <2>1, <3>2 DEF TablesType
  <2>2. CASE requests' = << >> /\ pendingOps' = Absorbed.ops /\ pendingUnlinks' = Tail(Absorbed.unlinks)
    <3>1. PICK o, u : o = Absorbed.ops /\ u = Absorbed.unlinks
      OBVIOUS
    <3>2. OpsAfter(o) /\ UnlinksAfter(u)
      BY <3>1, AbsorbFacts
    <3>3. /\ u \in Seq(UnlinkEntry) /\ Len(u) >= Len(pendingUnlinks)
          /\ pendingUnlinks \in Seq(UnlinkEntry) /\ pendingUnlinks # << >>
      BY <1>25, <1>t, <3>2 DEF UnlinksAfter, SyncPostCheckpoint, TablesType
    <3>4. u # << >>
      BY <3>3
    <3>5. Tail(u) \in Seq(UnlinkEntry)
      BY <3>3, <3>4
    <3>6. << >> \in Seq(RequestsMade) /\ Len(<< >>) = 0 /\ 0 <= MAX_REQUESTS
      BY ConstantsAssumption
    <3> QED
      BY <2>2, <3>1, <3>2, <3>5, <3>6 DEF OpsAfter, TablesType
  <2> QED
    BY <1>25, <2>1, <2>2 DEF SyncPostCheckpoint
<1>26. CASE EndPostCheckpoint
  BY <1>26, <1>t, TablesTypeSame DEF EndPostCheckpoint
<1>27. CASE WriteError
  BY <1>27, <1>t, TablesTypeSame DEF WriteError
<1>28. CASE SyncError
  BY <1>28, <1>t, TablesTypeSame DEF SyncError
<1>29. CASE WaitLatchTimeout
  BY <1>29, <1>t, TablesTypeSame DEF WaitLatchTimeout
<1>30. ASSUME NEW f \in Files, ModifyPage(f)
      PROVE  TablesType'
  BY <1>30, <1>t, TablesTypeSame DEF ModifyPage
<1>31. ASSUME NEW p \in Proc, NEW f \in Files, FlushBuffer(p, f)
      PROVE  TablesType'
  BY <1>31, <1>t, TablesTypeSame DEF FlushBuffer, Begin
<1>32. ASSUME NEW p \in Proc, NEW f \in Files, CreateFile(p, f)
      PROVE  TablesType'
  BY <1>32, <1>t, TablesTypeSame DEF CreateFile, Begin
<1>33. ASSUME NEW p \in Proc, DropRelation(p)
      PROVE  TablesType'
  BY <1>33, <1>t, TablesTypeSame DEF DropRelation, Begin
<1>34. ASSUME NEW p \in Proc, DropDatabase(p)
      PROVE  TablesType'
  BY <1>34, <1>t, TablesTypeSame DEF DropDatabase, Begin
<1>35. ASSUME NEW p \in Proc, Checkpoint(p)
      PROVE  TablesType'
  BY <1>35, <1>t, TablesTypeSame DEF Checkpoint, SetRequestFlags, Begin
<1>36. ASSUME NEW p \in Proc, RegisterDirtySegment(p)
      PROVE  TablesType'
  <2>1. arg[p] \in RequestsMade
    BY <1>36, FilesFacts, PlaceFacts DEF RegisterDirtySegment, PlaceFactsAt, RequestsMade
  <2>2. PICK x \in RequestsMade : x = arg[p]
    BY <2>1
  <2>3. ForwardSyncRequest(x)
    BY <1>36, <2>2 DEF RegisterDirtySegment
  <2>4. Forwarded(x)
    BY <1>t, <2>3, ForwardFacts DEF TablesType
  <2> QED
    BY <1>36, <1>t, <2>4 DEF RegisterDirtySegment, Forwarded, TablesType
<1>37. ASSUME NEW p \in Proc, SyncDirtySegment(p)
      PROVE  TablesType'
  BY <1>37, <1>t, TablesTypeSame DEF SyncDirtySegment
<1>38. ASSUME NEW p \in Proc, TerminateBufferIO(p)
      PROVE  TablesType'
  BY <1>38, <1>t, TablesTypeSame DEF TerminateBufferIO
<1>39. ASSUME NEW p \in Proc, RegisterSyncRequest(p)
      PROVE  TablesType'
  <2>1. arg[p] \in RequestsMade
    BY <1>39, FilesFacts, PlaceFacts DEF RegisterSyncRequest, PlaceFactsAt, RequestsMade
  <2>2. PICK x \in RequestsMade : x = arg[p]
    BY <2>1
  <2>3. ForwardSyncRequest(x)
    BY <1>39, <2>2 DEF RegisterSyncRequest
  <2>4. Forwarded(x)
    BY <1>t, <2>3, ForwardFacts DEF TablesType
  <2> QED
    BY <1>39, <1>t, <2>4 DEF RegisterSyncRequest, Forwarded, TablesType
<1>40. ASSUME NEW p \in Proc, UnlinkFile(p)
      PROVE  TablesType'
  BY <1>40, <1>t, TablesTypeSame DEF UnlinkFile
<1>41. ASSUME NEW p \in Proc, RequestCheckpoint(p)
      PROVE  TablesType'
  BY <1>41, <1>t, TablesTypeSame DEF RequestCheckpoint, SetRequestFlags
<1>42. ASSUME NEW p \in Proc, SignalCheckpointer(p)
      PROVE  TablesType'
  BY <1>42, <1>t, TablesTypeSame DEF SignalCheckpointer
<1>43. ASSUME NEW p \in Proc, TestStarted(p)
      PROVE  TablesType'
  BY <1>43, <1>t, TablesTypeSame DEF TestStarted
<1>44. ASSUME NEW p \in Proc, TestDone(p)
      PROVE  TablesType'
  BY <1>44, <1>t, TablesTypeSame DEF TestDone
<1>45. ASSUME NEW p \in Proc, SleepEnds(p)
      PROVE  TablesType'
  BY <1>45, <1>t, TablesTypeSame DEF SleepEnds
<1>46. ASSUME NEW p \in Proc, RequestReturns(p)
      PROVE  TablesType'
  BY <1>46, <1>t, TablesTypeSame DEF RequestReturns
<1>47. ASSUME NEW p \in Proc, SyncDirtySegmentError(p)
      PROVE  TablesType'
  BY <1>47, <1>t, TablesTypeSame DEF SyncDirtySegmentError
<1> QED
  BY <1>1, <1>2, <1>3, <1>4, <1>5, <1>6, <1>7, <1>8, <1>9, <1>10, <1>11, <1>12, <1>13, <1>14,
    <1>15, <1>16, <1>17, <1>18, <1>19, <1>20, <1>21, <1>22, <1>23, <1>24, <1>25, <1>26, <1>27,
    <1>28, <1>29, <1>30, <1>31, <1>32, <1>33, <1>34, <1>35, <1>36, <1>37, <1>38, <1>39, <1>40,
    <1>41, <1>42, <1>43, <1>44, <1>45, <1>46, <1>47 DEF Next, CheckpointerStep,
    CheckpointerEvent, Call, Step

(* The checkpointer.                                                       *)
LEMMA CheckpointerTypeStep ==
  ASSUME TypeInv, Next
  PROVE  CheckpointerType'
<1> USE DEF ctlVars, cvVars, syncVars, loopVars, ckptVars, procVars, fileVars, histVars,
  backendVars, checkpointerVars, OthersUnchanged, SyncTablesUnchanged, RequestUnchanged, CGo,
  CJump, Go
<1>t. CheckpointerType
  BY TypeParts
<1>1. CASE StartCheckpointer
  BY <1>1, <1>t DEF StartCheckpointer, CheckpointerType
<1>2. CASE LoopResetLatch
  BY <1>2, <1>t DEF LoopResetLatch, CheckpointerType
<1>3. CASE LoopAbsorb
  BY <1>3, <1>t DEF LoopAbsorb, CheckpointerType
<1>4. CASE LoopTest
  <2>1. cpc' \in {"begin", "recheck"} /\ UNCHANGED <<ckptVars, syncVars, loopVars>>
    BY <1>4 DEF LoopTest
  <2> QED
    BY <1>t, <2>1 DEF CheckpointerType
<1>5. CASE BeginCheckpoint
  <2>1. ckpt_flags \in BOOLEAN
    BY TypeParts DEF ControlType
  <2> QED
    BY <1>5, <1>t, <2>1 DEF BeginCheckpoint, CheckpointerType
<1>6. CASE BroadcastStart
  BY <1>6, <1>t DEF BroadcastStart, CheckpointerType
<1>7. CASE EndCheckpoint
  BY <1>7, <1>t DEF EndCheckpoint, CheckpointerType
<1>8. CASE CheckpointError
  BY <1>8, <1>t DEF CheckpointError, CheckpointerType
<1>9. CASE BroadcastDone
  BY <1>9, <1>t DEF BroadcastDone, CheckpointerType
<1>10. CASE LoopRecheck
  BY <1>10, <1>t DEF LoopRecheck, CheckpointerType
<1>11. CASE WaitLatch
  BY <1>11, <1>t DEF WaitLatch, CheckpointerType
<1>12. CASE SyncPreCheckpoint
  <2>1. Next_(checkpoint_cycle_ctr, CYCLE_MODULUS) \in 0 .. CYCLE_MODULUS - 1
    BY <1>t, NextCounter, ConstantsAssumption DEF CheckpointerType
  <2> QED
    BY <1>12, <1>t, <2>1 DEF SyncPreCheckpoint, CheckpointerType
<1>13. CASE SetRedo
  BY <1>13, <1>t DEF SetRedo, CheckpointerType
<1>14. CASE BufferSyncMark
  BY <1>14, <1>t DEF BufferSyncMark, CheckpointerType
<1>15. CASE CheckpointWriteDelay
  BY <1>15, <1>t DEF CheckpointWriteDelay, CheckpointerType
<1>16. CASE Nap
  BY <1>16, <1>t DEF Nap, CheckpointerType
<1>17. ASSUME NEW f \in Files, SyncOneBuffer(f)
      PROVE  CheckpointerType'
  BY <1>17, <1>t DEF SyncOneBuffer, CheckpointerType
<1>18. ASSUME NEW f \in Files, NextEntry(f)
      PROVE  CheckpointerType'
  <2>1. entry' = f /\ failures' = 0 /\ cpc' = "try"
        /\ UNCHANGED <<sync_cycle_ctr, checkpoint_cycle_ctr, sync_in_progress, ckptVars>>
    BY <1>18 DEF NextEntry
  <2> QED
    BY <1>t, <2>1 DEF CheckpointerType
<1>19. CASE ProcessSyncRequests
  <2>1. Next_(sync_cycle_ctr, CYCLE_MODULUS) \in 0 .. CYCLE_MODULUS - 1
    BY <1>t, NextCounter, ConstantsAssumption DEF CheckpointerType
  <2> QED
    BY <1>19, <1>t, <2>1 DEF ProcessSyncRequests, CheckpointerType
<1>20. CASE SyncCanceled
  BY <1>20, <1>t DEF SyncCanceled, CheckpointerType, RemoveEntry
<1>21. CASE SyncFile
  BY <1>21, <1>t DEF SyncFile, CheckpointerType, RemoveEntry
<1>22. CASE SyncRetry
  BY <1>22, <1>t DEF SyncRetry, CheckpointerType
<1>23. CASE EndSync
  BY <1>23, <1>t DEF EndSync, CheckpointerType
<1>24. CASE WriteRecord
  BY <1>24, <1>t DEF WriteRecord, CheckpointerType
<1>25. CASE SyncPostCheckpoint
  BY <1>25, <1>t DEF SyncPostCheckpoint, CheckpointerType
<1>26. CASE EndPostCheckpoint
  BY <1>26, <1>t DEF EndPostCheckpoint, CheckpointerType
<1>27. CASE WriteError
  BY <1>27, <1>t DEF WriteError, CheckpointerType
<1>28. CASE SyncError
  BY <1>28, <1>t DEF SyncError, CheckpointerType
<1>29. CASE WaitLatchTimeout
  BY <1>29, <1>t DEF WaitLatchTimeout, CheckpointerType
<1>30. ASSUME NEW f \in Files, ModifyPage(f)
      PROVE  CheckpointerType'
  BY <1>30, <1>t, CheckpointerTypeSame DEF ModifyPage
<1>31. ASSUME NEW p \in Proc, NEW f \in Files, FlushBuffer(p, f)
      PROVE  CheckpointerType'
  BY <1>31, <1>t, CheckpointerTypeSame DEF FlushBuffer, Begin
<1>32. ASSUME NEW p \in Proc, NEW f \in Files, CreateFile(p, f)
      PROVE  CheckpointerType'
  BY <1>32, <1>t, CheckpointerTypeSame DEF CreateFile, Begin
<1>33. ASSUME NEW p \in Proc, DropRelation(p)
      PROVE  CheckpointerType'
  BY <1>33, <1>t, CheckpointerTypeSame DEF DropRelation, Begin
<1>34. ASSUME NEW p \in Proc, DropDatabase(p)
      PROVE  CheckpointerType'
  BY <1>34, <1>t, CheckpointerTypeSame DEF DropDatabase, Begin
<1>35. ASSUME NEW p \in Proc, Checkpoint(p)
      PROVE  CheckpointerType'
  BY <1>35, <1>t, CheckpointerTypeSame DEF Checkpoint, SetRequestFlags, Begin
<1>36. ASSUME NEW p \in Proc, RegisterDirtySegment(p)
      PROVE  CheckpointerType'
  BY <1>36, <1>t, CheckpointerTypeSame DEF RegisterDirtySegment
<1>37. ASSUME NEW p \in Proc, SyncDirtySegment(p)
      PROVE  CheckpointerType'
  BY <1>37, <1>t, CheckpointerTypeSame DEF SyncDirtySegment
<1>38. ASSUME NEW p \in Proc, TerminateBufferIO(p)
      PROVE  CheckpointerType'
  BY <1>38, <1>t, CheckpointerTypeSame DEF TerminateBufferIO
<1>39. ASSUME NEW p \in Proc, RegisterSyncRequest(p)
      PROVE  CheckpointerType'
  BY <1>39, <1>t, CheckpointerTypeSame DEF RegisterSyncRequest
<1>40. ASSUME NEW p \in Proc, UnlinkFile(p)
      PROVE  CheckpointerType'
  BY <1>40, <1>t, CheckpointerTypeSame DEF UnlinkFile
<1>41. ASSUME NEW p \in Proc, RequestCheckpoint(p)
      PROVE  CheckpointerType'
  BY <1>41, <1>t, CheckpointerTypeSame DEF RequestCheckpoint, SetRequestFlags
<1>42. ASSUME NEW p \in Proc, SignalCheckpointer(p)
      PROVE  CheckpointerType'
  BY <1>42, <1>t, CheckpointerTypeSame DEF SignalCheckpointer
<1>43. ASSUME NEW p \in Proc, TestStarted(p)
      PROVE  CheckpointerType'
  BY <1>43, <1>t, CheckpointerTypeSame DEF TestStarted
<1>44. ASSUME NEW p \in Proc, TestDone(p)
      PROVE  CheckpointerType'
  BY <1>44, <1>t, CheckpointerTypeSame DEF TestDone
<1>45. ASSUME NEW p \in Proc, SleepEnds(p)
      PROVE  CheckpointerType'
  BY <1>45, <1>t, CheckpointerTypeSame DEF SleepEnds
<1>46. ASSUME NEW p \in Proc, RequestReturns(p)
      PROVE  CheckpointerType'
  BY <1>46, <1>t, CheckpointerTypeSame DEF RequestReturns
<1>47. ASSUME NEW p \in Proc, SyncDirtySegmentError(p)
      PROVE  CheckpointerType'
  BY <1>47, <1>t, CheckpointerTypeSame DEF SyncDirtySegmentError
<1> QED
  BY <1>1, <1>2, <1>3, <1>4, <1>5, <1>6, <1>7, <1>8, <1>9, <1>10, <1>11, <1>12, <1>13, <1>14,
    <1>15, <1>16, <1>17, <1>18, <1>19, <1>20, <1>21, <1>22, <1>23, <1>24, <1>25, <1>26, <1>27,
    <1>28, <1>29, <1>30, <1>31, <1>32, <1>33, <1>34, <1>35, <1>36, <1>37, <1>38, <1>39, <1>40,
    <1>41, <1>42, <1>43, <1>44, <1>45, <1>46, <1>47 DEF Next, CheckpointerStep,
    CheckpointerEvent, Call, Step

(* The entry the checkpointer works at.                                    *)
LEMMA EntryTypeStep ==
  ASSUME TypeInv, Next
  PROVE  EntryType'
<1> USE DEF ctlVars, cvVars, syncVars, loopVars, ckptVars, procVars, fileVars, histVars,
  backendVars, checkpointerVars, OthersUnchanged, SyncTablesUnchanged, RequestUnchanged, CGo,
  CJump, Go
<1>t. EntryType
  BY TypeParts
<1>a. AbsorbSyncRequests => DOMAIN pendingOps \subseteq DOMAIN pendingOps'
  BY AbsorbFacts DEF OpsAfter, AbsorbSyncRequests
<1>1. CASE StartCheckpointer
  BY <1>1, <1>t, EntryTypeSame DEF StartCheckpointer
<1>2. CASE LoopResetLatch
  BY <1>2, <1>t, EntryTypeSame DEF LoopResetLatch
<1>3. CASE LoopAbsorb
  BY <1>3, <1>t, EntryTypeSame DEF LoopAbsorb
<1>4. CASE LoopTest
  BY <1>4, <1>t, EntryTypeSame DEF LoopTest
<1>5. CASE BeginCheckpoint
  BY <1>5, <1>t, EntryTypeSame DEF BeginCheckpoint
<1>6. CASE BroadcastStart
  BY <1>6, <1>t, EntryTypeSame DEF BroadcastStart
<1>7. CASE EndCheckpoint
  BY <1>7, <1>t, EntryTypeSame DEF EndCheckpoint
<1>8. CASE CheckpointError
  BY <1>8, <1>t, EntryTypeSame DEF CheckpointError
<1>9. CASE BroadcastDone
  BY <1>9, <1>t, EntryTypeSame DEF BroadcastDone
<1>10. CASE LoopRecheck
  BY <1>10, <1>t, EntryTypeSame DEF LoopRecheck
<1>11. CASE WaitLatch
  BY <1>11, <1>t, EntryTypeSame DEF WaitLatch
<1>12. CASE SyncPreCheckpoint
  BY <1>12, <1>t, EntryTypeSame DEF SyncPreCheckpoint
<1>13. CASE SetRedo
  BY <1>13, <1>t, EntryTypeSame DEF SetRedo
<1>14. CASE BufferSyncMark
  BY <1>14, <1>t, EntryTypeSame DEF BufferSyncMark
<1>15. CASE CheckpointWriteDelay
  BY <1>15, <1>t, EntryTypeSame DEF CheckpointWriteDelay
<1>16. CASE Nap
  BY <1>16, <1>t, EntryTypeSame DEF Nap
<1>17. ASSUME NEW f \in Files, SyncOneBuffer(f)
      PROVE  EntryType'
  BY <1>17, <1>t, EntryTypeSame DEF SyncOneBuffer
<1>18. ASSUME NEW f \in Files, NextEntry(f)
      PROVE  EntryType'
  BY <1>18, <1>a DEF NextEntry, EntryType
<1>19. CASE ProcessSyncRequests
  BY <1>19, <1>t, EntryTypeSame DEF ProcessSyncRequests
<1>20. CASE SyncCanceled
  BY <1>20, <1>t, EntryTypeSame DEF SyncCanceled, RemoveEntry
<1>21. CASE SyncFile
  BY <1>21, <1>t, EntryTypeSame DEF SyncFile, RemoveEntry
<1>22. CASE SyncRetry
  BY <1>22, <1>t, <1>a, EntryTypeSame DEF SyncRetry, RetryAbsorb
<1>23. CASE EndSync
  BY <1>23, <1>t, EntryTypeSame DEF EndSync
<1>24. CASE WriteRecord
  BY <1>24, <1>t, EntryTypeSame DEF WriteRecord
<1>25. CASE SyncPostCheckpoint
  BY <1>25, EntryTypeSame, <1>t DEF SyncPostCheckpoint
<1>26. CASE EndPostCheckpoint
  BY <1>26, <1>t, EntryTypeSame DEF EndPostCheckpoint
<1>27. CASE WriteError
  BY <1>27, <1>t, EntryTypeSame DEF WriteError
<1>28. CASE SyncError
  BY <1>28, <1>t, EntryTypeSame DEF SyncError
<1>29. CASE WaitLatchTimeout
  BY <1>29, <1>t, EntryTypeSame DEF WaitLatchTimeout
<1>30. ASSUME NEW f \in Files, ModifyPage(f)
      PROVE  EntryType'
  BY <1>30, <1>t, EntryTypeSame DEF ModifyPage
<1>31. ASSUME NEW p \in Proc, NEW f \in Files, FlushBuffer(p, f)
      PROVE  EntryType'
  BY <1>31, <1>t, EntryTypeSame DEF FlushBuffer, Begin
<1>32. ASSUME NEW p \in Proc, NEW f \in Files, CreateFile(p, f)
      PROVE  EntryType'
  BY <1>32, <1>t, EntryTypeSame DEF CreateFile, Begin
<1>33. ASSUME NEW p \in Proc, DropRelation(p)
      PROVE  EntryType'
  BY <1>33, <1>t, EntryTypeSame DEF DropRelation, Begin
<1>34. ASSUME NEW p \in Proc, DropDatabase(p)
      PROVE  EntryType'
  BY <1>34, <1>t, EntryTypeSame DEF DropDatabase, Begin
<1>35. ASSUME NEW p \in Proc, Checkpoint(p)
      PROVE  EntryType'
  BY <1>35, <1>t, EntryTypeSame DEF Checkpoint, SetRequestFlags, Begin
<1>36. ASSUME NEW p \in Proc, RegisterDirtySegment(p)
      PROVE  EntryType'
  BY <1>36, <1>t, EntryTypeSame DEF RegisterDirtySegment
<1>37. ASSUME NEW p \in Proc, SyncDirtySegment(p)
      PROVE  EntryType'
  BY <1>37, <1>t, EntryTypeSame DEF SyncDirtySegment
<1>38. ASSUME NEW p \in Proc, TerminateBufferIO(p)
      PROVE  EntryType'
  BY <1>38, <1>t, EntryTypeSame DEF TerminateBufferIO
<1>39. ASSUME NEW p \in Proc, RegisterSyncRequest(p)
      PROVE  EntryType'
  BY <1>39, <1>t, EntryTypeSame DEF RegisterSyncRequest
<1>40. ASSUME NEW p \in Proc, UnlinkFile(p)
      PROVE  EntryType'
  BY <1>40, <1>t, EntryTypeSame DEF UnlinkFile
<1>41. ASSUME NEW p \in Proc, RequestCheckpoint(p)
      PROVE  EntryType'
  BY <1>41, <1>t, EntryTypeSame DEF RequestCheckpoint, SetRequestFlags
<1>42. ASSUME NEW p \in Proc, SignalCheckpointer(p)
      PROVE  EntryType'
  BY <1>42, <1>t, EntryTypeSame DEF SignalCheckpointer
<1>43. ASSUME NEW p \in Proc, TestStarted(p)
      PROVE  EntryType'
  BY <1>43, <1>t, EntryTypeSame DEF TestStarted
<1>44. ASSUME NEW p \in Proc, TestDone(p)
      PROVE  EntryType'
  BY <1>44, <1>t, EntryTypeSame DEF TestDone
<1>45. ASSUME NEW p \in Proc, SleepEnds(p)
      PROVE  EntryType'
  BY <1>45, <1>t, EntryTypeSame DEF SleepEnds
<1>46. ASSUME NEW p \in Proc, RequestReturns(p)
      PROVE  EntryType'
  BY <1>46, <1>t, EntryTypeSame DEF RequestReturns
<1>47. ASSUME NEW p \in Proc, SyncDirtySegmentError(p)
      PROVE  EntryType'
  BY <1>47, <1>t, EntryTypeSame DEF SyncDirtySegmentError
<1> QED
  BY <1>1, <1>2, <1>3, <1>4, <1>5, <1>6, <1>7, <1>8, <1>9, <1>10, <1>11, <1>12, <1>13, <1>14,
    <1>15, <1>16, <1>17, <1>18, <1>19, <1>20, <1>21, <1>22, <1>23, <1>24, <1>25, <1>26, <1>27,
    <1>28, <1>29, <1>30, <1>31, <1>32, <1>33, <1>34, <1>35, <1>36, <1>37, <1>38, <1>39, <1>40,
    <1>41, <1>42, <1>43, <1>44, <1>45, <1>46, <1>47 DEF Next, CheckpointerStep,
    CheckpointerEvent, Call, Step

(* The backends.                                                           *)
LEMMA BackendTypeStep ==
  ASSUME TypeInv, PlaceInv, Next
  PROVE  BackendType'
<1> USE DEF ctlVars, cvVars, syncVars, loopVars, ckptVars, procVars, fileVars, histVars,
  backendVars, checkpointerVars, OthersUnchanged, SyncTablesUnchanged, RequestUnchanged, CGo,
  CJump, Go
<1>t. BackendType
  BY TypeParts
<1>c. ckpt_started \in Nat /\ ckpt_failed \in Nat
  BY TypeParts, ConstantsAssumption DEF ControlType
<1>1. CASE StartCheckpointer
  BY <1>1, <1>t, BackendTypeSame DEF StartCheckpointer
<1>2. CASE LoopResetLatch
  BY <1>2, <1>t, BackendTypeSame DEF LoopResetLatch
<1>3. CASE LoopAbsorb
  BY <1>3, <1>t, BackendTypeSame DEF LoopAbsorb
<1>4. CASE LoopTest
  BY <1>4, <1>t, BackendTypeSame DEF LoopTest
<1>5. CASE BeginCheckpoint
  BY <1>5, <1>t DEF BeginCheckpoint, BackendType
<1>6. CASE BroadcastStart
  BY <1>6, <1>t, BackendTypeSame DEF BroadcastStart
<1>7. CASE EndCheckpoint
  BY <1>7, <1>t DEF EndCheckpoint, BackendType
<1>8. CASE CheckpointError
  BY <1>8, <1>t DEF CheckpointError, BackendType
<1>9. CASE BroadcastDone
  BY <1>9, <1>t, BackendTypeSame DEF BroadcastDone
<1>10. CASE LoopRecheck
  BY <1>10, <1>t, BackendTypeSame DEF LoopRecheck
<1>11. CASE WaitLatch
  BY <1>11, <1>t, BackendTypeSame DEF WaitLatch
<1>12. CASE SyncPreCheckpoint
  BY <1>12, <1>t, BackendTypeSame DEF SyncPreCheckpoint
<1>13. CASE SetRedo
  BY <1>13, <1>t, BackendTypeSame DEF SetRedo
<1>14. CASE BufferSyncMark
  BY <1>14, <1>t, BackendTypeSame DEF BufferSyncMark
<1>15. CASE CheckpointWriteDelay
  BY <1>15, <1>t, BackendTypeSame DEF CheckpointWriteDelay
<1>16. CASE Nap
  BY <1>16, <1>t, BackendTypeSame DEF Nap
<1>17. ASSUME NEW f \in Files, SyncOneBuffer(f)
      PROVE  BackendType'
  BY <1>17, <1>t, BackendTypeSame DEF SyncOneBuffer
<1>18. ASSUME NEW f \in Files, NextEntry(f)
      PROVE  BackendType'
  BY <1>18, <1>t, BackendTypeSame DEF NextEntry
<1>19. CASE ProcessSyncRequests
  BY <1>19, <1>t, BackendTypeSame DEF ProcessSyncRequests
<1>20. CASE SyncCanceled
  BY <1>20, <1>t, BackendTypeSame DEF SyncCanceled
<1>21. CASE SyncFile
  BY <1>21, <1>t, BackendTypeSame DEF SyncFile
<1>22. CASE SyncRetry
  BY <1>22, <1>t, BackendTypeSame DEF SyncRetry
<1>23. CASE EndSync
  BY <1>23, <1>t, BackendTypeSame DEF EndSync
<1>24. CASE WriteRecord
  BY <1>24, <1>t, BackendTypeSame DEF WriteRecord
<1>25. CASE SyncPostCheckpoint
  BY <1>25, <1>t, BackendTypeSame DEF SyncPostCheckpoint
<1>26. CASE EndPostCheckpoint
  BY <1>26, <1>t, BackendTypeSame DEF EndPostCheckpoint
<1>27. CASE WriteError
  BY <1>27, <1>t, BackendTypeSame DEF WriteError
<1>28. CASE SyncError
  BY <1>28, <1>t, BackendTypeSame DEF SyncError
<1>29. CASE WaitLatchTimeout
  BY <1>29, <1>t, BackendTypeSame DEF WaitLatchTimeout
<1>30. ASSUME NEW f \in Files, ModifyPage(f)
      PROVE  BackendType'
  BY <1>30, <1>t, BackendTypeSame DEF ModifyPage
<1>31. ASSUME NEW p \in Proc, NEW f \in Files, FlushBuffer(p, f)
      PROVE  BackendType'
  BY <1>31, <1>t, FilesFacts DEF FlushBuffer, Begin, RequestsMade, SyncR, UnlinkR, FilterR,
    BackendType, Places, Operations
<1>32. ASSUME NEW p \in Proc, NEW f \in Files, CreateFile(p, f)
      PROVE  BackendType'
  BY <1>32, <1>t, FilesFacts DEF CreateFile, Begin, RequestsMade, SyncR, UnlinkR, FilterR,
    BackendType, Places, Operations
<1>33. ASSUME NEW p \in Proc, DropRelation(p)
      PROVE  BackendType'
  BY <1>33, <1>t, FilesFacts DEF DropRelation, Begin, RequestsMade, SyncR, UnlinkR, FilterR,
    BackendType, Places, Operations
<1>34. ASSUME NEW p \in Proc, DropDatabase(p)
      PROVE  BackendType'
  BY <1>34, <1>t, FilesFacts DEF DropDatabase, Begin, RequestsMade, SyncR, UnlinkR, FilterR,
    BackendType, Places, Operations
<1>35. ASSUME NEW p \in Proc, Checkpoint(p)
      PROVE  BackendType'
  BY <1>35, <1>t, FilesFacts, <1>c DEF Checkpoint, Begin, SetRequestFlags, UnlinkForwarded,
    BackendType, Places, Operations
<1>36. ASSUME NEW p \in Proc, RegisterDirtySegment(p)
      PROVE  BackendType'
  BY <1>36, <1>t, FilesFacts DEF RegisterDirtySegment, AfterRegister, Return, BackendType,
    Places, Operations
<1>37. ASSUME NEW p \in Proc, SyncDirtySegment(p)
      PROVE  BackendType'
  BY <1>37, <1>t, FilesFacts DEF SyncDirtySegment, AfterRegister, Return, BackendType, Places,
    Operations
<1>38. ASSUME NEW p \in Proc, TerminateBufferIO(p)
      PROVE  BackendType'
  BY <1>38, <1>t, FilesFacts DEF TerminateBufferIO, Return, BackendType, Places, Operations
<1>39. ASSUME NEW p \in Proc, RegisterSyncRequest(p)
      PROVE  BackendType'
  <2>1. RequestUnchanged /\ UNCHANGED histVars
    BY <1>39 DEF RegisterSyncRequest
  <2>2. CASE NextSegment(p)
    <3>1. PICK left : left = {f \in Segments : fstate'[f] = "dropped"}
      OBVIOUS
    <3>2. \A f \in left : [type |-> FORGET, file |-> f] \in RequestsMade
      BY <3>1, FilesFacts DEF RequestsMade, ForgetR
    <3> QED
      BY <1>t, <2>1, <2>2, <3>1, <3>2 DEF NextSegment, Return, BackendType, Places, Operations
  <2>3. CASE UNCHANGED <<op, arg>> /\ (Go(p, "unlink") \/ Go(p, "request"))
    BY <1>t, <2>1, <2>3 DEF BackendType, Places, Operations
  <2>4. arg[p].type \in {UNLINK, FORGET, FILTER}
    BY <1>39, PlaceFacts, RequestForms DEF RegisterSyncRequest, PlaceFactsAt
  <2> QED
    BY <1>39, <2>2, <2>3, <2>4, TypesDiffer DEF RegisterSyncRequest
<1>40. ASSUME NEW p \in Proc, UnlinkFile(p)
      PROVE  BackendType'
  <2>1. RequestUnchanged /\ UNCHANGED histVars /\ NextSegment(p)
    BY <1>40 DEF UnlinkFile
  <2>2. PICK left : left = {f \in Segments : fstate'[f] = "dropped"}
    OBVIOUS
  <2>3. \A f \in left : [type |-> FORGET, file |-> f] \in RequestsMade
    BY <2>2, FilesFacts DEF RequestsMade, ForgetR
  <2> QED
    BY <1>t, <2>1, <2>2, <2>3 DEF NextSegment, Return, BackendType, Places, Operations
<1>41. ASSUME NEW p \in Proc, RequestCheckpoint(p)
      PROVE  BackendType'
  BY <1>41, <1>t, FilesFacts, <1>c DEF RequestCheckpoint, SetRequestFlags, UnlinkForwarded,
    BackendType, Places, Operations
<1>42. ASSUME NEW p \in Proc, SignalCheckpointer(p)
      PROVE  BackendType'
  BY <1>42, <1>t, FilesFacts DEF SignalCheckpointer, BackendType, Places, Operations
<1>43. ASSUME NEW p \in Proc, TestStarted(p)
      PROVE  BackendType'
  BY <1>43, <1>t, FilesFacts, <1>c DEF TestStarted, BackendType, Places, Operations
<1>44. ASSUME NEW p \in Proc, TestDone(p)
      PROVE  BackendType'
  BY <1>44, <1>t, FilesFacts DEF TestDone, BackendType, Places, Operations
<1>45. ASSUME NEW p \in Proc, SleepEnds(p)
      PROVE  BackendType'
  BY <1>45, <1>t, FilesFacts DEF SleepEnds, BackendType, Places, Operations
<1>46. ASSUME NEW p \in Proc, RequestReturns(p)
      PROVE  BackendType'
  BY <1>46, <1>t, FilesFacts DEF RequestReturns, Return, BackendType, Places, Operations
<1>47. ASSUME NEW p \in Proc, SyncDirtySegmentError(p)
      PROVE  BackendType'
  BY <1>47, <1>t, FilesFacts DEF SyncDirtySegmentError, Return, BackendType, Places, Operations
<1> QED
  BY <1>1, <1>2, <1>3, <1>4, <1>5, <1>6, <1>7, <1>8, <1>9, <1>10, <1>11, <1>12, <1>13, <1>14,
    <1>15, <1>16, <1>17, <1>18, <1>19, <1>20, <1>21, <1>22, <1>23, <1>24, <1>25, <1>26, <1>27,
    <1>28, <1>29, <1>30, <1>31, <1>32, <1>33, <1>34, <1>35, <1>36, <1>37, <1>38, <1>39, <1>40,
    <1>41, <1>42, <1>43, <1>44, <1>45, <1>46, <1>47 DEF Next, CheckpointerStep,
    CheckpointerEvent, Call, Step

(* The files.                                                              *)
LEMMA FileTypeStep ==
  ASSUME TypeInv, Next
  PROVE  FileType'
<1> USE DEF ctlVars, cvVars, syncVars, loopVars, ckptVars, procVars, fileVars, histVars,
  backendVars, checkpointerVars, OthersUnchanged, SyncTablesUnchanged, RequestUnchanged, CGo,
  CJump, Go
<1>t. FileType
  BY TypeParts
<1>1. CASE StartCheckpointer
  BY <1>1, <1>t, FileTypeSame DEF StartCheckpointer
<1>2. CASE LoopResetLatch
  BY <1>2, <1>t, FileTypeSame DEF LoopResetLatch
<1>3. CASE LoopAbsorb
  BY <1>3, <1>t, FileTypeSame DEF LoopAbsorb
<1>4. CASE LoopTest
  BY <1>4, <1>t, FileTypeSame DEF LoopTest
<1>5. CASE BeginCheckpoint
  BY <1>5, <1>t, FileTypeSame DEF BeginCheckpoint
<1>6. CASE BroadcastStart
  BY <1>6, <1>t, FileTypeSame DEF BroadcastStart
<1>7. CASE EndCheckpoint
  BY <1>7, <1>t, FileTypeSame DEF EndCheckpoint
<1>8. CASE CheckpointError
  BY <1>8, <1>t, FileTypeSame DEF CheckpointError
<1>9. CASE BroadcastDone
  BY <1>9, <1>t, FileTypeSame DEF BroadcastDone
<1>10. CASE LoopRecheck
  BY <1>10, <1>t, FileTypeSame DEF LoopRecheck
<1>11. CASE WaitLatch
  BY <1>11, <1>t, FileTypeSame DEF WaitLatch
<1>12. CASE SyncPreCheckpoint
  BY <1>12, <1>t, FileTypeSame DEF SyncPreCheckpoint
<1>13. CASE SetRedo
  BY <1>13, <1>t, FilesFacts DEF SetRedo, FileType, Changes
<1>14. CASE BufferSyncMark
  BY <1>14, <1>t, FileTypeSame DEF BufferSyncMark
<1>15. CASE CheckpointWriteDelay
  BY <1>15, <1>t, FileTypeSame DEF CheckpointWriteDelay
<1>16. CASE Nap
  BY <1>16, <1>t, FileTypeSame DEF Nap
<1>17. ASSUME NEW f \in Files, SyncOneBuffer(f)
      PROVE  FileType'
  BY <1>17, <1>t, FilesFacts DEF SyncOneBuffer, FileType, Changes
<1>18. ASSUME NEW f \in Files, NextEntry(f)
      PROVE  FileType'
  BY <1>18, <1>t, FileTypeSame DEF NextEntry
<1>19. CASE ProcessSyncRequests
  BY <1>19, <1>t, FileTypeSame DEF ProcessSyncRequests
<1>20. CASE SyncCanceled
  BY <1>20, <1>t, FileTypeSame DEF SyncCanceled
<1>21. CASE SyncFile
  BY <1>21, <1>t, FilesFacts DEF SyncFile, FileType, Changes
<1>22. CASE SyncRetry
  BY <1>22, <1>t, FileTypeSame DEF SyncRetry
<1>23. CASE EndSync
  BY <1>23, <1>t, FileTypeSame DEF EndSync
<1>24. CASE WriteRecord
  BY <1>24, <1>t, FilesFacts DEF WriteRecord, FileType, Changes
<1>25. CASE SyncPostCheckpoint
  BY <1>25, <1>t, FilesFacts DEF SyncPostCheckpoint, FileType, Changes, UnlinkFiletag
<1>26. CASE EndPostCheckpoint
  BY <1>26, <1>t, FileTypeSame DEF EndPostCheckpoint
<1>27. CASE WriteError
  BY <1>27, <1>t, FileTypeSame DEF WriteError
<1>28. CASE SyncError
  BY <1>28, <1>t, FileTypeSame DEF SyncError
<1>29. CASE WaitLatchTimeout
  BY <1>29, <1>t, FileTypeSame DEF WaitLatchTimeout
<1>30. ASSUME NEW f \in Files, ModifyPage(f)
      PROVE  FileType'
  BY <1>30, <1>t, FilesFacts DEF ModifyPage, FileType, Changes
<1>31. ASSUME NEW p \in Proc, NEW f \in Files, FlushBuffer(p, f)
      PROVE  FileType'
  BY <1>31, <1>t, FilesFacts DEF FlushBuffer, Begin, FileType, Changes
<1>32. ASSUME NEW p \in Proc, NEW f \in Files, CreateFile(p, f)
      PROVE  FileType'
  BY <1>32, <1>t, FilesFacts DEF CreateFile, Begin, FileType, Changes
<1>33. ASSUME NEW p \in Proc, DropRelation(p)
      PROVE  FileType'
  BY <1>33, <1>t, FilesFacts DEF DropRelation, Begin, FileType, Changes, Dead
<1>34. ASSUME NEW p \in Proc, DropDatabase(p)
      PROVE  FileType'
  BY <1>34, <1>t, FilesFacts DEF DropDatabase, Begin, FileType, Changes, Dead
<1>35. ASSUME NEW p \in Proc, Checkpoint(p)
      PROVE  FileType'
  BY <1>35, <1>t, FileTypeSame DEF Checkpoint, SetRequestFlags, Begin
<1>36. ASSUME NEW p \in Proc, RegisterDirtySegment(p)
      PROVE  FileType'
  BY <1>36, <1>t, FileTypeSame DEF RegisterDirtySegment
<1>37. ASSUME NEW p \in Proc, SyncDirtySegment(p)
      PROVE  FileType'
  BY <1>37, <1>t, FilesFacts DEF SyncDirtySegment, FileType, Changes, BackendSync
<1>38. ASSUME NEW p \in Proc, TerminateBufferIO(p)
      PROVE  FileType'
  BY <1>38, <1>t, FilesFacts DEF TerminateBufferIO, FileType, Changes
<1>39. ASSUME NEW p \in Proc, RegisterSyncRequest(p)
      PROVE  FileType'
  BY <1>39, <1>t, FileTypeSame DEF RegisterSyncRequest
<1>40. ASSUME NEW p \in Proc, UnlinkFile(p)
      PROVE  FileType'
  BY <1>40, <1>t, FilesFacts DEF UnlinkFile, FileType, Changes
<1>41. ASSUME NEW p \in Proc, RequestCheckpoint(p)
      PROVE  FileType'
  BY <1>41, <1>t, FileTypeSame DEF RequestCheckpoint, SetRequestFlags
<1>42. ASSUME NEW p \in Proc, SignalCheckpointer(p)
      PROVE  FileType'
  BY <1>42, <1>t, FileTypeSame DEF SignalCheckpointer
<1>43. ASSUME NEW p \in Proc, TestStarted(p)
      PROVE  FileType'
  BY <1>43, <1>t, FileTypeSame DEF TestStarted
<1>44. ASSUME NEW p \in Proc, TestDone(p)
      PROVE  FileType'
  BY <1>44, <1>t, FileTypeSame DEF TestDone
<1>45. ASSUME NEW p \in Proc, SleepEnds(p)
      PROVE  FileType'
  BY <1>45, <1>t, FileTypeSame DEF SleepEnds
<1>46. ASSUME NEW p \in Proc, RequestReturns(p)
      PROVE  FileType'
  BY <1>46, <1>t, FilesFacts DEF RequestReturns, FileType, Changes
<1>47. ASSUME NEW p \in Proc, SyncDirtySegmentError(p)
      PROVE  FileType'
  BY <1>47, <1>t, FilesFacts DEF SyncDirtySegmentError, FileType, Changes
<1> QED
  BY <1>1, <1>2, <1>3, <1>4, <1>5, <1>6, <1>7, <1>8, <1>9, <1>10, <1>11, <1>12, <1>13, <1>14,
    <1>15, <1>16, <1>17, <1>18, <1>19, <1>20, <1>21, <1>22, <1>23, <1>24, <1>25, <1>26, <1>27,
    <1>28, <1>29, <1>30, <1>31, <1>32, <1>33, <1>34, <1>35, <1>36, <1>37, <1>38, <1>39, <1>40,
    <1>41, <1>42, <1>43, <1>44, <1>45, <1>46, <1>47 DEF Next, CheckpointerStep,
    CheckpointerEvent, Call, Step

(* Every variable keeps its type.                                          *)
LEMMA TypeStep ==
  ASSUME TypeInv, PlaceInv, Next
  PROVE  TypeInv'
<1>1. /\ ControlType' /\ TablesType' /\ CheckpointerType' /\ EntryType' /\ BackendType'
      /\ FileType'
  BY ControlTypeStep, TablesTypeStep, CheckpointerTypeStep, EntryTypeStep, BackendTypeStep,
     FileTypeStep
<1>2. (ControlType /\ TablesType /\ CheckpointerType /\ EntryType /\ BackendType /\ FileType
        => TypeInv)'
  BY TypeParts, PTL
<1> QED
  BY <1>1, <1>2

(* They do when nothing happens.                                           *)
LEMMA TypeSame ==
  ASSUME TypeInv, UNCHANGED vars
  PROVE  TypeInv'
BY DEF TypeInv, TypeOK, vars, ctlVars, cvVars, syncVars, loopVars, ckptVars, procVars, fileVars,
       histVars

-----------------------------------------------------------------------------
(***************************************************************************)
(* The files                                                               *)
(***************************************************************************)
LEMMA FileSame ==
  ASSUME FileInv, UNCHANGED <<fstate, buf, os, io, op, arg>>
  PROVE  FileInv'
BY DEF FileInv, LiveInv, IoInv, DropInv, Live

(* Nobody works on a file.                                                 *)
LEMMA UnusedFacts ==
  ASSUME PlaceInv, Unused, NEW q \in Proc
  PROVE  /\ op[q] \in {"none", "checkpoint"} /\ arg[q] = NoRequest
<1> USE RequestForms, FilesFacts
<1>1. arg[q].file \notin Files /\ op[q] # "dropdb"
  BY DEF Unused
<1>2. PlaceFactsAt(q)
  BY PlaceFacts
<1>3. op[q] \notin {"flush", "create", "drop"}
  BY <1>1, <1>2 DEF PlaceFactsAt
<1> QED
  BY <1>1, <1>2, <1>3 DEF PlaceFactsAt

(* A backend gets, keeps or drops a request.                               *)
Moves(p, o, a) ==
  /\ op'[p] = o /\ arg'[p] = a
  /\ \A q \in Proc : q # p => op'[q] = op[q] /\ arg'[q] = arg[q]

(* An operation begins: its backend was idle.                              *)
LEMMA BeginMoves ==
  ASSUME TypeInv, PlaceInv, NEW p \in Proc, NEW o, NEW to, NEW r, Begin(p, o, to, r)
  PROVE  Moves(p, o, r) /\ op[p] = "none"
BY PlaceFacts DEF TypeInv, Begin, Moves, PlaceFactsAt

(* An operation returns to idle.                                           *)
LEMMA ReturnMoves ==
  ASSUME TypeInv, NEW p \in Proc, Return(p)
  PROVE  Moves(p, "none", NoRequest)
BY DEF TypeInv, Return, Moves

(* After a sync request the buffer is still to be released, or the file is *)
(* created.                                                                *)
LEMMA RegisterMoves ==
  ASSUME TypeInv, PlaceInv, NEW p \in Proc, AfterRegister(p), pc[p] = "forward"
  PROVE  \/ op[p] = "flush" /\ UNCHANGED <<op, arg>>
         \/ op[p] = "create" /\ Moves(p, "none", NoRequest)
BY ReturnMoves, PlaceFacts DEF AfterRegister, PlaceFactsAt

(* The first of the unlink requests.                                       *)
LEMMA HeadFacts ==
  ASSUME TypeInv, pendingUnlinks # << >>
  PROVE  /\ Head(pendingUnlinks) = pendingUnlinks[1] /\ 1 \in DOMAIN pendingUnlinks
         /\ Head(pendingUnlinks) \in UnlinkEntry /\ Head(pendingUnlinks).file = FirstSegment
<1>1. pendingUnlinks \in Seq(UnlinkEntry)
  BY DEF TypeInv
<1>2. Head(pendingUnlinks) = pendingUnlinks[1] /\ 1 \in DOMAIN pendingUnlinks
  BY <1>1
<1>3. pendingUnlinks[1] \in UnlinkEntry
  BY <1>1, <1>2
<1> QED
  BY <1>2, <1>3 DEF UnlinkEntry

(* The files.                                                              *)
LEMMA FileStep ==
  ASSUME TypeInv, PlaceInv, FileInv, UnlinkInv, Next
  PROVE  FileInv'
<1> USE RequestForms, TypesDiffer DEF ctlVars, cvVars, syncVars, loopVars, ckptVars, procVars,
  fileVars, histVars, backendVars, checkpointerVars, OthersUnchanged, SyncTablesUnchanged,
  RequestUnchanged, CGo, CJump, Go
<1>t. FileType /\ BackendType
  BY TypeParts
<1>p. \A q \in Proc : PlaceFactsAt(q)
  BY PlaceFacts
<1>q. \A q \in Proc : /\ \A f : arg[q] = SyncR(f) => op[q] \in {"flush", "create"} /\ f \in Files
                      /\ \A f : arg[q] = ForgetR(f) => op[q] = "drop"
                      /\ arg[q] = UnlinkR => op[q] = "drop"
  BY <1>p DEF PlaceFactsAt
<1>1. CASE StartCheckpointer
  BY <1>1, FileSame DEF StartCheckpointer
<1>2. CASE LoopResetLatch
  BY <1>2, FileSame DEF LoopResetLatch
<1>3. CASE LoopAbsorb
  BY <1>3, FileSame DEF LoopAbsorb
<1>4. CASE LoopTest
  BY <1>4, FileSame DEF LoopTest
<1>5. CASE BeginCheckpoint
  BY <1>5, FileSame DEF BeginCheckpoint
<1>6. CASE BroadcastStart
  BY <1>6, FileSame DEF BroadcastStart
<1>7. CASE EndCheckpoint
  BY <1>7, FileSame DEF EndCheckpoint
<1>8. CASE CheckpointError
  BY <1>8, FileSame DEF CheckpointError
<1>9. CASE BroadcastDone
  BY <1>9, FileSame DEF BroadcastDone
<1>10. CASE LoopRecheck
  BY <1>10, FileSame DEF LoopRecheck
<1>11. CASE WaitLatch
  BY <1>11, FileSame DEF WaitLatch
<1>12. CASE SyncPreCheckpoint
  BY <1>12, FileSame DEF SyncPreCheckpoint
<1>13. CASE SetRedo
  BY <1>13, <1>t DEF SetRedo, FileInv, LiveInv, IoInv, DropInv, FileType, Live
<1>14. CASE BufferSyncMark
  BY <1>14, FileSame DEF BufferSyncMark
<1>15. CASE CheckpointWriteDelay
  BY <1>15, FileSame DEF CheckpointWriteDelay
<1>16. CASE Nap
  BY <1>16, FileSame DEF Nap
<1>17. ASSUME NEW f \in Files, SyncOneBuffer(f)
      PROVE  FileInv'
  BY <1>17, <1>t DEF SyncOneBuffer, FileInv, LiveInv, IoInv, DropInv, FileType, Live
<1>18. ASSUME NEW f \in Files, NextEntry(f)
      PROVE  FileInv'
  BY <1>18, FileSame DEF NextEntry
<1>19. CASE ProcessSyncRequests
  BY <1>19, FileSame DEF ProcessSyncRequests
<1>20. CASE SyncCanceled
  BY <1>20, FileSame DEF SyncCanceled
<1>21. CASE SyncFile
  BY <1>21, <1>t DEF SyncFile, FileInv, LiveInv, IoInv, DropInv, FileType, Live
<1>22. CASE SyncRetry
  BY <1>22, FileSame DEF SyncRetry
<1>23. CASE EndSync
  BY <1>23, FileSame DEF EndSync
<1>24. CASE WriteRecord
  BY <1>24, FileSame DEF WriteRecord
<1>25. CASE SyncPostCheckpoint
  <2>1. PICK e : e = Head(pendingUnlinks)
    OBVIOUS
  <2>2. e = pendingUnlinks[1] /\ 1 \in DOMAIN pendingUnlinks /\ e.file = FirstSegment
    BY <1>25, <2>1, HeadFacts DEF SyncPostCheckpoint
  <2>3. CASE e.canceled
    BY <1>25, <2>1, <2>3, FileSame DEF SyncPostCheckpoint
  <2>4. CASE ~e.canceled
    <3>1. UnlinkPending
      BY <2>2, <2>4 DEF UnlinkPending, Serves
    <3>2. fstate[FirstSegment] \in {"dropped", "invalid"} /\ \A p \in Proc : arg[p] # UnlinkR
      BY <3>1 DEF UnlinkInv
    <3>3. PICK s \in {"gone", "left"} : /\ fstate' = [fstate EXCEPT ![FirstSegment] = s]
                                       /\ os' = [os EXCEPT ![FirstSegment] = {}]
                                       /\ UNCHANGED <<buf, io, op, arg>>
      BY <1>25, <2>1, <2>2, <2>4 DEF SyncPostCheckpoint, UnlinkFiletag
    <3> QED
      BY <1>t, <3>2, <3>3, FilesFacts DEF FileInv, LiveInv, IoInv, DropInv, FileType, Live
  <2> QED
    BY <2>3, <2>4
<1>26. CASE EndPostCheckpoint
  BY <1>26, FileSame DEF EndPostCheckpoint
<1>27. CASE WriteError
  BY <1>27, FileSame DEF WriteError
<1>28. CASE SyncError
  BY <1>28, FileSame DEF SyncError
<1>29. CASE WaitLatchTimeout
  BY <1>29, FileSame DEF WaitLatchTimeout
<1>30. ASSUME NEW f \in Files, ModifyPage(f)
      PROVE  FileInv'
  BY <1>30, <1>t DEF ModifyPage, FileInv, LiveInv, IoInv, DropInv, FileType, Live
<1>31. ASSUME NEW p \in Proc, NEW f \in Files, FlushBuffer(p, f)
      PROVE  FileInv'
  <2>1. Moves(p, "flush", SyncR(f)) /\ op[p] = "none"
    <3>1. Begin(p, "flush", "forward", SyncR(f))
      BY <1>31 DEF FlushBuffer, SyncR
    <3> QED
      BY <3>1, BeginMoves
  <2>2. /\ buf[f] # {} /\ io[f] = NoProc
        /\ os' = [os EXCEPT ![f] = @ \cup buf[f]]
        /\ io' = [io EXCEPT ![f] = p]
        /\ UNCHANGED <<fstate, buf>>
    BY <1>31 DEF FlushBuffer
  <2>3. LiveInv'
    BY <1>t, <1>q, <2>1, <2>2, FilesFacts DEF FileInv, LiveInv, FileType, Live, Moves
  <2>4. IoInv'
    BY <1>t, <1>q, <2>1, <2>2, FilesFacts DEF FileInv, IoInv, FileType, Live, Moves
  <2>5. DropInv'
    BY <1>q, <2>1, <2>2 DEF FileInv, DropInv, Live, Moves
  <2> QED
    BY <2>3, <2>4, <2>5 DEF FileInv
<1>32. ASSUME NEW p \in Proc, NEW f \in Files, CreateFile(p, f)
      PROVE  FileInv'
  <2>1. Moves(p, "create", SyncR(f)) /\ op[p] = "none"
    <3>1. Begin(p, "create", "forward", SyncR(f))
      BY <1>32 DEF CreateFile, SyncR
    <3> QED
      BY <3>1, BeginMoves
  <2>2. /\ fstate[f] = "gone" /\ fstate' = [fstate EXCEPT ![f] = "live"]
        /\ IF f = FirstSegment THEN \A q \in Proc : op[q] \notin {"drop", "dropdb"} ELSE Live(FirstSegment)
        /\ UNCHANGED <<buf, os, io>>
    BY <1>32 DEF CreateFile
  <2>3. \A q \in Proc : op[q] \notin {"drop", "dropdb"}
    BY <2>2 DEF FileInv, LiveInv, IoInv, DropInv
  <2>4. \A g \in Files : fstate'[g] = IF g = f THEN "live" ELSE fstate[g]
    BY <1>t, <2>2 DEF FileType
  <2>5. Live(FirstSegment)' /\ Live(f)' /\ \A g \in Files : Live(g) => Live(g)'
    BY <2>2, <2>4, FilesFacts DEF Live
  <2>6. LiveInv'
    BY <2>1, <2>2, <2>5 DEF FileInv, LiveInv, Moves
  <2>7. IoInv'
    BY <1>t, <1>q, <2>1, <2>2, <2>3 DEF FileInv, IoInv, FileType, Moves
  <2>8. \A q \in Proc : op'[q] \notin {"drop", "dropdb"} /\ arg'[q] # UnlinkR /\ \A g : arg'[q] # ForgetR(g)
    BY <1>q, <2>1, <2>3 DEF Moves
  <2>9. DropInv'
    BY <2>8 DEF DropInv
  <2> QED
    BY <2>6, <2>7, <2>9 DEF FileInv
<1>33. ASSUME NEW p \in Proc, DropRelation(p)
      PROVE  FileInv'
  <2>1. Moves(p, "drop", UnlinkR) /\ op[p] = "none"
    <3>1. Begin(p, "drop", "register", UnlinkR)
      BY <1>33 DEF DropRelation, UnlinkR
    <3> QED
      BY <3>1, BeginMoves
  <2>2. /\ fstate[FirstSegment] = "live" /\ UNCHANGED io
        /\ fstate' = [f \in Files |-> IF fstate[f] = "gone" THEN "gone" ELSE "dropped"]
        /\ buf' = [f \in Files |-> {}] /\ os' = [f \in Files |-> {}]
    BY <1>33 DEF DropRelation, Dead, Live
  <2>3. \A q \in Proc : op[q] \in {"none", "checkpoint"} /\ arg[q] = NoRequest
    BY <1>33, UnusedFacts DEF DropRelation
  <2>4. LiveInv'
    BY <1>t, <2>1, <2>2, <2>3, FilesFacts DEF FileInv, LiveInv, FileType, Live, Moves
  <2>5. IoInv'
    BY <1>t, <2>1, <2>2, <2>3, FilesFacts DEF FileInv, IoInv, FileType, Live, Moves
  <2>6. DropInv'
    BY <1>t, <2>1, <2>2, <2>3, FilesFacts DEF FileInv, LiveInv, DropInv, FileType, Live, Moves
  <2> QED
    BY <2>4, <2>5, <2>6 DEF FileInv
<1>34. ASSUME NEW p \in Proc, DropDatabase(p)
      PROVE  FileInv'
  <2>1. Moves(p, "dropdb", FilterR) /\ op[p] = "none"
    <3>1. Begin(p, "dropdb", "register", FilterR)
      BY <1>34 DEF DropDatabase, FilterR
    <3> QED
      BY <3>1, BeginMoves
  <2>2. /\ fstate[FirstSegment] # "gone" /\ UNCHANGED io
        /\ fstate' = [f \in Files |-> IF fstate[f] = "gone" THEN "gone" ELSE "invalid"]
        /\ buf' = [f \in Files |-> {}] /\ os' = [f \in Files |-> {}]
    BY <1>34 DEF DropDatabase, Dead, Live
  <2>3. \A q \in Proc : op[q] \in {"none", "checkpoint"} /\ arg[q] = NoRequest
    BY <1>34, UnusedFacts DEF DropDatabase
  <2>4. LiveInv'
    BY <1>t, <2>1, <2>2, <2>3, FilesFacts DEF FileInv, LiveInv, FileType, Live, Moves
  <2>5. IoInv'
    BY <1>t, <2>1, <2>2, <2>3, FilesFacts DEF FileInv, IoInv, FileType, Live, Moves
  <2>6. DropInv'
    BY <1>t, <2>1, <2>2, <2>3, FilesFacts DEF FileInv, LiveInv, DropInv, FileType, Live, Moves
  <2> QED
    BY <2>4, <2>5, <2>6 DEF FileInv
<1>35. ASSUME NEW p \in Proc, Checkpoint(p)
      PROVE  FileInv'
  <2>1. Moves(p, "checkpoint", NoRequest) /\ op[p] = "none"
    <3>1. Begin(p, "checkpoint", "signal", NoRequest)
      BY <1>35 DEF Checkpoint
    <3> QED
      BY <3>1, BeginMoves
  <2>2. UNCHANGED <<fstate, buf, os, io>>
    BY <1>35 DEF Checkpoint, SetRequestFlags
  <2> QED
    BY <1>t, <1>q, <2>1, <2>2 DEF FileInv, LiveInv, IoInv, DropInv, Live, Moves
<1>36. ASSUME NEW p \in Proc, RegisterDirtySegment(p)
      PROVE  FileInv'
  <2>1. AfterRegister(p) /\ pc[p] = "forward" /\ UNCHANGED <<fstate, buf, os, io>>
    BY <1>36 DEF RegisterDirtySegment
  <2>2. CASE UNCHANGED <<op, arg>>
    BY <2>1, <2>2, FileSame
  <2>3. CASE op[p] = "create" /\ Moves(p, "none", NoRequest)
    BY <1>t, <1>q, <2>1, <2>3 DEF FileInv, LiveInv, IoInv, DropInv, Live, Moves
  <2> QED
    BY <2>1, <2>2, <2>3, RegisterMoves
<1>37. ASSUME NEW p \in Proc, SyncDirtySegment(p)
      PROVE  FileInv'
  <2>1. /\ AfterRegister(p) /\ pc[p] = "forward" /\ UNCHANGED <<fstate, buf, io>>
        /\ os' = [os EXCEPT ![arg[p].file] = {}]
    BY <1>37 DEF SyncDirtySegment, BackendSync
  <2>2. CASE UNCHANGED <<op, arg>>
    BY <1>t, <2>1, <2>2 DEF FileInv, LiveInv, IoInv, DropInv, FileType, Live
  <2>3. CASE op[p] = "create" /\ Moves(p, "none", NoRequest)
    <3>1. LiveInv'
      BY <1>t, <1>q, <2>1, <2>3 DEF FileInv, LiveInv, FileType, Live, Moves
    <3>2. IoInv'
      BY <1>t, <1>q, <2>1, <2>3 DEF FileInv, IoInv, Moves
    <3>3. DropInv'
      BY <1>t, <1>q, <2>1, <2>3 DEF FileInv, DropInv, Live, Moves
    <3> QED
      BY <3>1, <3>2, <3>3 DEF FileInv
  <2> QED
    BY <2>1, <2>2, <2>3, RegisterMoves
<1>38. ASSUME NEW p \in Proc, TerminateBufferIO(p)
      PROVE  FileInv'
  <2>1. PICK f \in Files : arg[p] = SyncR(f)
    BY <1>38, <1>p DEF TerminateBufferIO, PlaceFactsAt
  <2>2. /\ op[p] = "flush" /\ buf' = [buf EXCEPT ![f] = {}] /\ io' = [io EXCEPT ![f] = NoProc] /\ UNCHANGED <<fstate, os>>
    BY <1>38, <1>p, <2>1 DEF TerminateBufferIO, PlaceFactsAt
  <2>3. Moves(p, "none", NoRequest)
    BY <1>38, ReturnMoves DEF TerminateBufferIO
  <2>4. LiveInv'
    BY <1>t, <1>q, <2>1, <2>2, <2>3, FilesFacts DEF FileInv, LiveInv, FileType, Live, Moves
  <2>5. IoInv'
    BY <1>t, <1>q, <2>1, <2>2, <2>3, FilesFacts DEF FileInv, IoInv, FileType, Live, Moves
  <2>6. DropInv'
    BY <1>q, <2>2, <2>3 DEF FileInv, DropInv, Live, Moves
  <2> QED
    BY <2>4, <2>5, <2>6 DEF FileInv
<1>39. ASSUME NEW p \in Proc, RegisterSyncRequest(p)
      PROVE  FileInv'
  <2>1. UNCHANGED <<fstate, buf, os, io>>
    BY <1>39 DEF RegisterSyncRequest
  <2>2. CASE NextSegment(p)
    <3>1. /\ \A q \in Proc : q # p => op'[q] = op[q] /\ arg'[q] = arg[q]
          /\ GoesOn(p)
      BY <2>2, NextSegmentFacts
    <3>2. op[p] \in {"drop", "dropdb"}
      BY <1>39, <1>p DEF RegisterSyncRequest, PlaceFactsAt
    <3> QED
      BY <1>t, <1>q, <2>1, <3>1, <3>2, FilesFacts DEF FileInv, LiveInv, IoInv, DropInv, Live,
         GoesOn
  <2>3. CASE UNCHANGED <<op, arg>>
    BY <2>1, <2>3, FileSame
  <2>4. arg[p].type \in {UNLINK, FORGET, FILTER}
    BY <1>39, <1>p DEF RegisterSyncRequest, PlaceFactsAt
  <2> QED
    BY <1>39, <2>2, <2>3, <2>4 DEF RegisterSyncRequest
<1>40. ASSUME NEW p \in Proc, UnlinkFile(p)
      PROVE  FileInv'
  <2>1. PICK f \in Segments : arg[p] = ForgetR(f)
    BY <1>40, <1>p DEF UnlinkFile, PlaceFactsAt
  <2>2. op[p] = "drop" /\ NextSegment(p) /\ UNCHANGED <<buf, os, io>>
    BY <1>40, <1>p, <2>1 DEF UnlinkFile, PlaceFactsAt
  <2>3. /\ \A q \in Proc : q # p => op'[q] = op[q] /\ arg'[q] = arg[q]
        /\ GoesOn(p)
    BY <2>2, NextSegmentFacts
  <2>4. fstate[f] = "dropped"
    BY <2>1, FilesFacts DEF FileInv, DropInv
  <2>5. \A g \in Files : Live(g)' <=> Live(g)
    <3>1. CASE fstate' = [fstate EXCEPT ![f] = "gone"]
      BY <1>t, <2>4, <3>1 DEF FileType, Live
    <3>2. CASE fstate' = [g \in Files |-> IF g \in Segments /\ fstate[g] = "dropped" THEN "left"
                                         ELSE fstate[g]]
      BY <1>t, <3>2 DEF FileType, Live
    <3> QED
      BY <1>40, <2>1, <3>1, <3>2 DEF UnlinkFile
  <2>6. LiveInv'
    BY <2>2, <2>3, <2>5, FilesFacts DEF FileInv, LiveInv, GoesOn
  <2>7. IoInv'
    BY <2>1, <2>2, <2>3 DEF FileInv, IoInv, GoesOn
  <2>8. /\ ~Live(FirstSegment)'
        /\ \A q \in Proc : q # p => op'[q] \notin {"drop", "dropdb"} /\ arg'[q] # UnlinkR /\ \A g : arg'[q] # ForgetR(g)
    BY <1>q, <2>2, <2>3, <2>5, FilesFacts DEF FileInv, DropInv
  <2>9. DropInv'
    BY <2>2, <2>3, <2>8 DEF DropInv, GoesOn
  <2> QED
    BY <2>6, <2>7, <2>9 DEF FileInv
<1>41. ASSUME NEW p \in Proc, RequestCheckpoint(p)
      PROVE  FileInv'
  BY <1>41, FileSame DEF RequestCheckpoint, SetRequestFlags
<1>42. ASSUME NEW p \in Proc, SignalCheckpointer(p)
      PROVE  FileInv'
  BY <1>42, FileSame DEF SignalCheckpointer
<1>43. ASSUME NEW p \in Proc, TestStarted(p)
      PROVE  FileInv'
  BY <1>43, FileSame DEF TestStarted
<1>44. ASSUME NEW p \in Proc, TestDone(p)
      PROVE  FileInv'
  BY <1>44, FileSame DEF TestDone
<1>45. ASSUME NEW p \in Proc, SleepEnds(p)
      PROVE  FileInv'
  BY <1>45, FileSame DEF SleepEnds
<1>46. ASSUME NEW p \in Proc, RequestReturns(p)
      PROVE  FileInv'
  <2>1. op[p] \in {"checkpoint", "dropdb"}
    BY <1>46, <1>p DEF RequestReturns, PlaceFactsAt, Waiting
  <2>2. Moves(p, "none", NoRequest) /\ UNCHANGED <<buf, os, io>>
    BY <1>46, ReturnMoves DEF RequestReturns
  <2>3. CASE op[p] = "dropdb" /\ fstate' = [f \in Files |-> "gone"]
    <3>0. \A f \in Files : fstate'[f] = "gone" /\ ~Live(f) /\ ~Live(f)'
      BY <2>3 DEF FileInv, DropInv, Live
    <3>1. LiveInv'
      BY <1>t, <1>q, <2>2, <3>0, FilesFacts DEF FileInv, LiveInv, Moves
    <3>2. IoInv'
      BY <1>t, <1>q, <2>2, <2>3 DEF FileInv, IoInv, Moves
    <3>3. DropInv'
      <4>1. \A q \in Proc : q # p => op[q] \notin {"drop", "dropdb"}
        BY <2>3 DEF FileInv, DropInv
      <4>2. \A q \in Proc : op'[q] \notin {"drop", "dropdb"} /\ arg'[q] # UnlinkR /\ \A f : arg'[q] # ForgetR(f)
        BY <1>q, <2>2, <4>1 DEF Moves
      <4> QED
        BY <4>2 DEF DropInv
    <3> QED
      BY <3>1, <3>2, <3>3 DEF FileInv
  <2>4. CASE UNCHANGED fstate
    <3>1. LiveInv'
      BY <1>t, <1>q, <2>1, <2>2, <2>4 DEF FileInv, LiveInv, Live, Moves
    <3>2. IoInv'
      BY <1>t, <1>q, <2>1, <2>2, <2>4 DEF FileInv, IoInv, Moves
    <3>3. DropInv'
      BY <1>t, <1>q, <2>1, <2>2, <2>4 DEF FileInv, DropInv, Live, Moves
    <3> QED
      BY <3>1, <3>2, <3>3 DEF FileInv
  <2> QED
    BY <1>46, <2>3, <2>4 DEF RequestReturns
<1>47. ASSUME NEW p \in Proc, SyncDirtySegmentError(p)
      PROVE  FileInv'
  <2>1. PICK f \in Files : arg[p] = SyncR(f)
    BY <1>47, <1>p DEF SyncDirtySegmentError, PlaceFactsAt
  <2>2. /\ op[p] = "flush" /\ UNCHANGED buf /\ io' = [io EXCEPT ![f] = NoProc] /\ UNCHANGED <<fstate, os>>
    BY <1>47, <1>p, <2>1 DEF SyncDirtySegmentError, PlaceFactsAt
  <2>3. Moves(p, "none", NoRequest)
    BY <1>47, ReturnMoves DEF SyncDirtySegmentError
  <2>4. LiveInv'
    BY <1>t, <1>q, <2>1, <2>2, <2>3, FilesFacts DEF FileInv, LiveInv, FileType, Live, Moves
  <2>5. IoInv'
    BY <1>t, <1>q, <2>1, <2>2, <2>3, FilesFacts DEF FileInv, IoInv, FileType, Live, Moves
  <2>6. DropInv'
    BY <1>q, <2>2, <2>3 DEF FileInv, DropInv, Live, Moves
  <2> QED
    BY <2>4, <2>5, <2>6 DEF FileInv
<1> QED
  BY <1>1, <1>2, <1>3, <1>4, <1>5, <1>6, <1>7, <1>8, <1>9, <1>10, <1>11, <1>12, <1>13, <1>14,
    <1>15, <1>16, <1>17, <1>18, <1>19, <1>20, <1>21, <1>22, <1>23, <1>24, <1>25, <1>26, <1>27,
    <1>28, <1>29, <1>30, <1>31, <1>32, <1>33, <1>34, <1>35, <1>36, <1>37, <1>38, <1>39, <1>40,
    <1>41, <1>42, <1>43, <1>44, <1>45, <1>46, <1>47 DEF Next, CheckpointerStep,
    CheckpointerEvent, Call, Step

-----------------------------------------------------------------------------
(***************************************************************************)
(* Steps of backends                                                       *)
(***************************************************************************)
OthersStay(p) == \A q \in Proc : q # p => pc'[q] = pc[q] /\ op'[q] = op[q] /\ arg'[q] = arg[q]

(* Backend p gets to place `to' with request a.                            *)
Goes(p, o, to, a) == op'[p] = o /\ pc'[p] = to /\ arg'[p] = a /\ OthersStay(p)

(* It was idle.                                                            *)
Idle(p) == pc[p] = "idle" /\ op[p] = "none" /\ arg[p] = NoRequest

(* An operation begins, with where its backend is now.                     *)
LEMMA BeginGoes ==
  ASSUME TypeInv, PlaceInv, NEW p \in Proc, NEW o, NEW to, NEW r, Begin(p, o, to, r)
  PROVE  Goes(p, o, to, r) /\ Idle(p)
BY PlaceFacts DEF TypeInv, Begin, Go, Goes, OthersStay, Idle, PlaceFactsAt

(* An operation returns, with where its backend is now.                    *)
LEMMA ReturnGoes ==
  ASSUME TypeInv, NEW p \in Proc, Return(p)
  PROVE  Goes(p, "none", "idle", NoRequest)
BY DEF TypeInv, Return, Go, Goes, OthersStay

(* register_dirty_segment returns.                                         *)
Registered(p, f) ==
  /\ arg[p] = SyncR(f) /\ pc[p] = "forward"
  /\ \/ op[p] = "flush" /\ Goes(p, "flush", "clear", SyncR(f))
     \/ op[p] = "create" /\ Goes(p, "none", "idle", NoRequest)

(* After a sync request, with where its backend is now.                    *)
LEMMA RegisterGoes ==
  ASSUME TypeInv, PlaceInv, NEW p \in Proc, AfterRegister(p), pc[p] = "forward"
  PROVE  \E f \in Files : Registered(p, f)
<1>1. op[p] \in {"flush", "create"} /\ \E f \in Files : arg[p] = SyncR(f)
  BY PlaceFacts DEF PlaceFactsAt
<1>2. PICK f \in Files : arg[p] = SyncR(f)
  BY <1>1
<1>3. CASE op[p] = "flush"
  BY <1>2, <1>3 DEF AfterRegister, TypeInv, Go, Goes, OthersStay, Registered
<1>4. CASE op[p] = "create"
  BY <1>2, <1>4, ReturnGoes DEF AfterRegister, Registered
<1> QED
  BY <1>1, <1>3, <1>4

(* The three requests that are registered with retryOnError.               *)
RegisteredUnlink(p) == arg[p] = UnlinkR /\ op[p] = "drop" /\ GoesOn(p) /\ OthersStay(p)
RegisteredForget(p, f) == arg[p] = ForgetR(f) /\ op[p] = "drop" /\ Goes(p, "drop", "unlink", ForgetR(f))
RegisteredFilter(p) == arg[p] = FilterR /\ op[p] = "dropdb" /\ Goes(p, "dropdb", "request", FilterR)

(* RegisterSyncRequest is called for a first segment, a database or        *)
(* another segment.                                                        *)
LEMMA SyncRequestGoes ==
  ASSUME TypeInv, PlaceInv, NEW p \in Proc, RegisterSyncRequest(p)
  PROVE  /\ pc[p] = "register"
         /\ RegisteredUnlink(p) \/ RegisteredFilter(p) \/ \E f \in Segments : RegisteredForget(p, f)
<1> USE RequestForms, TypesDiffer
<1>1. /\ pc[p] = "register" /\ op[p] \in {"drop", "dropdb"}
      /\ op[p] = "dropdb" => arg[p] = FilterR
      /\ op[p] = "drop" => arg[p] = UnlinkR \/ \E f \in Segments : arg[p] = ForgetR(f)
  BY PlaceFacts DEF PlaceFactsAt, RegisterSyncRequest
<1>2. CASE op[p] = "dropdb"
  <2>1. Go(p, "request") /\ UNCHANGED <<op, arg>>
    BY <1>1, <1>2 DEF RegisterSyncRequest
  <2> QED
    BY <1>1, <1>2, <2>1 DEF TypeInv, Go, Goes, OthersStay, RegisteredFilter
<1>3. CASE arg[p] = UnlinkR /\ op[p] = "drop"
  <2>1. NextSegment(p)
    BY <1>3 DEF RegisterSyncRequest
  <2> QED
    BY <1>1, <1>3, <2>1, NextSegmentFacts DEF RegisteredUnlink, OthersStay
<1>4. ASSUME NEW f \in Segments, arg[p] = ForgetR(f), op[p] = "drop"
      PROVE  RegisteredForget(p, f)
  <2>0. arg[p].type = FORGET
    BY <1>4
  <2>1. Go(p, "unlink") /\ UNCHANGED <<op, arg>>
    BY <2>0 DEF RegisterSyncRequest
  <2> QED
    BY <1>4, <2>1 DEF TypeInv, Go, Goes, OthersStay, RegisteredForget
<1> QED
  BY <1>1, <1>2, <1>3, <1>4

(* Both forward their request.                                             *)
LEMMA RegisterForwards ==
  ASSUME TypeInv, PlaceInv, NEW p \in Proc, RegisterDirtySegment(p) \/ RegisterSyncRequest(p)
  PROVE  arg[p] \in RequestsMade /\ Forwards(arg[p])
<1>1. arg[p] \in RequestsMade
  <2>1. /\ pc[p] \in {"forward", "register"} /\ op[p] \in {"flush", "create", "drop", "dropdb"}
        /\ op[p] \in {"flush", "create"} => \E f \in Files : arg[p] = SyncR(f)
        /\ op[p] = "drop" => arg[p] = UnlinkR \/ \E f \in Segments : arg[p] = ForgetR(f)
        /\ op[p] = "dropdb" => arg[p] = FilterR
    BY PlaceFacts DEF RegisterDirtySegment, RegisterSyncRequest, PlaceFactsAt
  <2> QED
    BY <2>1, FilesFacts DEF RequestsMade
<1>2. PICK x \in RequestsMade : x = arg[p]
  BY <1>1
<1>3. ForwardSyncRequest(x) /\ UNCHANGED <<pendingOps, pendingUnlinks, checkpoint_cycle_ctr>>
  BY <1>2 DEF RegisterDirtySegment, RegisterSyncRequest, checkpointerVars, syncVars
<1>4. Forwards(x)
  BY <1>3, ForwardView
<1> QED
  BY <1>2, <1>4

(* The end of a flush.                                                     *)
Flushed(p, f) == arg[p] = SyncR(f) /\ op[p] = "flush" /\ Goes(p, "none", "idle", NoRequest)

(* FlushBuffer ends, with success or with an error: its backend leaves the *)
(* buffer's I/O.                                                           *)
LEMMA FlushGoes ==
  ASSUME TypeInv, PlaceInv, NEW p \in Proc, TerminateBufferIO(p) \/ SyncDirtySegmentError(p)
  PROVE  \E f \in Files : Flushed(p, f)
<1>1. op[p] = "flush" /\ \E f \in Files : arg[p] = SyncR(f)
  BY PlaceFacts DEF PlaceFactsAt, TerminateBufferIO, SyncDirtySegmentError
<1>2. Goes(p, "none", "idle", NoRequest)
  BY ReturnGoes DEF TerminateBufferIO, SyncDirtySegmentError
<1> QED
  BY <1>1, <1>2 DEF Flushed

(* A step of mdunlinkfork: f is gone, or the segments are left.            *)
UnlinkTried(f, g) ==
  /\ g \in Segments /\ fstate[g] = "dropped"
  /\ fstate'[g] = "left" \/ (fstate'[g] = "gone" /\ g = f)

Unlinks(p, f) ==
  /\ arg[p] = ForgetR(f) /\ op[p] = "drop" /\ pc[p] = "unlink"
  /\ fstate[f] = "dropped" /\ \A g \in Files : fstate'[g] = fstate[g] \/ UnlinkTried(f, g)
  /\ GoesOn(p) /\ OthersStay(p)

(* mdunlinkfork removes a segment after its cancel was queued.             *)
LEMMA UnlinkGoes ==
  ASSUME TypeInv, PlaceInv, FileInv, NEW p \in Proc, UnlinkFile(p)
  PROVE  \E f \in Segments : Unlinks(p, f)
<1>1. PICK f \in Segments : arg[p] = ForgetR(f)
  BY PlaceFacts DEF PlaceFactsAt, UnlinkFile
<1>2. op[p] = "drop" /\ pc[p] = "unlink" /\ NextSegment(p)
  BY PlaceFacts DEF PlaceFactsAt, UnlinkFile
<1>3. GoesOn(p) /\ OthersStay(p)
  BY <1>2, NextSegmentFacts DEF OthersStay
<1>4. fstate[f] = "dropped" /\ fstate \in [Files -> {"live", "dropped", "invalid", "gone", "left"}]
  BY <1>1 DEF FileInv, DropInv, TypeInv, TypeOK
<1>5. \A g \in Files : fstate'[g] = fstate[g] \/ UnlinkTried(f, g)
  <2>1. CASE fstate' = [fstate EXCEPT ![f] = "gone"]
    BY <1>4, <2>1 DEF UnlinkTried
  <2>2. CASE fstate' = [g \in Files |-> IF g \in Segments /\ fstate[g] = "dropped" THEN "left"
                                       ELSE fstate[g]]
    BY <1>4, <2>2 DEF UnlinkTried
  <2> QED
    BY <1>1, <2>1, <2>2, RequestForms DEF UnlinkFile
<1> QED
  BY <1>1, <1>2, <1>3, <1>4, <1>5 DEF Unlinks

(* Nobody is about to ask for the first segment to be unlinked.            *)
NoUnlinker == \A p \in Proc : arg[p] # UnlinkR

(* A step of p that asks for no unlink and did not ask for one.            *)
LEMMA SameUnlinker ==
  ASSUME NEW p \in Proc, OthersStay(p), arg[p] # UnlinkR, arg'[p] # UnlinkR
  PROVE  NoUnlinker' <=> NoUnlinker
BY DEF NoUnlinker, OthersStay

(* A successful DROP DATABASE has emptied the queue.                       *)
LEMMA WaitOver ==
  ASSUME TypeInv, CounterInv, NEW p \in Proc, pc[p] = "success" \/ pc[p] = "failed"
  PROVE  Absorbs(p)
<1>1. AskedAt(p)
  BY DEF CounterInv
<1> QED
  BY <1>1 DEF AskedAt, Absorbs, Waiting, TypeInv

(* Of an empty queue.                                                      *)
LEMMA NothingQueued ==
  ASSUME requests = << >>
  PROVE  ~LastUnlink /\ \A r : ~Queued(r)
BY DEF LastUnlink, Queued, After, AfterIn

(* The checkpointer remembers its own sync request.                        *)
Owns(f) ==
  /\ DOMAIN pendingOps' = DOMAIN pendingOps \cup {f}
  /\ \A g \in DOMAIN pendingOps : g # f => pendingOps'[g] = pendingOps[g]
  /\ ~pendingOps'[f].canceled
  /\ pendingOps'[f] = IF Pending(f) THEN pendingOps[f] ELSE NewEntry

(* SyncOneBuffer puts the checkpointer's own sync request into the table,  *)
(* past the queue.                                                         *)
LEMMA OwnFacts ==
  ASSUME TypeInv, NEW f \in Files, SyncOneBuffer(f), buf[f] # {}
  PROVE  Owns(f)
<1> USE RequestForms
<1>1. PICK t : t = [ops |-> pendingOps, unlinks |-> pendingUnlinks]
  OBVIOUS
<1>2. PICK x \in RequestsMade : x = SyncR(f)
  BY DEF RequestsMade
<1>3. PICK t2 : t2 = Remember(t, x)
  OBVIOUS
<1>4. Remembers(pendingOps, pendingUnlinks, x, t2)
  BY <1>1, <1>2, <1>3, RememberForms
<1>5. RememberedOps(pendingOps, x, pendingOps')
  <2>1. pendingOps' = t2.ops
    BY <1>1, <1>2, <1>3 DEF SyncOneBuffer, SyncR
  <2> QED
    BY <1>4, <2>1 DEF Remembers
<1>6. \/ Pending(f) /\ pendingOps' = pendingOps
      \/ /\ ~Pending(f)
         /\ DOMAIN pendingOps' = DOMAIN pendingOps \cup {f} /\ pendingOps'[f] = NewEntry
         /\ \A g \in DOMAIN pendingOps : g # f => pendingOps'[g] = pendingOps[g]
  <2>1. \A g : /\ x # ForgetR(g) /\ x # FilterR /\ x # UnlinkR
               /\ x = SyncR(g) => g = f
    BY <1>2
  <2> QED
    BY <1>5, <2>1 DEF RememberedOps, Pending
<1>7. CASE Pending(f)
  <2>1. pendingOps' = pendingOps
    BY <1>6, <1>7
  <2> QED
    BY <1>7, <2>1 DEF Owns, Pending
<1>8. CASE ~Pending(f)
  <2>1. /\ DOMAIN pendingOps' = DOMAIN pendingOps \cup {f} /\ pendingOps'[f] = NewEntry
        /\ \A g \in DOMAIN pendingOps : g # f => pendingOps'[g] = pendingOps[g]
    BY <1>6, <1>8
  <2> QED
    BY <1>8, <2>1 DEF Owns, NewEntry
<1> QED
  BY <1>7, <1>8

(* One entry of SyncPostCheckpoint: it was cancelled, or it is served.     *)
PostedCanceled ==
  /\ UNCHANGED <<fstate, os, requests, pendingOps>>
  /\ UnlinkPending' <=> UnlinkPending
  /\ DuePending' <=> DuePending
  /\ UniqueServing'

PostedDue ==
  /\ DuePending /\ UnlinkPending /\ ~Queued(UnlinkR) /\ NoUnlinker
  /\ fstate[FirstSegment] \in {"dropped", "invalid"}
  /\ fstate'[FirstSegment] \in {"gone", "left"}
  /\ \A f \in Files : /\ f # FirstSegment => fstate'[f] = fstate[f]
                      /\ os'[f] = IF f = FirstSegment THEN {} ELSE os[f]
  /\ \/ UNCHANGED <<requests, pendingOps>>
     \/ requests' = << >> /\ pendingOps' = Absorbed.ops
  /\ ~UnlinkPending' /\ ~DuePending' /\ UniqueServing'

(* SyncPostCheckpoint drops a cancelled entry or unlinks the file of one   *)
(* that is due.                                                            *)
LEMMA PostFacts ==
  ASSUME TypeInv, UnlinkInv, SyncPostCheckpoint
  PROVE  PostedCanceled \/ PostedDue
<1>1. PICK e : e = Head(pendingUnlinks)
  OBVIOUS
<1>2. /\ pendingUnlinks \in Seq(UnlinkEntry) /\ pendingUnlinks # << >>
      /\ e = pendingUnlinks[1] /\ 1 \in DOMAIN pendingUnlinks /\ e.file = FirstSegment
  BY <1>1, HeadFacts DEF SyncPostCheckpoint, TypeInv
<1>3. PICK m \in Nat : m = Len(pendingUnlinks)
  BY <1>2
<1>4. DOMAIN pendingUnlinks = 1 .. m /\ m >= 1
  BY <1>2, <1>3
<1>5. UniqueServing /\ UniqueUnlink(requests) /\ ~(Queued(UnlinkR) /\ UnlinkPending)
  BY DEF UnlinkInv, UniqueServing
<1>6. checkpoint_cycle_ctr' = checkpoint_cycle_ctr
  BY DEF SyncPostCheckpoint, SyncTablesUnchanged
<1>7. CASE e.canceled
  <2>1. pendingUnlinks' = Tail(pendingUnlinks) /\ UNCHANGED <<requests, pendingOps, fstate, os>>
    BY <1>1, <1>7 DEF SyncPostCheckpoint
  <2>2. /\ DOMAIN pendingUnlinks' = 1 .. m - 1
        /\ \A i \in 1 .. m - 1 : pendingUnlinks'[i] = pendingUnlinks[i + 1]
    BY <1>2, <1>3, <2>1
  <2>3. ~Serves(pendingUnlinks[1])
    BY <1>2, <1>7 DEF Serves
  <2>4. /\ \A i \in 1 .. m - 1 : i + 1 \in 1 .. m
        /\ \A i \in 1 .. m : i # 1 => i - 1 \in 1 .. m - 1 /\ pendingUnlinks'[i - 1] = pendingUnlinks[i]
    BY <1>4, <2>2
  <2>5. UnlinkPending' <=> UnlinkPending
    BY <1>4, <2>2, <2>3, <2>4 DEF UnlinkPending
  <2>6. DuePending' <=> DuePending
    <3>1. DuePending' <=> \E i \in 1 .. m - 1 : /\ Serves(pendingUnlinks[i + 1])
                                              /\ pendingUnlinks[i + 1].cycle # checkpoint_cycle_ctr
      BY <1>6, <2>2 DEF DuePending, TooNew
    <3>2. DuePending <=> \E i \in 1 .. m : /\ Serves(pendingUnlinks[i])
                                          /\ pendingUnlinks[i].cycle # checkpoint_cycle_ctr
      BY <1>4 DEF DuePending, TooNew
    <3>3. ASSUME NEW i \in 1 .. m, i # 1
          PROVE  \E j \in 1 .. m - 1 : i = j + 1
      <4>1. i - 1 \in 1 .. m - 1 /\ i = (i - 1) + 1
        BY <1>4, <3>3
      <4> QED
        BY <4>1
    <3>4. ASSUME DuePending'
          PROVE  DuePending
      <4>1. PICK i \in 1 .. m - 1 : /\ Serves(pendingUnlinks[i + 1])
                                    /\ pendingUnlinks[i + 1].cycle # checkpoint_cycle_ctr
        BY <3>1, <3>4
      <4>2. PICK j \in 1 .. m : j = i + 1
        BY <2>4
      <4> QED
        BY <3>2, <4>1, <4>2
    <3>5. ASSUME DuePending
          PROVE  DuePending'
      <4>1. PICK i \in 1 .. m : /\ Serves(pendingUnlinks[i])
                                /\ pendingUnlinks[i].cycle # checkpoint_cycle_ctr
        BY <3>2, <3>5
      <4>2. PICK j \in 1 .. m - 1 : i = j + 1
        BY <2>3, <3>3, <4>1
      <4> QED
        BY <3>1, <4>1, <4>2
    <3> QED
      BY <3>4, <3>5
  <2>7. UniqueServing'
    <3> SUFFICES ASSUME NEW i \in 1 .. m - 1, NEW j \in 1 .. m - 1,
                        Serves(pendingUnlinks[i + 1]), Serves(pendingUnlinks[j + 1])
                 PROVE  i = j
      BY <2>2 DEF UniqueServing
    <3>1. i + 1 = j + 1
      BY <1>4, <1>5, <2>4 DEF UniqueServing
    <3> QED
      BY <3>1
  <2> QED
    BY <2>1, <2>5, <2>6, <2>7 DEF PostedCanceled
<1>8. CASE ~e.canceled
  <2>1. Serves(pendingUnlinks[1]) /\ ~TooNew(pendingUnlinks[1])
    BY <1>1, <1>2, <1>8 DEF Serves, SyncPostCheckpoint
  <2>2. DuePending /\ UnlinkPending
    BY <1>2, <2>1 DEF DuePending, UnlinkPending
  <2>3. ~Queued(UnlinkR) /\ NoUnlinker /\ fstate[FirstSegment] \in {"dropped", "invalid"}
    BY <2>2 DEF UnlinkInv, NoUnlinker
  <2>4. /\ fstate'[FirstSegment] \in {"gone", "left"}
        /\ \A f \in Files : /\ f # FirstSegment => fstate'[f] = fstate[f]
                            /\ os'[f] = IF f = FirstSegment THEN {} ELSE os[f]
    <3>1. PICK s \in {"gone", "left"} : /\ fstate' = [fstate EXCEPT ![FirstSegment] = s]
                                       /\ os' = [os EXCEPT ![FirstSegment] = {}]
      BY <1>1, <1>2, <1>8 DEF SyncPostCheckpoint, UnlinkFiletag
    <3> QED
      BY <3>1, FilesFacts DEF TypeInv, TypeOK
  <2>5. \A i \in 1 .. m : i # 1 => ~Serves(pendingUnlinks[i])
    BY <1>2, <1>4, <1>5, <2>1 DEF UniqueServing
  <2>6. \A i \in DOMAIN pendingUnlinks' : ~Serves(pendingUnlinks'[i])
    <3>1. CASE pendingUnlinks' = Tail(pendingUnlinks)
      <4>1. /\ DOMAIN pendingUnlinks' = 1 .. m - 1
            /\ \A i \in 1 .. m - 1 : pendingUnlinks'[i] = pendingUnlinks[i + 1]
        BY <1>2, <1>3, <3>1
      <4>2. \A i \in 1 .. m - 1 : i + 1 \in 1 .. m /\ i + 1 # 1
        BY <1>4
      <4> QED
        BY <2>5, <4>1, <4>2
    <3>2. CASE pendingUnlinks' = Tail(Absorbed.unlinks)
      <4>1. PICK u : u = Absorbed.unlinks
        OBVIOUS
      <4>2. UnlinksAfter(u)
        BY <4>1, AbsorbFacts
      <4>3. PICK k \in Nat : k = Len(u)
        BY <4>2 DEF UnlinksAfter
      <4>4. /\ u \in Seq(UnlinkEntry) /\ DOMAIN u = 1 .. k /\ k >= m
            /\ \A i \in 1 .. m : Serves(u[i]) => Serves(pendingUnlinks[i])
            /\ (\E i \in m + 1 .. k : Serves(u[i])) <=> LastUnlink
        BY <1>3, <4>2, <4>3 DEF UnlinksAfter
      <4>5. ~LastUnlink
        BY <2>3, LastUnlinkFacts
      <4>6. u # << >>
        BY <1>4, <4>3, <4>4
      <4>7. /\ DOMAIN pendingUnlinks' = 1 .. k - 1
            /\ \A i \in 1 .. k - 1 : pendingUnlinks'[i] = u[i + 1]
        BY <3>2, <4>1, <4>3, <4>4, <4>6
      <4>8. \A i \in 1 .. k - 1 : (i + 1 \in 1 .. m /\ i + 1 # 1) \/ i + 1 \in m + 1 .. k
        BY <1>4, <4>4
      <4> QED
        BY <2>5, <4>4, <4>5, <4>7, <4>8
    <3> QED
      BY <3>1, <3>2 DEF SyncPostCheckpoint
  <2>7. ~UnlinkPending' /\ ~DuePending' /\ UniqueServing'
    BY <2>6 DEF UnlinkPending, DuePending, UniqueServing
  <2>8. UNCHANGED <<requests, pendingOps>> \/ (requests' = << >> /\ pendingOps' = Absorbed.ops)
    BY DEF SyncPostCheckpoint
  <2> QED
    BY <2>2, <2>3, <2>4, <2>7, <2>8 DEF PostedDue
<1> QED
  BY <1>7, <1>8

-----------------------------------------------------------------------------
(***************************************************************************)
(* Cancels, cycles and unlink requests                                     *)
(***************************************************************************)
LEMMA ForgetSame ==
  ASSUME ForgetInv, UNCHANGED requests \/ requests' = << >>, \A f \in Files : Live(f)' => Live(f)
  PROVE  ForgetInv'
<1>1. CASE requests' = << >>
  BY <1>1, EmptyFacts DEF Emptied, ForgetInv
<1>2. CASE UNCHANGED requests
  <2>1. \A r : Queued(r)' <=> Queued(r)
    BY <1>2 DEF Queued, After, AfterIn
  <2> QED
    BY <2>1 DEF ForgetInv
<1> QED
  BY <1>1, <1>2

(* No cancel is queued for a file that lives.                              *)
LEMMA ForgetStep ==
  ASSUME TypeInv, PlaceInv, FileInv, ForgetInv, Next
  PROVE  ForgetInv'
<1> USE DEF ctlVars, cvVars, syncVars, loopVars, ckptVars, procVars, fileVars, histVars,
  backendVars, checkpointerVars, OthersUnchanged, SyncTablesUnchanged, RequestUnchanged, CGo,
  CJump, Go
<1>t. fstate \in [Files -> {"live", "dropped", "invalid", "gone", "left"}]
  BY DEF TypeInv, TypeOK
<1>1. CASE StartCheckpointer
  BY <1>1, ForgetSame DEF StartCheckpointer, Live
<1>2. CASE LoopResetLatch
  BY <1>2, ForgetSame DEF LoopResetLatch, Live
<1>3. CASE LoopAbsorb
  BY <1>3, ForgetSame DEF LoopAbsorb, AbsorbSyncRequests, Live
<1>4. CASE LoopTest
  BY <1>4, ForgetSame DEF LoopTest, Live
<1>5. CASE BeginCheckpoint
  BY <1>5, ForgetSame DEF BeginCheckpoint, Live
<1>6. CASE BroadcastStart
  BY <1>6, ForgetSame DEF BroadcastStart, Live
<1>7. CASE EndCheckpoint
  BY <1>7, ForgetSame DEF EndCheckpoint, Live
<1>8. CASE CheckpointError
  BY <1>8, ForgetSame DEF CheckpointError, Live
<1>9. CASE BroadcastDone
  BY <1>9, ForgetSame DEF BroadcastDone, Live
<1>10. CASE LoopRecheck
  BY <1>10, ForgetSame DEF LoopRecheck, Live
<1>11. CASE WaitLatch
  BY <1>11, ForgetSame DEF WaitLatch, Live
<1>12. CASE SyncPreCheckpoint
  BY <1>12, ForgetSame DEF SyncPreCheckpoint, PreAbsorb, AbsorbSyncRequests, Live
<1>13. CASE SetRedo
  BY <1>13, ForgetSame DEF SetRedo, Live
<1>14. CASE BufferSyncMark
  BY <1>14, ForgetSame DEF BufferSyncMark, Live
<1>15. CASE CheckpointWriteDelay
  BY <1>15, ForgetSame DEF CheckpointWriteDelay, AbsorbSyncRequests, Live
<1>16. CASE Nap
  BY <1>16, ForgetSame DEF Nap, Live
<1>17. ASSUME NEW f \in Files, SyncOneBuffer(f)
      PROVE  ForgetInv'
  BY <1>17, ForgetSame DEF SyncOneBuffer, Live
<1>18. ASSUME NEW f \in Files, NextEntry(f)
      PROVE  ForgetInv'
  BY <1>18, ForgetSame DEF NextEntry, AbsorbSyncRequests, Live
<1>19. CASE ProcessSyncRequests
  BY <1>19, ForgetSame DEF ProcessSyncRequests, Live
<1>20. CASE SyncCanceled
  BY <1>20, ForgetSame DEF SyncCanceled, Live
<1>21. CASE SyncFile
  BY <1>21, ForgetSame DEF SyncFile, Live
<1>22. CASE SyncRetry
  BY <1>22, ForgetSame DEF SyncRetry, RetryAbsorb, AbsorbSyncRequests, Live
<1>23. CASE EndSync
  BY <1>23, ForgetSame DEF EndSync, Live
<1>24. CASE WriteRecord
  BY <1>24, ForgetSame DEF WriteRecord, Live
<1>25. CASE SyncPostCheckpoint
  <2>1. requests' = << >> \/ UNCHANGED requests
    BY <1>25 DEF SyncPostCheckpoint
  <2>2. \A f \in Files : Live(f)' => Live(f)
    BY <1>25, <1>t DEF SyncPostCheckpoint, UnlinkFiletag, Live
  <2> QED
    BY <2>1, <2>2, ForgetSame
<1>26. CASE EndPostCheckpoint
  BY <1>26, ForgetSame DEF EndPostCheckpoint, Live
<1>27. CASE WriteError
  BY <1>27, ForgetSame DEF WriteError, Live
<1>28. CASE SyncError
  BY <1>28, ForgetSame DEF SyncError, Live
<1>29. CASE WaitLatchTimeout
  BY <1>29, ForgetSame DEF WaitLatchTimeout, Live
<1>30. ASSUME NEW f \in Files, ModifyPage(f)
      PROVE  ForgetInv'
  BY <1>30, ForgetSame DEF ModifyPage, Live
<1>31. ASSUME NEW p \in Proc, NEW f \in Files, FlushBuffer(p, f)
      PROVE  ForgetInv'
  BY <1>31, ForgetSame DEF FlushBuffer, Begin, Live
<1>32. ASSUME NEW p \in Proc, NEW f \in Files, CreateFile(p, f)
      PROVE  ForgetInv'
  <2>1. ~Queued(ForgetR(f)) /\ ~Queued(ForgetR(f))'
    BY <1>32 DEF CreateFile, Queued, After, AfterIn, ForgetR, TypeInv
  <2>2. \A g \in Files : g # f => (Live(g)' <=> Live(g)) /\ (Queued(ForgetR(g))' <=> Queued(ForgetR(g)))
    BY <1>32, <1>t DEF CreateFile, Live, Queued, After, AfterIn
  <2> QED
    BY <2>1, <2>2 DEF ForgetInv
<1>33. ASSUME NEW p \in Proc, DropRelation(p)
      PROVE  ForgetInv'
  BY <1>33, <1>t, ForgetSame DEF DropRelation, Dead, Live
<1>34. ASSUME NEW p \in Proc, DropDatabase(p)
      PROVE  ForgetInv'
  BY <1>34, <1>t, ForgetSame DEF DropDatabase, Dead, Live
<1>35. ASSUME NEW p \in Proc, Checkpoint(p)
      PROVE  ForgetInv'
  BY <1>35, ForgetSame DEF Checkpoint, SetRequestFlags, Begin, Live
<1>36. ASSUME NEW p \in Proc, RegisterDirtySegment(p)
      PROVE  ForgetInv'
  <2>1. PICK x : x = arg[p]
    OBVIOUS
  <2>2. Forwards(x)
    BY <1>36, <2>1, RegisterForwards
  <2>3. \E f \in Files : x = SyncR(f)
    BY <1>36, <2>1, PlaceFacts DEF RegisterDirtySegment, PlaceFactsAt
  <2>4. \A f \in Files : Live(f)' <=> Live(f)
    BY <1>36 DEF RegisterDirtySegment, Live
  <2> QED
    BY <2>2, <2>3, <2>4, RequestForms DEF Forwards, ForgetInv
<1>37. ASSUME NEW p \in Proc, SyncDirtySegment(p)
      PROVE  ForgetInv'
  BY <1>37, ForgetSame DEF SyncDirtySegment, Live
<1>38. ASSUME NEW p \in Proc, TerminateBufferIO(p)
      PROVE  ForgetInv'
  BY <1>38, ForgetSame DEF TerminateBufferIO, Live
<1>39. ASSUME NEW p \in Proc, RegisterSyncRequest(p)
      PROVE  ForgetInv'
  <2>1. PICK x : x = arg[p]
    OBVIOUS
  <2>2. Forwards(x)
    BY <1>39, <2>1, RegisterForwards
  <2>3. \A f \in Files : x = ForgetR(f) => ~Live(f)
    BY <2>1, FilesFacts, PlaceFacts DEF FileInv, DropInv, PlaceFactsAt, Live
  <2>4. \A f \in Files : Live(f)' <=> Live(f)
    BY <1>39 DEF RegisterSyncRequest, Live
  <2> QED
    BY <2>2, <2>3, <2>4 DEF Forwards, ForgetInv
<1>40. ASSUME NEW p \in Proc, UnlinkFile(p)
      PROVE  ForgetInv'
  BY <1>40, <1>t, ForgetSame DEF UnlinkFile, Live
<1>41. ASSUME NEW p \in Proc, RequestCheckpoint(p)
      PROVE  ForgetInv'
  BY <1>41, ForgetSame DEF RequestCheckpoint, SetRequestFlags, Live
<1>42. ASSUME NEW p \in Proc, SignalCheckpointer(p)
      PROVE  ForgetInv'
  BY <1>42, ForgetSame DEF SignalCheckpointer, Live
<1>43. ASSUME NEW p \in Proc, TestStarted(p)
      PROVE  ForgetInv'
  BY <1>43, ForgetSame DEF TestStarted, Live
<1>44. ASSUME NEW p \in Proc, TestDone(p)
      PROVE  ForgetInv'
  BY <1>44, ForgetSame DEF TestDone, Live
<1>45. ASSUME NEW p \in Proc, SleepEnds(p)
      PROVE  ForgetInv'
  BY <1>45, ForgetSame DEF SleepEnds, Live
<1>46. ASSUME NEW p \in Proc, RequestReturns(p)
      PROVE  ForgetInv'
  BY <1>46, <1>t, ForgetSame DEF RequestReturns, Live
<1>47. ASSUME NEW p \in Proc, SyncDirtySegmentError(p)
      PROVE  ForgetInv'
  BY <1>47, ForgetSame DEF SyncDirtySegmentError, Live
<1> QED
  BY <1>1, <1>2, <1>3, <1>4, <1>5, <1>6, <1>7, <1>8, <1>9, <1>10, <1>11, <1>12, <1>13, <1>14,
    <1>15, <1>16, <1>17, <1>18, <1>19, <1>20, <1>21, <1>22, <1>23, <1>24, <1>25, <1>26, <1>27,
    <1>28, <1>29, <1>30, <1>31, <1>32, <1>33, <1>34, <1>35, <1>36, <1>37, <1>38, <1>39, <1>40,
    <1>41, <1>42, <1>43, <1>44, <1>45, <1>46, <1>47 DEF Next, CheckpointerStep,
    CheckpointerEvent, Call, Step

(* The head of ProcessSyncRequests: all entries are of the cycle before.   *)
LEMMA StampFacts ==
  ASSUME TypeInv, CycleInv, ProcessSyncRequests
  PROVE  /\ \A f \in DOMAIN pendingOps' : pendingOps'[f].cycle = sync_cycle_ctr
         /\ sync_cycle_ctr' # sync_cycle_ctr
<1>1. PICK o : o = Absorbed.ops
  OBVIOUS
<1>2. OpsAfter(o)
  BY <1>1, AbsorbFacts
<1>3. pendingOps' = Restamp(o) /\ sync_cycle_ctr' = Next_(sync_cycle_ctr, CYCLE_MODULUS)
  BY <1>1 DEF ProcessSyncRequests
<1>4. \A f \in DOMAIN pendingOps' : pendingOps'[f].cycle = sync_cycle_ctr
  <2>1. CASE sync_in_progress
    <3>1. \A f \in DOMAIN o : o[f] \in Entry
      BY <1>2 DEF OpsAfter
    <3>2. \A e \in Entry : [e EXCEPT !.cycle = sync_cycle_ctr].cycle = sync_cycle_ctr
      BY DEF Entry
    <3> QED
      BY <1>3, <2>1, <3>1, <3>2 DEF Restamp
  <2>2. CASE ~sync_in_progress
    BY <1>2, <1>3, <2>2 DEF Restamp, OpsAfter, CycleInv
  <2> QED
    BY <2>1, <2>2
<1>5. sync_cycle_ctr' # sync_cycle_ctr
  <2>1. PICK m \in Nat : m = CYCLE_MODULUS /\ m > 1
    BY ConstantsAssumption
  <2>2. PICK c \in 0 .. m - 1 : c = sync_cycle_ctr
    BY <2>1 DEF TypeInv, TypeOK
  <2>3. (c + 1) % m # c
    <3>1. CASE c + 1 < m
      BY <2>1, <2>2, <3>1
    <3>2. CASE c + 1 = m
      <4>1. (c + 1) % m = 0
        BY <2>1, <3>2
      <4> QED
        BY <2>1, <3>2, <4>1
    <3> QED
      BY <2>2, <3>1, <3>2
  <2> QED
    BY <1>3, <2>1, <2>2, <2>3 DEF Next_
<1> QED
  BY <1>4, <1>5

(* Nothing happens to the cycles.                                          *)
LEMMA CycleSame ==
  ASSUME CycleInv, UNCHANGED <<pendingOps, sync_cycle_ctr, sync_in_progress>>,
         cpc' \in Syncing => cpc \in Syncing
  PROVE  CycleInv'
BY DEF CycleInv

(* Requests absorbed get the current cycle.                                *)
LEMMA CycleAbsorb ==
  ASSUME TypeInv, CycleInv, pendingOps' = Absorbed.ops, UNCHANGED <<sync_cycle_ctr, sync_in_progress>>,
         cpc' \in Syncing => cpc \in Syncing
  PROVE  CycleInv'
<1>1. PICK o : o = Absorbed.ops
  OBVIOUS
<1>2. OpsAfter(o)
  BY <1>1, AbsorbFacts
<1>3. \A f \in DOMAIN o :
         \/ o[f].cycle = sync_cycle_ctr
         \/ f \in DOMAIN pendingOps /\ o[f].cycle = pendingOps[f].cycle
  BY <1>2 DEF OpsAfter
<1> QED
  BY <1>1, <1>3 DEF CycleInv

(* The cycles of the sync requests.                                        *)
LEMMA CycleStep ==
  ASSUME TypeInv, CycleInv, Next
  PROVE  CycleInv'
<1> USE DEF ctlVars, cvVars, syncVars, loopVars, ckptVars, procVars, fileVars, histVars,
  backendVars, checkpointerVars, OthersUnchanged, SyncTablesUnchanged, RequestUnchanged, CGo,
  CJump, Go
<1>1. CASE StartCheckpointer
  BY <1>1, CycleSame DEF StartCheckpointer, Syncing
<1>2. CASE LoopResetLatch
  BY <1>2, CycleSame DEF LoopResetLatch, Syncing
<1>3. CASE LoopAbsorb
  BY <1>3, CycleSame, CycleAbsorb DEF LoopAbsorb, AbsorbSyncRequests, Syncing
<1>4. CASE LoopTest
  BY <1>4, CycleSame DEF LoopTest, Syncing
<1>5. CASE BeginCheckpoint
  BY <1>5, CycleSame DEF BeginCheckpoint, Syncing
<1>6. CASE BroadcastStart
  BY <1>6, CycleSame DEF BroadcastStart, Syncing
<1>7. CASE EndCheckpoint
  BY <1>7, CycleSame DEF EndCheckpoint, Syncing
<1>8. CASE CheckpointError
  BY <1>8, CycleSame DEF CheckpointError, Syncing
<1>9. CASE BroadcastDone
  BY <1>9, CycleSame DEF BroadcastDone, Syncing
<1>10. CASE LoopRecheck
  BY <1>10, CycleSame DEF LoopRecheck, Syncing
<1>11. CASE WaitLatch
  BY <1>11, CycleSame DEF WaitLatch, Syncing
<1>12. CASE SyncPreCheckpoint
  BY <1>12, CycleSame, CycleAbsorb DEF SyncPreCheckpoint, PreAbsorb, AbsorbSyncRequests,
    Syncing
<1>13. CASE SetRedo
  BY <1>13, CycleSame DEF SetRedo, Syncing
<1>14. CASE BufferSyncMark
  BY <1>14, CycleSame DEF BufferSyncMark, Syncing
<1>15. CASE CheckpointWriteDelay
  BY <1>15, CycleSame, CycleAbsorb DEF CheckpointWriteDelay, AbsorbSyncRequests, Syncing
<1>16. CASE Nap
  BY <1>16, CycleSame DEF Nap, Syncing
<1>17. ASSUME NEW f \in Files, SyncOneBuffer(f)
      PROVE  CycleInv'
  <2>1. UNCHANGED <<sync_cycle_ctr, sync_in_progress>> /\ cpc' = "delay"
    BY <1>17 DEF SyncOneBuffer
  <2>2. CASE buf[f] = {}
    BY <1>17, <2>1, <2>2, CycleSame DEF SyncOneBuffer, Syncing
  <2>3. CASE buf[f] # {}
    <3>1. Owns(f)
      BY <1>17, <2>3, OwnFacts
    <3> QED
      BY <2>1, <3>1 DEF CycleInv, Syncing, Owns, NewEntry, Pending
  <2> QED
    BY <2>2, <2>3
<1>18. ASSUME NEW f \in Files, NextEntry(f)
      PROVE  CycleInv'
  BY <1>18, CycleSame, CycleAbsorb DEF NextEntry, AbsorbSyncRequests, Syncing
<1>19. CASE ProcessSyncRequests
  <2>1. \A f \in DOMAIN pendingOps' : pendingOps'[f].cycle = sync_cycle_ctr
    BY <1>19, StampFacts
  <2>2. sync_in_progress' /\ sync_cycle_ctr' = Next_(sync_cycle_ctr, CYCLE_MODULUS)
    BY <1>19 DEF ProcessSyncRequests
  <2> QED
    BY <2>1, <2>2 DEF CycleInv
<1>20. CASE SyncCanceled
  BY <1>20 DEF SyncCanceled, RemoveEntry, CycleInv, Syncing
<1>21. CASE SyncFile
  BY <1>21 DEF SyncFile, RemoveEntry, CycleInv, Syncing
<1>22. CASE SyncRetry
  BY <1>22, CycleSame, CycleAbsorb DEF SyncRetry, RetryAbsorb, AbsorbSyncRequests, Syncing
<1>23. CASE EndSync
  BY <1>23 DEF EndSync, CycleInv, Syncing
<1>24. CASE WriteRecord
  BY <1>24, CycleSame DEF WriteRecord, Syncing
<1>25. CASE SyncPostCheckpoint
  BY <1>25, CycleSame, CycleAbsorb DEF SyncPostCheckpoint, Syncing
<1>26. CASE EndPostCheckpoint
  BY <1>26, CycleSame DEF EndPostCheckpoint, Syncing
<1>27. CASE WriteError
  BY <1>27, CycleSame DEF WriteError, Syncing
<1>28. CASE SyncError
  BY <1>28, CycleSame DEF SyncError, Syncing
<1>29. CASE WaitLatchTimeout
  BY <1>29, CycleSame DEF WaitLatchTimeout, Syncing
<1>30. ASSUME NEW f \in Files, ModifyPage(f)
      PROVE  CycleInv'
  BY <1>30, CycleSame DEF ModifyPage, Syncing
<1>31. ASSUME NEW p \in Proc, NEW f \in Files, FlushBuffer(p, f)
      PROVE  CycleInv'
  BY <1>31, CycleSame DEF FlushBuffer, Begin, Syncing
<1>32. ASSUME NEW p \in Proc, NEW f \in Files, CreateFile(p, f)
      PROVE  CycleInv'
  BY <1>32, CycleSame DEF CreateFile, Begin, Syncing
<1>33. ASSUME NEW p \in Proc, DropRelation(p)
      PROVE  CycleInv'
  BY <1>33, CycleSame DEF DropRelation, Begin, Syncing
<1>34. ASSUME NEW p \in Proc, DropDatabase(p)
      PROVE  CycleInv'
  BY <1>34, CycleSame DEF DropDatabase, Begin, Syncing
<1>35. ASSUME NEW p \in Proc, Checkpoint(p)
      PROVE  CycleInv'
  BY <1>35, CycleSame DEF Checkpoint, SetRequestFlags, Begin, Syncing
<1>36. ASSUME NEW p \in Proc, RegisterDirtySegment(p)
      PROVE  CycleInv'
  BY <1>36, CycleSame DEF RegisterDirtySegment, Syncing
<1>37. ASSUME NEW p \in Proc, SyncDirtySegment(p)
      PROVE  CycleInv'
  BY <1>37, CycleSame DEF SyncDirtySegment, Syncing
<1>38. ASSUME NEW p \in Proc, TerminateBufferIO(p)
      PROVE  CycleInv'
  BY <1>38, CycleSame DEF TerminateBufferIO, Syncing
<1>39. ASSUME NEW p \in Proc, RegisterSyncRequest(p)
      PROVE  CycleInv'
  BY <1>39, CycleSame DEF RegisterSyncRequest, Syncing
<1>40. ASSUME NEW p \in Proc, UnlinkFile(p)
      PROVE  CycleInv'
  BY <1>40, CycleSame DEF UnlinkFile, Syncing
<1>41. ASSUME NEW p \in Proc, RequestCheckpoint(p)
      PROVE  CycleInv'
  BY <1>41, CycleSame DEF RequestCheckpoint, SetRequestFlags, Syncing
<1>42. ASSUME NEW p \in Proc, SignalCheckpointer(p)
      PROVE  CycleInv'
  BY <1>42, CycleSame DEF SignalCheckpointer, Syncing
<1>43. ASSUME NEW p \in Proc, TestStarted(p)
      PROVE  CycleInv'
  BY <1>43, CycleSame DEF TestStarted, Syncing
<1>44. ASSUME NEW p \in Proc, TestDone(p)
      PROVE  CycleInv'
  BY <1>44, CycleSame DEF TestDone, Syncing
<1>45. ASSUME NEW p \in Proc, SleepEnds(p)
      PROVE  CycleInv'
  BY <1>45, CycleSame DEF SleepEnds, Syncing
<1>46. ASSUME NEW p \in Proc, RequestReturns(p)
      PROVE  CycleInv'
  BY <1>46, CycleSame DEF RequestReturns, Syncing
<1>47. ASSUME NEW p \in Proc, SyncDirtySegmentError(p)
      PROVE  CycleInv'
  BY <1>47, CycleSame DEF SyncDirtySegmentError, Syncing
<1> QED
  BY <1>1, <1>2, <1>3, <1>4, <1>5, <1>6, <1>7, <1>8, <1>9, <1>10, <1>11, <1>12, <1>13, <1>14,
    <1>15, <1>16, <1>17, <1>18, <1>19, <1>20, <1>21, <1>22, <1>23, <1>24, <1>25, <1>26, <1>27,
    <1>28, <1>29, <1>30, <1>31, <1>32, <1>33, <1>34, <1>35, <1>36, <1>37, <1>38, <1>39, <1>40,
    <1>41, <1>42, <1>43, <1>44, <1>45, <1>46, <1>47 DEF Next, CheckpointerStep,
    CheckpointerEvent, Call, Step

-----------------------------------------------------------------------------
(* UnlinkInv, with nobody about to ask in one name.                        *)
LEMMA UnlinkParts ==
  UnlinkInv <=>
    /\ UniqueUnlink(requests) /\ UniqueServing /\ ~(Queued(UnlinkR) /\ UnlinkPending)
    /\ Queued(UnlinkR) \/ UnlinkPending => fstate[FirstSegment] \in {"dropped", "invalid"} /\ NoUnlinker
    /\ fstate[FirstSegment] = "dropped" /\ NoUnlinker => Queued(UnlinkR) \/ UnlinkPending
BY DEF UnlinkInv, UniqueServing, NoUnlinker

(* Nothing happens to the unlink requests.                                 *)
LEMMA UnlinkSame ==
  ASSUME UnlinkInv, UNCHANGED <<requests, pendingUnlinks>>,
         fstate'[FirstSegment] = fstate[FirstSegment], NoUnlinker' <=> NoUnlinker
  PROVE  UnlinkInv'
<1>1. /\ Queued(UnlinkR)' <=> Queued(UnlinkR)
      /\ UniqueUnlink(requests)' <=> UniqueUnlink(requests)
  BY DEF Queued, After, AfterIn, UniqueUnlink
<1>2. (UnlinkPending' <=> UnlinkPending) /\ (UniqueServing' <=> UniqueServing)
  BY DEF UnlinkPending, UniqueServing
<1> QED
  BY <1>1, <1>2, UnlinkParts DEF UnlinkInv, UniqueServing, NoUnlinker

(* A cancel of everything is in the queue only when all was dropped.       *)
LEMMA FilterDropped ==
  ASSUME FileInv, FilterInv, Queued(FilterR)
  PROVE  \A f \in Files : fstate[f] \in {"invalid", "gone", "left"}
BY DEF FileInv, DropInv, FilterInv

(* Unlink requests are absorbed.                                           *)
LEMMA UnlinkAbsorb ==
  ASSUME TypeInv, FileInv, UnlinkInv, FilterInv, requests' = << >>,
         pendingUnlinks' = Absorbed.unlinks, UNCHANGED <<fstate, arg>>
  PROVE  UnlinkInv'
<1>1. UnlinksAbsorbed
  BY UnlinksView
<1>2. /\ UniqueUnlink(requests) /\ UniqueServing /\ ~(Queued(UnlinkR) /\ UnlinkPending)
      /\ Queued(UnlinkR) \/ UnlinkPending => fstate[FirstSegment] \in {"dropped", "invalid"} /\ NoUnlinker
      /\ fstate[FirstSegment] = "dropped" /\ NoUnlinker => Queued(UnlinkR) \/ UnlinkPending
  BY UnlinkParts
<1>3. fstate[FirstSegment] = "dropped" => ~Queued(FilterR)
  BY FilterDropped, FilesFacts
<1>4. /\ ~Queued(UnlinkR)' /\ UniqueUnlink(requests)' /\ UniqueServing'
      /\ UnlinkPending' <=> LastUnlink \/ (UnlinkPending /\ ~Queued(FilterR))
  BY <1>1, <1>2 DEF UnlinksAbsorbed, Emptied
<1>5. NoUnlinker' <=> NoUnlinker
  BY DEF NoUnlinker
<1> QED
  BY <1>2, <1>3, <1>4, <1>5, LastUnlinkFacts DEF UnlinkInv, UniqueServing, NoUnlinker

(* Unlink requests.                                                        *)
LEMMA UnlinkStep ==
  ASSUME TypeInv, PlaceInv, CounterInv, FileInv, UnlinkInv, FilterInv, Next
  PROVE  UnlinkInv'
<1> USE RequestForms DEF ctlVars, cvVars, syncVars, loopVars, ckptVars, procVars, fileVars,
  histVars, backendVars, checkpointerVars, OthersUnchanged, SyncTablesUnchanged,
  RequestUnchanged, CGo, CJump, Go
<1>t. fstate \in [Files -> {"live", "dropped", "invalid", "gone", "left"}] /\ arg \in [Proc -> RequestsMade \cup {NoRequest}]
  BY DEF TypeInv, TypeOK
<1>u. /\ UniqueUnlink(requests) /\ UniqueServing /\ ~(Queued(UnlinkR) /\ UnlinkPending)
      /\ Queued(UnlinkR) \/ UnlinkPending => fstate[FirstSegment] \in {"dropped", "invalid"} /\ NoUnlinker
      /\ fstate[FirstSegment] = "dropped" /\ NoUnlinker => Queued(UnlinkR) \/ UnlinkPending
  BY UnlinkParts
<1>1. CASE StartCheckpointer
  BY <1>1, UnlinkSame DEF StartCheckpointer, NoUnlinker
<1>2. CASE LoopResetLatch
  BY <1>2, UnlinkSame DEF LoopResetLatch, NoUnlinker
<1>3. CASE LoopAbsorb
  BY <1>3, UnlinkSame, UnlinkAbsorb DEF LoopAbsorb, AbsorbSyncRequests, NoUnlinker
<1>4. CASE LoopTest
  BY <1>4, UnlinkSame DEF LoopTest, NoUnlinker
<1>5. CASE BeginCheckpoint
  BY <1>5, UnlinkSame DEF BeginCheckpoint, NoUnlinker
<1>6. CASE BroadcastStart
  BY <1>6, UnlinkSame DEF BroadcastStart, NoUnlinker
<1>7. CASE EndCheckpoint
  BY <1>7, UnlinkSame DEF EndCheckpoint, NoUnlinker
<1>8. CASE CheckpointError
  BY <1>8, UnlinkSame DEF CheckpointError, NoUnlinker
<1>9. CASE BroadcastDone
  BY <1>9, UnlinkSame DEF BroadcastDone, NoUnlinker
<1>10. CASE LoopRecheck
  BY <1>10, UnlinkSame DEF LoopRecheck, NoUnlinker
<1>11. CASE WaitLatch
  BY <1>11, UnlinkSame DEF WaitLatch, NoUnlinker
<1>12. CASE SyncPreCheckpoint
  BY <1>12, UnlinkSame, UnlinkAbsorb DEF SyncPreCheckpoint, PreAbsorb, AbsorbSyncRequests,
    NoUnlinker
<1>13. CASE SetRedo
  BY <1>13, UnlinkSame DEF SetRedo, NoUnlinker
<1>14. CASE BufferSyncMark
  BY <1>14, UnlinkSame DEF BufferSyncMark, NoUnlinker
<1>15. CASE CheckpointWriteDelay
  BY <1>15, UnlinkSame, UnlinkAbsorb DEF CheckpointWriteDelay, AbsorbSyncRequests, NoUnlinker
<1>16. CASE Nap
  BY <1>16, UnlinkSame DEF Nap, NoUnlinker
<1>17. ASSUME NEW f \in Files, SyncOneBuffer(f)
      PROVE  UnlinkInv'
  BY <1>17, UnlinkSame DEF SyncOneBuffer, NoUnlinker
<1>18. ASSUME NEW f \in Files, NextEntry(f)
      PROVE  UnlinkInv'
  BY <1>18, UnlinkSame, UnlinkAbsorb DEF NextEntry, AbsorbSyncRequests, NoUnlinker
<1>19. CASE ProcessSyncRequests
  BY <1>19, UnlinkSame, UnlinkAbsorb DEF ProcessSyncRequests, NoUnlinker
<1>20. CASE SyncCanceled
  BY <1>20, UnlinkSame DEF SyncCanceled, NoUnlinker
<1>21. CASE SyncFile
  BY <1>21, UnlinkSame DEF SyncFile, NoUnlinker
<1>22. CASE SyncRetry
  BY <1>22, UnlinkSame, UnlinkAbsorb DEF SyncRetry, RetryAbsorb, AbsorbSyncRequests, NoUnlinker
<1>23. CASE EndSync
  BY <1>23, UnlinkSame DEF EndSync, NoUnlinker
<1>24. CASE WriteRecord
  BY <1>24, UnlinkSame DEF WriteRecord, NoUnlinker
<1>25. CASE SyncPostCheckpoint
  <2>1. NoUnlinker' <=> NoUnlinker
    BY <1>25 DEF SyncPostCheckpoint, NoUnlinker
  <2>2. CASE PostedCanceled
    <3>1. /\ Queued(UnlinkR)' <=> Queued(UnlinkR)
          /\ UniqueUnlink(requests)' <=> UniqueUnlink(requests)
      BY <2>2 DEF PostedCanceled, Queued, After, AfterIn, UniqueUnlink
    <3> QED
      BY <1>u, <2>1, <2>2, <3>1 DEF PostedCanceled, UnlinkInv, UniqueServing, NoUnlinker
  <2>3. CASE PostedDue
    <3>1. ~Queued(UnlinkR)' /\ UniqueUnlink(requests)'
      <4>1. CASE requests' = << >>
        BY <4>1, EmptyFacts DEF Emptied
      <4>2. CASE UNCHANGED requests
        BY <1>u, <2>3, <4>2 DEF PostedDue, Queued, After, AfterIn, UniqueUnlink
      <4> QED
        BY <2>3, <4>1, <4>2 DEF PostedDue
    <3>2. fstate'[FirstSegment] \in {"gone", "left"} /\ ~UnlinkPending' /\ UniqueServing'
      BY <2>3, FilesFacts DEF PostedDue
    <3> QED
      BY <3>1, <3>2 DEF UnlinkInv, UniqueServing
  <2> QED
    BY <1>25, <2>2, <2>3, PostFacts
<1>26. CASE EndPostCheckpoint
  BY <1>26, UnlinkSame DEF EndPostCheckpoint, NoUnlinker
<1>27. CASE WriteError
  BY <1>27, UnlinkSame DEF WriteError, NoUnlinker
<1>28. CASE SyncError
  BY <1>28, UnlinkSame DEF SyncError, NoUnlinker
<1>29. CASE WaitLatchTimeout
  BY <1>29, UnlinkSame DEF WaitLatchTimeout, NoUnlinker
<1>30. ASSUME NEW f \in Files, ModifyPage(f)
      PROVE  UnlinkInv'
  BY <1>30, UnlinkSame DEF ModifyPage, NoUnlinker
<1>31. ASSUME NEW p \in Proc, NEW f \in Files, FlushBuffer(p, f)
      PROVE  UnlinkInv'
  <2>1. Goes(p, "flush", "forward", SyncR(f)) /\ Idle(p)
    <3>1. Begin(p, "flush", "forward", SyncR(f))
      BY <1>31 DEF FlushBuffer, SyncR
    <3> QED
      BY <3>1, BeginGoes
  <2>2. NoUnlinker' <=> NoUnlinker
    BY <2>1, SameUnlinker DEF Goes, Idle
  <2> QED
    BY <1>31, <2>2, UnlinkSame DEF FlushBuffer
<1>32. ASSUME NEW p \in Proc, NEW f \in Files, CreateFile(p, f)
      PROVE  UnlinkInv'
  <2>1. Goes(p, "create", "forward", SyncR(f)) /\ Idle(p)
    <3>1. Begin(p, "create", "forward", SyncR(f))
      BY <1>32 DEF CreateFile, SyncR
    <3> QED
      BY <3>1, BeginGoes
  <2>2. NoUnlinker' <=> NoUnlinker
    BY <2>1, SameUnlinker DEF Goes, Idle
  <2>3. CASE f # FirstSegment
    BY <1>32, <1>t, <2>2, <2>3, UnlinkSame DEF CreateFile
  <2>4. CASE f = FirstSegment
    <3>1. fstate[FirstSegment] = "gone" /\ fstate'[FirstSegment] = "live" /\ UNCHANGED <<requests, pendingUnlinks>>
      BY <1>32, <1>t, <2>4 DEF CreateFile
    <3>2. ~Queued(UnlinkR)' /\ UniqueUnlink(requests)' /\ ~UnlinkPending' /\ UniqueServing'
      BY <1>u, <3>1 DEF Queued, After, AfterIn, UniqueUnlink, UnlinkPending, UniqueServing
    <3> QED
      BY <3>1, <3>2 DEF UnlinkInv, UniqueServing
  <2> QED
    BY <2>3, <2>4
<1>33. ASSUME NEW p \in Proc, DropRelation(p)
      PROVE  UnlinkInv'
  <2>1. Goes(p, "drop", "register", UnlinkR) /\ Idle(p)
    <3>1. Begin(p, "drop", "register", UnlinkR)
      BY <1>33 DEF DropRelation, UnlinkR
    <3> QED
      BY <3>1, BeginGoes
  <2>2. fstate[FirstSegment] = "live" /\ UNCHANGED <<requests, pendingUnlinks>>
    BY <1>33 DEF DropRelation, Live
  <2>3. ~Queued(UnlinkR)' /\ UniqueUnlink(requests)' /\ ~UnlinkPending' /\ UniqueServing'
    BY <1>u, <2>2 DEF Queued, After, AfterIn, UniqueUnlink, UnlinkPending, UniqueServing
  <2>4. ~NoUnlinker'
    BY <2>1 DEF Goes, NoUnlinker
  <2> QED
    BY <2>3, <2>4 DEF UnlinkInv, UniqueServing, NoUnlinker
<1>34. ASSUME NEW p \in Proc, DropDatabase(p)
      PROVE  UnlinkInv'
  <2>1. Goes(p, "dropdb", "register", FilterR) /\ Idle(p)
    <3>1. Begin(p, "dropdb", "register", FilterR)
      BY <1>34 DEF DropDatabase, FilterR
    <3> QED
      BY <3>1, BeginGoes
  <2>2. /\ fstate'[FirstSegment] = "invalid" /\ UNCHANGED <<requests, pendingUnlinks>>
    BY <1>34, FilesFacts DEF DropDatabase, Dead
  <2>3. NoUnlinker'
    BY <1>34, <2>1, UnusedFacts DEF DropDatabase, Goes, OthersStay, NoUnlinker
  <2>4. /\ UniqueUnlink(requests)' /\ UniqueServing'
        /\ ~(Queued(UnlinkR)' /\ UnlinkPending')
    BY <1>u, <2>2 DEF Queued, After, AfterIn, UniqueUnlink, UnlinkPending, UniqueServing
  <2> QED
    BY <2>2, <2>3, <2>4 DEF UnlinkInv, UniqueServing, NoUnlinker
<1>35. ASSUME NEW p \in Proc, Checkpoint(p)
      PROVE  UnlinkInv'
  <2>1. Goes(p, "checkpoint", "signal", NoRequest) /\ Idle(p)
    <3>1. Begin(p, "checkpoint", "signal", NoRequest)
      BY <1>35 DEF Checkpoint
    <3> QED
      BY <3>1, BeginGoes
  <2>2. NoUnlinker' <=> NoUnlinker
    BY <2>1, SameUnlinker DEF Goes, Idle
  <2> QED
    BY <1>35, <2>2, UnlinkSame DEF Checkpoint, SetRequestFlags
<1>36. ASSUME NEW p \in Proc, RegisterDirtySegment(p)
      PROVE  UnlinkInv'
  <2>1. PICK f \in Files : Registered(p, f)
    BY <1>36, RegisterGoes DEF RegisterDirtySegment
  <2>2. PICK x : x = arg[p]
    OBVIOUS
  <2>3. Forwards(x) /\ x = SyncR(f)
    BY <1>36, <2>1, <2>2, RegisterForwards DEF Registered
  <2>4. NoUnlinker' <=> NoUnlinker
    BY <2>1, SameUnlinker DEF Registered, Goes
  <2>5. /\ Queued(UnlinkR)' <=> Queued(UnlinkR)
        /\ UniqueUnlink(requests)' /\ (UnlinkPending' <=> UnlinkPending)
    BY <1>u, <2>3 DEF Forwards
  <2>6. UniqueServing' /\ UNCHANGED fstate
    BY <1>36, <1>u DEF RegisterDirtySegment, UniqueServing
  <2> QED
    BY <1>u, <2>4, <2>5, <2>6 DEF UnlinkInv, UniqueServing, NoUnlinker
<1>37. ASSUME NEW p \in Proc, SyncDirtySegment(p)
      PROVE  UnlinkInv'
  <2>1. PICK f \in Files : Registered(p, f)
    BY <1>37, RegisterGoes DEF SyncDirtySegment
  <2>2. NoUnlinker' <=> NoUnlinker
    BY <2>1, SameUnlinker DEF Registered, Goes
  <2> QED
    BY <1>37, <2>2, UnlinkSame DEF SyncDirtySegment
<1>38. ASSUME NEW p \in Proc, TerminateBufferIO(p)
      PROVE  UnlinkInv'
  <2>1. PICK f \in Files : Flushed(p, f)
    BY <1>38, FlushGoes
  <2>2. NoUnlinker' <=> NoUnlinker
    BY <2>1, SameUnlinker DEF Flushed, Goes
  <2> QED
    BY <1>38, <2>2, UnlinkSame DEF TerminateBufferIO
<1>39. ASSUME NEW p \in Proc, RegisterSyncRequest(p)
      PROVE  UnlinkInv'
  <2>1. PICK x : x = arg[p]
    OBVIOUS
  <2>2. Forwards(x)
    BY <1>39, <2>1, RegisterForwards
  <2>3. UniqueServing' /\ UNCHANGED fstate
    BY <1>39, <1>u DEF RegisterSyncRequest, UniqueServing
  <2>4. CASE RegisteredUnlink(p)
    <3>1. /\ x = UnlinkR /\ ~NoUnlinker /\ fstate[FirstSegment] = "dropped"
      BY <2>1, <2>4 DEF RegisteredUnlink, NoUnlinker, FileInv, DropInv
    <3>2. ~Queued(UnlinkR) /\ ~UnlinkPending
      BY <1>u, <3>1
    <3>3. Queued(UnlinkR)' /\ UniqueUnlink(requests)' /\ ~UnlinkPending'
      BY <1>u, <2>2, <3>1, <3>2 DEF Forwards
    <3>4. NoUnlinker'
      <4>1. arg'[p] # UnlinkR
        BY <2>4 DEF RegisteredUnlink, GoesOn
      <4>2. ASSUME NEW q \in Proc, q # p
            PROVE  arg'[q] # UnlinkR
        BY <2>4, <4>2, PlaceFacts DEF RegisteredUnlink, OthersStay, PlaceFactsAt, FileInv,
           DropInv
      <4> QED
        BY <4>1, <4>2 DEF NoUnlinker
    <3> QED
      BY <2>3, <3>1, <3>3, <3>4 DEF UnlinkInv, UniqueServing, NoUnlinker
  <2>5. CASE RegisteredFilter(p) \/ \E f \in Segments : RegisteredForget(p, f)
    <3>1. x # UnlinkR /\ arg'[p] # UnlinkR /\ OthersStay(p)
      BY <2>1, <2>5 DEF RegisteredFilter, RegisteredForget, Goes
    <3>2. NoUnlinker' <=> NoUnlinker
      BY <2>1, <3>1, SameUnlinker
    <3>3. /\ Queued(UnlinkR)' <=> Queued(UnlinkR)
          /\ UniqueUnlink(requests)' /\ (UnlinkPending' <=> UnlinkPending)
      BY <1>u, <2>2, <3>1 DEF Forwards
    <3> QED
      BY <1>u, <2>3, <3>2, <3>3 DEF UnlinkInv, UniqueServing, NoUnlinker
  <2> QED
    BY <1>39, <2>4, <2>5, SyncRequestGoes
<1>40. ASSUME NEW p \in Proc, UnlinkFile(p)
      PROVE  UnlinkInv'
  <2>1. PICK f \in Segments : Unlinks(p, f)
    BY <1>40, UnlinkGoes
  <2>2. NoUnlinker' <=> NoUnlinker
    BY <2>1, SameUnlinker DEF Unlinks, GoesOn
  <2>3. fstate'[FirstSegment] = fstate[FirstSegment]
    BY <2>1, FilesFacts DEF Unlinks, UnlinkTried
  <2> QED
    BY <1>40, <2>2, <2>3, UnlinkSame DEF UnlinkFile
<1>41. ASSUME NEW p \in Proc, RequestCheckpoint(p)
      PROVE  UnlinkInv'
  BY <1>41, UnlinkSame DEF RequestCheckpoint, SetRequestFlags, NoUnlinker
<1>42. ASSUME NEW p \in Proc, SignalCheckpointer(p)
      PROVE  UnlinkInv'
  BY <1>42, UnlinkSame DEF SignalCheckpointer, NoUnlinker
<1>43. ASSUME NEW p \in Proc, TestStarted(p)
      PROVE  UnlinkInv'
  BY <1>43, UnlinkSame DEF TestStarted, NoUnlinker
<1>44. ASSUME NEW p \in Proc, TestDone(p)
      PROVE  UnlinkInv'
  BY <1>44, UnlinkSame DEF TestDone, NoUnlinker
<1>45. ASSUME NEW p \in Proc, SleepEnds(p)
      PROVE  UnlinkInv'
  BY <1>45, UnlinkSame DEF SleepEnds, NoUnlinker
<1>46. ASSUME NEW p \in Proc, RequestReturns(p)
      PROVE  UnlinkInv'
  <2>1. Goes(p, "none", "idle", NoRequest) /\ op[p] \in {"checkpoint", "dropdb"}
    BY <1>46, ReturnGoes, PlaceFacts DEF RequestReturns, PlaceFactsAt, Waiting
  <2>2. NoUnlinker' <=> NoUnlinker
    BY <2>1, SameUnlinker, PlaceFacts DEF PlaceFactsAt, Goes
  <2>3. CASE UNCHANGED fstate
    BY <1>46, <2>2, <2>3, UnlinkSame DEF RequestReturns
  <2>4. CASE op[p] = "dropdb" /\ pc[p] = "success" /\ fstate' = [f \in Files |-> "gone"]
    <3>1. requests = << >> /\ (UnlinkPending => Queued(FilterR))
      BY <2>4, WaitOver DEF FilterInv
    <3>2. ~Queued(UnlinkR) /\ ~UnlinkPending
      BY <3>1, NothingQueued
    <3>3. UNCHANGED <<requests, pendingUnlinks>>
      BY <1>46 DEF RequestReturns
    <3>4. ~Queued(UnlinkR)' /\ UniqueUnlink(requests)' /\ ~UnlinkPending' /\ UniqueServing'
      BY <1>u, <3>2, <3>3 DEF Queued, After, AfterIn, UniqueUnlink, UnlinkPending, UniqueServing
    <3>5. fstate'[FirstSegment] = "gone"
      BY <2>4, FilesFacts
    <3> QED
      BY <3>4, <3>5 DEF UnlinkInv, UniqueServing
  <2> QED
    BY <1>46, <2>3, <2>4 DEF RequestReturns
<1>47. ASSUME NEW p \in Proc, SyncDirtySegmentError(p)
      PROVE  UnlinkInv'
  <2>1. PICK f \in Files : Flushed(p, f)
    BY <1>47, FlushGoes
  <2>2. NoUnlinker' <=> NoUnlinker
    BY <2>1, SameUnlinker DEF Flushed, Goes
  <2> QED
    BY <1>47, <2>2, UnlinkSame DEF SyncDirtySegmentError
<1> QED
  BY <1>1, <1>2, <1>3, <1>4, <1>5, <1>6, <1>7, <1>8, <1>9, <1>10, <1>11, <1>12, <1>13, <1>14,
    <1>15, <1>16, <1>17, <1>18, <1>19, <1>20, <1>21, <1>22, <1>23, <1>24, <1>25, <1>26, <1>27,
    <1>28, <1>29, <1>30, <1>31, <1>32, <1>33, <1>34, <1>35, <1>36, <1>37, <1>38, <1>39, <1>40,
    <1>41, <1>42, <1>43, <1>44, <1>45, <1>46, <1>47 DEF Next, CheckpointerStep,
    CheckpointerEvent, Call, Step

-----------------------------------------------------------------------------
(***************************************************************************)
(* The counters of checkpoints                                             *)
(***************************************************************************)
LEMMA CounterSame ==
  ASSUME CounterInv,
         UNCHANGED <<ckpt_started, ckpt_done, ckpt_flags, forced, pc, asked, old_started, new_started>>,
         Active' <=> Active, cpc' # "missing",
         cpc' \in {"startcast", "pre", "redo"} => cpc \in {"startcast", "pre", "redo"}
  PROVE  CounterInv'
<1>1. \A p \in Proc : AskedAt(p)'
  BY DEF CounterInv, AskedAt
<1> QED
  BY <1>1 DEF CounterInv

(* One backend takes a step.                                               *)
AskedOther(p) ==
  /\ UNCHANGED <<cpc, ckpt_started, ckpt_done, forced>> /\ (ckpt_flags => ckpt_flags')
  /\ \A q \in Proc : q # p => /\ pc'[q] = pc[q] /\ asked'[q] = asked[q]
                              /\ old_started'[q] = old_started[q] /\ new_started'[q] = new_started[q]

(* A step of p keeps what the others know of the counters.                 *)
LEMMA CounterOther ==
  ASSUME CounterInv, NEW p \in Proc, AskedOther(p), AskedAt(p)'
  PROVE  CounterInv'
<1>1. \A q \in Proc : q # p => AskedAt(q)'
  BY DEF CounterInv, AskedAt, AskedOther, Active
<1>2. Active' <=> Active
  BY DEF Active, AskedOther
<1> QED
  BY <1>1, <1>2 DEF CounterInv, AskedOther

(* Outside RequestCheckpoint.                                              *)
LEMMA CounterAway ==
  ASSUME CounterInv, NEW p \in Proc, OthersStay(p), pc[p] \notin Waiting, pc'[p] \notin Waiting,
         UNCHANGED <<cpc, ckpt_started, ckpt_done, ckpt_flags, forced, asked, old_started, new_started>>
  PROVE  CounterInv'
<1>1. AskedAt(p)'
  BY DEF CounterInv, AskedAt, Waiting
<1>2. AskedOther(p)
  BY DEF AskedOther, OthersStay
<1> QED
  BY <1>1, <1>2, CounterOther

(* A checkpoint that runs is not done.                                     *)
LEMMA NotReached ==
  ASSUME TypeInv
  PROVE  ~Reached(ckpt_done, Next_(ckpt_done, CTR_MODULUS))
<1>1. PICK m \in Nat : m = CTR_MODULUS
  BY ConstantsAssumption
<1>2. m % 2 = 0 /\ m # 0
  BY <1>1, ConstantsAssumption
<1>3. PICK h \in Nat : m = 2 * h /\ h >= 1
  <2>1. m = 2 * (m \div 2) + (m % 2) /\ m \div 2 \in Nat
    OBVIOUS
  <2> QED
    BY <1>2, <2>1
<1>4. PICK d \in 0 .. m - 1 : d = ckpt_done
  BY <1>1 DEF TypeInv, TypeOK
<1>5. m \div 2 = h
  BY <1>3
<1>6. CASE d + 1 < m
  <2>1. (d + 1) % m = d + 1
    BY <1>4, <1>6
  <2>2. (d - (d + 1)) % m = m - 1
    <3>1. d - (d + 1) = m * (0 - 1) + (m - 1)
      BY <1>4
    <3> QED
      BY <1>2, <3>1
  <2> QED
    BY <1>1, <1>3, <1>4, <1>5, <2>1, <2>2 DEF Reached, Next_
<1>7. CASE d + 1 = m
  <2>1. (d + 1) % m = 0
    BY <1>2, <1>7
  <2>2. (d - 0) % m = d
    BY <1>4
  <2> QED
    BY <1>1, <1>3, <1>4, <1>5, <1>7, <2>1, <2>2 DEF Reached, Next_
<1> QED
  BY <1>4, <1>6, <1>7

(* The counters, and what those who wait know of them.                     *)
LEMMA CounterStep ==
  ASSUME TypeInv, PlaceInv, CounterInv, RetryInv, Next
  PROVE  CounterInv'
<1> USE DEF ctlVars, cvVars, syncVars, loopVars, ckptVars, procVars, fileVars, histVars,
  backendVars, checkpointerVars, OthersUnchanged, SyncTablesUnchanged, RequestUnchanged, CGo,
  CJump, Go
<1>t. /\ asked \in [Proc -> {"no", "asked", "started", "ok", "failed"}] /\ pc \in [Proc -> Places]
      /\ old_started \in [Proc -> Nat] /\ new_started \in [Proc -> Nat] /\ op \in [Proc -> Operations]
      /\ arg \in [Proc -> RequestsMade \cup {NoRequest}]
  BY DEF TypeInv
<1>1. CASE StartCheckpointer
  BY <1>1, CounterSame DEF StartCheckpointer, Active
<1>2. CASE LoopResetLatch
  BY <1>2, CounterSame DEF LoopResetLatch, Active
<1>3. CASE LoopAbsorb
  BY <1>3, CounterSame DEF LoopAbsorb, Active
<1>4. CASE LoopTest
  BY <1>4, CounterSame DEF LoopTest, Active
<1>5. CASE BeginCheckpoint
  <2>1. /\ ~Active /\ Active' /\ cpc' = "startcast" /\ forced' = ckpt_flags
        /\ ckpt_started' = Next_(ckpt_started, CTR_MODULUS) /\ UNCHANGED <<ckpt_done, pc, new_started>>
    BY <1>5 DEF BeginCheckpoint, Active
  <2>2. \A p \in Proc : asked'[p] = IF asked[p] = "asked" THEN "started" ELSE asked[p]
    BY <1>5 DEF BeginCheckpoint
  <2>3. ASSUME NEW p \in Proc
        PROVE  AskedAt(p)'
    <3>1. AskedAt(p)
      BY DEF CounterInv
    <3>2. asked[p] # "started"
      BY <2>1, <3>1 DEF AskedAt
    <3> QED
      BY <2>1, <2>2, <3>1, <3>2 DEF AskedAt
  <2> QED
    BY <2>1, <2>3 DEF CounterInv
<1>6. CASE BroadcastStart
  BY <1>6, CounterSame DEF BroadcastStart, Active
<1>7. CASE EndCheckpoint
  <2>1. /\ ~Active' /\ cpc' # "missing" /\ ckpt_done' = ckpt_started
        /\ UNCHANGED <<ckpt_started, ckpt_flags, pc, old_started, new_started>>
    BY <1>7 DEF EndCheckpoint, Active
  <2>2. \A p \in Proc : asked'[p] = IF asked[p] = "started" THEN "ok" ELSE asked[p]
    BY <1>7 DEF EndCheckpoint
  <2>3. ASSUME NEW p \in Proc
        PROVE  AskedAt(p)'
    <3>1. AskedAt(p)
      BY DEF CounterInv
    <3> QED
      BY <2>1, <2>2, <3>1 DEF AskedAt
  <2> QED
    BY <2>1, <2>3 DEF CounterInv
<1>8. CASE CheckpointError
  <2>1. /\ ~Active' /\ cpc' # "missing" /\ ckpt_done' = ckpt_started
        /\ UNCHANGED <<ckpt_started, ckpt_flags, pc, old_started, new_started>>
    BY <1>8 DEF CheckpointError, Active
  <2>2. \A p \in Proc : asked'[p] = IF asked[p] = "started" THEN "failed" ELSE asked[p]
    BY <1>8 DEF CheckpointError
  <2>3. ASSUME NEW p \in Proc
        PROVE  AskedAt(p)'
    <3>1. AskedAt(p)
      BY DEF CounterInv
    <3> QED
      BY <2>1, <2>2, <3>1 DEF AskedAt
  <2> QED
    BY <2>1, <2>3 DEF CounterInv
<1>9. CASE BroadcastDone
  BY <1>9, CounterSame DEF BroadcastDone, Active
<1>10. CASE LoopRecheck
  BY <1>10, CounterSame DEF LoopRecheck, Active
<1>11. CASE WaitLatch
  BY <1>11, CounterSame DEF WaitLatch, Active
<1>12. CASE SyncPreCheckpoint
  BY <1>12, CounterSame DEF SyncPreCheckpoint, Active
<1>13. CASE SetRedo
  BY <1>13, CounterSame DEF SetRedo, Active
<1>14. CASE BufferSyncMark
  BY <1>14, CounterSame DEF BufferSyncMark, Active
<1>15. CASE CheckpointWriteDelay
  BY <1>15, CounterSame DEF CheckpointWriteDelay, Active
<1>16. CASE Nap
  BY <1>16, CounterSame DEF Nap, Active
<1>17. ASSUME NEW f \in Files, SyncOneBuffer(f)
      PROVE  CounterInv'
  BY <1>17, CounterSame DEF SyncOneBuffer, Active
<1>18. ASSUME NEW f \in Files, NextEntry(f)
      PROVE  CounterInv'
  BY <1>18, CounterSame DEF NextEntry, Active
<1>19. CASE ProcessSyncRequests
  BY <1>19, CounterSame DEF ProcessSyncRequests, Active
<1>20. CASE SyncCanceled
  BY <1>20, CounterSame DEF SyncCanceled, RemoveEntry, Active
<1>21. CASE SyncFile
  BY <1>21, CounterSame DEF SyncFile, RemoveEntry, Active
<1>22. CASE SyncRetry
  <2>1. failures \in {0, 1} /\ (failures = 1 => FALSE)
    BY <1>22 DEF SyncRetry, RetryInv, TypeInv, TypeOK
  <2> QED
    BY <1>22, <2>1, CounterSame DEF SyncRetry, Active
<1>23. CASE EndSync
  BY <1>23, CounterSame DEF EndSync, Active
<1>24. CASE WriteRecord
  BY <1>24, CounterSame DEF WriteRecord, Active
<1>25. CASE SyncPostCheckpoint
  BY <1>25, CounterSame DEF SyncPostCheckpoint, Active, CounterInv
<1>26. CASE EndPostCheckpoint
  BY <1>26, CounterSame DEF EndPostCheckpoint, Active
<1>27. CASE WriteError
  BY <1>27, CounterSame DEF WriteError, Active
<1>28. CASE SyncError
  BY <1>28, CounterSame DEF SyncError, Active
<1>29. CASE WaitLatchTimeout
  BY <1>29, CounterSame DEF WaitLatchTimeout, Active
<1>30. ASSUME NEW f \in Files, ModifyPage(f)
      PROVE  CounterInv'
  BY <1>30, CounterSame DEF ModifyPage, Active, CounterInv
<1>31. ASSUME NEW p \in Proc, NEW f \in Files, FlushBuffer(p, f)
      PROVE  CounterInv'
  <2>1. Goes(p, "flush", "forward", SyncR(f)) /\ Idle(p)
    <3>1. Begin(p, "flush", "forward", SyncR(f))
      BY <1>31 DEF FlushBuffer, SyncR
    <3> QED
      BY <3>1, BeginGoes
  <2> QED
    BY <1>31, <2>1, CounterAway DEF FlushBuffer, Goes, Idle, Waiting
<1>32. ASSUME NEW p \in Proc, NEW f \in Files, CreateFile(p, f)
      PROVE  CounterInv'
  <2>1. Goes(p, "create", "forward", SyncR(f)) /\ Idle(p)
    <3>1. Begin(p, "create", "forward", SyncR(f))
      BY <1>32 DEF CreateFile, SyncR
    <3> QED
      BY <3>1, BeginGoes
  <2> QED
    BY <1>32, <2>1, CounterAway DEF CreateFile, Goes, Idle, Waiting
<1>33. ASSUME NEW p \in Proc, DropRelation(p)
      PROVE  CounterInv'
  <2>1. Goes(p, "drop", "register", UnlinkR) /\ Idle(p)
    <3>1. Begin(p, "drop", "register", UnlinkR)
      BY <1>33 DEF DropRelation, UnlinkR
    <3> QED
      BY <3>1, BeginGoes
  <2> QED
    BY <1>33, <2>1, CounterAway DEF DropRelation, Goes, Idle, Waiting
<1>34. ASSUME NEW p \in Proc, DropDatabase(p)
      PROVE  CounterInv'
  <2>1. Goes(p, "dropdb", "register", FilterR) /\ Idle(p)
    <3>1. Begin(p, "dropdb", "register", FilterR)
      BY <1>34 DEF DropDatabase, FilterR
    <3> QED
      BY <3>1, BeginGoes
  <2> QED
    BY <1>34, <2>1, CounterAway DEF DropDatabase, Goes, Idle, Waiting
<1>35. ASSUME NEW p \in Proc, Checkpoint(p)
      PROVE  CounterInv'
  <2>1. /\ asked'[p] = "asked" /\ pc'[p] = "signal" /\ ckpt_flags' /\ old_started'[p] = ckpt_started'
    BY <1>35, <1>t DEF Checkpoint, SetRequestFlags, Begin
  <2>2. AskedOther(p)
    BY <1>35, <1>t DEF Checkpoint, SetRequestFlags, Begin, AskedOther
  <2>3. AskedAt(p)'
    BY <2>1 DEF AskedAt, Waiting
  <2> QED
    BY <2>2, <2>3, CounterOther
<1>36. ASSUME NEW p \in Proc, RegisterDirtySegment(p)
      PROVE  CounterInv'
  <2>1. \E f \in Files : Registered(p, f)
    BY <1>36, RegisterGoes DEF RegisterDirtySegment
  <2> QED
    BY <1>36, <2>1, CounterAway DEF RegisterDirtySegment, Registered, Goes, Idle, Waiting
<1>37. ASSUME NEW p \in Proc, SyncDirtySegment(p)
      PROVE  CounterInv'
  <2>1. \E f \in Files : Registered(p, f)
    BY <1>37, RegisterGoes DEF SyncDirtySegment
  <2> QED
    BY <1>37, <2>1, CounterAway DEF SyncDirtySegment, Registered, Goes, Idle, Waiting
<1>38. ASSUME NEW p \in Proc, TerminateBufferIO(p)
      PROVE  CounterInv'
  <2>1. Goes(p, "none", "idle", NoRequest) /\ pc[p] \notin Waiting
    BY <1>38, ReturnGoes DEF TerminateBufferIO, Waiting
  <2> QED
    BY <1>38, <2>1, CounterAway DEF TerminateBufferIO, Goes, Idle, Waiting
<1>39. ASSUME NEW p \in Proc, RegisterSyncRequest(p)
      PROVE  CounterInv'
  <2>1. pc[p] = "register" /\ OthersStay(p) /\ pc'[p] \notin Waiting
    BY <1>39, SyncRequestGoes DEF RegisteredUnlink, RegisteredForget, RegisteredFilter, Goes,
       GoesOn, Waiting
  <2> QED
    BY <1>39, <2>1, CounterAway DEF RegisterSyncRequest, Waiting
<1>40. ASSUME NEW p \in Proc, UnlinkFile(p)
      PROVE  CounterInv'
  <2>1. pc[p] = "unlink" /\ OthersStay(p) /\ pc'[p] \notin Waiting
    BY <1>40, NextSegmentFacts DEF UnlinkFile, OthersStay, GoesOn, Waiting
  <2> QED
    BY <1>40, <2>1, CounterAway DEF UnlinkFile, Waiting
<1>41. ASSUME NEW p \in Proc, RequestCheckpoint(p)
      PROVE  CounterInv'
  <2>1. /\ asked'[p] = "asked" /\ pc'[p] = "signal" /\ ckpt_flags' /\ old_started'[p] = ckpt_started'
    BY <1>41, <1>t DEF RequestCheckpoint, SetRequestFlags
  <2>2. AskedOther(p)
    BY <1>41, <1>t DEF RequestCheckpoint, SetRequestFlags, AskedOther
  <2>3. AskedAt(p)'
    BY <2>1 DEF AskedAt, Waiting
  <2> QED
    BY <2>2, <2>3, CounterOther
<1>42. ASSUME NEW p \in Proc, SignalCheckpointer(p)
      PROVE  CounterInv'
  <2>1. AskedOther(p)
    BY <1>42, <1>t DEF SignalCheckpointer, AskedOther
  <2>2. AskedAt(p)
    BY DEF CounterInv
  <2>3. AskedAt(p)'
    BY <1>42, <1>t, <2>2 DEF SignalCheckpointer, AskedAt, Active, Waiting
  <2> QED
    BY <2>1, <2>3, CounterOther
<1>43. ASSUME NEW p \in Proc, TestStarted(p)
      PROVE  CounterInv'
  <2>1. AskedOther(p)
    BY <1>43, <1>t DEF TestStarted, AskedOther
  <2>2. AskedAt(p)
    BY DEF CounterInv
  <2>3. AskedAt(p)'
    BY <1>43, <1>t, <2>2 DEF TestStarted, AskedAt, Active, Waiting
  <2> QED
    BY <2>1, <2>3, CounterOther
<1>44. ASSUME NEW p \in Proc, TestDone(p)
      PROVE  CounterInv'
  <2>1. AskedOther(p)
    BY <1>44, <1>t DEF TestDone, AskedOther
  <2>2. AskedAt(p)
    BY DEF CounterInv
  <2>3. asked[p] = "started" => ~Reached(ckpt_done, new_started[p])
    BY <1>44, <2>2, NotReached DEF TestDone, AskedAt, CounterInv
  <2>4. pc'[p] \in {"donesleep", "success", "failed"} /\ UNCHANGED asked
        /\ (pc'[p] \in {"success", "failed"} => Reached(ckpt_done, new_started[p]))
    BY <1>44, <1>t DEF TestDone
  <2>5. AskedAt(p)'
    BY <1>44, <2>2, <2>3, <2>4 DEF TestDone, AskedAt, Active, Waiting
  <2> QED
    BY <2>1, <2>5, CounterOther
<1>45. ASSUME NEW p \in Proc, SleepEnds(p)
      PROVE  CounterInv'
  <2>1. AskedOther(p)
    BY <1>45, <1>t DEF SleepEnds, AskedOther
  <2>2. AskedAt(p)
    BY DEF CounterInv
  <2>3. AskedAt(p)'
    BY <1>45, <1>t, <2>2 DEF SleepEnds, AskedAt, Active, Waiting
  <2> QED
    BY <2>1, <2>3, CounterOther
<1>46. ASSUME NEW p \in Proc, RequestReturns(p)
      PROVE  CounterInv'
  <2>1. AskedOther(p)
    BY <1>46, <1>t DEF RequestReturns, Return, AskedOther
  <2>2. AskedAt(p)
    BY DEF CounterInv
  <2>3. AskedAt(p)'
    BY <1>46, <1>t, <2>2 DEF RequestReturns, Return, AskedAt, Active, Waiting
  <2> QED
    BY <2>1, <2>3, CounterOther
<1>47. ASSUME NEW p \in Proc, SyncDirtySegmentError(p)
      PROVE  CounterInv'
  <2>1. Goes(p, "none", "idle", NoRequest) /\ pc[p] \notin Waiting
    BY <1>47, ReturnGoes DEF SyncDirtySegmentError, Waiting
  <2> QED
    BY <1>47, <2>1, CounterAway DEF SyncDirtySegmentError, Goes, Idle, Waiting
<1> QED
  BY <1>1, <1>2, <1>3, <1>4, <1>5, <1>6, <1>7, <1>8, <1>9, <1>10, <1>11, <1>12, <1>13, <1>14,
    <1>15, <1>16, <1>17, <1>18, <1>19, <1>20, <1>21, <1>22, <1>23, <1>24, <1>25, <1>26, <1>27,
    <1>28, <1>29, <1>30, <1>31, <1>32, <1>33, <1>34, <1>35, <1>36, <1>37, <1>38, <1>39, <1>40,
    <1>41, <1>42, <1>43, <1>44, <1>45, <1>46, <1>47 DEF Next, CheckpointerStep,
    CheckpointerEvent, Call, Step

-----------------------------------------------------------------------------
(***************************************************************************)
(* DROP DATABASE                                                           *)
(***************************************************************************)
(* It has cancelled all requests.                                          *)
Dropper(p) == op[p] = "dropdb" /\ pc[p] # "register"

(* FilterInv, with the request types spelt out.                            *)
LEMMA FilterParts ==
  FilterInv <=>
    /\ Queued(FilterR) => \E p \in Proc : Dropper(p)
    /\ \A p \in Proc : Dropper(p) => /\ ~LastUnlink
                                     /\ UnlinkPending => Queued(FilterR)
                                     /\ \A f \in Files : ~Wanted(f)
                                     /\ Absorbs(p) => requests = << >>
BY DEF FilterInv, Dropper, LastUnlink

(* The same backends, with less to do.                                     *)
LEMMA FilterLess ==
  ASSUME FilterInv, UNCHANGED requests, UnlinkPending' => UnlinkPending,
         \A f \in Files : Wanted(f)' => Wanted(f),
         \A p \in Proc : Dropper(p)' <=> Dropper(p),
         \A p \in Proc : Absorbs(p)' => Absorbs(p)
  PROVE  FilterInv'
<1>1. (Queued(FilterR)' <=> Queued(FilterR)) /\ (LastUnlink' <=> LastUnlink)
  BY DEF Queued, After, AfterIn, LastUnlink
<1> QED
  BY <1>1, FilterParts DEF FilterInv, Dropper, LastUnlink

(* FilterInv is kept while the queue and the tables stay as they are.      *)
LEMMA FilterSame ==
  ASSUME FilterInv, UNCHANGED <<requests, pendingOps, pendingUnlinks>>,
         \A p \in Proc : Dropper(p)' <=> Dropper(p),
         \A p \in Proc : Absorbs(p)' => Absorbs(p)
  PROVE  FilterInv'
<1>1. \A f \in Files : Wanted(f)' <=> Wanted(f)
  BY DEF Wanted, Queued, After, AfterIn, Pending
<1>2. UnlinkPending' <=> UnlinkPending
  BY DEF UnlinkPending
<1> QED
  BY <1>1, <1>2, FilterLess

(* The queue is empty, and the same sync requests are wanted.              *)
LEMMA FilterEmpty ==
  ASSUME FilterInv, requests' = << >>, UnlinkPending' => LastUnlink \/ (UnlinkPending /\ ~Queued(FilterR)),
         \A f \in Files : Wanted(f)' => Wanted(f),
         \A p \in Proc : Dropper(p)' => Dropper(p)
  PROVE  FilterInv'
<1>1. ~Queued(FilterR)' /\ ~LastUnlink'
  BY EmptyFacts DEF Emptied
<1> QED
  BY <1>1, FilterParts DEF FilterInv, Dropper, LastUnlink

(* FilterInv is kept when the queue is absorbed.                           *)
LEMMA FilterAbsorb ==
  ASSUME TypeInv, FilterInv, requests' = << >>, pendingUnlinks' = Absorbed.unlinks,
         pendingOps' \in {Absorbed.ops, Restamp(Absorbed.ops)}, UNCHANGED <<op, pc>>
  PROVE  FilterInv'
<1>1. UnlinksAbsorbed /\ OpsAbsorbed
  BY UnlinksView, OpsView
<1>2. /\ UnlinkPending' => LastUnlink \/ (UnlinkPending /\ ~Queued(FilterR))
      /\ \A f \in Files : Wanted(f)' => Wanted(f)
  BY <1>1 DEF UnlinksAbsorbed, OpsAbsorbed
<1>3. \A p \in Proc : Dropper(p)' => Dropper(p)
  BY DEF Dropper
<1> QED
  BY <1>2, <1>3, FilterEmpty

(* While a file lives, or is dropped alone, there is no DROP DATABASE.     *)
LEMMA NoDropper ==
  ASSUME FileInv, FilterInv, NEW f \in Files, fstate[f] \in {"live", "dropped"}
  PROVE  ~Queued(FilterR) /\ \A p \in Proc : ~Dropper(p)
BY FilterParts DEF FileInv, DropInv, Dropper

(* Nobody is there who could do wrong.                                     *)
LEMMA FilterFree ==
  ASSUME ~Queued(FilterR)', \A p \in Proc : ~Dropper(p)'
  PROVE  FilterInv'
BY DEF FilterInv, Dropper

(* DROP DATABASE and its request.                                          *)
LEMMA FilterStep ==
  ASSUME TypeInv, PlaceInv, CounterInv, FileInv, UnlinkInv, FilterInv, Next
  PROVE  FilterInv'
<1> USE RequestForms DEF ctlVars, cvVars, syncVars, loopVars, ckptVars, procVars, fileVars,
  histVars, backendVars, checkpointerVars, OthersUnchanged, SyncTablesUnchanged,
  RequestUnchanged, CGo, CJump, Go
<1>t. /\ asked \in [Proc -> {"no", "asked", "started", "ok", "failed"}] /\ pc \in [Proc -> Places]
      /\ op \in [Proc -> Operations]
  BY DEF TypeInv
<1>1. CASE StartCheckpointer
  BY <1>1, FilterSame DEF StartCheckpointer, Dropper, Absorbs
<1>2. CASE LoopResetLatch
  BY <1>2, FilterSame DEF LoopResetLatch, Dropper, Absorbs
<1>3. CASE LoopAbsorb
  BY <1>3, FilterSame, FilterAbsorb DEF LoopAbsorb, AbsorbSyncRequests, Dropper, Absorbs
<1>4. CASE LoopTest
  BY <1>4, FilterSame DEF LoopTest, Dropper, Absorbs
<1>5. CASE BeginCheckpoint
  <2>1. \A p \in Proc : Absorbs(p)' => Absorbs(p)
    BY <1>5, <1>t DEF BeginCheckpoint, Absorbs
  <2>2. \A p \in Proc : Dropper(p)' <=> Dropper(p)
    BY <1>5 DEF BeginCheckpoint, Dropper
  <2> QED
    BY <1>5, <2>1, <2>2, FilterSame DEF BeginCheckpoint
<1>6. CASE BroadcastStart
  BY <1>6, FilterSame DEF BroadcastStart, Dropper, Absorbs
<1>7. CASE EndCheckpoint
  <2>1. \A p \in Proc : Absorbs(p)' => Absorbs(p)
    BY <1>7, <1>t DEF EndCheckpoint, Absorbs
  <2>2. \A p \in Proc : Dropper(p)' <=> Dropper(p)
    BY <1>7 DEF EndCheckpoint, Dropper
  <2> QED
    BY <1>7, <2>1, <2>2, FilterSame DEF EndCheckpoint
<1>8. CASE CheckpointError
  <2>1. \A p \in Proc : Absorbs(p)' => Absorbs(p)
    BY <1>8, <1>t DEF CheckpointError, Absorbs
  <2>2. \A p \in Proc : Dropper(p)' <=> Dropper(p)
    BY <1>8 DEF CheckpointError, Dropper
  <2> QED
    BY <1>8, <2>1, <2>2, FilterSame DEF CheckpointError
<1>9. CASE BroadcastDone
  BY <1>9, FilterSame DEF BroadcastDone, Dropper, Absorbs
<1>10. CASE LoopRecheck
  BY <1>10, FilterSame DEF LoopRecheck, Dropper, Absorbs
<1>11. CASE WaitLatch
  BY <1>11, FilterSame DEF WaitLatch, Dropper, Absorbs
<1>12. CASE SyncPreCheckpoint
  BY <1>12, FilterSame, FilterAbsorb DEF SyncPreCheckpoint, PreAbsorb, AbsorbSyncRequests,
    Dropper, Absorbs
<1>13. CASE SetRedo
  BY <1>13, FilterSame DEF SetRedo, Dropper, Absorbs
<1>14. CASE BufferSyncMark
  BY <1>14, FilterSame DEF BufferSyncMark, Dropper, Absorbs
<1>15. CASE CheckpointWriteDelay
  BY <1>15, FilterSame, FilterAbsorb DEF CheckpointWriteDelay, AbsorbSyncRequests, Dropper,
    Absorbs
<1>16. CASE Nap
  BY <1>16, FilterSame DEF Nap, Dropper, Absorbs
<1>17. ASSUME NEW f \in Files, SyncOneBuffer(f)
      PROVE  FilterInv'
  <2>1. CASE buf[f] = {}
    BY <1>17, <2>1, FilterSame DEF SyncOneBuffer, Dropper, Absorbs
  <2>2. CASE buf[f] # {}
    <3>1. ~Queued(FilterR) /\ \A p \in Proc : ~Dropper(p)
      BY <2>2, NoDropper DEF FileInv, LiveInv, Live
    <3>2. ~Queued(FilterR)' /\ \A p \in Proc : ~Dropper(p)'
      BY <1>17, <3>1 DEF SyncOneBuffer, Dropper, Queued, After, AfterIn
    <3> QED
      BY <3>2, FilterFree
  <2> QED
    BY <2>1, <2>2
<1>18. ASSUME NEW f \in Files, NextEntry(f)
      PROVE  FilterInv'
  BY <1>18, FilterSame, FilterAbsorb DEF NextEntry, AbsorbSyncRequests, Dropper, Absorbs
<1>19. CASE ProcessSyncRequests
  BY <1>19, FilterSame, FilterAbsorb DEF ProcessSyncRequests, Dropper, Absorbs
<1>20. CASE SyncCanceled
  <2>1. UNCHANGED <<requests, pendingUnlinks, pc, op, asked>> /\ cpc = "try" /\ cpc' = "scan"
    BY <1>20 DEF SyncCanceled, RemoveEntry
  <2>2. \A f \in Files : Pending(f)' => Pending(f)
    BY <1>20 DEF SyncCanceled, RemoveEntry, Pending
  <2>3. \A f \in Files : Wanted(f)' => Wanted(f)
    BY <2>1, <2>2 DEF Wanted, Queued, After, AfterIn
  <2> QED
    BY <2>1, <2>3, FilterLess DEF UnlinkPending, Dropper, Absorbs
<1>21. CASE SyncFile
  <2>1. UNCHANGED <<requests, pendingUnlinks, pc, op, asked>> /\ cpc = "try" /\ cpc' = "scan"
    BY <1>21 DEF SyncFile, RemoveEntry
  <2>2. \A f \in Files : Pending(f)' => Pending(f)
    BY <1>21 DEF SyncFile, RemoveEntry, Pending
  <2>3. \A f \in Files : Wanted(f)' => Wanted(f)
    BY <2>1, <2>2 DEF Wanted, Queued, After, AfterIn
  <2> QED
    BY <2>1, <2>3, FilterLess DEF UnlinkPending, Dropper, Absorbs
<1>22. CASE SyncRetry
  BY <1>22, FilterSame, FilterAbsorb DEF SyncRetry, RetryAbsorb, AbsorbSyncRequests, Dropper,
    Absorbs
<1>23. CASE EndSync
  BY <1>23, FilterSame DEF EndSync, Dropper, Absorbs
<1>24. CASE WriteRecord
  BY <1>24, FilterSame DEF WriteRecord, Dropper, Absorbs
<1>25. CASE SyncPostCheckpoint
  <2>1. UNCHANGED <<pc, op, asked, cpc>>
    BY <1>25 DEF SyncPostCheckpoint
  <2>2. /\ \A p \in Proc : Dropper(p)' <=> Dropper(p)
        /\ \A p \in Proc : Absorbs(p)' => Absorbs(p)
    BY <2>1 DEF Dropper, Absorbs
  <2>3. UnlinkPending' => UnlinkPending
    BY <1>25, PostFacts DEF PostedCanceled, PostedDue
  <2>4. CASE UNCHANGED <<requests, pendingOps>>
    <3>1. \A f \in Files : Wanted(f)' <=> Wanted(f)
      BY <2>4 DEF Wanted, Queued, After, AfterIn, Pending
    <3> QED
      BY <2>2, <2>3, <2>4, <3>1, FilterLess
  <2>5. CASE requests' = << >> /\ pendingOps' = Absorbed.ops /\ ~UnlinkPending'
    <3>1. \A f \in Files : Wanted(f)' <=> Wanted(f)
      BY <2>5, OpsView DEF OpsAbsorbed
    <3> QED
      BY <2>2, <2>5, <3>1, FilterEmpty
  <2> QED
    BY <1>25, <2>4, <2>5, PostFacts DEF PostedCanceled, PostedDue
<1>26. CASE EndPostCheckpoint
  BY <1>26, FilterSame DEF EndPostCheckpoint, Dropper, Absorbs
<1>27. CASE WriteError
  BY <1>27, FilterSame DEF WriteError, Dropper, Absorbs
<1>28. CASE SyncError
  BY <1>28, FilterSame DEF SyncError, Dropper, Absorbs
<1>29. CASE WaitLatchTimeout
  BY <1>29, FilterSame DEF WaitLatchTimeout, Dropper, Absorbs
<1>30. ASSUME NEW f \in Files, ModifyPage(f)
      PROVE  FilterInv'
  BY <1>30, FilterSame DEF ModifyPage, Dropper, Absorbs
<1>31. ASSUME NEW p \in Proc, NEW f \in Files, FlushBuffer(p, f)
      PROVE  FilterInv'
  <2>1. Goes(p, "flush", "forward", SyncR(f)) /\ Idle(p)
    <3>1. Begin(p, "flush", "forward", SyncR(f))
      BY <1>31 DEF FlushBuffer, SyncR
    <3> QED
      BY <3>1, BeginGoes
  <2>2. UNCHANGED <<requests, pendingOps, pendingUnlinks, asked, cpc>>
    BY <1>31 DEF FlushBuffer
  <2>3. /\ \A q \in Proc : Dropper(q)' <=> Dropper(q)
        /\ \A q \in Proc : Absorbs(q)' => Absorbs(q)
    BY <2>1, <2>2 DEF Goes, OthersStay, Idle, Dropper, Absorbs
  <2> QED
    BY <2>2, <2>3, FilterSame
<1>32. ASSUME NEW p \in Proc, NEW f \in Files, CreateFile(p, f)
      PROVE  FilterInv'
  <2>1. Goes(p, "create", "forward", SyncR(f)) /\ Idle(p)
    <3>1. Begin(p, "create", "forward", SyncR(f))
      BY <1>32 DEF CreateFile, SyncR
    <3> QED
      BY <3>1, BeginGoes
  <2>2. UNCHANGED <<requests, pendingOps, pendingUnlinks, asked, cpc>>
    BY <1>32 DEF CreateFile
  <2>3. /\ \A q \in Proc : Dropper(q)' <=> Dropper(q)
        /\ \A q \in Proc : Absorbs(q)' => Absorbs(q)
    BY <2>1, <2>2 DEF Goes, OthersStay, Idle, Dropper, Absorbs
  <2> QED
    BY <2>2, <2>3, FilterSame
<1>33. ASSUME NEW p \in Proc, DropRelation(p)
      PROVE  FilterInv'
  <2>1. Goes(p, "drop", "register", UnlinkR) /\ Idle(p)
    <3>1. Begin(p, "drop", "register", UnlinkR)
      BY <1>33 DEF DropRelation, UnlinkR
    <3> QED
      BY <3>1, BeginGoes
  <2>2. UNCHANGED <<requests, pendingOps, pendingUnlinks, asked, cpc>>
    BY <1>33 DEF DropRelation
  <2>3. /\ \A q \in Proc : Dropper(q)' <=> Dropper(q)
        /\ \A q \in Proc : Absorbs(q)' => Absorbs(q)
    BY <2>1, <2>2 DEF Goes, OthersStay, Idle, Dropper, Absorbs
  <2> QED
    BY <2>2, <2>3, FilterSame
<1>34. ASSUME NEW p \in Proc, DropDatabase(p)
      PROVE  FilterInv'
  <2>1. Goes(p, "dropdb", "register", FilterR) /\ Idle(p)
    <3>1. Begin(p, "dropdb", "register", FilterR)
      BY <1>34 DEF DropDatabase, FilterR
    <3> QED
      BY <3>1, BeginGoes
  <2>2. UNCHANGED <<requests, pendingOps, pendingUnlinks, asked, cpc>>
    BY <1>34 DEF DropDatabase
  <2>3. /\ \A q \in Proc : Dropper(q)' <=> Dropper(q)
        /\ \A q \in Proc : Absorbs(q)' => Absorbs(q)
    BY <2>1, <2>2 DEF Goes, OthersStay, Idle, Dropper, Absorbs
  <2> QED
    BY <2>2, <2>3, FilterSame
<1>35. ASSUME NEW p \in Proc, Checkpoint(p)
      PROVE  FilterInv'
  <2>1. \A q \in Proc : Dropper(q)' <=> Dropper(q)
    BY <1>35, <1>t, PlaceFacts DEF Checkpoint, SetRequestFlags, Begin, Dropper, PlaceFactsAt
  <2>2. \A q \in Proc : Absorbs(q)' => Absorbs(q)
    BY <1>35, <1>t DEF Checkpoint, SetRequestFlags, Begin, Absorbs
  <2> QED
    BY <1>35, <2>1, <2>2, FilterSame DEF Checkpoint, SetRequestFlags
<1>36. ASSUME NEW p \in Proc, RegisterDirtySegment(p)
      PROVE  FilterInv'
  <2>1. PICK f \in Files : Registered(p, f)
    BY <1>36, RegisterGoes DEF RegisterDirtySegment
  <2>2. PICK x : x = arg[p]
    OBVIOUS
  <2>3. Forwards(x) /\ x = SyncR(f)
    BY <1>36, <2>1, <2>2, RegisterForwards DEF Registered
  <2>4. ~Queued(FilterR) /\ \A q \in Proc : ~Dropper(q)
    BY <2>1, NoDropper DEF Registered, FileInv, LiveInv, Live
  <2>5. \A q \in Proc : ~Dropper(q)'
    BY <2>1, <2>4 DEF Registered, Goes, OthersStay, Dropper
  <2>6. ~Queued(FilterR)'
    BY <2>3, <2>4 DEF Forwards
  <2> QED
    BY <2>5, <2>6, FilterFree
<1>37. ASSUME NEW p \in Proc, SyncDirtySegment(p)
      PROVE  FilterInv'
  <2>1. \E f \in Files : Registered(p, f)
    BY <1>37, RegisterGoes DEF SyncDirtySegment
  <2>2. UNCHANGED <<requests, pendingOps, pendingUnlinks, asked, cpc>>
    BY <1>37 DEF SyncDirtySegment
  <2>3. /\ \A q \in Proc : Dropper(q)' <=> Dropper(q)
        /\ \A q \in Proc : Absorbs(q)' => Absorbs(q)
    BY <2>1, <2>2 DEF Registered, Goes, OthersStay, Idle, Dropper, Absorbs
  <2> QED
    BY <2>2, <2>3, FilterSame
<1>38. ASSUME NEW p \in Proc, TerminateBufferIO(p)
      PROVE  FilterInv'
  <2>1. \E f \in Files : Flushed(p, f)
    BY <1>38, FlushGoes
  <2>2. UNCHANGED <<requests, pendingOps, pendingUnlinks, asked, cpc>>
    BY <1>38 DEF TerminateBufferIO
  <2>3. /\ \A q \in Proc : Dropper(q)' <=> Dropper(q)
        /\ \A q \in Proc : Absorbs(q)' => Absorbs(q)
    BY <2>1, <2>2 DEF Flushed, Goes, OthersStay, Idle, Dropper, Absorbs
  <2> QED
    BY <2>2, <2>3, FilterSame
<1>39. ASSUME NEW p \in Proc, RegisterSyncRequest(p)
      PROVE  FilterInv'
  <2>1. PICK x : x = arg[p]
    OBVIOUS
  <2>2. Forwards(x)
    BY <1>39, <2>1, RegisterForwards
  <2>3. CASE RegisteredUnlink(p) \/ \E f \in Segments : RegisteredForget(p, f)
    <3>1. x # FilterR /\ op[p] = "drop" /\ \E f \in Files : fstate[f] = "dropped"
      BY <2>1, <2>3, FilesFacts DEF RegisteredUnlink, RegisteredForget, FileInv, DropInv
    <3>2. ~Queued(FilterR) /\ \A q \in Proc : ~Dropper(q)
      BY <3>1, NoDropper
    <3>3. \A q \in Proc : ~Dropper(q)'
      BY <2>3, <3>2 DEF RegisteredUnlink, RegisteredForget, Goes, GoesOn, OthersStay, Dropper
    <3>4. ~Queued(FilterR)'
      BY <2>2, <3>1, <3>2 DEF Forwards
    <3> QED
      BY <3>3, <3>4, FilterFree
  <2>4. CASE RegisteredFilter(p)
    <3>1. /\ x = FilterR /\ Goes(p, "dropdb", "request", FilterR) /\ op[p] = "dropdb" /\ pc[p] = "register"
      BY <1>39, <2>1, <2>4 DEF RegisteredFilter, RegisterSyncRequest
    <3>2. Dropper(p)' /\ \A q \in Proc : Dropper(q)' => q = p
      BY <3>1 DEF Goes, OthersStay, Dropper, FileInv, DropInv
    <3>3. Queued(FilterR)' /\ ~LastUnlink' /\ \A f \in Files : ~Wanted(f)'
      BY <2>2, <3>1 DEF Forwards, Cancels
    <3>4. AskedAt(p)
      BY DEF CounterInv
    <3>5. asked[p] = "no" /\ UNCHANGED asked
      BY <1>39, <3>1, <3>4 DEF AskedAt, Waiting, RegisterSyncRequest
    <3>6. ~Absorbs(p)'
      BY <3>5 DEF Absorbs
    <3> QED
      BY <3>2, <3>3, <3>6 DEF FilterInv, Dropper, LastUnlink
  <2> QED
    BY <1>39, <2>3, <2>4, SyncRequestGoes
<1>40. ASSUME NEW p \in Proc, UnlinkFile(p)
      PROVE  FilterInv'
  <2>1. \E f \in Segments : Unlinks(p, f)
    BY <1>40, UnlinkGoes
  <2>2. UNCHANGED <<requests, pendingOps, pendingUnlinks, asked, cpc>>
    BY <1>40 DEF UnlinkFile
  <2>3. /\ \A q \in Proc : Dropper(q)' <=> Dropper(q)
        /\ \A q \in Proc : Absorbs(q)' => Absorbs(q)
    BY <2>1, <2>2 DEF Unlinks, GoesOn, Goes, OthersStay, Idle, Dropper, Absorbs
  <2> QED
    BY <2>2, <2>3, FilterSame
<1>41. ASSUME NEW p \in Proc, RequestCheckpoint(p)
      PROVE  FilterInv'
  <2>1. \A q \in Proc : Dropper(q)' <=> Dropper(q)
    BY <1>41, <1>t, PlaceFacts DEF RequestCheckpoint, SetRequestFlags, Dropper, PlaceFactsAt
  <2>2. \A q \in Proc : Absorbs(q)' => Absorbs(q)
    BY <1>41, <1>t DEF RequestCheckpoint, SetRequestFlags, Absorbs
  <2> QED
    BY <1>41, <2>1, <2>2, FilterSame DEF RequestCheckpoint, SetRequestFlags
<1>42. ASSUME NEW p \in Proc, SignalCheckpointer(p)
      PROVE  FilterInv'
  <2>1. \A q \in Proc : Dropper(q)' <=> Dropper(q)
    BY <1>42, <1>t DEF SignalCheckpointer, Dropper
  <2>2. \A q \in Proc : Absorbs(q)' => Absorbs(q)
    BY <1>42 DEF SignalCheckpointer, Absorbs
  <2> QED
    BY <1>42, <2>1, <2>2, FilterSame DEF SignalCheckpointer
<1>43. ASSUME NEW p \in Proc, TestStarted(p)
      PROVE  FilterInv'
  <2>1. \A q \in Proc : Dropper(q)' <=> Dropper(q)
    BY <1>43, <1>t DEF TestStarted, Dropper
  <2>2. \A q \in Proc : Absorbs(q)' => Absorbs(q)
    BY <1>43 DEF TestStarted, Absorbs
  <2> QED
    BY <1>43, <2>1, <2>2, FilterSame DEF TestStarted
<1>44. ASSUME NEW p \in Proc, TestDone(p)
      PROVE  FilterInv'
  <2>1. \A q \in Proc : Dropper(q)' <=> Dropper(q)
    BY <1>44, <1>t DEF TestDone, Dropper
  <2>2. \A q \in Proc : Absorbs(q)' => Absorbs(q)
    BY <1>44 DEF TestDone, Absorbs
  <2> QED
    BY <1>44, <2>1, <2>2, FilterSame DEF TestDone
<1>45. ASSUME NEW p \in Proc, SleepEnds(p)
      PROVE  FilterInv'
  <2>1. \A q \in Proc : Dropper(q)' <=> Dropper(q)
    BY <1>45, <1>t DEF SleepEnds, Dropper
  <2>2. \A q \in Proc : Absorbs(q)' => Absorbs(q)
    BY <1>45 DEF SleepEnds, Absorbs
  <2> QED
    BY <1>45, <2>1, <2>2, FilterSame DEF SleepEnds
<1>46. ASSUME NEW p \in Proc, RequestReturns(p)
      PROVE  FilterInv'
  <2>1. Goes(p, "none", "idle", NoRequest)
    BY <1>46, ReturnGoes DEF RequestReturns
  <2>2. UNCHANGED <<requests, pendingOps, pendingUnlinks, cpc>>
    BY <1>46 DEF RequestReturns
  <2>3. \A q \in Proc : q # p => (Dropper(q)' <=> Dropper(q))
    BY <2>1 DEF Goes, OthersStay, Dropper
  <2>4. \A q \in Proc : Absorbs(q)' => Absorbs(q)
    BY <1>46, <1>t DEF RequestReturns, Absorbs
  <2>5. CASE Dropper(p)
    <3>1. requests = << >>
      BY <1>46, <2>5, WaitOver, FilterParts DEF RequestReturns
    <3>2. ~Queued(FilterR)'
      BY <2>2, <3>1, EmptyFacts DEF Emptied
    <3>3. \A q \in Proc : ~Dropper(q)'
      BY <2>1, <2>5 DEF Goes, OthersStay, Dropper, FileInv, DropInv
    <3> QED
      BY <3>2, <3>3, FilterFree
  <2>6. CASE ~Dropper(p)
    <3>1. ~Dropper(p)'
      BY <2>1 DEF Goes, Dropper
    <3> QED
      BY <2>2, <2>3, <2>4, <2>6, <3>1, FilterSame
  <2> QED
    BY <2>5, <2>6
<1>47. ASSUME NEW p \in Proc, SyncDirtySegmentError(p)
      PROVE  FilterInv'
  <2>1. \E f \in Files : Flushed(p, f)
    BY <1>47, FlushGoes
  <2>2. UNCHANGED <<requests, pendingOps, pendingUnlinks, asked, cpc>>
    BY <1>47 DEF SyncDirtySegmentError
  <2>3. /\ \A q \in Proc : Dropper(q)' <=> Dropper(q)
        /\ \A q \in Proc : Absorbs(q)' => Absorbs(q)
    BY <2>1, <2>2 DEF Flushed, Goes, OthersStay, Idle, Dropper, Absorbs
  <2> QED
    BY <2>2, <2>3, FilterSame
<1> QED
  BY <1>1, <1>2, <1>3, <1>4, <1>5, <1>6, <1>7, <1>8, <1>9, <1>10, <1>11, <1>12, <1>13, <1>14,
    <1>15, <1>16, <1>17, <1>18, <1>19, <1>20, <1>21, <1>22, <1>23, <1>24, <1>25, <1>26, <1>27,
    <1>28, <1>29, <1>30, <1>31, <1>32, <1>33, <1>34, <1>35, <1>36, <1>37, <1>38, <1>39, <1>40,
    <1>41, <1>42, <1>43, <1>44, <1>45, <1>46, <1>47 DEF Next, CheckpointerStep,
    CheckpointerEvent, Call, Step

-----------------------------------------------------------------------------
(***************************************************************************)
(* Cancels arrive in time                                                  *)
(***************************************************************************)
LEMMA WantedSame ==
  ASSUME UNCHANGED <<requests, pendingOps>>
  PROVE  \A f \in Files : Wanted(f)' <=> Wanted(f)
BY DEF Wanted, Queued, After, AfterIn, Pending

(* Nobody comes to the unlink.                                             *)
UnlinkersStay ==
  \A p \in Proc, f \in Segments :
    pc'[p] = "unlink" /\ arg'[p] = ForgetR(f) => pc[p] = "unlink" /\ arg[p] = ForgetR(f)

(* GoneInv is kept when no sync is wanted anew and no file goes.           *)
LEMMA GoneLess ==
  ASSUME GoneInv, UnlinkersStay, \A f \in Files : Wanted(f)' => Wanted(f),
         \A f \in Files : fstate'[f] = "gone" => fstate[f] = "gone"
  PROVE  GoneInv'
BY FilesFacts DEF GoneInv, UnlinkersStay

(* GoneInv is kept while the queue and the table stay as they are.         *)
LEMMA GoneSame ==
  ASSUME GoneInv, UNCHANGED <<requests, pendingOps>>, UnlinkersStay,
         \A f \in Files : fstate'[f] = "gone" => fstate[f] = "gone"
  PROVE  GoneInv'
BY WantedSame, GoneLess

(* GoneInv is kept when the queue is absorbed.                             *)
LEMMA GoneAbsorb ==
  ASSUME TypeInv, GoneInv, requests' = << >>,
         pendingOps' \in {Absorbed.ops, Restamp(Absorbed.ops)}, UNCHANGED <<fstate, pc, arg>>
  PROVE  GoneInv'
<1>1. OpsAbsorbed
  BY OpsView
<1>2. \A f \in Files : Wanted(f)' => Wanted(f)
  BY <1>1 DEF OpsAbsorbed
<1> QED
  BY <1>2, GoneLess DEF UnlinkersStay

(* No sync request is left for a file that is gone.                        *)
LEMMA GoneStep ==
  ASSUME TypeInv, PlaceInv, FileInv, UnlinkInv, FilterInv, GoneInv, DueInv, Next
  PROVE  GoneInv'
<1> USE RequestForms DEF ctlVars, cvVars, syncVars, loopVars, ckptVars, procVars, fileVars,
  histVars, backendVars, checkpointerVars, OthersUnchanged, SyncTablesUnchanged,
  RequestUnchanged, CGo, CJump, Go
<1>t. /\ fstate \in [Files -> {"live", "dropped", "invalid", "gone", "left"}] /\ pc \in [Proc -> Places]
  BY DEF TypeInv, TypeOK
<1>1. CASE StartCheckpointer
  BY <1>1, GoneSame DEF StartCheckpointer, UnlinkersStay
<1>2. CASE LoopResetLatch
  BY <1>2, GoneSame DEF LoopResetLatch, UnlinkersStay
<1>3. CASE LoopAbsorb
  BY <1>3, GoneSame, GoneAbsorb DEF LoopAbsorb, AbsorbSyncRequests, UnlinkersStay
<1>4. CASE LoopTest
  BY <1>4, GoneSame DEF LoopTest, UnlinkersStay
<1>5. CASE BeginCheckpoint
  BY <1>5, GoneSame DEF BeginCheckpoint, UnlinkersStay
<1>6. CASE BroadcastStart
  BY <1>6, GoneSame DEF BroadcastStart, UnlinkersStay
<1>7. CASE EndCheckpoint
  BY <1>7, GoneSame DEF EndCheckpoint, UnlinkersStay
<1>8. CASE CheckpointError
  BY <1>8, GoneSame DEF CheckpointError, UnlinkersStay
<1>9. CASE BroadcastDone
  BY <1>9, GoneSame DEF BroadcastDone, UnlinkersStay
<1>10. CASE LoopRecheck
  BY <1>10, GoneSame DEF LoopRecheck, UnlinkersStay
<1>11. CASE WaitLatch
  BY <1>11, GoneSame DEF WaitLatch, UnlinkersStay
<1>12. CASE SyncPreCheckpoint
  BY <1>12, GoneSame, GoneAbsorb DEF SyncPreCheckpoint, PreAbsorb, AbsorbSyncRequests,
    UnlinkersStay
<1>13. CASE SetRedo
  BY <1>13, GoneSame DEF SetRedo, UnlinkersStay
<1>14. CASE BufferSyncMark
  BY <1>14, GoneSame DEF BufferSyncMark, UnlinkersStay
<1>15. CASE CheckpointWriteDelay
  BY <1>15, GoneSame, GoneAbsorb DEF CheckpointWriteDelay, AbsorbSyncRequests, UnlinkersStay
<1>16. CASE Nap
  BY <1>16, GoneSame DEF Nap, UnlinkersStay
<1>17. ASSUME NEW f \in Files, SyncOneBuffer(f)
      PROVE  GoneInv'
  <2>1. CASE buf[f] = {}
    BY <1>17, <2>1, GoneSame DEF SyncOneBuffer, UnlinkersStay
  <2>2. CASE buf[f] # {}
    <3>1. Owns(f) /\ Live(f)
      BY <1>17, <2>2, OwnFacts DEF FileInv, LiveInv
    <3>2. UNCHANGED <<requests, fstate, pc, arg>>
      BY <1>17 DEF SyncOneBuffer
    <3>3. \A g \in Files : g # f => (Pending(g)' <=> Pending(g))
      BY <3>1 DEF Owns, Pending
    <3>4. \A g \in Files : g # f => (Wanted(g)' <=> Wanted(g))
      BY <3>2, <3>3 DEF Wanted, Queued, After, AfterIn
    <3>5. \A p \in Proc, g \in Segments : arg[p] = ForgetR(g) => g # f
      BY <3>1 DEF FileInv, DropInv, Live
    <3> QED
      BY <3>1, <3>2, <3>4, <3>5, FilesFacts DEF GoneInv, Live
  <2> QED
    BY <2>1, <2>2
<1>18. ASSUME NEW f \in Files, NextEntry(f)
      PROVE  GoneInv'
  BY <1>18, GoneSame, GoneAbsorb DEF NextEntry, AbsorbSyncRequests, UnlinkersStay
<1>19. CASE ProcessSyncRequests
  BY <1>19, GoneSame, GoneAbsorb DEF ProcessSyncRequests, UnlinkersStay
<1>20. CASE SyncCanceled
  <2>1. UNCHANGED <<requests, fstate, pc, arg>>
    BY <1>20 DEF SyncCanceled
  <2>2. \A f \in Files : Pending(f)' => Pending(f)
    BY <1>20 DEF SyncCanceled, RemoveEntry, Pending
  <2>3. \A f \in Files : Wanted(f)' => Wanted(f)
    BY <2>1, <2>2 DEF Wanted, Queued, After, AfterIn
  <2> QED
    BY <2>1, <2>3, GoneLess DEF UnlinkersStay
<1>21. CASE SyncFile
  <2>1. UNCHANGED <<requests, fstate, pc, arg>>
    BY <1>21 DEF SyncFile
  <2>2. \A f \in Files : Pending(f)' => Pending(f)
    BY <1>21 DEF SyncFile, RemoveEntry, Pending
  <2>3. \A f \in Files : Wanted(f)' => Wanted(f)
    BY <2>1, <2>2 DEF Wanted, Queued, After, AfterIn
  <2> QED
    BY <2>1, <2>3, GoneLess DEF UnlinkersStay
<1>22. CASE SyncRetry
  BY <1>22, GoneSame, GoneAbsorb DEF SyncRetry, RetryAbsorb, AbsorbSyncRequests, UnlinkersStay
<1>23. CASE EndSync
  BY <1>23, GoneSame DEF EndSync, UnlinkersStay
<1>24. CASE WriteRecord
  BY <1>24, GoneSame DEF WriteRecord, UnlinkersStay
<1>25. CASE SyncPostCheckpoint
  <2>1. UNCHANGED <<pc, arg>> /\ cpc = "post"
    BY <1>25 DEF SyncPostCheckpoint
  <2>2. CASE PostedCanceled
    BY <2>1, <2>2, GoneSame DEF PostedCanceled, UnlinkersStay
  <2>3. CASE PostedDue
    <3>1. ~Queued(SyncR(FirstSegment)) /\ ~Pending(FirstSegment)
      BY <2>1, <2>3 DEF PostedDue, DueInv
    <3>2. ~Wanted(FirstSegment)
      BY <3>1 DEF Wanted, Queued, After, AfterIn
    <3>3. \A f \in Files : Wanted(f)' <=> Wanted(f)
      BY <2>3, WantedSame, OpsView DEF PostedDue, OpsAbsorbed
    <3>4. \A f \in Files : fstate'[f] = "gone" => f = FirstSegment \/ fstate[f] = "gone"
      BY <2>3 DEF PostedDue
    <3> QED
      BY <2>1, <3>2, <3>3, <3>4, FilesFacts DEF GoneInv
  <2> QED
    BY <1>25, <2>2, <2>3, PostFacts
<1>26. CASE EndPostCheckpoint
  BY <1>26, GoneSame DEF EndPostCheckpoint, UnlinkersStay
<1>27. CASE WriteError
  BY <1>27, GoneSame DEF WriteError, UnlinkersStay
<1>28. CASE SyncError
  BY <1>28, GoneSame DEF SyncError, UnlinkersStay
<1>29. CASE WaitLatchTimeout
  BY <1>29, GoneSame DEF WaitLatchTimeout, UnlinkersStay
<1>30. ASSUME NEW f \in Files, ModifyPage(f)
      PROVE  GoneInv'
  BY <1>30, GoneSame DEF ModifyPage, UnlinkersStay
<1>31. ASSUME NEW p \in Proc, NEW f \in Files, FlushBuffer(p, f)
      PROVE  GoneInv'
  <2>1. Goes(p, "flush", "forward", SyncR(f)) /\ Idle(p)
    <3>1. Begin(p, "flush", "forward", SyncR(f))
      BY <1>31 DEF FlushBuffer, SyncR
    <3> QED
      BY <3>1, BeginGoes
  <2>2. UnlinkersStay
    BY <2>1 DEF Goes, OthersStay, Idle, UnlinkersStay
  <2> QED
    BY <1>31, <1>t, <2>2, GoneSame DEF FlushBuffer
<1>32. ASSUME NEW p \in Proc, NEW f \in Files, CreateFile(p, f)
      PROVE  GoneInv'
  <2>1. Goes(p, "create", "forward", SyncR(f)) /\ Idle(p)
    <3>1. Begin(p, "create", "forward", SyncR(f))
      BY <1>32 DEF CreateFile, SyncR
    <3> QED
      BY <3>1, BeginGoes
  <2>2. UnlinkersStay
    BY <2>1 DEF Goes, OthersStay, Idle, UnlinkersStay
  <2> QED
    BY <1>32, <1>t, <2>2, GoneSame DEF CreateFile
<1>33. ASSUME NEW p \in Proc, DropRelation(p)
      PROVE  GoneInv'
  <2>1. Goes(p, "drop", "register", UnlinkR) /\ Idle(p)
    <3>1. Begin(p, "drop", "register", UnlinkR)
      BY <1>33 DEF DropRelation, UnlinkR
    <3> QED
      BY <3>1, BeginGoes
  <2>2. UnlinkersStay
    BY <2>1 DEF Goes, OthersStay, Idle, UnlinkersStay
  <2> QED
    BY <1>33, <1>t, <2>2, GoneSame DEF DropRelation, Dead
<1>34. ASSUME NEW p \in Proc, DropDatabase(p)
      PROVE  GoneInv'
  <2>1. Goes(p, "dropdb", "register", FilterR) /\ Idle(p)
    <3>1. Begin(p, "dropdb", "register", FilterR)
      BY <1>34 DEF DropDatabase, FilterR
    <3> QED
      BY <3>1, BeginGoes
  <2>2. UnlinkersStay
    BY <2>1 DEF Goes, OthersStay, Idle, UnlinkersStay
  <2> QED
    BY <1>34, <1>t, <2>2, GoneSame DEF DropDatabase, Dead
<1>35. ASSUME NEW p \in Proc, Checkpoint(p)
      PROVE  GoneInv'
  <2>1. Goes(p, "checkpoint", "signal", NoRequest) /\ Idle(p)
    <3>1. Begin(p, "checkpoint", "signal", NoRequest)
      BY <1>35 DEF Checkpoint
    <3> QED
      BY <3>1, BeginGoes
  <2>2. UnlinkersStay
    BY <2>1 DEF Goes, OthersStay, Idle, UnlinkersStay
  <2> QED
    BY <1>35, <1>t, <2>2, GoneSame DEF Checkpoint, SetRequestFlags
<1>36. ASSUME NEW p \in Proc, RegisterDirtySegment(p)
      PROVE  GoneInv'
  <2>1. PICK f \in Files : Registered(p, f)
    BY <1>36, RegisterGoes DEF RegisterDirtySegment
  <2>2. PICK x : x = arg[p]
    OBVIOUS
  <2>3. Forwards(x) /\ x = SyncR(f)
    BY <1>36, <2>1, <2>2, RegisterForwards DEF Registered
  <2>4. Live(f) /\ \A q \in Proc, g \in Segments : arg[q] = ForgetR(g) => g # f
    BY <2>1 DEF Registered, FileInv, LiveInv, DropInv, Live
  <2>5. UNCHANGED fstate
    BY <1>36 DEF RegisterDirtySegment
  <2>6. \A g \in Files : g # f /\ Wanted(g)' => Wanted(g)
    BY <2>3 DEF Forwards
  <2>7. UnlinkersStay
    BY <2>1 DEF Registered, Goes, OthersStay, UnlinkersStay
  <2> QED
    BY <2>4, <2>5, <2>6, <2>7, FilesFacts DEF GoneInv, UnlinkersStay, Live
<1>37. ASSUME NEW p \in Proc, SyncDirtySegment(p)
      PROVE  GoneInv'
  <2>1. \E f \in Files : Registered(p, f)
    BY <1>37, RegisterGoes DEF SyncDirtySegment
  <2>2. UnlinkersStay
    BY <2>1 DEF Registered, Goes, OthersStay, Idle, UnlinkersStay
  <2> QED
    BY <1>37, <1>t, <2>2, GoneSame DEF SyncDirtySegment
<1>38. ASSUME NEW p \in Proc, TerminateBufferIO(p)
      PROVE  GoneInv'
  <2>1. \E f \in Files : Flushed(p, f)
    BY <1>38, FlushGoes
  <2>2. UnlinkersStay
    BY <2>1 DEF Flushed, Goes, OthersStay, Idle, UnlinkersStay
  <2> QED
    BY <1>38, <1>t, <2>2, GoneSame DEF TerminateBufferIO
<1>39. ASSUME NEW p \in Proc, RegisterSyncRequest(p)
      PROVE  GoneInv'
  <2>1. PICK x : x = arg[p]
    OBVIOUS
  <2>2. Forwards(x)
    BY <1>39, <2>1, RegisterForwards
  <2>3. UNCHANGED fstate
    BY <1>39 DEF RegisterSyncRequest
  <2>4. CASE RegisteredUnlink(p) \/ RegisteredFilter(p)
    <3>1. UnlinkersStay
      BY <2>4 DEF RegisteredUnlink, RegisteredFilter, Goes, GoesOn, OthersStay, UnlinkersStay
    <3>2. \A f \in Files : Wanted(f)' => Wanted(f)
      BY <2>1, <2>2, <2>4 DEF Forwards, RegisteredUnlink, RegisteredFilter
    <3> QED
      BY <2>3, <3>1, <3>2, GoneLess
  <2>5. ASSUME NEW f \in Segments, RegisteredForget(p, f)
        PROVE  GoneInv'
    <3>1. x = ForgetR(f)
      BY <2>1, <2>5 DEF RegisteredForget
    <3>2. ~Wanted(f)' /\ \A g \in Files : Wanted(g)' => Wanted(g)
      BY <2>2, <3>1 DEF Forwards, Cancels
    <3>3. \A q \in Proc, g \in Segments : pc'[q] = "unlink" /\ arg'[q] = ForgetR(g) =>
             g = f \/ (pc[q] = "unlink" /\ arg[q] = ForgetR(g))
      BY <2>5 DEF RegisteredForget, Goes, OthersStay
    <3> QED
      BY <2>3, <3>2, <3>3, FilesFacts DEF GoneInv
  <2> QED
    BY <1>39, <2>4, <2>5, SyncRequestGoes
<1>40. ASSUME NEW p \in Proc, UnlinkFile(p)
      PROVE  GoneInv'
  <2>1. PICK f \in Segments : Unlinks(p, f)
    BY <1>40, UnlinkGoes
  <2>2. ~Wanted(f)
    BY <2>1 DEF Unlinks, GoneInv
  <2>3. \A g \in Files : Wanted(g)' <=> Wanted(g)
    BY <1>40, WantedSame DEF UnlinkFile
  <2>4. UnlinkersStay
    BY <2>1 DEF Unlinks, GoesOn, OthersStay, UnlinkersStay
  <2> QED
    BY <2>1, <2>2, <2>3, <2>4, FilesFacts DEF Unlinks, UnlinkTried, UnlinkersStay, GoneInv
<1>41. ASSUME NEW p \in Proc, RequestCheckpoint(p)
      PROVE  GoneInv'
  BY <1>41, <1>t, GoneSame DEF RequestCheckpoint, UnlinkersStay, SetRequestFlags
<1>42. ASSUME NEW p \in Proc, SignalCheckpointer(p)
      PROVE  GoneInv'
  BY <1>42, <1>t, GoneSame DEF SignalCheckpointer, UnlinkersStay
<1>43. ASSUME NEW p \in Proc, TestStarted(p)
      PROVE  GoneInv'
  BY <1>43, <1>t, GoneSame DEF TestStarted, UnlinkersStay
<1>44. ASSUME NEW p \in Proc, TestDone(p)
      PROVE  GoneInv'
  BY <1>44, <1>t, GoneSame DEF TestDone, UnlinkersStay
<1>45. ASSUME NEW p \in Proc, SleepEnds(p)
      PROVE  GoneInv'
  BY <1>45, <1>t, GoneSame DEF SleepEnds, UnlinkersStay
<1>46. ASSUME NEW p \in Proc, RequestReturns(p)
      PROVE  GoneInv'
  <2>1. Goes(p, "none", "idle", NoRequest)
    BY <1>46, ReturnGoes DEF RequestReturns
  <2>2. UnlinkersStay /\ UNCHANGED <<requests, pendingOps>>
    BY <1>46, <2>1 DEF RequestReturns, Goes, OthersStay, UnlinkersStay
  <2>3. CASE op[p] = "dropdb" /\ pc[p] = "success"
    <3>1. \A f \in Files : ~Wanted(f)
      BY <2>3, FilterParts DEF Dropper
    <3> QED
      BY <2>2, <3>1, FilesFacts, WantedSame DEF GoneInv
  <2>4. CASE UNCHANGED fstate
    BY <2>2, <2>4, GoneSame
  <2> QED
    BY <1>46, <2>3, <2>4 DEF RequestReturns
<1>47. ASSUME NEW p \in Proc, SyncDirtySegmentError(p)
      PROVE  GoneInv'
  <2>1. \E f \in Files : Flushed(p, f)
    BY <1>47, FlushGoes
  <2>2. UnlinkersStay
    BY <2>1 DEF Flushed, Goes, OthersStay, Idle, UnlinkersStay
  <2> QED
    BY <1>47, <1>t, <2>2, GoneSame DEF SyncDirtySegmentError
<1> QED
  BY <1>1, <1>2, <1>3, <1>4, <1>5, <1>6, <1>7, <1>8, <1>9, <1>10, <1>11, <1>12, <1>13, <1>14,
    <1>15, <1>16, <1>17, <1>18, <1>19, <1>20, <1>21, <1>22, <1>23, <1>24, <1>25, <1>26, <1>27,
    <1>28, <1>29, <1>30, <1>31, <1>32, <1>33, <1>34, <1>35, <1>36, <1>37, <1>38, <1>39, <1>40,
    <1>41, <1>42, <1>43, <1>44, <1>45, <1>46, <1>47 DEF Next, CheckpointerStep,
    CheckpointerEvent, Call, Step

(* Nothing happens to the requests, and no phase begins.                   *)
LEMMA DueSame ==
  ASSUME DueInv, UNCHANGED <<pendingOps, pendingUnlinks, checkpoint_cycle_ctr, sync_cycle_ctr>>,
         Queued(SyncR(FirstSegment))' => Queued(SyncR(FirstSegment)),
         cpc' \in Redone \cup {"redo", "post"} => cpc \in Redone \cup {"redo", "post"},
         cpc' \in Syncing => cpc \in Syncing,
         cpc' \in {"record", "post"} => cpc \in {"record", "post"}
  PROVE  DueInv'
<1>1. (DuePending' <=> DuePending) /\ (Pending(FirstSegment)' <=> Pending(FirstSegment))
  BY DEF DuePending, TooNew, Pending
<1> QED
  BY <1>1 DEF DueInv

(* DueInv is kept while the tables stay as they are and the checkpointer   *)
(* enters none of the phases.                                              *)
LEMMA DueStay ==
  ASSUME DueInv,
         UNCHANGED <<requests, pendingOps, pendingUnlinks, checkpoint_cycle_ctr, sync_cycle_ctr>>,
         cpc' \in Redone \cup {"redo", "post"} => cpc \in Redone \cup {"redo", "post"},
         cpc' \in Syncing => cpc \in Syncing,
         cpc' \in {"record", "post"} => cpc \in {"record", "post"}
  PROVE  DueInv'
<1>1. Queued(SyncR(FirstSegment))' => Queued(SyncR(FirstSegment))
  BY DEF Queued, After, AfterIn
<1> QED
  BY <1>1, DueSame

(* No phase in which requests matter, or the queue is empty before the     *)
(* files are synced.                                                       *)
LEMMA DueFree ==
  ASSUME \/ cpc' \notin Redone \cup {"redo", "post"}
         \/ requests' = << >> /\ cpc' \notin Syncing \cup {"record", "post"}
  PROVE  DueInv'
<1>1. requests' = << >> => ~Queued(SyncR(FirstSegment))'
  BY EmptyFacts DEF Emptied
<1> QED
  BY <1>1 DEF DueInv

(* Requests are absorbed while files are synced.                           *)
LEMMA DueAbsorb ==
  ASSUME TypeInv, DueInv, AbsorbSyncRequests, cpc \in Syncing, cpc' \in Syncing,
         UNCHANGED <<sync_cycle_ctr, checkpoint_cycle_ctr>>
  PROVE  DueInv'
<1>1. PICK o : o = Absorbed.ops
  OBVIOUS
<1>2. OpsAfter(o) /\ UnlinksAbsorbed /\ OpsAbsorbed
  BY <1>1, AbsorbFacts, UnlinksView, OpsView DEF AbsorbSyncRequests
<1>3. DuePending' => DuePending
  BY <1>2 DEF UnlinksAbsorbed
<1>4. ~Queued(SyncR(FirstSegment))'
  BY <1>2 DEF UnlinksAbsorbed, Emptied
<1>5. ASSUME DuePending, Pending(FirstSegment)'
      PROVE  pendingOps'[FirstSegment].cycle # sync_cycle_ctr'
  <2>1. ~Queued(SyncR(FirstSegment))
    BY <1>5 DEF DueInv, Redone
  <2>2. Wanted(FirstSegment)
    BY <1>2, <1>5, FilesFacts DEF OpsAbsorbed
  <2>3. Pending(FirstSegment)
    BY <2>1, <2>2 DEF Wanted, Queued, After, AfterIn
  <2>4. pendingOps[FirstSegment].cycle # sync_cycle_ctr
    BY <1>5, <2>3 DEF DueInv, Redone
  <2>5. FirstSegment \in DOMAIN o /\ pendingOps' = o
    BY <1>1, <1>5 DEF Pending, AbsorbSyncRequests
  <2>6. o[FirstSegment].cycle = pendingOps[FirstSegment].cycle
    BY <1>2, <2>1, <2>5 DEF OpsAfter
  <2> QED
    BY <2>4, <2>5, <2>6
<1>6. cpc' \notin {"record", "post"}
  BY DEF Syncing
<1> QED
  BY <1>3, <1>4, <1>5, <1>6 DEF DueInv

(* The first segment that this checkpoint unlinks needs no sync.           *)
LEMMA DueStep ==
  ASSUME TypeInv, PlaceInv, FileInv, UnlinkInv, CycleInv, DueInv, Next
  PROVE  DueInv'
<1> USE RequestForms DEF ctlVars, cvVars, syncVars, loopVars, ckptVars, procVars, fileVars,
  histVars, backendVars, checkpointerVars, OthersUnchanged, SyncTablesUnchanged,
  RequestUnchanged, CGo, CJump, Go
<1>1. CASE StartCheckpointer
  BY <1>1, DueStay DEF StartCheckpointer, Redone, Writing, Syncing
<1>2. CASE LoopResetLatch
  BY <1>2, DueStay DEF LoopResetLatch, Redone, Writing, Syncing
<1>3. CASE LoopAbsorb
  BY <1>3, DueFree DEF LoopAbsorb, Redone, Writing, Syncing
<1>4. CASE LoopTest
  BY <1>4, DueStay DEF LoopTest, Redone, Writing, Syncing
<1>5. CASE BeginCheckpoint
  BY <1>5, DueStay DEF BeginCheckpoint, Redone, Writing, Syncing
<1>6. CASE BroadcastStart
  BY <1>6, DueStay DEF BroadcastStart, Redone, Writing, Syncing
<1>7. CASE EndCheckpoint
  BY <1>7, DueFree DEF EndCheckpoint, Redone, Writing, Syncing
<1>8. CASE CheckpointError
  BY <1>8, DueFree DEF CheckpointError, Redone, Writing, Syncing
<1>9. CASE BroadcastDone
  BY <1>9, DueStay DEF BroadcastDone, Redone, Writing, Syncing
<1>10. CASE LoopRecheck
  BY <1>10, DueStay DEF LoopRecheck, Redone, Writing, Syncing
<1>11. CASE WaitLatch
  BY <1>11, DueStay DEF WaitLatch, Redone, Writing, Syncing
<1>12. CASE SyncPreCheckpoint
  BY <1>12, DueStay, DueFree DEF SyncPreCheckpoint, PreAbsorb, AbsorbSyncRequests, Redone,
    Writing, Syncing
<1>13. CASE SetRedo
  BY <1>13, DueStay DEF SetRedo, Redone, Writing, Syncing
<1>14. CASE BufferSyncMark
  BY <1>14, DueStay DEF BufferSyncMark, Redone, Writing, Syncing
<1>15. CASE CheckpointWriteDelay
  BY <1>15, DueStay, DueFree DEF CheckpointWriteDelay, AbsorbSyncRequests, Redone, Writing,
    Syncing
<1>16. CASE Nap
  BY <1>16, DueStay DEF Nap, Redone, Writing, Syncing
<1>17. ASSUME NEW f \in Files, SyncOneBuffer(f)
      PROVE  DueInv'
  <2>1. UNCHANGED <<requests, pendingUnlinks, checkpoint_cycle_ctr>> /\ cpc = "write" /\ cpc' = "delay"
    BY <1>17 DEF SyncOneBuffer
  <2>2. (DuePending' <=> DuePending) /\ (Queued(SyncR(FirstSegment))' <=> Queued(SyncR(FirstSegment)))
    BY <2>1 DEF DuePending, TooNew, Queued, After, AfterIn
  <2> QED
    BY <2>1, <2>2 DEF DueInv, Redone, Writing, Syncing
<1>18. ASSUME NEW f \in Files, NextEntry(f)
      PROVE  DueInv'
  BY <1>18, DueStay, DueAbsorb DEF NextEntry, Redone, Syncing
<1>19. CASE ProcessSyncRequests
  <2>1. /\ \A f \in DOMAIN pendingOps' : pendingOps'[f].cycle = sync_cycle_ctr
        /\ sync_cycle_ctr' # sync_cycle_ctr
    BY <1>19, StampFacts
  <2>2. cpc' = "scan" /\ ~Queued(SyncR(FirstSegment))'
    BY <1>19, EmptyFacts DEF ProcessSyncRequests, Emptied
  <2> QED
    BY <2>1, <2>2 DEF DueInv, Pending
<1>20. CASE SyncCanceled
  <2>1. /\ UNCHANGED <<requests, pendingUnlinks, checkpoint_cycle_ctr, sync_cycle_ctr>>
        /\ cpc = "try" /\ cpc' = "scan"
    BY <1>20 DEF SyncCanceled, RemoveEntry
  <2>2. (DuePending' <=> DuePending) /\ (Queued(SyncR(FirstSegment))' <=> Queued(SyncR(FirstSegment)))
    BY <2>1 DEF DuePending, TooNew, Queued, After, AfterIn
  <2>3. Pending(FirstSegment)' =>
           Pending(FirstSegment) /\ pendingOps'[FirstSegment] = pendingOps[FirstSegment]
    BY <1>20 DEF SyncCanceled, RemoveEntry, Pending
  <2> QED
    BY <2>1, <2>2, <2>3 DEF DueInv, Redone, Syncing
<1>21. CASE SyncFile
  <2>1. /\ UNCHANGED <<requests, pendingUnlinks, checkpoint_cycle_ctr, sync_cycle_ctr>>
        /\ cpc = "try" /\ cpc' = "scan"
    BY <1>21 DEF SyncFile, RemoveEntry
  <2>2. (DuePending' <=> DuePending) /\ (Queued(SyncR(FirstSegment))' <=> Queued(SyncR(FirstSegment)))
    BY <2>1 DEF DuePending, TooNew, Queued, After, AfterIn
  <2>3. Pending(FirstSegment)' =>
           Pending(FirstSegment) /\ pendingOps'[FirstSegment] = pendingOps[FirstSegment]
    BY <1>21 DEF SyncFile, RemoveEntry, Pending
  <2> QED
    BY <2>1, <2>2, <2>3 DEF DueInv, Redone, Syncing
<1>22. CASE SyncRetry
  BY <1>22, DueStay, DueAbsorb DEF SyncRetry, RetryAbsorb, Redone, Syncing, Writing
<1>23. CASE EndSync
  <2>1. /\ UNCHANGED <<requests, pendingOps, pendingUnlinks, checkpoint_cycle_ctr>>
        /\ cpc = "scan" /\ cpc' = "record"
    BY <1>23 DEF EndSync
  <2>2. /\ DuePending' <=> DuePending
        /\ Queued(SyncR(FirstSegment))' <=> Queued(SyncR(FirstSegment))
        /\ Pending(FirstSegment)' <=> Pending(FirstSegment)
    BY <2>1 DEF DuePending, TooNew, Queued, After, AfterIn, Pending
  <2>3. Pending(FirstSegment) => pendingOps[FirstSegment].cycle = sync_cycle_ctr
    BY <1>23 DEF EndSync, Pending
  <2> QED
    BY <2>1, <2>2, <2>3 DEF DueInv, Redone, Syncing
<1>24. CASE WriteRecord
  BY <1>24, DueStay DEF WriteRecord, Redone, Writing, Syncing
<1>25. CASE SyncPostCheckpoint
  <2>1. CASE PostedDue
    BY <2>1 DEF PostedDue, DueInv
  <2>2. CASE PostedCanceled
    <3>1. /\ UNCHANGED <<requests, pendingOps, cpc, sync_cycle_ctr>>
          /\ DuePending' <=> DuePending
      BY <1>25, <2>2 DEF PostedCanceled, SyncPostCheckpoint
    <3>2. /\ Queued(SyncR(FirstSegment))' <=> Queued(SyncR(FirstSegment))
          /\ Pending(FirstSegment)' <=> Pending(FirstSegment)
      BY <3>1 DEF Queued, After, AfterIn, Pending
    <3> QED
      BY <3>1, <3>2 DEF DueInv
  <2> QED
    BY <1>25, <2>1, <2>2, PostFacts
<1>26. CASE EndPostCheckpoint
  BY <1>26, DueFree DEF EndPostCheckpoint, Redone, Writing, Syncing
<1>27. CASE WriteError
  BY <1>27, DueFree DEF WriteError, Redone, Writing, Syncing
<1>28. CASE SyncError
  BY <1>28, DueFree DEF SyncError, Redone, Writing, Syncing
<1>29. CASE WaitLatchTimeout
  BY <1>29, DueStay DEF WaitLatchTimeout, Redone, Writing, Syncing
<1>30. ASSUME NEW f \in Files, ModifyPage(f)
      PROVE  DueInv'
  BY <1>30, DueStay DEF ModifyPage, Redone, Writing, Syncing
<1>31. ASSUME NEW p \in Proc, NEW f \in Files, FlushBuffer(p, f)
      PROVE  DueInv'
  BY <1>31, DueStay DEF FlushBuffer, Begin, Redone, Writing, Syncing
<1>32. ASSUME NEW p \in Proc, NEW f \in Files, CreateFile(p, f)
      PROVE  DueInv'
  BY <1>32, DueStay DEF CreateFile, Begin, Redone, Writing, Syncing
<1>33. ASSUME NEW p \in Proc, DropRelation(p)
      PROVE  DueInv'
  BY <1>33, DueStay DEF DropRelation, Begin, Redone, Writing, Syncing
<1>34. ASSUME NEW p \in Proc, DropDatabase(p)
      PROVE  DueInv'
  BY <1>34, DueStay DEF DropDatabase, Begin, Redone, Writing, Syncing
<1>35. ASSUME NEW p \in Proc, Checkpoint(p)
      PROVE  DueInv'
  BY <1>35, DueStay DEF Checkpoint, SetRequestFlags, Begin, Redone, Writing, Syncing
<1>36. ASSUME NEW p \in Proc, RegisterDirtySegment(p)
      PROVE  DueInv'
  <2>1. PICK f \in Files : Registered(p, f)
    BY <1>36, RegisterGoes DEF RegisterDirtySegment
  <2>2. PICK x : x = arg[p]
    OBVIOUS
  <2>3. Forwards(x) /\ x = SyncR(f)
    BY <1>36, <2>1, <2>2, RegisterForwards DEF Registered
  <2>4. Live(FirstSegment)
    BY <2>1 DEF Registered, FileInv, LiveInv
  <2>5. ~UnlinkPending
    BY <2>4 DEF UnlinkInv, Live
  <2>6. ~DuePending'
    BY <2>3, <2>5 DEF Forwards, DuePending, UnlinkPending
  <2> QED
    BY <2>6 DEF DueInv
<1>37. ASSUME NEW p \in Proc, SyncDirtySegment(p)
      PROVE  DueInv'
  BY <1>37, DueStay DEF SyncDirtySegment, Redone, Writing, Syncing
<1>38. ASSUME NEW p \in Proc, TerminateBufferIO(p)
      PROVE  DueInv'
  BY <1>38, DueStay DEF TerminateBufferIO, Redone, Writing, Syncing
<1>39. ASSUME NEW p \in Proc, RegisterSyncRequest(p)
      PROVE  DueInv'
  <2>1. PICK x : x = arg[p]
    OBVIOUS
  <2>2. Forwards(x)
    BY <1>39, <2>1, RegisterForwards
  <2>3. x # SyncR(FirstSegment)
    BY <1>39, <2>1, SyncRequestGoes DEF RegisteredUnlink, RegisteredForget, RegisteredFilter
  <2>4. Queued(SyncR(FirstSegment))' => Queued(SyncR(FirstSegment))
    BY <2>2, <2>3 DEF Forwards
  <2> QED
    BY <1>39, <2>4, DueSame DEF RegisterSyncRequest
<1>40. ASSUME NEW p \in Proc, UnlinkFile(p)
      PROVE  DueInv'
  BY <1>40, DueStay DEF UnlinkFile, Redone, Writing, Syncing
<1>41. ASSUME NEW p \in Proc, RequestCheckpoint(p)
      PROVE  DueInv'
  BY <1>41, DueStay DEF RequestCheckpoint, SetRequestFlags, Redone, Writing, Syncing
<1>42. ASSUME NEW p \in Proc, SignalCheckpointer(p)
      PROVE  DueInv'
  BY <1>42, DueStay DEF SignalCheckpointer, Redone, Writing, Syncing
<1>43. ASSUME NEW p \in Proc, TestStarted(p)
      PROVE  DueInv'
  BY <1>43, DueStay DEF TestStarted, Redone, Writing, Syncing
<1>44. ASSUME NEW p \in Proc, TestDone(p)
      PROVE  DueInv'
  BY <1>44, DueStay DEF TestDone, Redone, Writing, Syncing
<1>45. ASSUME NEW p \in Proc, SleepEnds(p)
      PROVE  DueInv'
  BY <1>45, DueStay DEF SleepEnds, Redone, Writing, Syncing
<1>46. ASSUME NEW p \in Proc, RequestReturns(p)
      PROVE  DueInv'
  BY <1>46, DueStay DEF RequestReturns, Redone, Writing, Syncing
<1>47. ASSUME NEW p \in Proc, SyncDirtySegmentError(p)
      PROVE  DueInv'
  BY <1>47, DueStay DEF SyncDirtySegmentError, Redone, Writing, Syncing
<1> QED
  BY <1>1, <1>2, <1>3, <1>4, <1>5, <1>6, <1>7, <1>8, <1>9, <1>10, <1>11, <1>12, <1>13, <1>14,
    <1>15, <1>16, <1>17, <1>18, <1>19, <1>20, <1>21, <1>22, <1>23, <1>24, <1>25, <1>26, <1>27,
    <1>28, <1>29, <1>30, <1>31, <1>32, <1>33, <1>34, <1>35, <1>36, <1>37, <1>38, <1>39, <1>40,
    <1>41, <1>42, <1>43, <1>44, <1>45, <1>46, <1>47 DEF Next, CheckpointerStep,
    CheckpointerEvent, Call, Step

(* RetryInv is kept unless the checkpointer comes to try an entry.         *)
LEMMA RetrySame ==
  ASSUME RetryInv, cpc' # "try" \/ UNCHANGED <<cpc, pendingOps, entry, failures>>
  PROVE  RetryInv'
BY DEF RetryInv

(* A sync that is tried again was cancelled.                               *)
LEMMA RetryStep ==
  ASSUME TypeInv, GoneInv, RetryInv, Next
  PROVE  RetryInv'
<1> USE DEF ctlVars, cvVars, syncVars, loopVars, ckptVars, procVars, fileVars, histVars,
  backendVars, checkpointerVars, OthersUnchanged, SyncTablesUnchanged, RequestUnchanged, CGo,
  CJump, Go
<1>1. CASE StartCheckpointer
  BY <1>1, RetrySame DEF StartCheckpointer
<1>2. CASE LoopResetLatch
  BY <1>2, RetrySame DEF LoopResetLatch
<1>3. CASE LoopAbsorb
  BY <1>3, RetrySame DEF LoopAbsorb
<1>4. CASE LoopTest
  BY <1>4, RetrySame DEF LoopTest
<1>5. CASE BeginCheckpoint
  BY <1>5, RetrySame DEF BeginCheckpoint
<1>6. CASE BroadcastStart
  BY <1>6, RetrySame DEF BroadcastStart
<1>7. CASE EndCheckpoint
  BY <1>7, RetrySame DEF EndCheckpoint
<1>8. CASE CheckpointError
  BY <1>8, RetrySame DEF CheckpointError
<1>9. CASE BroadcastDone
  BY <1>9, RetrySame DEF BroadcastDone
<1>10. CASE LoopRecheck
  BY <1>10, RetrySame DEF LoopRecheck
<1>11. CASE WaitLatch
  BY <1>11, RetrySame DEF WaitLatch
<1>12. CASE SyncPreCheckpoint
  BY <1>12, RetrySame DEF SyncPreCheckpoint
<1>13. CASE SetRedo
  BY <1>13, RetrySame DEF SetRedo
<1>14. CASE BufferSyncMark
  BY <1>14, RetrySame DEF BufferSyncMark
<1>15. CASE CheckpointWriteDelay
  BY <1>15, RetrySame DEF CheckpointWriteDelay
<1>16. CASE Nap
  BY <1>16, RetrySame DEF Nap
<1>17. ASSUME NEW f \in Files, SyncOneBuffer(f)
      PROVE  RetryInv'
  BY <1>17, RetrySame DEF SyncOneBuffer
<1>18. ASSUME NEW f \in Files, NextEntry(f)
      PROVE  RetryInv'
  BY <1>18 DEF NextEntry, RetryInv
<1>19. CASE ProcessSyncRequests
  BY <1>19, RetrySame DEF ProcessSyncRequests
<1>20. CASE SyncCanceled
  BY <1>20, RetrySame DEF SyncCanceled, RemoveEntry
<1>21. CASE SyncFile
  BY <1>21, RetrySame DEF SyncFile, RemoveEntry
<1>22. CASE SyncRetry
  <2>1. CASE failures # 0
    BY <1>22, <2>1, RetrySame DEF SyncRetry
  <2>2. CASE failures = 0
    <3>1. PICK o : o = Absorbed.ops
      OBVIOUS
    <3>2. PICK f \in Files : f = entry /\ f \in DOMAIN pendingOps
      BY <1>22 DEF SyncRetry, TypeInv, TypeOK
    <3>3. OpsAfter(o)
      BY <3>1, AbsorbFacts
    <3>4. ~Wanted(f)
      BY <1>22, <3>2 DEF SyncRetry, GoneInv
    <3>5. f \in DOMAIN o /\ o[f] \in Entry /\ ~(f \in DOMAIN o /\ ~o[f].canceled)
      BY <3>2, <3>3, <3>4 DEF OpsAfter
    <3>6. pendingOps' = o /\ entry' = entry
      BY <1>22, <2>2, <3>1 DEF SyncRetry, RetryAbsorb, AbsorbSyncRequests
    <3> QED
      BY <3>2, <3>5, <3>6 DEF RetryInv
  <2> QED
    BY <2>1, <2>2
<1>23. CASE EndSync
  BY <1>23, RetrySame DEF EndSync
<1>24. CASE WriteRecord
  BY <1>24, RetrySame DEF WriteRecord
<1>25. CASE SyncPostCheckpoint
  BY <1>25, RetrySame DEF SyncPostCheckpoint
<1>26. CASE EndPostCheckpoint
  BY <1>26, RetrySame DEF EndPostCheckpoint
<1>27. CASE WriteError
  BY <1>27, RetrySame DEF WriteError
<1>28. CASE SyncError
  BY <1>28, RetrySame DEF SyncError
<1>29. CASE WaitLatchTimeout
  BY <1>29, RetrySame DEF WaitLatchTimeout
<1>30. ASSUME NEW f \in Files, ModifyPage(f)
      PROVE  RetryInv'
  BY <1>30, RetrySame DEF ModifyPage
<1>31. ASSUME NEW p \in Proc, NEW f \in Files, FlushBuffer(p, f)
      PROVE  RetryInv'
  BY <1>31, RetrySame DEF FlushBuffer, Begin
<1>32. ASSUME NEW p \in Proc, NEW f \in Files, CreateFile(p, f)
      PROVE  RetryInv'
  BY <1>32, RetrySame DEF CreateFile, Begin
<1>33. ASSUME NEW p \in Proc, DropRelation(p)
      PROVE  RetryInv'
  BY <1>33, RetrySame DEF DropRelation, Begin
<1>34. ASSUME NEW p \in Proc, DropDatabase(p)
      PROVE  RetryInv'
  BY <1>34, RetrySame DEF DropDatabase, Begin
<1>35. ASSUME NEW p \in Proc, Checkpoint(p)
      PROVE  RetryInv'
  BY <1>35, RetrySame DEF Checkpoint, SetRequestFlags, Begin
<1>36. ASSUME NEW p \in Proc, RegisterDirtySegment(p)
      PROVE  RetryInv'
  BY <1>36, RetrySame DEF RegisterDirtySegment
<1>37. ASSUME NEW p \in Proc, SyncDirtySegment(p)
      PROVE  RetryInv'
  BY <1>37, RetrySame DEF SyncDirtySegment
<1>38. ASSUME NEW p \in Proc, TerminateBufferIO(p)
      PROVE  RetryInv'
  BY <1>38, RetrySame DEF TerminateBufferIO
<1>39. ASSUME NEW p \in Proc, RegisterSyncRequest(p)
      PROVE  RetryInv'
  BY <1>39, RetrySame DEF RegisterSyncRequest
<1>40. ASSUME NEW p \in Proc, UnlinkFile(p)
      PROVE  RetryInv'
  BY <1>40, RetrySame DEF UnlinkFile
<1>41. ASSUME NEW p \in Proc, RequestCheckpoint(p)
      PROVE  RetryInv'
  BY <1>41, RetrySame DEF RequestCheckpoint, SetRequestFlags
<1>42. ASSUME NEW p \in Proc, SignalCheckpointer(p)
      PROVE  RetryInv'
  BY <1>42, RetrySame DEF SignalCheckpointer
<1>43. ASSUME NEW p \in Proc, TestStarted(p)
      PROVE  RetryInv'
  BY <1>43, RetrySame DEF TestStarted
<1>44. ASSUME NEW p \in Proc, TestDone(p)
      PROVE  RetryInv'
  BY <1>44, RetrySame DEF TestDone
<1>45. ASSUME NEW p \in Proc, SleepEnds(p)
      PROVE  RetryInv'
  BY <1>45, RetrySame DEF SleepEnds
<1>46. ASSUME NEW p \in Proc, RequestReturns(p)
      PROVE  RetryInv'
  BY <1>46, RetrySame DEF RequestReturns
<1>47. ASSUME NEW p \in Proc, SyncDirtySegmentError(p)
      PROVE  RetryInv'
  BY <1>47, RetrySame DEF SyncDirtySegmentError
<1> QED
  BY <1>1, <1>2, <1>3, <1>4, <1>5, <1>6, <1>7, <1>8, <1>9, <1>10, <1>11, <1>12, <1>13, <1>14,
    <1>15, <1>16, <1>17, <1>18, <1>19, <1>20, <1>21, <1>22, <1>23, <1>24, <1>25, <1>26, <1>27,
    <1>28, <1>29, <1>30, <1>31, <1>32, <1>33, <1>34, <1>35, <1>36, <1>37, <1>38, <1>39, <1>40,
    <1>41, <1>42, <1>43, <1>44, <1>45, <1>46, <1>47 DEF Next, CheckpointerStep,
    CheckpointerEvent, Call, Step

-----------------------------------------------------------------------------
(***************************************************************************)
(* Where the changes are                                                   *)
(***************************************************************************)
(* Nobody comes to TerminateBufferIO.                                      *)
ClearersStay ==
  \A p \in Proc, f \in Files :
    pc'[p] = "clear" /\ arg'[p] = SyncR(f) => pc[p] = "clear" /\ arg[p] = SyncR(f)

(* FlushedInv is kept when a file is synced, or stays and its sync is      *)
(* still wanted.                                                           *)
LEMMA FlushedMore ==
  ASSUME FlushedInv, ClearersStay,
         \A f \in Files : \/ os'[f] = {}
                          \/ /\ os'[f] = os[f] /\ buf[f] \subseteq buf'[f]
                             /\ Wanted(f) => Wanted(f)'
  PROVE  FlushedInv'
BY DEF FlushedInv, ClearersStay

(* FlushedInv is kept while files, queue and table stay as they are.       *)
LEMMA FlushedSame ==
  ASSUME FlushedInv, UNCHANGED <<requests, pendingOps, buf, os>>, ClearersStay
  PROVE  FlushedInv'
BY WantedSame, FlushedMore

(* FlushedInv is kept when the queue is absorbed.                          *)
LEMMA FlushedAbsorb ==
  ASSUME TypeInv, FlushedInv, requests' = << >>,
         pendingOps' \in {Absorbed.ops, Restamp(Absorbed.ops)}, UNCHANGED <<buf, os, pc, arg>>
  PROVE  FlushedInv'
<1>1. \A f \in Files : Wanted(f) => Wanted(f)'
  BY OpsView DEF OpsAbsorbed
<1> QED
  BY <1>1, FlushedMore DEF ClearersStay

(* A request for a file that lives, remembered by the checkpointer, is     *)
(* not cancelled.                                                          *)
LEMMA LiveNotCanceled ==
  ASSUME FileInv, FilterInv, ForgetInv, NEW f \in Files, Live(f)
  PROVE  ~Queued(ForgetR(f)) /\ ~Queued(FilterR)
BY NoDropper DEF ForgetInv, Live

(* Only a live file has changes not yet on disk.                           *)
LEMMA DirtyLives ==
  ASSUME FileInv, NEW f \in Files, buf[f] # {} \/ os[f] # {}
  PROVE  Live(f)
BY DEF FileInv, LiveInv

(* What is in the kernel only will be synced.                              *)
LEMMA FlushedStep ==
  ASSUME TypeInv, PlaceInv, FileInv, UnlinkInv, FilterInv, ForgetInv, FlushedInv, Next
  PROVE  FlushedInv'
<1> USE RequestForms DEF ctlVars, cvVars, syncVars, loopVars, ckptVars, procVars, fileVars,
  histVars, backendVars, checkpointerVars, OthersUnchanged, SyncTablesUnchanged,
  RequestUnchanged, CGo, CJump, Go
<1>t. /\ buf \in [Files -> Changes] /\ os \in [Files -> Changes] /\ pc \in [Proc -> Places]
  BY DEF TypeInv, TypeOK
<1>1. CASE StartCheckpointer
  BY <1>1, FlushedSame DEF StartCheckpointer, ClearersStay
<1>2. CASE LoopResetLatch
  BY <1>2, FlushedSame DEF LoopResetLatch, ClearersStay
<1>3. CASE LoopAbsorb
  BY <1>3, FlushedSame, FlushedAbsorb DEF LoopAbsorb, AbsorbSyncRequests, ClearersStay
<1>4. CASE LoopTest
  BY <1>4, FlushedSame DEF LoopTest, ClearersStay
<1>5. CASE BeginCheckpoint
  BY <1>5, FlushedSame DEF BeginCheckpoint, ClearersStay
<1>6. CASE BroadcastStart
  BY <1>6, FlushedSame DEF BroadcastStart, ClearersStay
<1>7. CASE EndCheckpoint
  BY <1>7, FlushedSame DEF EndCheckpoint, ClearersStay
<1>8. CASE CheckpointError
  BY <1>8, FlushedSame DEF CheckpointError, ClearersStay
<1>9. CASE BroadcastDone
  BY <1>9, FlushedSame DEF BroadcastDone, ClearersStay
<1>10. CASE LoopRecheck
  BY <1>10, FlushedSame DEF LoopRecheck, ClearersStay
<1>11. CASE WaitLatch
  BY <1>11, FlushedSame DEF WaitLatch, ClearersStay
<1>12. CASE SyncPreCheckpoint
  BY <1>12, FlushedSame, FlushedAbsorb DEF SyncPreCheckpoint, PreAbsorb, AbsorbSyncRequests,
    ClearersStay
<1>13. CASE SetRedo
  <2>1. UNCHANGED <<requests, pendingOps, pc, arg>>
    BY <1>13 DEF SetRedo
  <2>2. CASE UNCHANGED <<buf, os>>
    BY <2>1, <2>2, FlushedSame DEF ClearersStay
  <2>3. CASE \A f \in Files : /\ buf'[f] = (IF buf[f] = {} THEN {} ELSE {"old"})
                               /\ os'[f] = (IF os[f] = {} THEN {} ELSE {"old"})
    <3>1. \A f \in Files : Wanted(f)' <=> Wanted(f)
      BY <2>1, WantedSame
    <3> QED
      BY <2>1, <2>3, <3>1 DEF FlushedInv
  <2> QED
    BY <1>13, <2>2, <2>3 DEF SetRedo
<1>14. CASE BufferSyncMark
  BY <1>14, FlushedSame DEF BufferSyncMark, ClearersStay
<1>15. CASE CheckpointWriteDelay
  BY <1>15, FlushedSame, FlushedAbsorb DEF CheckpointWriteDelay, AbsorbSyncRequests,
    ClearersStay
<1>16. CASE Nap
  BY <1>16, FlushedSame DEF Nap, ClearersStay
<1>17. ASSUME NEW f \in Files, SyncOneBuffer(f)
      PROVE  FlushedInv'
  <2>1. CASE buf[f] = {}
    BY <1>17, <2>1, FlushedSame DEF SyncOneBuffer, ClearersStay
  <2>2. CASE buf[f] # {}
    <3>1. Owns(f) /\ Live(f)
      BY <1>17, <2>2, OwnFacts, DirtyLives
    <3>2. UNCHANGED <<requests, pc, arg>>
      BY <1>17 DEF SyncOneBuffer
    <3>3. Pending(f)' /\ \A g \in Files : g # f => (Pending(g)' <=> Pending(g))
      BY <3>1 DEF Owns, Pending
    <3>4. Wanted(f)'
      BY <3>1, <3>2, <3>3, LiveNotCanceled DEF Wanted, Queued, After, AfterIn
    <3>5. \A g \in Files : g # f => (Wanted(g)' <=> Wanted(g))
      BY <3>2, <3>3 DEF Wanted, Queued, After, AfterIn
    <3>6. \A g \in Files : g # f => os'[g] = os[g] /\ buf'[g] = buf[g]
      BY <1>17, <1>t, <2>2 DEF SyncOneBuffer
    <3> QED
      BY <3>2, <3>4, <3>5, <3>6 DEF FlushedInv
  <2> QED
    BY <2>1, <2>2
<1>18. ASSUME NEW f \in Files, NextEntry(f)
      PROVE  FlushedInv'
  BY <1>18, FlushedSame, FlushedAbsorb DEF NextEntry, AbsorbSyncRequests, ClearersStay
<1>19. CASE ProcessSyncRequests
  BY <1>19, FlushedSame, FlushedAbsorb DEF ProcessSyncRequests, ClearersStay
<1>20. CASE SyncCanceled
  <2>1. UNCHANGED <<requests, buf, os, pc, arg>>
    BY <1>20 DEF SyncCanceled
  <2>2. \A f \in Files : Pending(f)' <=> Pending(f)
    BY <1>20 DEF SyncCanceled, RemoveEntry, Pending
  <2>3. \A f \in Files : Wanted(f)' <=> Wanted(f)
    BY <2>1, <2>2 DEF Wanted, Queued, After, AfterIn
  <2> QED
    BY <2>1, <2>3, FlushedMore DEF ClearersStay
<1>21. CASE SyncFile
  <2>1. UNCHANGED <<requests, buf, pc, arg>>
    BY <1>21 DEF SyncFile
  <2>2. \A f \in Files : f # entry => (Pending(f)' <=> Pending(f)) /\ os'[f] = os[f]
    BY <1>21, <1>t DEF SyncFile, RemoveEntry, Pending
  <2>3. \A f \in Files : f # entry => (Wanted(f)' <=> Wanted(f))
    BY <2>1, <2>2 DEF Wanted, Queued, After, AfterIn
  <2>4. \A f \in Files : f = entry => os'[f] = {}
    BY <1>21, <1>t DEF SyncFile
  <2> QED
    BY <2>1, <2>2, <2>3, <2>4, FlushedMore DEF ClearersStay
<1>22. CASE SyncRetry
  BY <1>22, FlushedSame, FlushedAbsorb DEF SyncRetry, RetryAbsorb, AbsorbSyncRequests,
    ClearersStay
<1>23. CASE EndSync
  BY <1>23, FlushedSame DEF EndSync, ClearersStay
<1>24. CASE WriteRecord
  BY <1>24, FlushedSame DEF WriteRecord, ClearersStay
<1>25. CASE SyncPostCheckpoint
  <2>1. UNCHANGED <<pc, arg, buf>>
    BY <1>25 DEF SyncPostCheckpoint
  <2>2. CASE PostedCanceled
    BY <2>1, <2>2, FlushedSame DEF PostedCanceled, ClearersStay
  <2>3. CASE PostedDue
    <3>1. \A f \in Files : Wanted(f)' <=> Wanted(f)
      BY <2>3, WantedSame, OpsView DEF PostedDue, OpsAbsorbed
    <3>2. \A f \in Files : os'[f] = {} \/ os'[f] = os[f]
      BY <2>3 DEF PostedDue
    <3> QED
      BY <2>1, <3>1, <3>2, FlushedMore DEF ClearersStay
  <2> QED
    BY <1>25, <2>2, <2>3, PostFacts
<1>26. CASE EndPostCheckpoint
  BY <1>26, FlushedSame DEF EndPostCheckpoint, ClearersStay
<1>27. CASE WriteError
  BY <1>27, FlushedSame DEF WriteError, ClearersStay
<1>28. CASE SyncError
  BY <1>28, FlushedSame DEF SyncError, ClearersStay
<1>29. CASE WaitLatchTimeout
  BY <1>29, FlushedSame DEF WaitLatchTimeout, ClearersStay
<1>30. ASSUME NEW f \in Files, ModifyPage(f)
      PROVE  FlushedInv'
  <2>1. \A g \in Files : Wanted(g)' <=> Wanted(g)
    BY <1>30, WantedSame DEF ModifyPage
  <2>2. \A g \in Files : os'[g] = os[g] /\ buf[g] \subseteq buf'[g]
    BY <1>30, <1>t DEF ModifyPage
  <2>3. ClearersStay
    BY <1>30 DEF ModifyPage, ClearersStay
  <2> QED
    BY <2>1, <2>2, <2>3, FlushedMore
<1>31. ASSUME NEW p \in Proc, NEW f \in Files, FlushBuffer(p, f)
      PROVE  FlushedInv'
  <2>1. Goes(p, "flush", "forward", SyncR(f)) /\ Idle(p)
    <3>1. Begin(p, "flush", "forward", SyncR(f))
      BY <1>31 DEF FlushBuffer, SyncR
    <3> QED
      BY <3>1, BeginGoes
  <2>2. \A g \in Files : Wanted(g)' <=> Wanted(g)
    BY <1>31, WantedSame DEF FlushBuffer
  <2>3. \A g \in Files : os'[g] = (IF g = f THEN os[g] \cup buf[g] ELSE os[g]) /\ buf'[g] = buf[g]
    BY <1>31, <1>t DEF FlushBuffer
  <2>4. \A q \in Proc, g \in Files : pc'[q] = "clear" /\ arg'[q] = SyncR(g) =>
           pc[q] = "clear" /\ arg[q] = SyncR(g) /\ g # f
    <3> SUFFICES ASSUME NEW q \in Proc, NEW g \in Files, pc'[q] = "clear", arg'[q] = SyncR(g)
                 PROVE  pc[q] = "clear" /\ arg[q] = SyncR(g) /\ g # f
      OBVIOUS
    <3>1. pc[q] = "clear" /\ arg[q] = SyncR(g)
      BY <2>1 DEF Goes, OthersStay
    <3>2. op[q] = "flush"
      BY <3>1, PlaceFacts DEF PlaceFactsAt
    <3>3. io[g] = q /\ io[f] = NoProc
      BY <1>31, <3>1, <3>2 DEF FlushBuffer, FileInv, IoInv
    <3> QED
      BY <3>1, <3>3, FilesFacts
  <2> QED
    BY <2>2, <2>3, <2>4 DEF FlushedInv
<1>32. ASSUME NEW p \in Proc, NEW f \in Files, CreateFile(p, f)
      PROVE  FlushedInv'
  <2>1. Goes(p, "create", "forward", SyncR(f)) /\ Idle(p)
    <3>1. Begin(p, "create", "forward", SyncR(f))
      BY <1>32 DEF CreateFile, SyncR
    <3> QED
      BY <3>1, BeginGoes
  <2>2. ClearersStay
    BY <2>1 DEF Goes, OthersStay, Idle, ClearersStay
  <2> QED
    BY <1>32, <2>2, FlushedSame DEF CreateFile
<1>33. ASSUME NEW p \in Proc, DropRelation(p)
      PROVE  FlushedInv'
  <2>1. Goes(p, "drop", "register", UnlinkR) /\ Idle(p)
    <3>1. Begin(p, "drop", "register", UnlinkR)
      BY <1>33 DEF DropRelation, UnlinkR
    <3> QED
      BY <3>1, BeginGoes
  <2>2. ClearersStay
    BY <2>1 DEF Goes, OthersStay, ClearersStay
  <2> QED
    BY <1>33, <2>2, FlushedMore DEF DropRelation, Dead
<1>34. ASSUME NEW p \in Proc, DropDatabase(p)
      PROVE  FlushedInv'
  <2>1. Goes(p, "dropdb", "register", FilterR) /\ Idle(p)
    <3>1. Begin(p, "dropdb", "register", FilterR)
      BY <1>34 DEF DropDatabase, FilterR
    <3> QED
      BY <3>1, BeginGoes
  <2>2. ClearersStay
    BY <2>1 DEF Goes, OthersStay, ClearersStay
  <2> QED
    BY <1>34, <2>2, FlushedMore DEF DropDatabase, Dead
<1>35. ASSUME NEW p \in Proc, Checkpoint(p)
      PROVE  FlushedInv'
  <2>1. Goes(p, "checkpoint", "signal", NoRequest) /\ Idle(p)
    <3>1. Begin(p, "checkpoint", "signal", NoRequest)
      BY <1>35 DEF Checkpoint
    <3> QED
      BY <3>1, BeginGoes
  <2>2. ClearersStay
    BY <2>1 DEF Goes, OthersStay, Idle, ClearersStay
  <2> QED
    BY <1>35, <2>2, FlushedSame DEF Checkpoint, SetRequestFlags
<1>36. ASSUME NEW p \in Proc, RegisterDirtySegment(p)
      PROVE  FlushedInv'
  <2>1. PICK f \in Files : Registered(p, f)
    BY <1>36, RegisterGoes DEF RegisterDirtySegment
  <2>2. PICK x : x = arg[p]
    OBVIOUS
  <2>3. Forwards(x) /\ x = SyncR(f)
    BY <1>36, <2>1, <2>2, RegisterForwards DEF Registered
  <2>4. Wanted(f)' /\ \A g \in Files : Wanted(g) => Wanted(g)'
    BY <2>3 DEF Forwards, Cancels
  <2>5. UNCHANGED <<buf, os>>
    BY <1>36 DEF RegisterDirtySegment
  <2>6. \A q \in Proc, g \in Files : pc'[q] = "clear" /\ arg'[q] = SyncR(g) =>
           g = f \/ (pc[q] = "clear" /\ arg[q] = SyncR(g))
    BY <2>1 DEF Registered, Goes, OthersStay
  <2> QED
    BY <2>4, <2>5, <2>6 DEF FlushedInv
<1>37. ASSUME NEW p \in Proc, SyncDirtySegment(p)
      PROVE  FlushedInv'
  <2>1. PICK f \in Files : Registered(p, f)
    BY <1>37, RegisterGoes DEF SyncDirtySegment
  <2>2. \A g \in Files : Wanted(g)' <=> Wanted(g)
    BY <1>37, WantedSame DEF SyncDirtySegment
  <2>3. \A g \in Files : buf'[g] = buf[g] /\ os'[g] = IF g = f THEN {} ELSE os[g]
    BY <1>37, <1>t, <2>1 DEF SyncDirtySegment, BackendSync, Registered
  <2>4. \A q \in Proc, g \in Files : pc'[q] = "clear" /\ arg'[q] = SyncR(g) =>
           g = f \/ (pc[q] = "clear" /\ arg[q] = SyncR(g))
    BY <2>1 DEF Registered, Goes, OthersStay
  <2> QED
    BY <2>2, <2>3, <2>4 DEF FlushedInv
<1>38. ASSUME NEW p \in Proc, TerminateBufferIO(p)
      PROVE  FlushedInv'
  <2>1. PICK f \in Files : Flushed(p, f)
    BY <1>38, FlushGoes
  <2>2. pc[p] = "clear" /\ arg[p] = SyncR(f)
    BY <1>38, <2>1 DEF TerminateBufferIO, Flushed
  <2>3. Wanted(f) \/ os[f] = {}
    BY <2>2 DEF FlushedInv
  <2>4. \A g \in Files : Wanted(g)' <=> Wanted(g)
    BY <1>38, WantedSame DEF TerminateBufferIO
  <2>5. \A g \in Files : os'[g] = os[g] /\ (g # f => buf'[g] = buf[g])
    BY <1>38, <1>t, <2>2 DEF TerminateBufferIO
  <2>6. ClearersStay
    BY <2>1 DEF Flushed, Goes, OthersStay, ClearersStay
  <2> QED
    BY <2>3, <2>4, <2>5, <2>6 DEF FlushedInv, ClearersStay
<1>39. ASSUME NEW p \in Proc, RegisterSyncRequest(p)
      PROVE  FlushedInv'
  <2>1. PICK x : x = arg[p]
    OBVIOUS
  <2>2. Forwards(x)
    BY <1>39, <2>1, RegisterForwards
  <2>3. UNCHANGED <<buf, os, fstate>>
    BY <1>39 DEF RegisterSyncRequest
  <2>4. ClearersStay
    BY <1>39, SyncRequestGoes
      DEF RegisteredUnlink, RegisteredForget, RegisteredFilter, Goes, GoesOn, OthersStay,
          ClearersStay
  <2>5. ASSUME NEW f \in Files, x \in Cancels(f)
        PROVE  os'[f] = {}
    <3>0. PlaceFactsAt(p)
      BY PlaceFacts
    <3>1. CASE x = ForgetR(f)
      <4>0. f \in Segments
        BY <2>1, <3>0, <3>1 DEF PlaceFactsAt
      <4>1. fstate[f] = "dropped"
        <5>1. \A q \in Proc, g \in Segments : arg[q] = ForgetR(g) => fstate[g] = "dropped"
          BY DEF FileInv, DropInv
        <5> QED
          BY <2>1, <3>1, <4>0, <5>1
      <4> QED
        BY <2>3, <4>1, DirtyLives DEF Live
    <3>2. CASE x = FilterR
      <4>0. op[p] = "dropdb"
        BY <2>1, <3>0, <3>2 DEF PlaceFactsAt
      <4>1. fstate[f] \in {"invalid", "gone", "left"}
        BY <4>0 DEF FileInv, DropInv
      <4> QED
        BY <2>3, <4>1, DirtyLives DEF Live
    <3> QED
      BY <2>5, <3>1, <3>2 DEF Cancels
  <2>6. \A f \in Files : x \notin Cancels(f) /\ Wanted(f) => Wanted(f)'
    BY <2>2 DEF Forwards
  <2> QED
    BY <2>3, <2>4, <2>5, <2>6, FlushedMore
<1>40. ASSUME NEW p \in Proc, UnlinkFile(p)
      PROVE  FlushedInv'
  <2>1. \E f \in Segments : Unlinks(p, f)
    BY <1>40, UnlinkGoes
  <2>2. ClearersStay
    BY <2>1 DEF Unlinks, GoesOn, OthersStay, ClearersStay
  <2> QED
    BY <1>40, <2>2, FlushedSame DEF UnlinkFile
<1>41. ASSUME NEW p \in Proc, RequestCheckpoint(p)
      PROVE  FlushedInv'
  BY <1>41, <1>t, FlushedSame DEF RequestCheckpoint, ClearersStay, SetRequestFlags
<1>42. ASSUME NEW p \in Proc, SignalCheckpointer(p)
      PROVE  FlushedInv'
  BY <1>42, <1>t, FlushedSame DEF SignalCheckpointer, ClearersStay
<1>43. ASSUME NEW p \in Proc, TestStarted(p)
      PROVE  FlushedInv'
  BY <1>43, <1>t, FlushedSame DEF TestStarted, ClearersStay
<1>44. ASSUME NEW p \in Proc, TestDone(p)
      PROVE  FlushedInv'
  BY <1>44, <1>t, FlushedSame DEF TestDone, ClearersStay
<1>45. ASSUME NEW p \in Proc, SleepEnds(p)
      PROVE  FlushedInv'
  BY <1>45, <1>t, FlushedSame DEF SleepEnds, ClearersStay
<1>46. ASSUME NEW p \in Proc, RequestReturns(p)
      PROVE  FlushedInv'
  <2>1. Goes(p, "none", "idle", NoRequest)
    BY <1>46, ReturnGoes DEF RequestReturns
  <2>2. ClearersStay
    BY <2>1 DEF Goes, OthersStay, ClearersStay
  <2> QED
    BY <1>46, <2>2, FlushedSame DEF RequestReturns
<1>47. ASSUME NEW p \in Proc, SyncDirtySegmentError(p)
      PROVE  FlushedInv'
  <2>1. \E f \in Files : Flushed(p, f)
    BY <1>47, FlushGoes
  <2>2. ClearersStay
    BY <2>1 DEF Flushed, Goes, OthersStay, Idle, ClearersStay
  <2> QED
    BY <1>47, <2>2, FlushedSame DEF SyncDirtySegmentError
<1> QED
  BY <1>1, <1>2, <1>3, <1>4, <1>5, <1>6, <1>7, <1>8, <1>9, <1>10, <1>11, <1>12, <1>13, <1>14,
    <1>15, <1>16, <1>17, <1>18, <1>19, <1>20, <1>21, <1>22, <1>23, <1>24, <1>25, <1>26, <1>27,
    <1>28, <1>29, <1>30, <1>31, <1>32, <1>33, <1>34, <1>35, <1>36, <1>37, <1>38, <1>39, <1>40,
    <1>41, <1>42, <1>43, <1>44, <1>45, <1>46, <1>47 DEF Next, CheckpointerStep,
    CheckpointerEvent, Call, Step

(* No phase begins, and no more changes are before the redo pointer.       *)
LEMMA OldLess ==
  ASSUME OldInv, UNCHANGED <<toWrite, pendingOps, sync_cycle_ctr>>,
         \A f \in Files : /\ "old" \in buf'[f] => "old" \in buf[f]
                          /\ "old" \in os'[f] => "old" \in os[f] \cup buf[f],
         cpc' \in Writing => cpc \in Writing, cpc' \in Syncing => cpc \in Syncing,
         cpc' = "record" => cpc = "record"
  PROVE  OldInv'
<1>1. \A f \in Files : Pending(f)' <=> Pending(f)
  BY DEF Pending
<1> QED
  BY <1>1 DEF OldInv

(* OldInv is kept while changes and table stay as they are and the         *)
(* checkpointer enters no phase.                                           *)
LEMMA OldSame ==
  ASSUME OldInv, UNCHANGED <<toWrite, pendingOps, sync_cycle_ctr, buf, os>>,
         cpc' \in Writing => cpc \in Writing, cpc' \in Syncing => cpc \in Syncing,
         cpc' = "record" => cpc = "record"
  PROVE  OldInv'
BY OldLess

(* Not a phase in which they are looked for.                               *)
LEMMA OldFree ==
  ASSUME cpc' \notin Writing \cup Syncing \cup {"record"}
  PROVE  OldInv'
BY DEF OldInv

(* The entries that are needed stay when requests are absorbed.            *)
LEMMA OldAbsorb ==
  ASSUME TypeInv, FileInv, FilterInv, ForgetInv, FlushedInv, OldInv, AbsorbSyncRequests,
         cpc \in Syncing, cpc' \in Syncing, UNCHANGED <<sync_cycle_ctr, buf, os>>
  PROVE  OldInv'
<1>1. PICK o : o = Absorbed.ops
  OBVIOUS
<1>2. OpsAfter(o) /\ OpsAbsorbed /\ pendingOps' = o
  BY <1>1, AbsorbFacts, OpsView DEF AbsorbSyncRequests
<1>3. \A f \in Files : "old" \notin buf'[f]
  BY DEF OldInv
<1>4. ASSUME NEW f \in Files, "old" \in os'[f]
      PROVE  Pending(f)' /\ pendingOps'[f].cycle # sync_cycle_ctr'
  <2>1. Wanted(f)
    BY <1>3, <1>4 DEF FlushedInv
  <2>2. ~Queued(ForgetR(f)) /\ ~Queued(FilterR)
    BY <1>4, DirtyLives, LiveNotCanceled
  <2>3. Pending(f) /\ pendingOps[f].cycle # sync_cycle_ctr
    BY <1>4 DEF OldInv
  <2>4. o[f].cycle = pendingOps[f].cycle
    BY <1>2, <2>2, <2>3 DEF OpsAfter
  <2> QED
    BY <1>2, <2>1, <2>3, <2>4 DEF OpsAbsorbed
<1>5. cpc' \notin Writing \cup {"record"}
  BY DEF Syncing, Writing
<1> QED
  BY <1>3, <1>4, <1>5 DEF OldInv

(* Where the changes before the redo pointer are.                          *)
LEMMA OldStep ==
  ASSUME TypeInv, FileInv, FilterInv, ForgetInv, CycleInv, FlushedInv, OldInv, Next
  PROVE  OldInv'
<1> USE DEF ctlVars, cvVars, syncVars, loopVars, ckptVars, procVars, fileVars, histVars,
  backendVars, checkpointerVars, OthersUnchanged, SyncTablesUnchanged, RequestUnchanged, CGo,
  CJump, Go
<1>t. /\ buf \in [Files -> Changes] /\ os \in [Files -> Changes] /\ pc \in [Proc -> Places]
  BY DEF TypeInv, TypeOK
<1>1. CASE StartCheckpointer
  BY <1>1, OldSame DEF StartCheckpointer, Writing, Syncing
<1>2. CASE LoopResetLatch
  BY <1>2, OldSame DEF LoopResetLatch, Writing, Syncing
<1>3. CASE LoopAbsorb
  BY <1>3, OldFree DEF LoopAbsorb, Writing, Syncing
<1>4. CASE LoopTest
  BY <1>4, OldSame DEF LoopTest, Writing, Syncing
<1>5. CASE BeginCheckpoint
  BY <1>5, OldSame DEF BeginCheckpoint, Writing, Syncing
<1>6. CASE BroadcastStart
  BY <1>6, OldSame DEF BroadcastStart, Writing, Syncing
<1>7. CASE EndCheckpoint
  BY <1>7, OldSame DEF EndCheckpoint, Writing, Syncing
<1>8. CASE CheckpointError
  BY <1>8, OldSame DEF CheckpointError, Writing, Syncing
<1>9. CASE BroadcastDone
  BY <1>9, OldSame DEF BroadcastDone, Writing, Syncing
<1>10. CASE LoopRecheck
  BY <1>10, OldSame DEF LoopRecheck, Writing, Syncing
<1>11. CASE WaitLatch
  BY <1>11, OldSame DEF WaitLatch, Writing, Syncing
<1>12. CASE SyncPreCheckpoint
  BY <1>12, OldFree DEF SyncPreCheckpoint, Writing, Syncing
<1>13. CASE SetRedo
  BY <1>13, OldFree DEF SetRedo, Writing, Syncing
<1>14. CASE BufferSyncMark
  BY <1>14 DEF BufferSyncMark, OldInv, Writing, Syncing
<1>15. CASE CheckpointWriteDelay
  BY <1>15 DEF CheckpointWriteDelay, OldInv, Writing, Syncing
<1>16. CASE Nap
  BY <1>16, OldSame DEF Nap, Writing, Syncing
<1>17. ASSUME NEW f \in Files, SyncOneBuffer(f)
      PROVE  OldInv'
  <2>1. \A g \in Files : "old" \in buf'[g] => "old" \in buf[g] /\ g # f
    BY <1>17, <1>t DEF SyncOneBuffer
  <2>2. toWrite' = toWrite \ {f} /\ cpc = "write" /\ cpc' = "delay"
    BY <1>17 DEF SyncOneBuffer
  <2> QED
    BY <2>1, <2>2 DEF OldInv, Writing, Syncing
<1>18. ASSUME NEW f \in Files, NextEntry(f)
      PROVE  OldInv'
  BY <1>18, OldSame, OldAbsorb DEF NextEntry, Writing, Syncing
<1>19. CASE ProcessSyncRequests
  <2>1. cpc = "write" /\ toWrite = {} /\ cpc' = "scan" /\ UNCHANGED <<buf, os>>
    BY <1>19 DEF ProcessSyncRequests
  <2>2. \A f \in Files : "old" \notin buf[f]
    BY <2>1 DEF OldInv, Writing
  <2>3. \A f \in Files : "old" \in os[f] => Wanted(f)
    BY <2>2 DEF FlushedInv
  <2>4. \A f \in Files : Pending(f)' <=> Wanted(f)
    BY <1>19, OpsView DEF ProcessSyncRequests, OpsAbsorbed
  <2>5. \A f \in Files : Pending(f)' => pendingOps'[f].cycle # sync_cycle_ctr'
    BY <1>19, StampFacts DEF Pending
  <2> QED
    BY <2>1, <2>2, <2>3, <2>4, <2>5 DEF OldInv, Writing
<1>20. CASE SyncCanceled
  <2>1. UNCHANGED <<buf, os, sync_cycle_ctr>> /\ cpc = "try" /\ cpc' = "scan"
    BY <1>20 DEF SyncCanceled, RemoveEntry
  <2>2. \A f \in Files : Pending(f) => Pending(f)' /\ pendingOps'[f] = pendingOps[f]
    BY <1>20 DEF SyncCanceled, RemoveEntry, Pending
  <2> QED
    BY <2>1, <2>2 DEF OldInv, Writing, Syncing
<1>21. CASE SyncFile
  <2>1. UNCHANGED <<buf, sync_cycle_ctr>> /\ cpc = "try" /\ cpc' = "scan"
    BY <1>21 DEF SyncFile, RemoveEntry
  <2>2. \A f \in Files : f # entry /\ Pending(f) => Pending(f)' /\ pendingOps'[f] = pendingOps[f]
    BY <1>21 DEF SyncFile, RemoveEntry, Pending
  <2>3. \A f \in Files : "old" \in os'[f] => f # entry /\ "old" \in os[f]
    BY <1>21, <1>t DEF SyncFile
  <2> QED
    BY <2>1, <2>2, <2>3 DEF OldInv, Writing, Syncing
<1>22. CASE SyncRetry
  BY <1>22, OldSame, OldAbsorb, OldFree DEF SyncRetry, RetryAbsorb, Writing, Syncing
<1>23. CASE EndSync
  BY <1>23 DEF EndSync, OldInv, Writing, Syncing, Pending
<1>24. CASE WriteRecord
  BY <1>24, OldFree DEF WriteRecord, Writing, Syncing
<1>25. CASE SyncPostCheckpoint
  BY <1>25, OldFree DEF SyncPostCheckpoint, Writing, Syncing
<1>26. CASE EndPostCheckpoint
  BY <1>26, OldFree DEF EndPostCheckpoint, Writing, Syncing
<1>27. CASE WriteError
  BY <1>27, OldFree DEF WriteError, Writing, Syncing
<1>28. CASE SyncError
  BY <1>28, OldFree DEF SyncError, Writing, Syncing
<1>29. CASE WaitLatchTimeout
  BY <1>29, OldSame DEF WaitLatchTimeout, Writing, Syncing
<1>30. ASSUME NEW f \in Files, ModifyPage(f)
      PROVE  OldInv'
  BY <1>30, <1>t, OldLess DEF ModifyPage, Writing, Syncing
<1>31. ASSUME NEW p \in Proc, NEW f \in Files, FlushBuffer(p, f)
      PROVE  OldInv'
  BY <1>31, <1>t, OldLess DEF FlushBuffer, Writing, Syncing
<1>32. ASSUME NEW p \in Proc, NEW f \in Files, CreateFile(p, f)
      PROVE  OldInv'
  BY <1>32, OldSame DEF CreateFile, Begin, Writing, Syncing
<1>33. ASSUME NEW p \in Proc, DropRelation(p)
      PROVE  OldInv'
  BY <1>33, <1>t, OldLess DEF DropRelation, Dead, Writing, Syncing
<1>34. ASSUME NEW p \in Proc, DropDatabase(p)
      PROVE  OldInv'
  BY <1>34, <1>t, OldLess DEF DropDatabase, Dead, Writing, Syncing
<1>35. ASSUME NEW p \in Proc, Checkpoint(p)
      PROVE  OldInv'
  BY <1>35, OldSame DEF Checkpoint, SetRequestFlags, Begin, Writing, Syncing
<1>36. ASSUME NEW p \in Proc, RegisterDirtySegment(p)
      PROVE  OldInv'
  BY <1>36, OldSame DEF RegisterDirtySegment, Writing, Syncing
<1>37. ASSUME NEW p \in Proc, SyncDirtySegment(p)
      PROVE  OldInv'
  BY <1>37, <1>t, OldLess DEF SyncDirtySegment, BackendSync, Writing, Syncing
<1>38. ASSUME NEW p \in Proc, TerminateBufferIO(p)
      PROVE  OldInv'
  BY <1>38, <1>t, OldLess DEF TerminateBufferIO, Writing, Syncing
<1>39. ASSUME NEW p \in Proc, RegisterSyncRequest(p)
      PROVE  OldInv'
  BY <1>39, OldSame DEF RegisterSyncRequest, Writing, Syncing
<1>40. ASSUME NEW p \in Proc, UnlinkFile(p)
      PROVE  OldInv'
  BY <1>40, OldSame DEF UnlinkFile, Writing, Syncing
<1>41. ASSUME NEW p \in Proc, RequestCheckpoint(p)
      PROVE  OldInv'
  BY <1>41, OldSame DEF RequestCheckpoint, SetRequestFlags, Writing, Syncing
<1>42. ASSUME NEW p \in Proc, SignalCheckpointer(p)
      PROVE  OldInv'
  BY <1>42, OldSame DEF SignalCheckpointer, Writing, Syncing
<1>43. ASSUME NEW p \in Proc, TestStarted(p)
      PROVE  OldInv'
  BY <1>43, OldSame DEF TestStarted, Writing, Syncing
<1>44. ASSUME NEW p \in Proc, TestDone(p)
      PROVE  OldInv'
  BY <1>44, OldSame DEF TestDone, Writing, Syncing
<1>45. ASSUME NEW p \in Proc, SleepEnds(p)
      PROVE  OldInv'
  BY <1>45, OldSame DEF SleepEnds, Writing, Syncing
<1>46. ASSUME NEW p \in Proc, RequestReturns(p)
      PROVE  OldInv'
  BY <1>46, OldSame DEF RequestReturns, Writing, Syncing
<1>47. ASSUME NEW p \in Proc, SyncDirtySegmentError(p)
      PROVE  OldInv'
  BY <1>47, OldSame DEF SyncDirtySegmentError, Writing, Syncing
<1> QED
  BY <1>1, <1>2, <1>3, <1>4, <1>5, <1>6, <1>7, <1>8, <1>9, <1>10, <1>11, <1>12, <1>13, <1>14,
    <1>15, <1>16, <1>17, <1>18, <1>19, <1>20, <1>21, <1>22, <1>23, <1>24, <1>25, <1>26, <1>27,
    <1>28, <1>29, <1>30, <1>31, <1>32, <1>33, <1>34, <1>35, <1>36, <1>37, <1>38, <1>39, <1>40,
    <1>41, <1>42, <1>43, <1>44, <1>45, <1>46, <1>47 DEF Next, CheckpointerStep,
    CheckpointerEvent, Call, Step

(* YoungInv is kept when nothing becomes due and nothing becomes young.    *)
LEMMA YoungSame ==
  ASSUME YoungInv, DuePending' => DuePending, young' \subseteq young,
         fstate'[FirstSegment] = "dropped" => fstate[FirstSegment] = "dropped",
         cpc' \in Redone \cup {"post"} => cpc \in Redone \cup {"post"}
  PROVE  YoungInv'
BY DEF YoungInv

(* YoungInv is kept while the unlink table and the cycle stay as they are. *)
LEMMA YoungStay ==
  ASSUME YoungInv, UNCHANGED <<pendingUnlinks, checkpoint_cycle_ctr>>, young' \subseteq young,
         fstate'[FirstSegment] = "dropped" => fstate[FirstSegment] = "dropped",
         cpc' \in Redone \cup {"post"} => cpc \in Redone \cup {"post"}
  PROVE  YoungInv'
<1>1. DuePending' <=> DuePending
  BY DEF DuePending, TooNew
<1> QED
  BY <1>1, YoungSame

(* YoungInv is kept when the queue is absorbed.                            *)
LEMMA YoungAbsorb ==
  ASSUME TypeInv, YoungInv, requests' = << >>, pendingUnlinks' = Absorbed.unlinks,
         UNCHANGED <<checkpoint_cycle_ctr, young, fstate>>,
         cpc' \in Redone \cup {"post"} => cpc \in Redone \cup {"post"}
  PROVE  YoungInv'
<1>1. DuePending' => DuePending
  BY UnlinksView DEF UnlinksAbsorbed
<1> QED
  BY <1>1, YoungSame

(* An unlink request after the redo pointer waits for the next checkpoint. *)
LEMMA YoungStep ==
  ASSUME TypeInv, UnlinkInv, YoungInv, Next
  PROVE  YoungInv'
<1> USE DEF ctlVars, cvVars, syncVars, loopVars, ckptVars, procVars, fileVars, histVars,
  backendVars, checkpointerVars, OthersUnchanged, SyncTablesUnchanged, RequestUnchanged, CGo,
  CJump, Go
<1>t. fstate \in [Files -> {"live", "dropped", "invalid", "gone", "left"}]
  BY DEF TypeInv, TypeOK
<1>1. CASE StartCheckpointer
  BY <1>1, YoungStay DEF StartCheckpointer, Redone, Writing, Syncing
<1>2. CASE LoopResetLatch
  BY <1>2, YoungStay DEF LoopResetLatch, Redone, Writing, Syncing
<1>3. CASE LoopAbsorb
  BY <1>3 DEF LoopAbsorb, YoungInv, Redone, Writing, Syncing
<1>4. CASE LoopTest
  BY <1>4, YoungStay DEF LoopTest, Redone, Writing, Syncing
<1>5. CASE BeginCheckpoint
  BY <1>5, YoungStay DEF BeginCheckpoint, Redone, Writing, Syncing
<1>6. CASE BroadcastStart
  BY <1>6, YoungStay DEF BroadcastStart, Redone, Writing, Syncing
<1>7. CASE EndCheckpoint
  BY <1>7, YoungStay DEF EndCheckpoint, Redone, Writing, Syncing
<1>8. CASE CheckpointError
  BY <1>8, YoungStay DEF CheckpointError, Redone, Writing, Syncing
<1>9. CASE BroadcastDone
  BY <1>9, YoungStay DEF BroadcastDone, Redone, Writing, Syncing
<1>10. CASE LoopRecheck
  BY <1>10, YoungStay DEF LoopRecheck, Redone, Writing, Syncing
<1>11. CASE WaitLatch
  BY <1>11, YoungStay DEF WaitLatch, Redone, Writing, Syncing
<1>12. CASE SyncPreCheckpoint
  BY <1>12 DEF SyncPreCheckpoint, YoungInv, Redone, Writing, Syncing
<1>13. CASE SetRedo
  BY <1>13 DEF SetRedo, YoungInv, Redone, Writing, Syncing
<1>14. CASE BufferSyncMark
  BY <1>14, YoungStay DEF BufferSyncMark, Redone, Writing, Syncing
<1>15. CASE CheckpointWriteDelay
  BY <1>15, YoungStay, YoungAbsorb DEF CheckpointWriteDelay, AbsorbSyncRequests, Redone,
    Writing, Syncing
<1>16. CASE Nap
  BY <1>16, YoungStay DEF Nap, Redone, Writing, Syncing
<1>17. ASSUME NEW f \in Files, SyncOneBuffer(f)
      PROVE  YoungInv'
  BY <1>17, YoungStay DEF SyncOneBuffer, Redone, Writing, Syncing
<1>18. ASSUME NEW f \in Files, NextEntry(f)
      PROVE  YoungInv'
  BY <1>18, YoungStay, YoungAbsorb DEF NextEntry, AbsorbSyncRequests, Redone, Writing, Syncing
<1>19. CASE ProcessSyncRequests
  BY <1>19, YoungStay, YoungAbsorb DEF ProcessSyncRequests, Redone, Writing, Syncing
<1>20. CASE SyncCanceled
  BY <1>20, YoungStay DEF SyncCanceled, Redone, Writing, Syncing
<1>21. CASE SyncFile
  BY <1>21, YoungStay DEF SyncFile, Redone, Writing, Syncing
<1>22. CASE SyncRetry
  BY <1>22, YoungStay, YoungAbsorb DEF SyncRetry, RetryAbsorb, AbsorbSyncRequests, Redone,
    Writing, Syncing
<1>23. CASE EndSync
  BY <1>23, YoungStay DEF EndSync, Redone, Writing, Syncing
<1>24. CASE WriteRecord
  BY <1>24, YoungStay DEF WriteRecord, Redone, Writing, Syncing
<1>25. CASE SyncPostCheckpoint
  <2>1. UNCHANGED <<young, cpc>>
    BY <1>25 DEF SyncPostCheckpoint
  <2>2. CASE PostedCanceled
    BY <2>1, <2>2, YoungSame DEF PostedCanceled
  <2>3. CASE PostedDue
    BY <2>3 DEF PostedDue, YoungInv
  <2> QED
    BY <1>25, <2>2, <2>3, PostFacts
<1>26. CASE EndPostCheckpoint
  BY <1>26, YoungStay DEF EndPostCheckpoint, Redone, Writing, Syncing
<1>27. CASE WriteError
  BY <1>27, YoungStay DEF WriteError, Redone, Writing, Syncing
<1>28. CASE SyncError
  BY <1>28, YoungStay DEF SyncError, Redone, Writing, Syncing
<1>29. CASE WaitLatchTimeout
  BY <1>29, YoungStay DEF WaitLatchTimeout, Redone, Writing, Syncing
<1>30. ASSUME NEW f \in Files, ModifyPage(f)
      PROVE  YoungInv'
  BY <1>30, YoungStay DEF ModifyPage, Redone, Writing, Syncing
<1>31. ASSUME NEW p \in Proc, NEW f \in Files, FlushBuffer(p, f)
      PROVE  YoungInv'
  BY <1>31, YoungStay DEF FlushBuffer, Begin, Redone, Writing, Syncing
<1>32. ASSUME NEW p \in Proc, NEW f \in Files, CreateFile(p, f)
      PROVE  YoungInv'
  BY <1>32, <1>t, FilesFacts, YoungStay DEF CreateFile, Redone, Writing, Syncing
<1>33. ASSUME NEW p \in Proc, DropRelation(p)
      PROVE  YoungInv'
  <2>1. fstate[FirstSegment] = "live" /\ UNCHANGED <<pendingUnlinks, checkpoint_cycle_ctr>>
    BY <1>33 DEF DropRelation, Live
  <2>2. ~UnlinkPending
    BY <2>1 DEF UnlinkInv
  <2>3. ~DuePending'
    BY <2>1, <2>2 DEF DuePending, UnlinkPending
  <2> QED
    BY <2>3 DEF YoungInv
<1>34. ASSUME NEW p \in Proc, DropDatabase(p)
      PROVE  YoungInv'
  BY <1>34, <1>t, FilesFacts, YoungStay DEF DropDatabase, Dead, Redone, Writing, Syncing
<1>35. ASSUME NEW p \in Proc, Checkpoint(p)
      PROVE  YoungInv'
  BY <1>35, YoungStay DEF Checkpoint, SetRequestFlags, Begin, Redone, Writing, Syncing
<1>36. ASSUME NEW p \in Proc, RegisterDirtySegment(p)
      PROVE  YoungInv'
  BY <1>36, YoungStay DEF RegisterDirtySegment, Redone, Writing, Syncing
<1>37. ASSUME NEW p \in Proc, SyncDirtySegment(p)
      PROVE  YoungInv'
  BY <1>37, YoungStay DEF SyncDirtySegment, Redone, Writing, Syncing
<1>38. ASSUME NEW p \in Proc, TerminateBufferIO(p)
      PROVE  YoungInv'
  BY <1>38, YoungStay DEF TerminateBufferIO, Redone, Writing, Syncing
<1>39. ASSUME NEW p \in Proc, RegisterSyncRequest(p)
      PROVE  YoungInv'
  BY <1>39, YoungStay DEF RegisterSyncRequest, Redone, Writing, Syncing
<1>40. ASSUME NEW p \in Proc, UnlinkFile(p)
      PROVE  YoungInv'
  BY <1>40, <1>t, FilesFacts, YoungStay DEF UnlinkFile, Redone, Writing, Syncing
<1>41. ASSUME NEW p \in Proc, RequestCheckpoint(p)
      PROVE  YoungInv'
  BY <1>41, YoungStay DEF RequestCheckpoint, SetRequestFlags, Redone, Writing, Syncing
<1>42. ASSUME NEW p \in Proc, SignalCheckpointer(p)
      PROVE  YoungInv'
  BY <1>42, YoungStay DEF SignalCheckpointer, Redone, Writing, Syncing
<1>43. ASSUME NEW p \in Proc, TestStarted(p)
      PROVE  YoungInv'
  BY <1>43, YoungStay DEF TestStarted, Redone, Writing, Syncing
<1>44. ASSUME NEW p \in Proc, TestDone(p)
      PROVE  YoungInv'
  BY <1>44, YoungStay DEF TestDone, Redone, Writing, Syncing
<1>45. ASSUME NEW p \in Proc, SleepEnds(p)
      PROVE  YoungInv'
  BY <1>45, YoungStay DEF SleepEnds, Redone, Writing, Syncing
<1>46. ASSUME NEW p \in Proc, RequestReturns(p)
      PROVE  YoungInv'
  BY <1>46, <1>t, FilesFacts, YoungStay DEF RequestReturns, Redone, Writing, Syncing
<1>47. ASSUME NEW p \in Proc, SyncDirtySegmentError(p)
      PROVE  YoungInv'
  BY <1>47, YoungStay DEF SyncDirtySegmentError, Redone, Writing, Syncing
<1> QED
  BY <1>1, <1>2, <1>3, <1>4, <1>5, <1>6, <1>7, <1>8, <1>9, <1>10, <1>11, <1>12, <1>13, <1>14,
    <1>15, <1>16, <1>17, <1>18, <1>19, <1>20, <1>21, <1>22, <1>23, <1>24, <1>25, <1>26, <1>27,
    <1>28, <1>29, <1>30, <1>31, <1>32, <1>33, <1>34, <1>35, <1>36, <1>37, <1>38, <1>39, <1>40,
    <1>41, <1>42, <1>43, <1>44, <1>45, <1>46, <1>47 DEF Next, CheckpointerStep,
    CheckpointerEvent, Call, Step

-----------------------------------------------------------------------------
(***************************************************************************)
(* The invariant                                                           *)
(***************************************************************************)
LEMMA InitIInv == Init => IInv
<1> SUFFICES ASSUME Init PROVE IInv
  OBVIOUS
<1> USE ConstantsAssumption, FilesFacts, RequestForms
<1>1. TypeInv
  <2>0. /\ CTR_MODULUS \in Nat \ {0} /\ MAX_REQUESTS \in Nat /\ CYCLE_MODULUS \in Nat \ {0}
        /\ FirstCkpt \in 0 .. CTR_MODULUS - 1 /\ MaxTimed \in Nat /\ MaxFails \in Nat
    OBVIOUS
  <2>1. ControlType
    <3>1. /\ running = FALSE /\ ckpt_flags = FALSE /\ latch = FALSE
          /\ ckpt_started = FirstCkpt /\ ckpt_done = FirstCkpt /\ ckpt_failed = 0
          /\ start_cv = {} /\ done_cv = {} /\ timed = 0 /\ fails = 0
      BY DEF Init
    <3>2. 0 \in 0 .. CTR_MODULUS - 1 /\ 0 \in 0 .. MaxTimed /\ 0 \in 0 .. MaxFails
      BY <2>0
    <3> QED
      BY <2>0, <3>1, <3>2 DEF ControlType
  <2>2. TablesType
    <3>1. pendingOps = << >> /\ requests = << >> /\ pendingUnlinks = << >>
      BY DEF Init
    <3>2. DOMAIN pendingOps = {} /\ Len(requests) = 0
      BY <3>1
    <3>3. requests \in Seq(RequestsMade) /\ pendingUnlinks \in Seq(UnlinkEntry)
      BY <3>1
    <3> QED
      BY <2>0, <3>2, <3>3 DEF TablesType
  <2>3. CheckpointerType /\ EntryType
    <3>1. /\ sync_cycle_ctr = 0 /\ checkpoint_cycle_ctr = 0 /\ sync_in_progress = FALSE
          /\ forced = FALSE /\ cpc = "down" /\ toWrite = {} /\ entry = NoFile /\ failures = 0
      BY DEF Init
    <3>2. 0 \in 0 .. CYCLE_MODULUS - 1
      BY <2>0
    <3> QED
      BY <3>1, <3>2 DEF CheckpointerType, EntryType
  <2>4. BackendType
    BY DEF Init, BackendType, Places, Operations
  <2>5. FileType
    BY DEF Init, FileType, Changes
  <2> QED
    BY <2>1, <2>2, <2>3, <2>4, <2>5, TypeParts
<1>2. PlaceInv
  BY DEF Init, PlaceInv, PlaceAt
<1>3. CounterInv
  BY DEF Init, CounterInv, AskedAt, Active, Waiting
<1>4. FileInv
  BY DEF Init, FileInv, LiveInv, IoInv, DropInv, Live
<1>5. requests = << >> /\ pendingOps = << >> /\ pendingUnlinks = << >> /\ cpc = "down"
  BY DEF Init
<1>6. (\A r : ~Queued(r)) /\ ~LastUnlink
  BY <1>5, NothingQueued
<1>7. \A f : ~Pending(f) /\ ~Wanted(f)
  BY <1>5 DEF Pending, Wanted, After, AfterIn
<1>8. ~UnlinkPending /\ ~DuePending /\ UniqueServing /\ UniqueUnlink(requests)
  BY <1>5 DEF UnlinkPending, DuePending, UniqueServing, UniqueUnlink
<1>9. fstate[FirstSegment] = "live" /\ \A f \in Files : fstate[f] = "live" /\ os[f] = {}
  BY DEF Init
<1>10. UnlinkInv
  BY <1>6, <1>8, <1>9, UnlinkParts
<1>11. FilterInv
  BY <1>6 DEF Init, FilterInv
<1>12. CancelInv
  BY <1>5, <1>7, <1>8, FilesFacts DEF CancelInv, GoneInv, DueInv, RetryInv
<1>13. ForgetInv
  BY <1>6 DEF ForgetInv
<1>14. CycleInv
  BY <1>5 DEF CycleInv, Syncing
<1>15. DurableInv
  BY <1>5, <1>9 DEF Init, DurableInv, FlushedInv, OldInv, Writing, Syncing
<1>16. YoungInv
  BY <1>5 DEF YoungInv, Redone, Writing, Syncing
<1> QED
  BY <1>1, <1>2, <1>3, <1>4, <1>10, <1>11, <1>12, <1>13, <1>14, <1>15, <1>16 DEF IInv

(* Every action keeps the invariant.                                       *)
LEMMA StepIInv ==
  ASSUME IInv, Next
  PROVE  IInv'
<1> USE DEF IInv, CancelInv, DurableInv
<1>1. TypeInv' /\ PlaceInv'
  BY TypeStep, PlaceStep
<1>2. CounterInv'
  BY CounterStep
<1>3. FileInv' /\ ForgetInv'
  BY FileStep, ForgetStep
<1>4. UnlinkInv' /\ FilterInv'
  BY UnlinkStep, FilterStep
<1>5. CycleInv' /\ YoungInv'
  BY CycleStep, YoungStep
<1>6. CancelInv'
  BY GoneStep, DueStep, RetryStep
<1>7. DurableInv'
  BY FlushedStep, OldStep
<1> QED
  BY <1>1, <1>2, <1>3, <1>4, <1>5, <1>6, <1>7

(* A stuttering step keeps the invariant.                                  *)
LEMMA SameIInv ==
  ASSUME IInv, UNCHANGED vars
  PROVE  IInv'
<1> USE DEF vars, ctlVars, cvVars, syncVars, loopVars, ckptVars, procVars, fileVars, histVars
<1>1. TypeInv' /\ PlaceInv'
  BY TypeSame, PlaceSame DEF IInv
<1>2. CounterInv'
  BY CounterSame DEF IInv, Active, CounterInv
<1>3. FileInv' /\ ForgetInv'
  BY FileSame, ForgetSame DEF IInv, Live
<1>4. UnlinkInv'
  BY UnlinkSame DEF IInv, NoUnlinker
<1>5. FilterInv'
  BY FilterSame DEF IInv, Dropper, Absorbs
<1>6. CycleInv' /\ YoungInv'
  BY CycleSame, YoungStay DEF IInv
<1>7. CancelInv'
  BY GoneSame, DueStay, RetrySame DEF IInv, CancelInv, UnlinkersStay
<1>8. DurableInv'
  BY FlushedSame, OldSame DEF IInv, DurableInv, ClearersStay
<1> QED
  BY <1>1, <1>2, <1>3, <1>4, <1>5, <1>6, <1>7, <1>8 DEF IInv

(* The invariant holds in every reachable state: the request queue, the    *)
(* tables of the checkpointer, the files and the places of the backends    *)
(* fit together, whatever the number of backends and segments and however  *)
(* small the queue.                                                        *)
THEOREM Invariance == Spec => []IInv
<1>1. IInv /\ [Next]_vars => IInv'
  BY StepIInv, SameIInv
<1> QED
  BY <1>1, InitIInv, PTL DEF Spec

(* CheckpointIsDurable, of CreateCheckPoint: when the checkpoint record is *)
(* written, nothing before its redo pointer is left in a buffer or in the  *)
(* kernel.                                                                 *)
THEOREM CheckpointsAreDurable == Spec => []CheckpointIsDurable
<1>1. IInv => CheckpointIsDurable
  BY DEF IInv, DurableInv, OldInv, CheckpointIsDurable
<1> QED
  BY <1>1, Invariance, PTL

(* CancelArrivesInTime, of ProcessSyncRequests: when a file to be synced   *)
(* is gone, the cancel is in the queue that is absorbed before the retry.  *)
THEOREM CancelsArrive == Spec => []CancelArrivesInTime
<1>1. IInv => CancelArrivesInTime
  BY DEF IInv, CounterInv, CancelArrivesInTime
<1> QED
  BY <1>1, Invariance, PTL

(* EntriesOneCycleOld, of ProcessSyncRequests: the Assert of its loop      *)
(* holds of every entry of the table, after failed attempts as well, and   *)
(* all variables keep their types.                                         *)
THEOREM CyclesStayFresh == Spec => []EntriesOneCycleOld
<1>1. IInv => EntriesOneCycleOld
  BY DEF IInv, TypeInv, CycleInv, Syncing, EntriesOneCycleOld
<1> QED
  BY <1>1, Invariance, PTL

(* What a step may never do to a file.                                     *)
TimelyUnlink ==
  \A f \in Files : fstate'[f] = "gone" /\ fstate[f] # "gone" =>
    fstate[f] # "live" /\ (f = FirstSegment /\ fstate[f] = "dropped" => f \notin young)

(* A step that removes no file is timely.                                  *)
LEMMA TimelySame ==
  ASSUME \A f \in Files : fstate'[f] = "gone" => fstate[f] = "gone"
  PROVE  TimelyUnlink
BY DEF TimelyUnlink

(* Files leave the disk in time.                                           *)
LEMMA UnlinkTimely ==
  ASSUME TypeInv, PlaceInv, FileInv, UnlinkInv, YoungInv, Next
  PROVE  TimelyUnlink
<1> USE DEF ctlVars, cvVars, syncVars, loopVars, ckptVars, procVars, fileVars, histVars,
  backendVars, checkpointerVars, OthersUnchanged, SyncTablesUnchanged, RequestUnchanged, CGo,
  CJump, Go
<1>t. fstate \in [Files -> {"live", "dropped", "invalid", "gone", "left"}]
  BY DEF TypeInv, TypeOK
<1>1. CASE StartCheckpointer
  BY <1>1, TimelySame DEF StartCheckpointer
<1>2. CASE LoopResetLatch
  BY <1>2, TimelySame DEF LoopResetLatch
<1>3. CASE LoopAbsorb
  BY <1>3, TimelySame DEF LoopAbsorb
<1>4. CASE LoopTest
  BY <1>4, TimelySame DEF LoopTest
<1>5. CASE BeginCheckpoint
  BY <1>5, TimelySame DEF BeginCheckpoint
<1>6. CASE BroadcastStart
  BY <1>6, TimelySame DEF BroadcastStart
<1>7. CASE EndCheckpoint
  BY <1>7, TimelySame DEF EndCheckpoint
<1>8. CASE CheckpointError
  BY <1>8, TimelySame DEF CheckpointError
<1>9. CASE BroadcastDone
  BY <1>9, TimelySame DEF BroadcastDone
<1>10. CASE LoopRecheck
  BY <1>10, TimelySame DEF LoopRecheck
<1>11. CASE WaitLatch
  BY <1>11, TimelySame DEF WaitLatch
<1>12. CASE SyncPreCheckpoint
  BY <1>12, TimelySame DEF SyncPreCheckpoint
<1>13. CASE SetRedo
  BY <1>13, TimelySame DEF SetRedo
<1>14. CASE BufferSyncMark
  BY <1>14, TimelySame DEF BufferSyncMark
<1>15. CASE CheckpointWriteDelay
  BY <1>15, TimelySame DEF CheckpointWriteDelay
<1>16. CASE Nap
  BY <1>16, TimelySame DEF Nap
<1>17. ASSUME NEW f \in Files, SyncOneBuffer(f)
      PROVE  TimelyUnlink
  BY <1>17, TimelySame DEF SyncOneBuffer
<1>18. ASSUME NEW f \in Files, NextEntry(f)
      PROVE  TimelyUnlink
  BY <1>18, TimelySame DEF NextEntry
<1>19. CASE ProcessSyncRequests
  BY <1>19, TimelySame DEF ProcessSyncRequests
<1>20. CASE SyncCanceled
  BY <1>20, TimelySame DEF SyncCanceled
<1>21. CASE SyncFile
  BY <1>21, TimelySame DEF SyncFile
<1>22. CASE SyncRetry
  BY <1>22, TimelySame DEF SyncRetry
<1>23. CASE EndSync
  BY <1>23, TimelySame DEF EndSync
<1>24. CASE WriteRecord
  BY <1>24, TimelySame DEF WriteRecord
<1>25. CASE SyncPostCheckpoint
  <2>1. CASE PostedCanceled
    BY <2>1, TimelySame DEF PostedCanceled
  <2>2. CASE PostedDue
    <3>1. cpc = "post"
      BY <1>25 DEF SyncPostCheckpoint
    <3>2. fstate[FirstSegment] = "dropped" => FirstSegment \notin young
      BY <2>2, <3>1 DEF PostedDue, YoungInv
    <3> QED
      BY <2>2, <3>2 DEF PostedDue, TimelyUnlink
  <2> QED
    BY <1>25, <2>1, <2>2, PostFacts
<1>26. CASE EndPostCheckpoint
  BY <1>26, TimelySame DEF EndPostCheckpoint
<1>27. CASE WriteError
  BY <1>27, TimelySame DEF WriteError
<1>28. CASE SyncError
  BY <1>28, TimelySame DEF SyncError
<1>29. CASE WaitLatchTimeout
  BY <1>29, TimelySame DEF WaitLatchTimeout
<1>30. ASSUME NEW f \in Files, ModifyPage(f)
      PROVE  TimelyUnlink
  BY <1>30, TimelySame DEF ModifyPage
<1>31. ASSUME NEW p \in Proc, NEW f \in Files, FlushBuffer(p, f)
      PROVE  TimelyUnlink
  BY <1>31, TimelySame DEF FlushBuffer, Begin
<1>32. ASSUME NEW p \in Proc, NEW f \in Files, CreateFile(p, f)
      PROVE  TimelyUnlink
  BY <1>32, <1>t, TimelySame DEF CreateFile
<1>33. ASSUME NEW p \in Proc, DropRelation(p)
      PROVE  TimelyUnlink
  BY <1>33, <1>t, TimelySame DEF DropRelation, Dead
<1>34. ASSUME NEW p \in Proc, DropDatabase(p)
      PROVE  TimelyUnlink
  BY <1>34, <1>t, TimelySame DEF DropDatabase, Dead
<1>35. ASSUME NEW p \in Proc, Checkpoint(p)
      PROVE  TimelyUnlink
  BY <1>35, TimelySame DEF Checkpoint, SetRequestFlags, Begin
<1>36. ASSUME NEW p \in Proc, RegisterDirtySegment(p)
      PROVE  TimelyUnlink
  BY <1>36, TimelySame DEF RegisterDirtySegment
<1>37. ASSUME NEW p \in Proc, SyncDirtySegment(p)
      PROVE  TimelyUnlink
  BY <1>37, TimelySame DEF SyncDirtySegment
<1>38. ASSUME NEW p \in Proc, TerminateBufferIO(p)
      PROVE  TimelyUnlink
  BY <1>38, TimelySame DEF TerminateBufferIO
<1>39. ASSUME NEW p \in Proc, RegisterSyncRequest(p)
      PROVE  TimelyUnlink
  BY <1>39, TimelySame DEF RegisterSyncRequest
<1>40. ASSUME NEW p \in Proc, UnlinkFile(p)
      PROVE  TimelyUnlink
  <2>1. PICK f \in Segments : Unlinks(p, f)
    BY <1>40, UnlinkGoes
  <2> QED
    BY <2>1, FilesFacts DEF Unlinks, UnlinkTried, TimelyUnlink
<1>41. ASSUME NEW p \in Proc, RequestCheckpoint(p)
      PROVE  TimelyUnlink
  BY <1>41, TimelySame DEF RequestCheckpoint, SetRequestFlags
<1>42. ASSUME NEW p \in Proc, SignalCheckpointer(p)
      PROVE  TimelyUnlink
  BY <1>42, TimelySame DEF SignalCheckpointer
<1>43. ASSUME NEW p \in Proc, TestStarted(p)
      PROVE  TimelyUnlink
  BY <1>43, TimelySame DEF TestStarted
<1>44. ASSUME NEW p \in Proc, TestDone(p)
      PROVE  TimelyUnlink
  BY <1>44, TimelySame DEF TestDone
<1>45. ASSUME NEW p \in Proc, SleepEnds(p)
      PROVE  TimelyUnlink
  BY <1>45, TimelySame DEF SleepEnds
<1>46. ASSUME NEW p \in Proc, RequestReturns(p)
      PROVE  TimelyUnlink
  <2>1. CASE UNCHANGED fstate
    BY <2>1, TimelySame
  <2>2. CASE op[p] = "dropdb"
    <3>1. \A f \in Files : fstate[f] \in {"invalid", "gone", "left"}
      BY <2>2 DEF FileInv, DropInv
    <3> QED
      BY <3>1 DEF TimelyUnlink
  <2> QED
    BY <1>46, <2>1, <2>2 DEF RequestReturns
<1>47. ASSUME NEW p \in Proc, SyncDirtySegmentError(p)
      PROVE  TimelyUnlink
  BY <1>47, TimelySame DEF SyncDirtySegmentError
<1> QED
  BY <1>1, <1>2, <1>3, <1>4, <1>5, <1>6, <1>7, <1>8, <1>9, <1>10, <1>11, <1>12, <1>13, <1>14,
    <1>15, <1>16, <1>17, <1>18, <1>19, <1>20, <1>21, <1>22, <1>23, <1>24, <1>25, <1>26, <1>27,
    <1>28, <1>29, <1>30, <1>31, <1>32, <1>33, <1>34, <1>35, <1>36, <1>37, <1>38, <1>39, <1>40,
    <1>41, <1>42, <1>43, <1>44, <1>45, <1>46, <1>47 DEF Next, CheckpointerStep,
    CheckpointerEvent, Call, Step

(* UnlinkTiming, of mdunlinkfork, SyncPostCheckpoint and dropdb: a file    *)
(* leaves the disk only if it was dropped, the first segment of a main     *)
(* fork only after a checkpoint whose redo pointer is past the drop.       *)
THEOREM UnlinksAreTimely == Spec => UnlinkTiming
<1>1. IInv /\ [Next]_vars => [TimelyUnlink]_vars
  BY UnlinkTimely DEF IInv
<1>2. UnlinkTiming <=> [][TimelyUnlink]_vars
  BY DEF UnlinkTiming, TimelyUnlink
<1> QED
  BY <1>1, <1>2, Invariance, PTL DEF Spec

-----------------------------------------------------------------------------
(***************************************************************************)
(* Requests are honoured                                                   *)
(***************************************************************************)
LEMMA FailedSame ==
  ASSUME TypeInv, FailedInv, UNCHANGED <<ckpt_failed, pc, asked, old_failed>>,
         fails' = fails \/ fails' = fails + 1,
         cpc' = "error" => cpc = "error"
  PROVE  FailedInv'
<1>1. \A p \in Proc : FailedAt(p)'
  BY DEF FailedInv, FailedAt
<1>2. ckpt_failed \in Nat /\ fails \in Nat
  BY ConstantsAssumption DEF TypeInv, TypeOK
<1> QED
  BY <1>1, <1>2 DEF FailedInv

(* One backend takes a step.                                               *)
FailedOther(p) ==
  /\ UNCHANGED <<ckpt_failed, cpc, fails>>
  /\ \A q \in Proc : q # p => pc'[q] = pc[q] /\ asked'[q] = asked[q] /\ old_failed'[q] = old_failed[q]

(* A step of p keeps what the others know of the failures.                 *)
LEMMA FailedOne ==
  ASSUME FailedInv, NEW p \in Proc, FailedOther(p), FailedAt(p)'
  PROVE  FailedInv'
<1>1. \A q \in Proc : q # p => FailedAt(q)'
  BY DEF FailedInv, FailedAt, FailedOther
<1> QED
  BY <1>1 DEF FailedInv, FailedOther

(* Outside RequestCheckpoint.                                              *)
LEMMA FailedAway ==
  ASSUME CounterInv, FailedInv, NEW p \in Proc, OthersStay(p), pc[p] \notin Waiting,
         pc'[p] \notin Waiting, UNCHANGED <<ckpt_failed, cpc, fails, asked, old_failed>>
  PROVE  FailedInv'
<1>1. AskedAt(p)
  BY DEF CounterInv
<1>2. FailedAt(p)'
  BY <1>1 DEF AskedAt, FailedAt, Waiting
<1>3. FailedOther(p)
  BY DEF FailedOther, OthersStay
<1> QED
  BY <1>2, <1>3, FailedOne

(* What those who wait know of failures.                                   *)
LEMMA FailedStep ==
  ASSUME MaxFails < CTR_MODULUS, TypeInv, PlaceInv, CounterInv, FailedInv, Next
  PROVE  FailedInv'
<1> USE DEF ctlVars, cvVars, syncVars, loopVars, ckptVars, procVars, fileVars, histVars,
  backendVars, checkpointerVars, OthersUnchanged, SyncTablesUnchanged, RequestUnchanged, CGo,
  CJump, Go
<1>t. /\ asked \in [Proc -> {"no", "asked", "started", "ok", "failed"}] /\ pc \in [Proc -> Places]
      /\ old_failed \in [Proc -> Nat] /\ op \in [Proc -> Operations]
      /\ arg \in [Proc -> RequestsMade \cup {NoRequest}]
  BY DEF TypeInv
<1>u. ckpt_failed \in Nat /\ fails \in Nat /\ fails <= MaxFails /\ MaxFails \in Nat /\ CTR_MODULUS \in Nat
  BY ConstantsAssumption DEF TypeInv, TypeOK
<1>1. CASE StartCheckpointer
  BY <1>1, FailedSame DEF StartCheckpointer
<1>2. CASE LoopResetLatch
  BY <1>2, FailedSame DEF LoopResetLatch
<1>3. CASE LoopAbsorb
  BY <1>3, FailedSame DEF LoopAbsorb
<1>4. CASE LoopTest
  BY <1>4, FailedSame DEF LoopTest
<1>5. CASE BeginCheckpoint
  <2>1. UNCHANGED <<ckpt_failed, fails, pc, old_failed>> /\ cpc' # "error"
    BY <1>5 DEF BeginCheckpoint
  <2>2. \A p \in Proc : asked'[p] = "failed" => asked[p] = "failed"
    BY <1>5 DEF BeginCheckpoint
  <2>3. \A p \in Proc : FailedAt(p)'
    BY <2>1, <2>2 DEF FailedInv, FailedAt
  <2> QED
    BY <1>u, <2>1, <2>3 DEF FailedInv
<1>6. CASE BroadcastStart
  BY <1>6, FailedSame DEF BroadcastStart
<1>7. CASE EndCheckpoint
  <2>1. UNCHANGED <<ckpt_failed, fails, pc, old_failed>> /\ cpc' # "error"
    BY <1>7 DEF EndCheckpoint
  <2>2. \A p \in Proc : asked'[p] = "failed" => asked[p] = "failed"
    BY <1>7 DEF EndCheckpoint
  <2>3. \A p \in Proc : FailedAt(p)'
    BY <2>1, <2>2 DEF FailedInv, FailedAt
  <2> QED
    BY <1>u, <2>1, <2>3 DEF FailedInv
<1>8. CASE CheckpointError
  <2>1. cpc = "error"
    BY <1>8 DEF CheckpointError, CounterInv
  <2>2. ckpt_failed + 1 <= fails
    BY <2>1 DEF FailedInv
  <2>3. ckpt_failed' = ckpt_failed + 1
    <3>1. ckpt_failed + 1 < CTR_MODULUS
      BY <1>u, <2>2
    <3>2. (ckpt_failed + 1) % CTR_MODULUS = ckpt_failed + 1
      BY <1>u, <3>1
    <3> QED
      BY <1>8, <3>2 DEF CheckpointError, Next_
  <2>4. UNCHANGED <<fails, pc, old_failed>> /\ cpc' = "failcast"
    BY <1>8 DEF CheckpointError
  <2>5. \A p \in Proc : asked'[p] = IF asked[p] = "started" THEN "failed" ELSE asked[p]
    BY <1>8 DEF CheckpointError
  <2>6. ASSUME NEW p \in Proc
        PROVE  FailedAt(p)'
    <3>1. AskedAt(p) /\ FailedAt(p) /\ old_failed[p] \in Nat
      BY <1>t DEF CounterInv, FailedInv
    <3>2. pc[p] \in Waiting => old_failed'[p] <= ckpt_failed'
      BY <1>u, <2>3, <2>4, <3>1 DEF FailedAt
    <3>3. asked'[p] = "failed" => old_failed'[p] < ckpt_failed' /\ pc'[p] # "success"
      BY <1>u, <2>3, <2>4, <2>5, <3>1 DEF FailedAt, AskedAt
    <3> QED
      BY <2>4, <3>2, <3>3 DEF FailedAt
  <2> QED
    BY <1>u, <2>2, <2>3, <2>4, <2>6 DEF FailedInv
<1>9. CASE BroadcastDone
  BY <1>9, FailedSame DEF BroadcastDone
<1>10. CASE LoopRecheck
  BY <1>10, FailedSame DEF LoopRecheck
<1>11. CASE WaitLatch
  BY <1>11, FailedSame DEF WaitLatch
<1>12. CASE SyncPreCheckpoint
  BY <1>12, FailedSame DEF SyncPreCheckpoint
<1>13. CASE SetRedo
  BY <1>13, FailedSame DEF SetRedo
<1>14. CASE BufferSyncMark
  BY <1>14, FailedSame DEF BufferSyncMark
<1>15. CASE CheckpointWriteDelay
  BY <1>15, FailedSame DEF CheckpointWriteDelay
<1>16. CASE Nap
  BY <1>16, FailedSame DEF Nap
<1>17. ASSUME NEW f \in Files, SyncOneBuffer(f)
      PROVE  FailedInv'
  BY <1>17, FailedSame DEF SyncOneBuffer
<1>18. ASSUME NEW f \in Files, NextEntry(f)
      PROVE  FailedInv'
  BY <1>18, FailedSame DEF NextEntry
<1>19. CASE ProcessSyncRequests
  BY <1>19, FailedSame DEF ProcessSyncRequests
<1>20. CASE SyncCanceled
  BY <1>20, FailedSame DEF SyncCanceled, RemoveEntry
<1>21. CASE SyncFile
  BY <1>21, FailedSame DEF SyncFile, RemoveEntry
<1>22. CASE SyncRetry
  BY <1>22, FailedSame DEF SyncRetry
<1>23. CASE EndSync
  BY <1>23, FailedSame DEF EndSync
<1>24. CASE WriteRecord
  BY <1>24, FailedSame DEF WriteRecord
<1>25. CASE SyncPostCheckpoint
  BY <1>25, FailedSame DEF SyncPostCheckpoint, UnlinkFiletag
<1>26. CASE EndPostCheckpoint
  BY <1>26, FailedSame DEF EndPostCheckpoint
<1>27. CASE WriteError
  <2>1. cpc # "error" /\ fails' = fails + 1 /\ UNCHANGED <<ckpt_failed, pc, asked, old_failed>>
    BY <1>27 DEF WriteError
  <2>2. \A p \in Proc : FailedAt(p)'
    BY <2>1 DEF FailedInv, FailedAt
  <2> QED
    BY <1>u, <2>1, <2>2 DEF FailedInv
<1>28. CASE SyncError
  <2>1. cpc # "error" /\ fails' = fails + 1 /\ UNCHANGED <<ckpt_failed, pc, asked, old_failed>>
    BY <1>28 DEF SyncError
  <2>2. \A p \in Proc : FailedAt(p)'
    BY <2>1 DEF FailedInv, FailedAt
  <2> QED
    BY <1>u, <2>1, <2>2 DEF FailedInv
<1>29. CASE WaitLatchTimeout
  BY <1>29, FailedSame DEF WaitLatchTimeout
<1>30. ASSUME NEW f \in Files, ModifyPage(f)
      PROVE  FailedInv'
  BY <1>30, FailedSame DEF ModifyPage
<1>31. ASSUME NEW p \in Proc, NEW f \in Files, FlushBuffer(p, f)
      PROVE  FailedInv'
  <2>1. Goes(p, "flush", "forward", SyncR(f)) /\ Idle(p)
    <3>1. Begin(p, "flush", "forward", SyncR(f))
      BY <1>31 DEF FlushBuffer, SyncR
    <3> QED
      BY <3>1, BeginGoes
  <2> QED
    BY <1>31, <2>1, FailedAway DEF FlushBuffer, Goes, Idle, Waiting
<1>32. ASSUME NEW p \in Proc, NEW f \in Files, CreateFile(p, f)
      PROVE  FailedInv'
  <2>1. Goes(p, "create", "forward", SyncR(f)) /\ Idle(p)
    <3>1. Begin(p, "create", "forward", SyncR(f))
      BY <1>32 DEF CreateFile, SyncR
    <3> QED
      BY <3>1, BeginGoes
  <2> QED
    BY <1>32, <2>1, FailedAway DEF CreateFile, Goes, Idle, Waiting
<1>33. ASSUME NEW p \in Proc, DropRelation(p)
      PROVE  FailedInv'
  <2>1. Goes(p, "drop", "register", UnlinkR) /\ Idle(p)
    <3>1. Begin(p, "drop", "register", UnlinkR)
      BY <1>33 DEF DropRelation, UnlinkR
    <3> QED
      BY <3>1, BeginGoes
  <2> QED
    BY <1>33, <2>1, FailedAway DEF DropRelation, Goes, Idle, Waiting
<1>34. ASSUME NEW p \in Proc, DropDatabase(p)
      PROVE  FailedInv'
  <2>1. Goes(p, "dropdb", "register", FilterR) /\ Idle(p)
    <3>1. Begin(p, "dropdb", "register", FilterR)
      BY <1>34 DEF DropDatabase, FilterR
    <3> QED
      BY <3>1, BeginGoes
  <2> QED
    BY <1>34, <2>1, FailedAway DEF DropDatabase, Goes, Idle, Waiting
<1>35. ASSUME NEW p \in Proc, Checkpoint(p)
      PROVE  FailedInv'
  <2>1. asked'[p] = "asked" /\ pc'[p] = "signal" /\ old_failed'[p] = ckpt_failed /\ UNCHANGED ckpt_failed
    BY <1>35, <1>t DEF Checkpoint, SetRequestFlags, Begin
  <2>2. FailedOther(p)
    BY <1>35, <1>t DEF Checkpoint, SetRequestFlags, Begin, FailedOther
  <2>3. FailedAt(p)'
    BY <1>u, <2>1 DEF FailedAt
  <2> QED
    BY <2>2, <2>3, FailedOne
<1>36. ASSUME NEW p \in Proc, RegisterDirtySegment(p)
      PROVE  FailedInv'
  <2>1. \E f \in Files : Registered(p, f)
    BY <1>36, RegisterGoes DEF RegisterDirtySegment
  <2> QED
    BY <1>36, <2>1, FailedAway DEF RegisterDirtySegment, Registered, Goes, Idle, Waiting
<1>37. ASSUME NEW p \in Proc, SyncDirtySegment(p)
      PROVE  FailedInv'
  <2>1. \E f \in Files : Registered(p, f)
    BY <1>37, RegisterGoes DEF SyncDirtySegment
  <2> QED
    BY <1>37, <2>1, FailedAway DEF SyncDirtySegment, Registered, Goes, Idle, Waiting
<1>38. ASSUME NEW p \in Proc, TerminateBufferIO(p)
      PROVE  FailedInv'
  <2>1. Goes(p, "none", "idle", NoRequest) /\ pc[p] \notin Waiting
    BY <1>38, ReturnGoes DEF TerminateBufferIO, Waiting
  <2> QED
    BY <1>38, <2>1, FailedAway DEF TerminateBufferIO, Goes, Idle, Waiting
<1>39. ASSUME NEW p \in Proc, RegisterSyncRequest(p)
      PROVE  FailedInv'
  <2>1. pc[p] = "register" /\ OthersStay(p) /\ pc'[p] \notin Waiting
    BY <1>39, SyncRequestGoes DEF RegisteredUnlink, RegisteredForget, RegisteredFilter, Goes,
       GoesOn, Waiting
  <2> QED
    BY <1>39, <2>1, FailedAway DEF RegisterSyncRequest, Waiting
<1>40. ASSUME NEW p \in Proc, UnlinkFile(p)
      PROVE  FailedInv'
  <2>1. pc[p] = "unlink" /\ OthersStay(p) /\ pc'[p] \notin Waiting
    BY <1>40, NextSegmentFacts DEF UnlinkFile, OthersStay, GoesOn, Waiting
  <2>2. (fails' = fails \/ fails' = fails + 1) /\ UNCHANGED <<ckpt_failed, cpc, asked, old_failed>>
    BY <1>40 DEF UnlinkFile
  <2>3. \A q \in Proc : FailedAt(q)'
    <3>1. \A q \in Proc : AskedAt(q) /\ FailedAt(q)
      BY DEF CounterInv, FailedInv
    <3> QED
      BY <2>1, <2>2, <3>1 DEF FailedAt, AskedAt, OthersStay, Waiting
  <2> QED
    BY <1>u, <2>2, <2>3 DEF FailedInv
<1>41. ASSUME NEW p \in Proc, RequestCheckpoint(p)
      PROVE  FailedInv'
  <2>1. asked'[p] = "asked" /\ pc'[p] = "signal" /\ old_failed'[p] = ckpt_failed /\ UNCHANGED ckpt_failed
    BY <1>41, <1>t DEF RequestCheckpoint, SetRequestFlags
  <2>2. FailedOther(p)
    BY <1>41, <1>t DEF RequestCheckpoint, SetRequestFlags, FailedOther
  <2>3. FailedAt(p)'
    BY <1>u, <2>1 DEF FailedAt
  <2> QED
    BY <2>2, <2>3, FailedOne
<1>42. ASSUME NEW p \in Proc, SignalCheckpointer(p)
      PROVE  FailedInv'
  <2>1. FailedOther(p) /\ UNCHANGED <<ckpt_failed, asked, old_failed>>
    BY <1>42, <1>t DEF SignalCheckpointer, FailedOther
  <2>2. pc[p] \in Waiting /\ pc'[p] # "success"
    BY <1>42, <1>t DEF SignalCheckpointer, Waiting
  <2>3. FailedAt(p)'
    BY <2>1, <2>2 DEF FailedInv, FailedAt
  <2> QED
    BY <2>1, <2>3, FailedOne
<1>43. ASSUME NEW p \in Proc, TestStarted(p)
      PROVE  FailedInv'
  <2>1. FailedOther(p) /\ UNCHANGED <<ckpt_failed, asked, old_failed>>
    BY <1>43, <1>t DEF TestStarted, FailedOther
  <2>2. pc[p] \in Waiting /\ pc'[p] # "success"
    BY <1>43, <1>t DEF TestStarted, Waiting
  <2>3. FailedAt(p)'
    BY <2>1, <2>2 DEF FailedInv, FailedAt
  <2> QED
    BY <2>1, <2>3, FailedOne
<1>44. ASSUME NEW p \in Proc, TestDone(p)
      PROVE  FailedInv'
  <2>1. FailedOther(p) /\ UNCHANGED <<ckpt_failed, asked, old_failed>>
    BY <1>44, <1>t DEF TestDone, FailedOther
  <2>2. pc[p] \in Waiting /\ (pc'[p] = "success" => ckpt_failed = old_failed[p])
    BY <1>44, <1>t DEF TestDone, Waiting
  <2>3. FailedAt(p) /\ old_failed[p] \in Nat
    BY <1>t DEF FailedInv
  <2>4. FailedAt(p)'
    BY <1>u, <2>1, <2>2, <2>3 DEF FailedAt
  <2> QED
    BY <2>1, <2>4, FailedOne
<1>45. ASSUME NEW p \in Proc, SleepEnds(p)
      PROVE  FailedInv'
  <2>1. FailedOther(p) /\ UNCHANGED <<ckpt_failed, asked, old_failed>>
    BY <1>45, <1>t DEF SleepEnds, FailedOther
  <2>2. pc[p] \in Waiting /\ pc'[p] # "success"
    BY <1>45, <1>t DEF SleepEnds, Waiting
  <2>3. FailedAt(p)'
    BY <2>1, <2>2 DEF FailedInv, FailedAt
  <2> QED
    BY <2>1, <2>3, FailedOne
<1>46. ASSUME NEW p \in Proc, RequestReturns(p)
      PROVE  FailedInv'
  <2>1. FailedOther(p) /\ asked'[p] = "no" /\ pc'[p] = "idle"
    BY <1>46, <1>t DEF RequestReturns, Return, FailedOther
  <2>2. FailedAt(p)'
    BY <2>1 DEF FailedAt, Waiting
  <2> QED
    BY <2>1, <2>2, FailedOne
<1>47. ASSUME NEW p \in Proc, SyncDirtySegmentError(p)
      PROVE  FailedInv'
  <2>1. Goes(p, "none", "idle", NoRequest) /\ pc[p] \notin Waiting
    BY <1>47, ReturnGoes DEF SyncDirtySegmentError, Waiting
  <2>2. fails' = fails + 1 /\ UNCHANGED <<ckpt_failed, cpc, asked, old_failed>>
    BY <1>47 DEF SyncDirtySegmentError
  <2>3. \A q \in Proc : FailedAt(q)'
    <3>1. \A q \in Proc : AskedAt(q) /\ FailedAt(q)
      BY DEF CounterInv, FailedInv
    <3> QED
      BY <2>1, <2>2, <3>1 DEF FailedAt, AskedAt, Goes, OthersStay, Waiting
  <2> QED
    BY <1>u, <2>2, <2>3 DEF FailedInv
<1> QED
  BY <1>1, <1>2, <1>3, <1>4, <1>5, <1>6, <1>7, <1>8, <1>9, <1>10, <1>11, <1>12, <1>13, <1>14,
    <1>15, <1>16, <1>17, <1>18, <1>19, <1>20, <1>21, <1>22, <1>23, <1>24, <1>25, <1>26, <1>27,
    <1>28, <1>29, <1>30, <1>31, <1>32, <1>33, <1>34, <1>35, <1>36, <1>37, <1>38, <1>39, <1>40,
    <1>41, <1>42, <1>43, <1>44, <1>45, <1>46, <1>47 DEF Next, CheckpointerStep,
    CheckpointerEvent, Call, Step

(* RequestHonoured, of RequestCheckpoint: it returns without an error only *)
(* after a checkpoint that started later than the request was completed.   *)
(* The assumption says that the counter of failed checkpoints, an int, is  *)
(* not turned round by failures.                                           *)
THEOREM RequestsAreHonoured ==
  ASSUME MaxFails < CTR_MODULUS
  PROVE  Spec => []RequestHonoured
<1>1. Init => FailedInv
  BY DEF Init, FailedInv, FailedAt, Waiting
<1>2. IInv /\ FailedInv /\ [Next]_vars => FailedInv'
  <2>1. IInv /\ FailedInv /\ Next => FailedInv'
    BY FailedStep DEF IInv
  <2>2. IInv /\ FailedInv /\ UNCHANGED vars => FailedInv'
    BY FailedSame DEF IInv, vars, ctlVars, procVars, histVars
  <2> QED
    BY <2>1, <2>2
<1>3. IInv /\ FailedInv => RequestHonoured
  <2> SUFFICES ASSUME IInv, FailedInv, NEW p \in Proc, pc[p] = "success"
               PROVE  asked[p] = "ok"
    BY DEF RequestHonoured
  <2>1. AskedAt(p) /\ FailedAt(p) /\ asked[p] \in {"no", "asked", "started", "ok", "failed"}
    BY DEF IInv, TypeInv, CounterInv, FailedInv
  <2> QED
    BY <2>1 DEF AskedAt, FailedAt, Waiting
<1> QED
  BY <1>1, <1>2, <1>3, Invariance, PTL DEF Spec

-----------------------------------------------------------------------------
(***************************************************************************)
(* The ages of unlink requests                                             *)
(***************************************************************************)
LEMMA AgeFacts ==
  ASSUME NEW c \in 0 .. CYCLE_MODULUS - 1, NEW e \in UnlinkEntry
  PROVE  /\ Age(c, e) \in 0 .. CYCLE_MODULUS - 1
         /\ Age(c, e) = 0 <=> e.cycle = c
         /\ Age(c, e) + 1 < CYCLE_MODULUS => Age((c + 1) % CYCLE_MODULUS, e) = Age(c, e) + 1
<1>1. PICK m \in Nat : m = CYCLE_MODULUS /\ m > 1
  BY ConstantsAssumption
<1>2. PICK y \in 0 .. m - 1 : y = e.cycle
  BY <1>1 DEF UnlinkEntry
<1>3. c \in 0 .. m - 1
  BY <1>1
<1>4. \A z \in 0 .. m - 1 : (z - y) % m = IF y <= z THEN z - y ELSE z - y + m
  <2> SUFFICES ASSUME NEW z \in 0 .. m - 1
               PROVE  (z - y) % m = IF y <= z THEN z - y ELSE z - y + m
    OBVIOUS
  <2>1. CASE y <= z
    BY <1>1, <2>1
  <2>2. CASE z < y
    <3>1. z - y = m * (0 - 1) + (z - y + m) /\ z - y + m \in 0 .. m - 1
      BY <1>1, <2>2
    <3> QED
      BY <1>1, <2>2, <3>1
  <2> QED
    BY <2>1, <2>2
<1>5. (c + 1) % m = IF c + 1 < m THEN c + 1 ELSE 0
  <2>1. CASE c + 1 < m
    BY <1>3, <2>1
  <2>2. CASE c + 1 = m
    <3>1. (c + 1) % m = 0
      BY <1>1, <2>2
    <3> QED
      BY <1>1, <2>2, <3>1
  <2> QED
    BY <1>3, <2>1, <2>2
<1>6. PICK d \in 0 .. m - 1 : d = (c + 1) % m
  BY <1>1, <1>3, <1>5
<1>7. /\ (c - y) % m = IF y <= c THEN c - y ELSE c - y + m
      /\ (d - y) % m = IF y <= d THEN d - y ELSE d - y + m
  BY <1>3, <1>4
<1> QED
  BY <1>1, <1>2, <1>3, <1>5, <1>6, <1>7 DEF Age

(* A looser bound on the ages.                                             *)
LEMMA AgedLoose ==
  ASSUME NEW c \in 0 .. CYCLE_MODULUS - 1, NEW u \in Seq(UnlinkEntry), NEW a \in Int, NEW b \in Int,
         a <= b, Aged(u, c, a)
  PROVE  Aged(u, c, b)
<1>1. \A i \in DOMAIN u : Age(c, u[i]) \in Int /\ Age(c, u[i]) <= b
  <2> SUFFICES ASSUME NEW i \in DOMAIN u
               PROVE  Age(c, u[i]) \in Int /\ Age(c, u[i]) <= b
    OBVIOUS
  <2>1. u[i] \in UnlinkEntry
    OBVIOUS
  <2>2. PICK x \in Int : x = Age(c, u[i])
    BY <2>1, AgeFacts
  <2>3. x <= a
    BY <2>2 DEF Aged
  <2> QED
    BY <2>2, <2>3
<1> QED
  BY <1>1 DEF Aged

(* The oldest leaves.                                                      *)
LEMMA AgedTail ==
  ASSUME NEW c, NEW u \in Seq(UnlinkEntry), u # << >>, NEW b, Aged(u, c, b)
  PROVE  Aged(Tail(u), c, b)
<1>1. PICK n \in Nat : n = Len(u) /\ DOMAIN u = 1 .. n
  OBVIOUS
<1>2. DOMAIN Tail(u) = 1 .. n - 1 /\ \A i \in 1 .. n - 1 : Tail(u)[i] = u[i + 1]
  BY <1>1
<1>3. \A i \in 1 .. n - 1 : i + 1 \in 1 .. n
  BY <1>1
<1>4. \A i, j \in 1 .. n - 1 : i < j => i + 1 < j + 1
  BY <1>1
<1> QED
  BY <1>1, <1>2, <1>3, <1>4 DEF Aged

(* Requests that are absorbed are the youngest.                            *)
LEMMA AgedAbsorbed ==
  ASSUME TypeInv, NEW b \in Nat, Aged(pendingUnlinks, checkpoint_cycle_ctr, b)
  PROVE  Aged(Absorbed.unlinks, checkpoint_cycle_ctr, b)
<1>1. PICK u : u = Absorbed.unlinks
  OBVIOUS
<1>2. PICK c \in 0 .. CYCLE_MODULUS - 1 : c = checkpoint_cycle_ctr
  BY DEF TypeInv, TypeOK
<1>3. PICK m \in Nat : m = Len(pendingUnlinks) /\ DOMAIN pendingUnlinks = 1 .. m
  BY DEF TypeInv
<1>4. UnlinksAfter(u)
  BY <1>1, AbsorbFacts
<1>5. PICK k \in Nat : k = Len(u)
  BY <1>4 DEF UnlinksAfter
<1>6. /\ u \in Seq(UnlinkEntry) /\ DOMAIN u = 1 .. k /\ k >= m
      /\ \A i \in 1 .. m : u[i].cycle = pendingUnlinks[i].cycle
      /\ \A i \in m + 1 .. k : u[i].cycle = c
  BY <1>2, <1>3, <1>4, <1>5 DEF UnlinksAfter
<1>7. \A i \in 1 .. k : u[i] \in UnlinkEntry
  BY <1>6
<1>8. \A i \in 1 .. k : Age(c, u[i]) \in Nat
  BY <1>7, AgeFacts
<1>9. \A i \in 1 .. m : i \in 1 .. k /\ Age(c, u[i]) = Age(c, pendingUnlinks[i])
  BY <1>6 DEF Age
<1>10. \A i \in m + 1 .. k : i \in 1 .. k /\ Age(c, u[i]) = 0
  BY <1>6, <1>7, AgeFacts
<1>11. \A i \in 1 .. k : i \in 1 .. m \/ i \in m + 1 .. k
  BY <1>6
<1>12. \A i \in 1 .. k : Age(c, u[i]) <= b
  BY <1>2, <1>3, <1>9, <1>10, <1>11 DEF Aged
<1>13. ASSUME NEW i \in 1 .. k, NEW j \in 1 .. k, i < j
       PROVE  Age(c, u[i]) >= Age(c, u[j])
  <2>1. CASE j \in 1 .. m
    <3>1. i \in 1 .. m
      BY <1>13, <2>1
    <3>2. Age(c, pendingUnlinks[i]) >= Age(c, pendingUnlinks[j])
      BY <1>2, <1>3, <1>13, <2>1, <3>1 DEF Aged
    <3> QED
      BY <1>9, <2>1, <3>1, <3>2
  <2>2. CASE j \in m + 1 .. k
    BY <1>8, <1>10, <2>2
  <2> QED
    BY <1>11, <2>1, <2>2
<1> QED
  BY <1>1, <1>2, <1>6, <1>12, <1>13 DEF Aged

(* SyncPreCheckpoint makes all of them a checkpoint older.                 *)
LEMMA AgedTick ==
  ASSUME NEW c \in 0 .. CYCLE_MODULUS - 1, NEW u \in Seq(UnlinkEntry), NEW b \in Nat,
         b + 1 < CYCLE_MODULUS, Aged(u, c, b)
  PROVE  /\ Aged(u, Next_(c, CYCLE_MODULUS), b + 1)
         /\ \A i \in DOMAIN u : u[i].cycle # Next_(c, CYCLE_MODULUS)
<1>1. PICK m \in Nat : m = CYCLE_MODULUS /\ m > 1
  BY ConstantsAssumption
<1>2. PICK d : d = (c + 1) % CYCLE_MODULUS
  OBVIOUS
<1>3. d \in 0 .. CYCLE_MODULUS - 1
  BY <1>1, <1>2
<1>4. ASSUME NEW i \in DOMAIN u
      PROVE  /\ Age(c, u[i]) \in Nat /\ Age(c, u[i]) <= b
             /\ Age(d, u[i]) = Age(c, u[i]) + 1 /\ u[i].cycle # d
  <2>1. u[i] \in UnlinkEntry
    OBVIOUS
  <2>2. PICK e \in UnlinkEntry : e = u[i]
    BY <2>1
  <2>3. PICK x \in Nat : x = Age(c, e)
    BY AgeFacts
  <2>4. x <= b
    BY <2>2, <2>3 DEF Aged
  <2>5. x + 1 < CYCLE_MODULUS
    BY <1>1, <2>4
  <2>6. Age(d, e) = x + 1
    BY <1>2, <2>3, <2>5, AgeFacts
  <2>7. e.cycle # d
    <3>1. Age(d, e) = 0 <=> e.cycle = d
      BY <1>3, AgeFacts
    <3>2. x + 1 # 0
      OBVIOUS
    <3> QED
      BY <2>6, <3>1, <3>2
  <2> QED
    BY <2>2, <2>3, <2>4, <2>6, <2>7
<1>5. \A i \in DOMAIN u : Age(d, u[i]) <= b + 1
  BY <1>4
<1>6. ASSUME NEW i \in DOMAIN u, NEW j \in DOMAIN u, i < j
      PROVE  Age(d, u[i]) >= Age(d, u[j])
  <2>1. Age(c, u[i]) >= Age(c, u[j])
    BY <1>6 DEF Aged
  <2> QED
    BY <1>4, <2>1
<1> QED
  BY <1>2, <1>4, <1>5, <1>6 DEF Aged, Next_

(* When the first request is new, all are.                                 *)
LEMMA AgedNone ==
  ASSUME NEW c \in 0 .. CYCLE_MODULUS - 1, NEW u \in Seq(UnlinkEntry), NEW b, Aged(u, c, b),
         u # << >> => u[1].cycle = c
  PROVE  Aged(u, c, 0) /\ \A i \in DOMAIN u : u[i].cycle = c
<1>1. PICK n \in Nat : n = Len(u) /\ DOMAIN u = 1 .. n
  OBVIOUS
<1>2. \A i \in 1 .. n : u[i] \in UnlinkEntry
  BY <1>1
<1>3. ASSUME NEW i \in 1 .. n
      PROVE  Age(c, u[i]) = 0
  <2>1. 1 \in 1 .. n /\ u # << >>
    BY <1>1, <1>3
  <2>2. Age(c, u[1]) = 0
    BY <1>2, <2>1, AgeFacts
  <2>3. PICK x \in Nat : x = Age(c, u[i])
    BY <1>2, AgeFacts
  <2>4. i = 1 \/ Age(c, u[1]) >= x
    BY <1>1, <2>1, <2>3 DEF Aged
  <2> QED
    BY <2>2, <2>3, <2>4
<1>4. \A i \in 1 .. n : u[i].cycle = c
  BY <1>2, <1>3, AgeFacts
<1> QED
  BY <1>1, <1>3, <1>4 DEF Aged

(* The bound on the ages is at most the checkpoints that can have          *)
(* happened.                                                               *)
LEMMA BoundFacts ==
  ASSUME TypeInv
  PROVE  /\ fails \in Nat /\ timed \in Nat /\ AgeBound \in Int /\ AgeBound <= fails + timed + 1
         /\ fails + timed <= MaxFails + MaxTimed
<1>1. fails \in Nat /\ timed \in Nat /\ fails <= MaxFails /\ timed <= MaxTimed
  BY ConstantsAssumption DEF TypeInv
<1>2. MaxFails \in Nat /\ MaxTimed \in Nat
  BY ConstantsAssumption
<1> QED
  BY <1>1, <1>2 DEF AgeBound

(* The bound grows or stays.                                               *)
Grows ==
  /\ fails <= fails' /\ timed <= timed'
  /\ Owing => Owing' \/ fails + 1 <= fails'
  /\ Early' => Early \/ timed + 1 <= timed'

(* The bound on the ages never shrinks within a cycle.                     *)
LEMMA BoundGrows ==
  ASSUME TypeInv, TypeInv', Grows
  PROVE  AgeBound <= AgeBound'
<1>1. fails \in Nat /\ timed \in Nat /\ fails' \in Nat /\ timed' \in Nat
  BY ConstantsAssumption DEF TypeInv
<1>2. PICK m \in Nat, n \in Nat, m2 \in Nat, n2 \in Nat :
        m = fails /\ n = timed /\ m2 = fails' /\ n2 = timed'
  BY <1>1
<1>3. PICK a \in Int : (Owing /\ a = 1) \/ (~Owing /\ a = 0)
  OBVIOUS
<1>4. PICK b \in Int : (Early /\ b = 1) \/ (~Early /\ b = 0)
  OBVIOUS
<1>5. PICK a2 \in Int : (Owing' /\ a2 = 1) \/ (~Owing' /\ a2 = 0)
  OBVIOUS
<1>6. PICK b2 \in Int : (Early' /\ b2 = 1) \/ (~Early' /\ b2 = 0)
  OBVIOUS
<1>7. AgeBound = m + n + a - b
  BY <1>2, <1>3, <1>4 DEF AgeBound
<1>8. AgeBound' = m2 + n2 + a2 - b2
  BY <1>2, <1>5, <1>6 DEF AgeBound
<1>a. m <= m2 /\ n <= n2
  BY <1>2 DEF Grows
<1>b. Owing => Owing' \/ m + 1 <= m2
  BY <1>2 DEF Grows
<1>c. Early' => Early \/ n + 1 <= n2
  BY <1>2 DEF Grows
<1>9. m + a <= m2 + a2
  <2>1. CASE Owing /\ ~Owing'
    BY <1>b, <1>3, <1>5, <2>1
  <2>2. CASE ~Owing
    BY <1>a, <1>3, <1>5, <2>2
  <2>3. CASE Owing'
    BY <1>a, <1>3, <1>5, <2>3
  <2> QED
    BY <2>1, <2>2, <2>3
<1>10. n - b <= n2 - b2
  <2>1. CASE Early' /\ ~Early
    BY <1>c, <1>4, <1>6, <2>1
  <2>2. CASE ~Early'
    BY <1>a, <1>4, <1>6, <2>2
  <2>3. CASE Early
    BY <1>a, <1>4, <1>6, <2>3
  <2> QED
    BY <2>1, <2>2, <2>3
<1>11. m + n + a - b <= m2 + n2 + a2 - b2
  BY <1>9, <1>10
<1> QED
  BY <1>7, <1>8, <1>11

(* AgeInv is kept when the new table respects the old bound.               *)
LEMMA AgeTo ==
  ASSUME TypeInv, TypeInv', AgeInv, Grows, UNCHANGED checkpoint_cycle_ctr,
         Aged(pendingUnlinks', checkpoint_cycle_ctr, AgeBound)
  PROVE  AgeInv'
<1>1. AgeBound \in Int /\ AgeBound' \in Int
  BY BoundFacts, ConstantsAssumption DEF TypeInv, AgeBound
<1>2. AgeBound <= AgeBound' /\ AgeBound >= 0
  BY BoundGrows DEF AgeInv
<1>3. PICK u \in Seq(UnlinkEntry) : u = pendingUnlinks'
  BY DEF TypeInv
<1>4. PICK c \in 0 .. CYCLE_MODULUS - 1 : c = checkpoint_cycle_ctr
  BY DEF TypeInv, TypeOK
<1>5. PICK a \in Int, b \in Int : a = AgeBound /\ b = AgeBound'
  BY <1>1
<1>6. Aged(u, c, b)
  BY <1>2, <1>3, <1>4, <1>5, AgedLoose
<1> QED
  BY <1>1, <1>2, <1>3, <1>4, <1>5, <1>6 DEF AgeInv

(* AgeInv is kept while the unlink table and the cycle stay as they are.   *)
LEMMA AgeSame ==
  ASSUME TypeInv, TypeInv', AgeInv, Grows, UNCHANGED <<pendingUnlinks, checkpoint_cycle_ctr>>
  PROVE  AgeInv'
BY AgeTo DEF AgeInv

(* AgeInv is kept when the queue is absorbed: what is added has the        *)
(* current cycle.                                                          *)
LEMMA AgeAbsorb ==
  ASSUME TypeInv, TypeInv', AgeInv, Grows, UNCHANGED checkpoint_cycle_ctr,
         pendingUnlinks' = Absorbed.unlinks
  PROVE  AgeInv'
<1>1. PICK b \in Nat : b = AgeBound
  BY BoundFacts DEF AgeInv
<1>2. Aged(Absorbed.unlinks, checkpoint_cycle_ctr, b)
  BY <1>1, AgedAbsorbed DEF AgeInv
<1> QED
  BY <1>1, <1>2, AgeTo

(* SyncPreCheckpoint: after it, no request is new.                         *)
LEMMA AgePre ==
  ASSUME MaxFails + MaxTimed + 1 < CYCLE_MODULUS, TypeInv, TypeInv', AgeInv, SyncPreCheckpoint
  PROVE  /\ AgeInv'
         /\ \A i \in DOMAIN pendingUnlinks' : ~TooNew(pendingUnlinks[i])'
<1>1. PICK b \in Nat : b = AgeBound
  BY BoundFacts DEF AgeInv
<1>2. PICK u \in Seq(UnlinkEntry) : u = pendingUnlinks' /\ u = Absorbed.unlinks
  BY DEF TypeInv, SyncPreCheckpoint, PreAbsorb, AbsorbSyncRequests
<1>3. PICK c \in 0 .. CYCLE_MODULUS - 1 : c = checkpoint_cycle_ctr
  BY DEF TypeInv, TypeOK
<1>4. Aged(u, c, b)
  BY <1>1, <1>2, <1>3, AgedAbsorbed DEF AgeInv
<1>5. /\ cpc = "pre" /\ cpc' = "redo" /\ UNCHANGED <<forced, ckpt_flags, fails, timed>>
      /\ checkpoint_cycle_ctr' = Next_(c, CYCLE_MODULUS)
  BY <1>3 DEF SyncPreCheckpoint, CGo, ctlVars, ckptVars, OthersUnchanged
<1>6. fails \in Nat /\ timed \in Nat /\ fails + timed <= MaxFails + MaxTimed /\ forced \in BOOLEAN
  BY BoundFacts DEF TypeInv, TypeOK
<1>7. ~Owing /\ ~Early' /\ (Early <=> ~forced) /\ (Owing' <=> forced)
  BY <1>5 DEF Owing, Early, Redone, Writing, Syncing
<1>8. AgeBound' = b + 1 /\ b <= fails + timed
  BY <1>1, <1>5, <1>6, <1>7 DEF AgeBound
<1>9. b + 1 < CYCLE_MODULUS
  BY <1>6, <1>8, ConstantsAssumption
<1>10. /\ Aged(u, Next_(c, CYCLE_MODULUS), b + 1)
       /\ \A i \in DOMAIN u : u[i].cycle # Next_(c, CYCLE_MODULUS)
  BY <1>4, <1>9, AgedTick
<1> QED
  BY <1>2, <1>5, <1>8, <1>10 DEF AgeInv, TooNew

(* EndPostCheckpoint: no request is old.                                   *)
LEMMA AgePost ==
  ASSUME TypeInv, AgeInv, EndPostCheckpoint
  PROVE  /\ Aged(pendingUnlinks, checkpoint_cycle_ctr, 0)
         /\ ~DuePending
<1>1. PICK u \in Seq(UnlinkEntry) : u = pendingUnlinks
  BY DEF TypeInv
<1>2. PICK c \in 0 .. CYCLE_MODULUS - 1 : c = checkpoint_cycle_ctr
  BY DEF TypeInv, TypeOK
<1>3. u # << >> => u[1].cycle = c
  BY <1>1, <1>2, HeadFacts DEF EndPostCheckpoint, TooNew
<1>4. Aged(u, c, AgeBound)
  BY <1>1, <1>2 DEF AgeInv
<1>5. Aged(u, c, 0) /\ \A i \in DOMAIN u : u[i].cycle = c
  BY <1>3, <1>4, AgedNone
<1> QED
  BY <1>1, <1>2, <1>5 DEF DuePending, TooNew

(* The ages of unlink requests.                                            *)
LEMMA AgeStep ==
  ASSUME MaxFails + MaxTimed + 1 < CYCLE_MODULUS, TypeInv, TypeInv', RetryInv, AgeInv, Next
  PROVE  AgeInv'
<1> USE DEF ctlVars, cvVars, syncVars, loopVars, ckptVars, procVars, fileVars, histVars,
  backendVars, checkpointerVars, OthersUnchanged, SyncTablesUnchanged, RequestUnchanged, CGo,
  CJump, Go
<1>t. fails \in Nat /\ timed \in Nat
  BY BoundFacts
<1>1. CASE StartCheckpointer
  BY <1>1, <1>t, AgeSame DEF StartCheckpointer, Grows, Owing, Early, Redone, Writing, Syncing
<1>2. CASE LoopResetLatch
  BY <1>2, <1>t, AgeSame DEF LoopResetLatch, Grows, Owing, Early, Redone, Writing, Syncing
<1>3. CASE LoopAbsorb
  BY <1>3, <1>t, AgeSame, AgeAbsorb DEF LoopAbsorb, AbsorbSyncRequests, Grows, Owing, Early,
    Redone, Writing, Syncing
<1>4. CASE LoopTest
  BY <1>4, <1>t, AgeSame DEF LoopTest, Grows, Owing, Early, Redone, Writing, Syncing
<1>5. CASE BeginCheckpoint
  BY <1>5, <1>t, AgeSame DEF BeginCheckpoint, Grows, Owing, Early, Redone, Writing, Syncing
<1>6. CASE BroadcastStart
  BY <1>6, <1>t, AgeSame DEF BroadcastStart, Grows, Owing, Early, Redone, Writing, Syncing
<1>7. CASE EndCheckpoint
  BY <1>7, <1>t, AgeSame DEF EndCheckpoint, Grows, Owing, Early, Redone, Writing, Syncing
<1>8. CASE CheckpointError
  BY <1>8, <1>t, AgeSame DEF CheckpointError, Grows, Owing, Early, Redone, Writing, Syncing
<1>9. CASE BroadcastDone
  BY <1>9, <1>t, AgeSame DEF BroadcastDone, Grows, Owing, Early, Redone, Writing, Syncing
<1>10. CASE LoopRecheck
  BY <1>10, <1>t, AgeSame DEF LoopRecheck, Grows, Owing, Early, Redone, Writing, Syncing
<1>11. CASE WaitLatch
  BY <1>11, <1>t, AgeSame DEF WaitLatch, Grows, Owing, Early, Redone, Writing, Syncing
<1>12. CASE SyncPreCheckpoint
  BY <1>12, AgePre DEF SyncPreCheckpoint
<1>13. CASE SetRedo
  BY <1>13, <1>t, AgeSame DEF SetRedo, Grows, Owing, Early, Redone, Writing, Syncing
<1>14. CASE BufferSyncMark
  BY <1>14, <1>t, AgeSame DEF BufferSyncMark, Grows, Owing, Early, Redone, Writing, Syncing
<1>15. CASE CheckpointWriteDelay
  BY <1>15, <1>t, AgeSame, AgeAbsorb DEF CheckpointWriteDelay, AbsorbSyncRequests, Grows,
    Owing, Early, Redone, Writing, Syncing
<1>16. CASE Nap
  BY <1>16, <1>t, AgeSame DEF Nap, Grows, Owing, Early, Redone, Writing, Syncing
<1>17. ASSUME NEW f \in Files, SyncOneBuffer(f)
      PROVE  AgeInv'
  BY <1>17, <1>t, AgeSame DEF SyncOneBuffer, Grows, Owing, Early, Redone, Writing, Syncing
<1>18. ASSUME NEW f \in Files, NextEntry(f)
      PROVE  AgeInv'
  BY <1>18, <1>t, AgeSame, AgeAbsorb DEF NextEntry, AbsorbSyncRequests, Grows, Owing, Early,
    Redone, Writing, Syncing
<1>19. CASE ProcessSyncRequests
  BY <1>19, <1>t, AgeSame, AgeAbsorb DEF ProcessSyncRequests, Grows, Owing, Early, Redone,
    Writing, Syncing
<1>20. CASE SyncCanceled
  BY <1>20, <1>t, AgeSame DEF SyncCanceled, RemoveEntry, Grows, Owing, Early, Redone, Writing,
    Syncing
<1>21. CASE SyncFile
  BY <1>21, <1>t, AgeSame DEF SyncFile, RemoveEntry, Grows, Owing, Early, Redone, Writing,
    Syncing
<1>22. CASE SyncRetry
  <2>1. failures = 0
    BY <1>22 DEF SyncRetry, RetryInv, TypeInv, TypeOK
  <2> QED
    BY <1>22, <1>t, <2>1, AgeAbsorb DEF SyncRetry, RetryAbsorb, AbsorbSyncRequests, Grows,
       Owing, Early
<1>23. CASE EndSync
  BY <1>23, <1>t, AgeSame DEF EndSync, Grows, Owing, Early, Redone, Writing, Syncing
<1>24. CASE WriteRecord
  BY <1>24, <1>t, AgeSame DEF WriteRecord, Grows, Owing, Early, Redone, Writing, Syncing
<1>25. CASE SyncPostCheckpoint
  <2>1. Grows /\ UNCHANGED checkpoint_cycle_ctr
    BY <1>25, <1>t DEF SyncPostCheckpoint, UnlinkFiletag, Grows, Owing, Early, Redone, Writing,
       Syncing
  <2>2. PICK b \in Nat : b = AgeBound
    BY BoundFacts DEF AgeInv
  <2>3. pendingUnlinks \in Seq(UnlinkEntry) /\ pendingUnlinks # << >>
    BY <1>25 DEF TypeInv, SyncPostCheckpoint
  <2>4. CASE pendingUnlinks' = Tail(pendingUnlinks)
    BY <2>1, <2>3, <2>4, AgedTail, AgeTo DEF AgeInv
  <2>5. CASE pendingUnlinks' = Tail(Absorbed.unlinks)
    <3>1. PICK u : u = Absorbed.unlinks
      OBVIOUS
    <3>2. u \in Seq(UnlinkEntry) /\ Len(u) >= Len(pendingUnlinks)
      BY <3>1, AbsorbFacts DEF UnlinksAfter
    <3>3. u # << >>
      <4>1. Len(pendingUnlinks) \in Nat /\ Len(pendingUnlinks) # 0
        BY <2>3
      <4>2. Len(u) # 0
        BY <3>2, <4>1
      <4> QED
        BY <4>2
    <3>4. Aged(u, checkpoint_cycle_ctr, b)
      BY <2>2, <3>1, AgedAbsorbed DEF AgeInv
    <3>5. Aged(Tail(u), checkpoint_cycle_ctr, b)
      BY <3>2, <3>3, <3>4, AgedTail
    <3> QED
      BY <2>1, <2>2, <2>5, <3>1, <3>5, AgeTo
  <2> QED
    BY <1>25, <2>4, <2>5 DEF SyncPostCheckpoint
<1>26. CASE EndPostCheckpoint
  <2>1. /\ cpc' = "done" /\ UNCHANGED <<pendingUnlinks, checkpoint_cycle_ctr, fails, timed>>
    BY <1>26 DEF EndPostCheckpoint
  <2>2. ~Owing' /\ ~Early'
    BY <2>1 DEF Owing, Early, Redone, Writing, Syncing
  <2>3. PICK b \in Nat : b = AgeBound'
    BY <1>t, <2>1, <2>2 DEF AgeBound
  <2>4. PICK u \in Seq(UnlinkEntry) : u = pendingUnlinks
    BY DEF TypeInv
  <2>5. PICK c \in 0 .. CYCLE_MODULUS - 1 : c = checkpoint_cycle_ctr
    BY DEF TypeInv, TypeOK
  <2>6. Aged(u, c, 0)
    BY <1>26, <2>4, <2>5, AgePost
  <2>7. Aged(u, c, b)
    <3>1. 0 \in Int /\ b \in Int /\ 0 <= b
      OBVIOUS
    <3> QED
      BY <2>6, <3>1, AgedLoose
  <2> QED
    BY <2>1, <2>3, <2>4, <2>5, <2>7 DEF AgeInv
<1>27. CASE WriteError
  BY <1>27, <1>t, AgeSame DEF WriteError, Grows, Owing, Early, Redone, Writing, Syncing
<1>28. CASE SyncError
  BY <1>28, <1>t, AgeSame DEF SyncError, Grows, Owing, Early, Redone, Writing, Syncing
<1>29. CASE WaitLatchTimeout
  BY <1>29, <1>t, AgeSame DEF WaitLatchTimeout, Grows, Owing, Early, Redone, Writing, Syncing
<1>30. ASSUME NEW f \in Files, ModifyPage(f)
      PROVE  AgeInv'
  BY <1>30, <1>t, AgeSame DEF ModifyPage, Grows, Owing, Early, Redone, Writing, Syncing
<1>31. ASSUME NEW p \in Proc, NEW f \in Files, FlushBuffer(p, f)
      PROVE  AgeInv'
  BY <1>31, <1>t, AgeSame DEF FlushBuffer, Begin, Grows, Owing, Early, Redone, Writing, Syncing
<1>32. ASSUME NEW p \in Proc, NEW f \in Files, CreateFile(p, f)
      PROVE  AgeInv'
  BY <1>32, <1>t, AgeSame DEF CreateFile, Begin, Grows, Owing, Early, Redone, Writing, Syncing
<1>33. ASSUME NEW p \in Proc, DropRelation(p)
      PROVE  AgeInv'
  BY <1>33, <1>t, AgeSame DEF DropRelation, Begin, Grows, Owing, Early, Redone, Writing,
    Syncing
<1>34. ASSUME NEW p \in Proc, DropDatabase(p)
      PROVE  AgeInv'
  BY <1>34, <1>t, AgeSame DEF DropDatabase, Begin, Grows, Owing, Early, Redone, Writing,
    Syncing
<1>35. ASSUME NEW p \in Proc, Checkpoint(p)
      PROVE  AgeInv'
  BY <1>35, <1>t, AgeSame DEF Checkpoint, SetRequestFlags, Begin, Grows, Owing, Early, Redone,
    Writing, Syncing
<1>36. ASSUME NEW p \in Proc, RegisterDirtySegment(p)
      PROVE  AgeInv'
  BY <1>36, <1>t, AgeSame DEF RegisterDirtySegment, Grows, Owing, Early, Redone, Writing,
    Syncing
<1>37. ASSUME NEW p \in Proc, SyncDirtySegment(p)
      PROVE  AgeInv'
  BY <1>37, <1>t, AgeSame DEF SyncDirtySegment, Grows, Owing, Early, Redone, Writing, Syncing
<1>38. ASSUME NEW p \in Proc, TerminateBufferIO(p)
      PROVE  AgeInv'
  BY <1>38, <1>t, AgeSame DEF TerminateBufferIO, Grows, Owing, Early, Redone, Writing, Syncing
<1>39. ASSUME NEW p \in Proc, RegisterSyncRequest(p)
      PROVE  AgeInv'
  BY <1>39, <1>t, AgeSame DEF RegisterSyncRequest, Grows, Owing, Early, Redone, Writing,
    Syncing
<1>40. ASSUME NEW p \in Proc, UnlinkFile(p)
      PROVE  AgeInv'
  BY <1>40, <1>t, AgeSame DEF UnlinkFile, Grows, Owing, Early, Redone, Writing, Syncing
<1>41. ASSUME NEW p \in Proc, RequestCheckpoint(p)
      PROVE  AgeInv'
  BY <1>41, <1>t, AgeSame DEF RequestCheckpoint, SetRequestFlags, Grows, Owing, Early, Redone,
    Writing, Syncing
<1>42. ASSUME NEW p \in Proc, SignalCheckpointer(p)
      PROVE  AgeInv'
  BY <1>42, <1>t, AgeSame DEF SignalCheckpointer, Grows, Owing, Early, Redone, Writing, Syncing
<1>43. ASSUME NEW p \in Proc, TestStarted(p)
      PROVE  AgeInv'
  BY <1>43, <1>t, AgeSame DEF TestStarted, Grows, Owing, Early, Redone, Writing, Syncing
<1>44. ASSUME NEW p \in Proc, TestDone(p)
      PROVE  AgeInv'
  BY <1>44, <1>t, AgeSame DEF TestDone, Grows, Owing, Early, Redone, Writing, Syncing
<1>45. ASSUME NEW p \in Proc, SleepEnds(p)
      PROVE  AgeInv'
  BY <1>45, <1>t, AgeSame DEF SleepEnds, Grows, Owing, Early, Redone, Writing, Syncing
<1>46. ASSUME NEW p \in Proc, RequestReturns(p)
      PROVE  AgeInv'
  BY <1>46, <1>t, AgeSame DEF RequestReturns, Grows, Owing, Early, Redone, Writing, Syncing
<1>47. ASSUME NEW p \in Proc, SyncDirtySegmentError(p)
      PROVE  AgeInv'
  BY <1>47, <1>t, AgeSame DEF SyncDirtySegmentError, Grows, Owing, Early, Redone, Writing,
    Syncing
<1> QED
  BY <1>1, <1>2, <1>3, <1>4, <1>5, <1>6, <1>7, <1>8, <1>9, <1>10, <1>11, <1>12, <1>13, <1>14,
    <1>15, <1>16, <1>17, <1>18, <1>19, <1>20, <1>21, <1>22, <1>23, <1>24, <1>25, <1>26, <1>27,
    <1>28, <1>29, <1>30, <1>31, <1>32, <1>33, <1>34, <1>35, <1>36, <1>37, <1>38, <1>39, <1>40,
    <1>41, <1>42, <1>43, <1>44, <1>45, <1>46, <1>47 DEF Next, CheckpointerStep,
    CheckpointerEvent, Call, Step

-----------------------------------------------------------------------------
(***************************************************************************)
(* Drops are done                                                          *)
(***************************************************************************)
Serving == cpc \in Redone \cup {"redo", "post"}

(* What a request of p is owed is kept.                                    *)
OwedSame ==
  /\ \A p \in Proc : owed'[p] \subseteq owed[p] /\ asked'[p] = asked[p]
  /\ Live(FirstSegment)' => Live(FirstSegment)
  /\ fstate'[FirstSegment] = "dropped" => fstate[FirstSegment] = "dropped"
  /\ NoUnlinker => NoUnlinker'
  /\ DuePending => DuePending'
  /\ Serving' => Serving
  /\ cpc' = "done" => cpc = "done"

(* OwedInv is kept when every debt stays covered as it was.                *)
LEMMA OwedKept ==
  ASSUME OwedInv, OwedSame
  PROVE  OwedInv'
BY DEF OwedInv, OwedSame, Serving, NoUnlinker

(* OwedInv is kept while the unlink table, the files and the debts stay as *)
(* they are.                                                               *)
LEMMA OwedStay ==
  ASSUME OwedInv, UNCHANGED <<pendingUnlinks, checkpoint_cycle_ctr, fstate, arg, owed, asked>>,
         Serving' => Serving, cpc' = "done" => cpc = "done"
  PROVE  OwedInv'
<1>1. DuePending' <=> DuePending
  BY DEF DuePending, TooNew
<1> QED
  BY <1>1, OwedKept DEF OwedSame, Live, NoUnlinker

(* A backend takes a step that does not concern the request.               *)
LEMMA OwedAside ==
  ASSUME OwedInv, NEW p \in Proc, OthersStay(p), arg'[p] # UnlinkR,
         UNCHANGED <<pendingUnlinks, checkpoint_cycle_ctr, owed, asked, cpc>>,
         Live(FirstSegment)' => Live(FirstSegment),
         fstate'[FirstSegment] = "dropped" => fstate[FirstSegment] = "dropped"
  PROVE  OwedInv'
<1>1. DuePending' <=> DuePending
  BY DEF DuePending, TooNew
<1>2. NoUnlinker => NoUnlinker'
  BY DEF NoUnlinker, OthersStay
<1> QED
  BY <1>1, <1>2, OwedKept DEF OwedSame, Serving

(* OwedInv is kept when the queue is absorbed.                             *)
LEMMA OwedAbsorb ==
  ASSUME TypeInv, FileInv, FilterInv, OwedInv, requests' = << >>, pendingUnlinks' = Absorbed.unlinks,
         UNCHANGED <<checkpoint_cycle_ctr, fstate, arg, owed, asked>>,
         Serving' => Serving, cpc' = "done" => cpc = "done"
  PROVE  OwedInv'
<1>1. DuePending' <=> DuePending /\ ~Queued(FilterR)
  BY UnlinksView DEF UnlinksAbsorbed
<1>2. fstate[FirstSegment] = "dropped" => ~Queued(FilterR)
  BY FilesFacts, NoDropper
<1> QED
  BY <1>1, <1>2 DEF OwedInv, Serving, Live

(* What was dropped before a request is unlinked for it.                   *)
LEMMA OwedStep ==
  ASSUME MaxFails + MaxTimed + 1 < CYCLE_MODULUS, TypeInv, TypeInv', PlaceInv, CounterInv,
    FileInv, UnlinkInv, FilterInv, AgeInv, OwedInv, Next
  PROVE  OwedInv'
<1> USE RequestForms DEF ctlVars, cvVars, syncVars, loopVars, ckptVars, procVars, fileVars,
  histVars, backendVars, checkpointerVars, OthersUnchanged, SyncTablesUnchanged,
  RequestUnchanged, CGo, CJump, Go
<1>t. /\ asked \in [Proc -> {"no", "asked", "started", "ok", "failed"}]
      /\ owed \in [Proc -> SUBSET {FirstSegment}]
      /\ fstate \in [Files -> {"live", "dropped", "invalid", "gone", "left"}]
  BY DEF TypeInv, TypeOK
<1>1. CASE StartCheckpointer
  BY <1>1, OwedStay DEF StartCheckpointer, Serving, Redone, Writing, Syncing
<1>2. CASE LoopResetLatch
  BY <1>2, OwedStay DEF LoopResetLatch, Serving, Redone, Writing, Syncing
<1>3. CASE LoopAbsorb
  BY <1>3, OwedStay, OwedAbsorb DEF LoopAbsorb, AbsorbSyncRequests, Serving, Redone, Writing,
    Syncing
<1>4. CASE LoopTest
  BY <1>4, OwedStay DEF LoopTest, Serving, Redone, Writing, Syncing
<1>5. CASE BeginCheckpoint
  <2>1. /\ UNCHANGED <<fstate, arg, owed>> /\ cpc' = "startcast"
        /\ \A p \in Proc : asked'[p] = IF asked[p] = "asked" THEN "started" ELSE asked[p]
    BY <1>5 DEF BeginCheckpoint
  <2> QED
    BY <2>1 DEF OwedInv, Live, Redone, Writing, Syncing
<1>6. CASE BroadcastStart
  BY <1>6, OwedStay DEF BroadcastStart, Serving, Redone, Writing, Syncing
<1>7. CASE EndCheckpoint
  <2>1. /\ UNCHANGED <<fstate, arg, owed>> /\ cpc = "done" /\ cpc' = "donecast"
        /\ \A p \in Proc : asked'[p] = IF asked[p] = "started" THEN "ok" ELSE asked[p]
    BY <1>7 DEF EndCheckpoint
  <2> QED
    BY <2>1 DEF OwedInv, Live
<1>8. CASE CheckpointError
  <2>1. /\ UNCHANGED <<fstate, arg, owed>> /\ cpc' = "failcast"
        /\ \A p \in Proc : asked'[p] = IF asked[p] = "started" THEN "failed" ELSE asked[p]
    BY <1>8 DEF CheckpointError
  <2> QED
    BY <2>1 DEF OwedInv, Live
<1>9. CASE BroadcastDone
  BY <1>9, OwedStay DEF BroadcastDone, Serving, Redone, Writing, Syncing
<1>10. CASE LoopRecheck
  BY <1>10, OwedStay DEF LoopRecheck, Serving, Redone, Writing, Syncing
<1>11. CASE WaitLatch
  BY <1>11, OwedStay DEF WaitLatch, Serving, Redone, Writing, Syncing
<1>12. CASE SyncPreCheckpoint
  <2>1. UNCHANGED <<fstate, arg, owed, asked>> /\ cpc' = "redo"
    BY <1>12 DEF SyncPreCheckpoint
  <2>2. UnlinksAbsorbed
    BY <1>12, UnlinksView DEF SyncPreCheckpoint, PreAbsorb, AbsorbSyncRequests
  <2>3. fstate[FirstSegment] = "dropped" /\ NoUnlinker => UnlinkPending'
    <3>1. fstate[FirstSegment] = "dropped" /\ NoUnlinker => Queued(UnlinkR) \/ UnlinkPending
      BY UnlinkParts
    <3>2. fstate[FirstSegment] = "dropped" => ~Queued(FilterR)
      BY FilesFacts, NoDropper
    <3> QED
      BY <2>2, <3>1, <3>2, LastUnlinkFacts DEF UnlinksAbsorbed
  <2>4. \A i \in DOMAIN pendingUnlinks' : ~TooNew(pendingUnlinks[i])'
    BY <1>12, AgePre
  <2>5. UnlinkPending' => DuePending'
    BY <2>4 DEF UnlinkPending, DuePending
  <2> QED
    BY <2>1, <2>3, <2>5 DEF OwedInv, NoUnlinker, Live
<1>13. CASE SetRedo
  <2>1. /\ cpc = "redo" /\ cpc' \in {"mark", "done"} /\ (cpc' = "done" => ~forced)
        /\ UNCHANGED <<pendingUnlinks, checkpoint_cycle_ctr, fstate, arg, owed, asked>>
    BY <1>13 DEF SetRedo
  <2>2. \A p \in Proc : asked[p] = "started" => forced
    BY <2>1 DEF CounterInv, AskedAt
  <2>3. DuePending' <=> DuePending
    BY <2>1 DEF DuePending, TooNew
  <2> QED
    BY <2>1, <2>2, <2>3 DEF OwedInv, Live
<1>14. CASE BufferSyncMark
  BY <1>14, OwedStay DEF BufferSyncMark, Serving, Redone, Writing, Syncing
<1>15. CASE CheckpointWriteDelay
  BY <1>15, OwedStay, OwedAbsorb DEF CheckpointWriteDelay, AbsorbSyncRequests, Serving, Redone,
    Writing, Syncing
<1>16. CASE Nap
  BY <1>16, OwedStay DEF Nap, Serving, Redone, Writing, Syncing
<1>17. ASSUME NEW f \in Files, SyncOneBuffer(f)
      PROVE  OwedInv'
  BY <1>17, OwedStay DEF SyncOneBuffer, Serving, Redone, Writing, Syncing
<1>18. ASSUME NEW f \in Files, NextEntry(f)
      PROVE  OwedInv'
  BY <1>18, OwedStay, OwedAbsorb DEF NextEntry, AbsorbSyncRequests, Serving, Redone, Writing,
    Syncing
<1>19. CASE ProcessSyncRequests
  BY <1>19, OwedStay, OwedAbsorb DEF ProcessSyncRequests, Serving, Redone, Writing, Syncing
<1>20. CASE SyncCanceled
  BY <1>20, OwedStay DEF SyncCanceled, RemoveEntry, Serving, Redone, Writing, Syncing
<1>21. CASE SyncFile
  BY <1>21, OwedStay DEF SyncFile, RemoveEntry, Serving, Redone, Writing, Syncing
<1>22. CASE SyncRetry
  BY <1>22, OwedStay, OwedAbsorb DEF SyncRetry, RetryAbsorb, AbsorbSyncRequests, Serving,
    Redone, Writing, Syncing
<1>23. CASE EndSync
  BY <1>23, OwedStay DEF EndSync, Serving, Redone, Writing, Syncing
<1>24. CASE WriteRecord
  BY <1>24, OwedStay DEF WriteRecord, Serving, Redone, Writing, Syncing
<1>25. CASE SyncPostCheckpoint
  <2>1. UNCHANGED <<arg, owed, asked, cpc>>
    BY <1>25 DEF SyncPostCheckpoint
  <2>2. CASE PostedCanceled
    BY <2>1, <2>2, OwedKept DEF PostedCanceled, OwedSame, Live, NoUnlinker, Serving
  <2>3. CASE PostedDue
    <3>1. fstate'[FirstSegment] \in {"gone", "left"}
      BY <2>3, FilesFacts DEF PostedDue
    <3> QED
      BY <2>1, <3>1 DEF OwedInv, Live
  <2> QED
    BY <1>25, <2>2, <2>3, PostFacts
<1>26. CASE EndPostCheckpoint
  <2>1. cpc = "post" /\ cpc' = "done" /\ UNCHANGED <<fstate, arg, owed, asked>>
    BY <1>26 DEF EndPostCheckpoint
  <2>2. ~DuePending
    BY <1>26, AgePost
  <2> QED
    BY <2>1, <2>2 DEF OwedInv, Live, Redone
<1>27. CASE WriteError
  BY <1>27, OwedStay DEF WriteError, Serving, Redone, Writing, Syncing
<1>28. CASE SyncError
  BY <1>28, OwedStay DEF SyncError, Serving, Redone, Writing, Syncing
<1>29. CASE WaitLatchTimeout
  BY <1>29, OwedStay DEF WaitLatchTimeout, Serving, Redone, Writing, Syncing
<1>30. ASSUME NEW f \in Files, ModifyPage(f)
      PROVE  OwedInv'
  BY <1>30, OwedStay DEF ModifyPage, Serving, Redone, Writing, Syncing
<1>31. ASSUME NEW p \in Proc, NEW f \in Files, FlushBuffer(p, f)
      PROVE  OwedInv'
  <2>1. Goes(p, "flush", "forward", SyncR(f)) /\ Idle(p)
    <3>1. Begin(p, "flush", "forward", SyncR(f))
      BY <1>31 DEF FlushBuffer, SyncR
    <3> QED
      BY <3>1, BeginGoes
  <2> QED
    BY <1>31, <2>1, OwedAside DEF FlushBuffer, Goes, Live
<1>32. ASSUME NEW p \in Proc, NEW f \in Files, CreateFile(p, f)
      PROVE  OwedInv'
  <2>1. Goes(p, "create", "forward", SyncR(f)) /\ Idle(p)
    <3>1. Begin(p, "create", "forward", SyncR(f))
      BY <1>32 DEF CreateFile, SyncR
    <3> QED
      BY <3>1, BeginGoes
  <2>2. UNCHANGED <<pendingUnlinks, checkpoint_cycle_ctr, asked, cpc>>
    BY <1>32 DEF CreateFile
  <2>3. \A q \in Proc : owed'[q] = owed[q] \ {f}
    BY <1>32 DEF CreateFile
  <2>4. CASE f = FirstSegment
    BY <2>3, <2>4 DEF OwedInv
  <2>5. CASE f # FirstSegment
    <3>1. fstate'[FirstSegment] = fstate[FirstSegment]
      BY <1>32, <1>t, <2>5, FilesFacts DEF CreateFile
    <3>2. NoUnlinker => NoUnlinker'
      BY <2>1 DEF Goes, OthersStay, NoUnlinker
    <3>3. DuePending' <=> DuePending
      BY <2>2 DEF DuePending, TooNew
    <3> QED
      BY <2>2, <2>3, <3>1, <3>2, <3>3, OwedKept DEF OwedSame, Live, Serving
  <2> QED
    BY <2>4, <2>5
<1>33. ASSUME NEW p \in Proc, DropRelation(p)
      PROVE  OwedInv'
  <2>1. Live(FirstSegment) /\ UNCHANGED owed
    BY <1>33 DEF DropRelation
  <2>2. \A q \in Proc : FirstSegment \notin owed[q]
    BY <2>1 DEF OwedInv
  <2> QED
    BY <2>1, <2>2 DEF OwedInv
<1>34. ASSUME NEW p \in Proc, DropDatabase(p)
      PROVE  OwedInv'
  <2>1. Goes(p, "dropdb", "register", FilterR) /\ Idle(p)
    <3>1. Begin(p, "dropdb", "register", FilterR)
      BY <1>34 DEF DropDatabase, FilterR
    <3> QED
      BY <3>1, BeginGoes
  <2>2. fstate'[FirstSegment] = "invalid"
    BY <1>34, <1>t, FilesFacts DEF DropDatabase, Dead
  <2> QED
    BY <1>34, <2>1, <2>2, OwedAside DEF DropDatabase, Goes, Live
<1>35. ASSUME NEW p \in Proc, Checkpoint(p)
      PROVE  OwedInv'
  <2>1. NoUnlinker => NoUnlinker'
    <3>1. Begin(p, "checkpoint", "signal", NoRequest)
      BY <1>35 DEF Checkpoint
    <3>2. Goes(p, "checkpoint", "signal", NoRequest)
      BY <3>1, BeginGoes
    <3> QED
      BY <3>2 DEF Goes, OthersStay, NoUnlinker
  <2>2. /\ owed'[p] = UnlinkForwarded /\ asked'[p] = "asked"
        /\ \A q \in Proc : q # p => owed'[q] = owed[q] /\ asked'[q] = asked[q]
        /\ UNCHANGED <<pendingUnlinks, checkpoint_cycle_ctr, fstate, cpc>>
    BY <1>35, <1>t DEF Checkpoint, SetRequestFlags
  <2>3. DuePending' <=> DuePending
    BY <2>2 DEF DuePending, TooNew
  <2>4. FirstSegment \in UnlinkForwarded => fstate[FirstSegment] = "dropped" /\ NoUnlinker
    BY DEF UnlinkForwarded, NoUnlinker
  <2> QED
    BY <2>1, <2>2, <2>3, <2>4 DEF OwedInv, NoUnlinker, Live
<1>36. ASSUME NEW p \in Proc, RegisterDirtySegment(p)
      PROVE  OwedInv'
  <2>1. \E f \in Files : Registered(p, f)
    BY <1>36, RegisterGoes DEF RegisterDirtySegment
  <2>2. OthersStay(p) /\ arg'[p] # UnlinkR
    BY <2>1 DEF Registered, Goes
  <2> QED
    BY <1>36, <2>2, OwedAside DEF RegisterDirtySegment, Live
<1>37. ASSUME NEW p \in Proc, SyncDirtySegment(p)
      PROVE  OwedInv'
  <2>1. \E f \in Files : Registered(p, f)
    BY <1>37, RegisterGoes DEF SyncDirtySegment
  <2>2. OthersStay(p) /\ arg'[p] # UnlinkR
    BY <2>1 DEF Registered, Goes
  <2> QED
    BY <1>37, <2>2, OwedAside DEF SyncDirtySegment, Live
<1>38. ASSUME NEW p \in Proc, TerminateBufferIO(p)
      PROVE  OwedInv'
  <2>1. \E f \in Files : Flushed(p, f)
    BY <1>38, FlushGoes
  <2>2. OthersStay(p) /\ arg'[p] # UnlinkR
    BY <2>1 DEF Flushed, Goes
  <2> QED
    BY <1>38, <2>2, OwedAside DEF TerminateBufferIO, Live
<1>39. ASSUME NEW p \in Proc, RegisterSyncRequest(p)
      PROVE  OwedInv'
  <2>1. OthersStay(p) /\ arg'[p] # UnlinkR
    BY <1>39, SyncRequestGoes DEF RegisteredUnlink, RegisteredForget, RegisteredFilter, Goes,
       GoesOn
  <2> QED
    BY <1>39, <2>1, OwedAside DEF RegisterSyncRequest, Live
<1>40. ASSUME NEW p \in Proc, UnlinkFile(p)
      PROVE  OwedInv'
  <2>1. PICK f \in Segments : Unlinks(p, f)
    BY <1>40, UnlinkGoes
  <2>2. OthersStay(p) /\ arg'[p] # UnlinkR
    BY <2>1 DEF Unlinks, GoesOn
  <2>3. fstate'[FirstSegment] = fstate[FirstSegment]
    BY <2>1, FilesFacts DEF Unlinks, UnlinkTried
  <2> QED
    BY <1>40, <2>2, <2>3, OwedAside DEF UnlinkFile, Live
<1>41. ASSUME NEW p \in Proc, RequestCheckpoint(p)
      PROVE  OwedInv'
  <2>1. NoUnlinker => NoUnlinker'
    BY <1>41 DEF RequestCheckpoint, NoUnlinker
  <2>2. /\ owed'[p] = UnlinkForwarded /\ asked'[p] = "asked"
        /\ \A q \in Proc : q # p => owed'[q] = owed[q] /\ asked'[q] = asked[q]
        /\ UNCHANGED <<pendingUnlinks, checkpoint_cycle_ctr, fstate, cpc>>
    BY <1>41, <1>t DEF RequestCheckpoint, SetRequestFlags
  <2>3. DuePending' <=> DuePending
    BY <2>2 DEF DuePending, TooNew
  <2>4. FirstSegment \in UnlinkForwarded => fstate[FirstSegment] = "dropped" /\ NoUnlinker
    BY DEF UnlinkForwarded, NoUnlinker
  <2> QED
    BY <2>1, <2>2, <2>3, <2>4 DEF OwedInv, NoUnlinker, Live
<1>42. ASSUME NEW p \in Proc, SignalCheckpointer(p)
      PROVE  OwedInv'
  BY <1>42, OwedStay DEF SignalCheckpointer, Serving, Redone, Writing, Syncing
<1>43. ASSUME NEW p \in Proc, TestStarted(p)
      PROVE  OwedInv'
  BY <1>43, OwedStay DEF TestStarted, Serving, Redone, Writing, Syncing
<1>44. ASSUME NEW p \in Proc, TestDone(p)
      PROVE  OwedInv'
  BY <1>44, OwedStay DEF TestDone, Serving, Redone, Writing, Syncing
<1>45. ASSUME NEW p \in Proc, SleepEnds(p)
      PROVE  OwedInv'
  BY <1>45, OwedStay DEF SleepEnds, Serving, Redone, Writing, Syncing
<1>46. ASSUME NEW p \in Proc, RequestReturns(p)
      PROVE  OwedInv'
  <2>1. Goes(p, "none", "idle", NoRequest)
    BY <1>46, ReturnGoes DEF RequestReturns
  <2>2. NoUnlinker => NoUnlinker'
    BY <2>1 DEF Goes, OthersStay, NoUnlinker
  <2>3. /\ owed'[p] = {} /\ \A q \in Proc : q # p => owed'[q] = owed[q] /\ asked'[q] = asked[q]
        /\ UNCHANGED <<pendingUnlinks, checkpoint_cycle_ctr, cpc>>
    BY <1>46, <1>t DEF RequestReturns
  <2>4. DuePending' <=> DuePending
    BY <2>3 DEF DuePending, TooNew
  <2>5. fstate'[FirstSegment] \in {fstate[FirstSegment], "gone"}
    BY <1>46, FilesFacts DEF RequestReturns
  <2> QED
    BY <2>2, <2>3, <2>4, <2>5 DEF OwedInv, NoUnlinker, Live
<1>47. ASSUME NEW p \in Proc, SyncDirtySegmentError(p)
      PROVE  OwedInv'
  <2>1. \E f \in Files : Flushed(p, f)
    BY <1>47, FlushGoes
  <2>2. OthersStay(p) /\ arg'[p] # UnlinkR
    BY <2>1 DEF Flushed, Goes
  <2> QED
    BY <1>47, <2>2, OwedAside DEF SyncDirtySegmentError, Live
<1> QED
  BY <1>1, <1>2, <1>3, <1>4, <1>5, <1>6, <1>7, <1>8, <1>9, <1>10, <1>11, <1>12, <1>13, <1>14,
    <1>15, <1>16, <1>17, <1>18, <1>19, <1>20, <1>21, <1>22, <1>23, <1>24, <1>25, <1>26, <1>27,
    <1>28, <1>29, <1>30, <1>31, <1>32, <1>33, <1>34, <1>35, <1>36, <1>37, <1>38, <1>39, <1>40,
    <1>41, <1>42, <1>43, <1>44, <1>45, <1>46, <1>47 DEF Next, CheckpointerStep,
    CheckpointerEvent, Call, Step

(* DropsDone, of RequestCheckpoint and SyncPostCheckpoint: when the caller *)
(* returns, every unlink request that was forwarded before was processed:  *)
(* the file is gone, or its unlink was tried and failed, or the request    *)
(* was cancelled by a later DROP DATABASE that removes the directory.  The *)
(* first assumption says that there are fewer I/O errors and checkpoints   *)
(* that may find nothing to do than a CycleCtr has values, so that an old  *)
(* request never looks new; the second is that of RequestsAreHonoured.     *)
THEOREM DropsAreDone ==
  ASSUME MaxFails + MaxTimed + 1 < CYCLE_MODULUS, MaxFails < CTR_MODULUS
  PROVE  Spec => []DropsDone
<1>1. Init => AgeInv /\ OwedInv
  <2> SUFFICES ASSUME Init
               PROVE  AgeInv /\ OwedInv
    OBVIOUS
  <2>1. pendingUnlinks = << >> /\ fails = 0 /\ timed = 0 /\ cpc = "down"
    BY DEF Init
  <2>2. ~Owing /\ ~Early
    BY <2>1 DEF Owing, Early, Redone, Writing, Syncing
  <2>3. AgeBound = 0
    BY <2>1, <2>2 DEF AgeBound
  <2>4. Aged(pendingUnlinks, checkpoint_cycle_ctr, AgeBound)
    BY <2>1 DEF Aged
  <2> QED
    BY <2>3, <2>4 DEF AgeInv, OwedInv, Init
<1>2. IInv /\ AgeInv /\ OwedInv /\ [Next]_vars => AgeInv' /\ OwedInv'
  <2> SUFFICES ASSUME IInv, AgeInv, OwedInv, [Next]_vars
               PROVE  AgeInv' /\ OwedInv'
    OBVIOUS
  <2>1. CASE Next
    <3>1. TypeInv'
      BY <2>1, TypeStep DEF IInv
    <3>2. AgeInv'
      BY <2>1, <3>1, AgeStep DEF IInv, CancelInv
    <3>3. OwedInv'
      BY <2>1, <3>1, OwedStep DEF IInv
    <3> QED
      BY <3>2, <3>3
  <2>2. CASE UNCHANGED vars
    <3> USE DEF vars, ctlVars, ckptVars, syncVars, procVars, fileVars, histVars
    <3>1. TypeInv'
      BY <2>2, TypeSame DEF IInv
    <3>2. fails \in Nat /\ timed \in Nat
      BY BoundFacts DEF IInv
    <3>3. Grows
      BY <2>2, <3>2 DEF Grows, Owing, Early
    <3>4. AgeInv'
      BY <2>2, <3>1, <3>3, AgeSame DEF IInv
    <3>5. OwedInv'
      BY <2>2, OwedStay DEF Serving
    <3> QED
      BY <3>4, <3>5
  <2> QED
    BY <2>1, <2>2
<1>3. IInv /\ OwedInv /\ RequestHonoured => DropsDone
  <2> SUFFICES ASSUME IInv, OwedInv, RequestHonoured, NEW p \in Proc, pc[p] = "success",
                      NEW f \in owed[p]
               PROVE  fstate[f] \in {"gone", "left", "invalid"}
    BY DEF DropsDone
  <2>1. f = FirstSegment
    BY DEF IInv, TypeInv
  <2>2. fstate[FirstSegment] \in {"live", "dropped", "invalid", "gone", "left"}
    BY FilesFacts DEF IInv, TypeInv, TypeOK
  <2> QED
    BY <2>1, <2>2 DEF OwedInv, RequestHonoured, Live
<1>4. Spec => []RequestHonoured
  BY RequestsAreHonoured
<1> QED
  BY <1>1, <1>2, <1>3, <1>4, Invariance, PTL DEF Spec

=============================================================================
