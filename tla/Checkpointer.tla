---------------------------- MODULE Checkpointer ----------------------------
(***************************************************************************)
(* Checkpoint requests and the fsync request queue: postmaster/            *)
(* checkpointer.c, storage/sync/sync.c and what md.c, bufmgr.c, xlog.c and *)
(* dbcommands.c do with them.  Backends write out buffers, drop files and  *)
(* ask for checkpoints; the checkpointer absorbs their sync requests and   *)
(* performs the checkpoints.                                               *)
(*                                                                         *)
(* The data of a file is reduced to where its changes are (in the shared   *)
(* buffer, in the kernel, on disk) and on which side of the redo pointer   *)
(* of the latest checkpoint they are: "old" or "new".                      *)
(***************************************************************************)
EXTENDS Integers, SequencesExt

CONSTANTS
  Proc,          \* backends
  FirstSegment,  \* the first segment of the main fork of a relation
  Segments,      \* its other files
  MAX_REQUESTS,  \* size of the request queue
  CTR_MODULUS,   \* values of an int (checkpoint counters)
  CYCLE_MODULUS, \* values of a CycleCtr
  FirstCkpt,     \* number of checkpoints made before the start, modulo CTR_MODULUS
  MaxTimed,      \* bound: checkpoints caused by time
  MaxFails       \* bound: I/O errors

ASSUME ConstantsAssumption ==
  /\ FirstSegment \notin Segments
  /\ {MAX_REQUESTS, CTR_MODULUS, CYCLE_MODULUS} \subseteq Nat \ {0} /\ CYCLE_MODULUS > 1
  /\ CTR_MODULUS % 2 = 0 /\ FirstCkpt \in 0 .. CTR_MODULUS - 1
  /\ MaxTimed \in Nat /\ MaxFails \in Nat

NoProc == "NoProc"
NoFile == "NoFile"

(* The files of a relation that is all there is in its database, and that  *)
(* is dropped and created again with the same relfilenumber.  One page of  *)
(* each is of interest.                                                    *)
Files == {FirstSegment} \cup Segments

ASSUME NamesAssumption == NoProc \notin Proc /\ NoFile \notin Files

VARIABLES
  (* CheckpointerShmemStruct and the checkpointer's latch *)
  running,       \* checkpointer_pid # 0
  ckpt_started, ckpt_done, ckpt_failed,
  ckpt_flags,    \* whether a checkpoint is requested
  start_cv, done_cv,   \* who is on the list of the condition variable
  requests,
  latch,
  (* the checkpointer *)
  cpc,           \* where it is
  forced,        \* CHECKPOINT_FORCE is among the flags it fetched
  toWrite,       \* buffers marked BM_CHECKPOINT_NEEDED
  pendingOps, pendingUnlinks, sync_cycle_ctr, checkpoint_cycle_ctr, sync_in_progress,
  entry, failures,     \* of the loop of ProcessSyncRequests
  (* the backends *)
  pc, op,        \* where a backend is, and in which operation
  arg,           \* its request or file
  old_failed, old_started, new_started,
  (* the files *)
  fstate,        \* the file: live, dropped (not yet unlinked), invalid (with its
                 \* database), gone, or left (its unlink failed)
  buf, os,       \* its changes in the buffer and in the kernel
  io,            \* who writes out the buffer, holding its content lock
  wal,           \* records were inserted since the last checkpoint record
  (* history and bounds *)
  young,         \* files dropped since the redo pointer was set
  asked,         \* what became of the checkpoint a backend asked for
  owed,          \* files whose unlink request precedes the backend's request
  timed, fails

ctlVars  == <<running, ckpt_started, ckpt_done, ckpt_failed, ckpt_flags>>
cvVars   == <<start_cv, done_cv>>
syncVars == <<pendingOps, pendingUnlinks, sync_cycle_ctr, checkpoint_cycle_ctr, sync_in_progress>>
loopVars == <<entry, failures>>
ckptVars == <<forced, toWrite>>
procVars == <<op, arg, old_failed, old_started, new_started>>
fileVars == <<fstate, buf, os, io, wal>>
histVars == <<young, asked, owed>>
vars == <<ctlVars, cvVars, requests, latch, cpc, ckptVars, syncVars, loopVars, pc, procVars,
          fileVars, histVars, timed, fails>>

(* What a checkpointer step leaves to the backends and the other way round. *)
backendVars == <<pc, procVars>>
checkpointerVars == <<cpc, ckptVars, syncVars, loopVars>>

SYNC   == "SYNC_REQUEST"
UNLINK == "SYNC_UNLINK_REQUEST"
FORGET == "SYNC_FORGET_REQUEST"
FILTER == "SYNC_FILTER_REQUEST"

Request == [type : {SYNC, UNLINK, FORGET}, file : Files] \cup [type : {FILTER}, file : {NoFile}]
NoRequest == [type |-> "none", file |-> NoFile]

Init ==
  /\ running = FALSE
  /\ ckpt_started = FirstCkpt /\ ckpt_done = FirstCkpt /\ ckpt_failed = 0
  /\ ckpt_flags = FALSE
  /\ start_cv = {} /\ done_cv = {}
  /\ requests = << >> /\ latch = FALSE
  /\ cpc = "down" /\ forced = FALSE /\ toWrite = {}
  /\ pendingOps = << >> /\ pendingUnlinks = << >>
  /\ sync_cycle_ctr = 0 /\ checkpoint_cycle_ctr = 0 /\ sync_in_progress = FALSE
  /\ entry = NoFile /\ failures = 0
  /\ pc = [p \in Proc |-> "idle"] /\ op = [p \in Proc |-> "none"]
  /\ arg = [p \in Proc |-> NoRequest]
  /\ old_failed = [p \in Proc |-> 0] /\ old_started = [p \in Proc |-> 0]
  /\ new_started = [p \in Proc |-> 0]
  /\ fstate = [f \in Files |-> "live"]
  /\ buf = [f \in Files |-> {"new"}] /\ os = [f \in Files |-> {}]
  /\ io = [f \in Files |-> NoProc] /\ wal = TRUE
  /\ young = {} /\ asked = [p \in Proc |-> "no"] /\ owed = [p \in Proc |-> {}]
  /\ timed = 0 /\ fails = 0

Go(p, to) == pc' = [pc EXCEPT ![p] = to]
CGo(to) == cpc' = to
Next_(ctr, modulus) == (ctr + 1) % modulus

Live(f) == fstate[f] = "live"

-----------------------------------------------------------------------------
(***************************************************************************)
(* The request queue                                                       *)
(***************************************************************************)
(* A request makes the identical one before it superfluous, whose slot is  *)
(* skipped.                                                                *)
Without(kept, r) ==
  IF \E i \in DOMAIN kept : kept[i] = r
  THEN RemoveAt(kept, CHOOSE i \in DOMAIN kept : kept[i] = r)
  ELSE kept

(* What is kept of the first n requests.                                   *)
KeptOf(q) ==
  LET Kept[n \in 0 .. Len(q)] ==
        IF n = 0 THEN << >> ELSE Append(Without(Kept[n - 1], q[n]), q[n])
  IN  Kept

(* The last of several identical requests is kept.                         *)
CompactCheckpointerRequestQueue(q) == KeptOf(q)[Len(q)]

(* The queue after room was made, if it could be made.                     *)
Roomy ==
  IF Len(requests) < MAX_REQUESTS THEN requests ELSE CompactCheckpointerRequestQueue(requests)

CanForward == running /\ Len(Roomy) < MAX_REQUESTS

(* ForwardSyncRequest returns true.                                        *)
ForwardSyncRequest(r) ==
  /\ CanForward
  /\ requests' = Append(Roomy, r)
  /\ latch' = (latch \/ Len(requests') >= MAX_REQUESTS \div 2)

(* RememberSyncRequest for one request; t is [ops, unlinks].               *)
Cancel(e) == [e EXCEPT !.canceled = TRUE]

Remember(t, r) ==
  CASE r.type = FORGET ->
         [t EXCEPT !.ops = [f \in DOMAIN @ |-> IF f = r.file THEN Cancel(@[f]) ELSE @[f]]]
    [] r.type = FILTER ->
         [ops |-> [f \in DOMAIN t.ops |-> Cancel(t.ops[f])],
          unlinks |-> [i \in DOMAIN t.unlinks |-> Cancel(t.unlinks[i])]]
    [] r.type = UNLINK ->
         [t EXCEPT !.unlinks =
            Append(@, [file |-> r.file, cycle |-> checkpoint_cycle_ctr, canceled |-> FALSE])]
    [] r.type = SYNC ->
         IF r.file \in DOMAIN t.ops /\ ~t.ops[r.file].canceled THEN t
         ELSE [t EXCEPT !.ops =
                 [f \in DOMAIN @ \cup {r.file} |->
                    IF f = r.file THEN [cycle |-> sync_cycle_ctr, canceled |-> FALSE] ELSE @[f]]]

(* The tables after the first n requests were remembered.                  *)
AbsorbedUpTo ==
  LET Tables[n \in 0 .. Len(requests)] ==
        IF n = 0 THEN [ops |-> pendingOps, unlinks |-> pendingUnlinks]
        ELSE Remember(Tables[n - 1], requests[n])
  IN  Tables

(* The tables after AbsorbSyncRequests, which takes everything under       *)
(* CheckpointerCommLock.                                                   *)
Absorbed == AbsorbedUpTo[Len(requests)]

AbsorbSyncRequests ==
  /\ requests' = << >>
  /\ pendingOps' = Absorbed.ops
  /\ pendingUnlinks' = Absorbed.unlinks

-----------------------------------------------------------------------------
(***************************************************************************)
(* CheckpointerMain                                                        *)
(***************************************************************************)
SyncTablesUnchanged == UNCHANGED <<sync_cycle_ctr, checkpoint_cycle_ctr, sync_in_progress>>
OthersUnchanged == UNCHANGED <<backendVars, timed>>

(* A step of the checkpointer that changes nothing else.                   *)
CJump(to) ==
  /\ CGo(to)
  /\ UNCHANGED <<ctlVars, cvVars, requests, latch, ckptVars, syncVars, loopVars, fileVars,
                 histVars, fails>>
  /\ OthersUnchanged

StartCheckpointer ==
  /\ cpc = "down"
  /\ running' = TRUE
  /\ CGo("loop")
  /\ UNCHANGED <<ckpt_started, ckpt_done, ckpt_failed, ckpt_flags, cvVars, requests, latch,
                 ckptVars, syncVars, loopVars, fileVars, histVars, fails>>
  /\ OthersUnchanged

LoopResetLatch ==
  /\ cpc = "loop"
  /\ latch' = FALSE
  /\ CGo("absorb")
  /\ UNCHANGED <<ctlVars, cvVars, requests, ckptVars, syncVars, loopVars, fileVars, histVars, fails>>
  /\ OthersUnchanged

LoopAbsorb ==
  /\ cpc = "absorb"
  /\ AbsorbSyncRequests
  /\ CGo("test")
  /\ SyncTablesUnchanged
  /\ UNCHANGED <<ctlVars, cvVars, latch, ckptVars, loopVars, fileVars, histVars, fails>>
  /\ OthersUnchanged

(* do_checkpoint: a request is seen without ckpt_lck, or time is up.       *)
LoopTest ==
  /\ cpc = "test"
  /\ \/ ckpt_flags /\ CGo("begin") /\ UNCHANGED timed
     \/ timed < MaxTimed /\ CGo("begin") /\ timed' = timed + 1
     \/ ~ckpt_flags /\ CGo("recheck") /\ UNCHANGED timed
  /\ UNCHANGED <<ctlVars, cvVars, requests, latch, ckptVars, syncVars, loopVars, backendVars,
                 fileVars, histVars, fails>>

(* Under ckpt_lck.  All requests modelled carry CHECKPOINT_FORCE.          *)
BeginCheckpoint ==
  /\ cpc = "begin"
  /\ forced' = ckpt_flags
  /\ ckpt_flags' = FALSE
  /\ ckpt_started' = Next_(ckpt_started, CTR_MODULUS)
  /\ asked' = [p \in Proc |-> IF asked[p] = "asked" THEN "started" ELSE asked[p]]
  /\ CGo("startcast")
  /\ UNCHANGED <<running, ckpt_done, ckpt_failed, cvVars, requests, latch, toWrite, syncVars,
                 loopVars, fileVars, young, owed, fails>>
  /\ OthersUnchanged

BroadcastStart ==
  /\ cpc = "startcast"
  /\ start_cv' = {}
  /\ CGo("pre")
  /\ UNCHANGED <<ctlVars, done_cv, requests, latch, ckptVars, syncVars, loopVars, fileVars,
                 histVars, fails>>
  /\ OthersUnchanged

EndCheckpoint ==
  /\ cpc = "done"
  /\ ckpt_done' = ckpt_started
  /\ asked' = [p \in Proc |-> IF asked[p] = "started" THEN "ok" ELSE asked[p]]
  /\ CGo("donecast")
  /\ UNCHANGED <<running, ckpt_started, ckpt_failed, ckpt_flags, cvVars, requests, latch,
                 ckptVars, syncVars, loopVars, fileVars, young, owed, fails>>
  /\ OthersUnchanged

(* The error path of the sigsetjmp block, taken with ckpt_active set.      *)
CheckpointError ==
  /\ cpc \in {"error", "missing"}
  /\ ckpt_failed' = Next_(ckpt_failed, CTR_MODULUS)
  /\ ckpt_done' = ckpt_started
  /\ asked' = [p \in Proc |-> IF asked[p] = "started" THEN "failed" ELSE asked[p]]
  /\ CGo("failcast")
  /\ UNCHANGED <<running, ckpt_started, ckpt_flags, cvVars, requests, latch,
                 ckptVars, syncVars, loopVars, fileVars, young, owed, fails>>
  /\ OthersUnchanged

BroadcastDone ==
  /\ cpc \in {"donecast", "failcast"}
  /\ done_cv' = {}
  /\ CGo(IF cpc = "donecast" THEN "recheck" ELSE "loop")
  /\ UNCHANGED <<ctlVars, start_cv, requests, latch, ckptVars, syncVars, loopVars, fileVars,
                 histVars, fails>>
  /\ OthersUnchanged

(* Mutant of AnotherRequest: the latch will tell.                          *)
LatchWillTell == FALSE

(* Before sleeping, look at the flags once more: the latch that was set    *)
(* for them may have been reset in CheckpointWriteDelay.                   *)
AnotherRequest == ckpt_flags

LoopRecheck ==
  /\ cpc = "recheck"
  /\ CJump(IF AnotherRequest THEN "loop" ELSE "sleep")

WaitLatch ==
  /\ cpc = "sleep"
  /\ latch
  /\ CJump("loop")

(* The timeout of WaitLatch: nothing below depends on it.                  *)
WaitLatchTimeout ==
  /\ cpc = "sleep"
  /\ timed < MaxTimed
  /\ CJump("loop")

-----------------------------------------------------------------------------
(***************************************************************************)
(* CreateCheckPoint                                                        *)
(***************************************************************************)
(* Mutant of PreAbsorb: requests forwarded before the checkpoint wait.     *)
PreWithoutAbsorb == UNCHANGED <<requests, pendingOps, pendingUnlinks>>

PreAbsorb == AbsorbSyncRequests

(* The counter belongs to the checkpointer: one step with the absorb.      *)
SyncPreCheckpoint ==
  /\ cpc = "pre"
  /\ PreAbsorb
  /\ checkpoint_cycle_ctr' = Next_(checkpoint_cycle_ctr, CYCLE_MODULUS)
  /\ CGo("redo")
  /\ UNCHANGED <<ctlVars, cvVars, latch, ckptVars, sync_cycle_ctr, sync_in_progress, loopVars,
                 fileVars, histVars, fails>>
  /\ OthersUnchanged

(* With all WAL insertion locks held: nothing to do, or the redo pointer   *)
(* is set.                                                                 *)
SetRedo ==
  LET Aged(d) == [f \in Files |-> IF d[f] = {} THEN {} ELSE {"old"}]
  IN  /\ cpc = "redo"
      /\ IF ~forced /\ ~wal
         THEN CGo("done") /\ UNCHANGED <<buf, os, young>>
         ELSE /\ buf' = Aged(buf) /\ os' = Aged(os)
              /\ young' = {}
              /\ CGo("mark")
      /\ UNCHANGED <<ctlVars, cvVars, requests, latch, ckptVars, syncVars, loopVars, fstate, io,
                     wal, asked, owed, fails>>
      /\ OthersUnchanged

(* BufferSync: which buffers are to be written.                            *)
BufferSyncMark ==
  /\ cpc = "mark"
  /\ toWrite' = {f \in Files : buf[f] # {}}
  /\ CGo("write")
  /\ UNCHANGED <<ctlVars, cvVars, requests, latch, forced, syncVars, loopVars, fileVars, histVars, fails>>
  /\ OthersUnchanged

(* SyncOneBuffer: whoever writes the buffer out is waited for; a buffer    *)
(* found clean is skipped.  The checkpointer remembers its own request.    *)
SyncOneBuffer(f) ==
  LET own == Remember([ops |-> pendingOps, unlinks |-> pendingUnlinks],
                      [type |-> SYNC, file |-> f])
  IN  /\ cpc = "write"
      /\ f \in toWrite
      /\ io[f] = NoProc
      /\ toWrite' = toWrite \ {f}
      /\ IF buf[f] = {} THEN UNCHANGED <<buf, os, pendingOps>>
         ELSE /\ os' = [os EXCEPT ![f] = @ \cup buf[f]]
              /\ buf' = [buf EXCEPT ![f] = {}]
              /\ pendingOps' = own.ops
      /\ SyncTablesUnchanged
      /\ CGo("delay")
      /\ UNCHANGED <<ctlVars, cvVars, requests, latch, forced, pendingUnlinks, loopVars,
                     fstate, io, wal, histVars, fails>>
      /\ OthersUnchanged

(* CheckpointWriteDelay, after each buffer.  Requests are absorbed if the  *)
(* checkpointer naps or after so many buffers; the nap ends with the reset *)
(* of the latch, whoever has set it.                                       *)
CheckpointWriteDelay ==
  /\ cpc = "delay"
  /\ \/ AbsorbSyncRequests /\ (CGo("nap") \/ CGo("write"))
     \/ UNCHANGED <<requests, pendingOps, pendingUnlinks>> /\ CGo("write")
  /\ SyncTablesUnchanged
  /\ UNCHANGED <<ctlVars, cvVars, latch, ckptVars, loopVars, fileVars, histVars, fails>>
  /\ OthersUnchanged

Nap ==
  /\ cpc = "nap"
  /\ latch' = FALSE
  /\ CGo("write")
  /\ UNCHANGED <<ctlVars, cvVars, requests, ckptVars, syncVars, loopVars, fileVars, histVars, fails>>
  /\ OthersUnchanged

WriteError ==
  /\ cpc = "write"
  /\ toWrite # {}
  /\ fails < MaxFails
  /\ fails' = fails + 1
  /\ CGo("error")
  /\ UNCHANGED <<ctlVars, cvVars, requests, latch, ckptVars, syncVars, loopVars, fileVars, histVars>>
  /\ OthersUnchanged

(* Mutant of Restamp: entries left by a failed attempt keep their cycle.   *)
NoRestamp(ops) == ops

(* The prior try failed: update stale cycle_ctr values.                    *)
Restamp(ops) ==
  IF sync_in_progress THEN [f \in DOMAIN ops |-> [ops[f] EXCEPT !.cycle = sync_cycle_ctr]]
  ELSE ops

(* The head of ProcessSyncRequests.                                        *)
ProcessSyncRequests ==
  /\ cpc = "write"
  /\ toWrite = {}
  /\ requests' = << >>
  /\ pendingOps' = Restamp(Absorbed.ops)
  /\ pendingUnlinks' = Absorbed.unlinks
  /\ sync_cycle_ctr' = Next_(sync_cycle_ctr, CYCLE_MODULUS)
  /\ sync_in_progress' = TRUE
  /\ CGo("scan")
  /\ UNCHANGED <<ctlVars, cvVars, latch, ckptVars, checkpoint_cycle_ctr, loopVars, fileVars,
                 histVars, fails>>
  /\ OthersUnchanged

(* hash_seq_search finds an entry that is not new; every so often requests *)
(* are absorbed before it is looked at.                                    *)
NextEntry(f) ==
  /\ cpc = "scan"
  /\ f \in DOMAIN pendingOps
  /\ pendingOps[f].cycle # sync_cycle_ctr
  /\ entry' = f /\ failures' = 0
  /\ AbsorbSyncRequests \/ UNCHANGED <<requests, pendingOps, pendingUnlinks>>
  /\ CGo("try")
  /\ SyncTablesUnchanged
  /\ UNCHANGED <<ctlVars, cvVars, latch, ckptVars, fileVars, histVars, fails>>
  /\ OthersUnchanged

RemoveEntry ==
  /\ pendingOps' = [f \in DOMAIN pendingOps \ {entry} |-> pendingOps[f]]
  /\ entry' = NoFile /\ failures' = 0
  /\ CGo("scan")

SyncCanceled ==
  /\ cpc = "try"
  /\ pendingOps[entry].canceled
  /\ RemoveEntry
  /\ SyncTablesUnchanged
  /\ UNCHANGED <<ctlVars, cvVars, requests, latch, ckptVars, pendingUnlinks, fileVars, histVars, fails>>
  /\ OthersUnchanged

SyncFile ==
  /\ cpc = "try"
  /\ ~pendingOps[entry].canceled
  /\ fstate[entry] # "gone"
  /\ os' = [os EXCEPT ![entry] = {}]
  /\ RemoveEntry
  /\ SyncTablesUnchanged
  /\ UNCHANGED <<ctlVars, cvVars, requests, latch, ckptVars, pendingUnlinks, fstate, buf, io, wal,
                 histVars, fails>>
  /\ OthersUnchanged

(* fsync fails, with data_sync_retry = on.                                 *)
SyncError ==
  /\ cpc = "try"
  /\ ~pendingOps[entry].canceled
  /\ fails < MaxFails
  /\ fails' = fails + 1
  /\ entry' = NoFile /\ failures' = 0
  /\ CGo("error")
  /\ UNCHANGED <<ctlVars, cvVars, requests, latch, ckptVars, syncVars, fileVars, histVars>>
  /\ OthersUnchanged

(* Mutant of SyncRetry: requests are not absorbed before the retry.        *)
RetryWithoutAbsorb == UNCHANGED <<requests, pendingOps, pendingUnlinks>>

RetryAbsorb == AbsorbSyncRequests

(* The file is gone: absorb and look again whether the entry is canceled,  *)
(* but only once.                                                          *)
SyncRetry ==
  /\ cpc = "try"
  /\ ~pendingOps[entry].canceled
  /\ fstate[entry] = "gone"
  /\ IF failures = 0
     THEN RetryAbsorb /\ failures' = 1 /\ UNCHANGED <<entry, cpc>>
     ELSE /\ entry' = NoFile /\ failures' = 0
          /\ CGo("missing")
          /\ UNCHANGED <<requests, pendingOps, pendingUnlinks>>
  /\ SyncTablesUnchanged
  /\ UNCHANGED <<ctlVars, cvVars, latch, ckptVars, fileVars, histVars, fails>>
  /\ OthersUnchanged

EndSync ==
  /\ cpc = "scan"
  /\ \A f \in DOMAIN pendingOps : pendingOps[f].cycle = sync_cycle_ctr
  /\ sync_in_progress' = FALSE
  /\ CGo("record")
  /\ UNCHANGED <<ctlVars, cvVars, requests, latch, ckptVars, pendingOps, pendingUnlinks,
                 sync_cycle_ctr, checkpoint_cycle_ctr, loopVars, fileVars, histVars, fails>>
  /\ OthersUnchanged

(* The checkpoint record is written and the control file updated.          *)
WriteRecord ==
  /\ cpc = "record"
  /\ wal' = FALSE
  /\ CGo("post")
  /\ UNCHANGED <<ctlVars, cvVars, requests, latch, ckptVars, syncVars, loopVars, fstate, buf, os,
                 io, histVars, fails>>
  /\ OthersUnchanged

(* Mutant of TooNew: every request is served.                              *)
NoneTooNew(e) == FALSE

(* The request came after this checkpoint began.                           *)
TooNew(e) == e.cycle = checkpoint_cycle_ctr

(* mdunlinkfiletag: the file, truncated when it was dropped, leaves the    *)
(* disk; or the unlink fails, which is a WARNING, and the file is left.    *)
UnlinkFiletag(f) ==
  /\ \/ fstate' = [fstate EXCEPT ![f] = "gone"] /\ UNCHANGED fails
     \/ fstate' = [fstate EXCEPT ![f] = "left"] /\ fails < MaxFails /\ fails' = fails + 1
  /\ os' = [os EXCEPT ![f] = {}]

(* One entry of SyncPostCheckpoint's loop; what was processed, with or     *)
(* without success, leaves the list, after ten of them requests are        *)
(* absorbed.                                                               *)
SyncPostCheckpoint ==
  LET e == Head(pendingUnlinks)
  IN  /\ cpc = "post"
      /\ pendingUnlinks # << >>
      /\ e.canceled \/ ~TooNew(e)
      /\ IF e.canceled THEN UNCHANGED <<fstate, os, fails>> ELSE UnlinkFiletag(e.file)
      /\ \/ pendingUnlinks' = Tail(pendingUnlinks) /\ UNCHANGED <<requests, pendingOps>>
         \/ /\ ~e.canceled
            /\ requests' = << >>
            /\ pendingOps' = Absorbed.ops /\ pendingUnlinks' = Tail(Absorbed.unlinks)
      /\ SyncTablesUnchanged
      /\ UNCHANGED <<ctlVars, cvVars, latch, cpc, ckptVars, loopVars, buf, io, wal, histVars>>
      /\ OthersUnchanged

EndPostCheckpoint ==
  /\ cpc = "post"
  /\ pendingUnlinks # << >> =>
       ~Head(pendingUnlinks).canceled /\ TooNew(Head(pendingUnlinks))
  /\ CJump("done")

-----------------------------------------------------------------------------
(***************************************************************************)
(* Backends: changes, writes, new and dropped files                        *)
(***************************************************************************)
Begin(p, what, to, r) ==
  /\ pc[p] = "idle"
  /\ op' = [op EXCEPT ![p] = what]
  /\ arg' = [arg EXCEPT ![p] = r]
  /\ Go(p, to)

Return(p) ==
  /\ Go(p, "idle")
  /\ op' = [op EXCEPT ![p] = "none"]
  /\ arg' = [arg EXCEPT ![p] = NoRequest]

RequestUnchanged == UNCHANGED <<old_failed, old_started, new_started>>

(* Some backend changes the page, with its exclusive content lock, and     *)
(* inserts the WAL record.                                                 *)
ModifyPage(f) ==
  /\ Live(f) /\ io[f] = NoProc
  /\ buf' = [buf EXCEPT ![f] = @ \cup {"new"}]
  /\ wal' = TRUE
  /\ UNCHANGED <<ctlVars, cvVars, requests, latch, checkpointerVars, backendVars, fstate, os, io,
                 histVars, timed, fails>>

(* FlushBuffer of a backend that needs the buffer, up to register_dirty_   *)
(* segment: the page is handed to the kernel.                              *)
FlushBuffer(p, f) ==
  /\ Begin(p, "flush", "forward", [type |-> SYNC, file |-> f])
  /\ buf[f] # {} /\ io[f] = NoProc
  /\ os' = [os EXCEPT ![f] = @ \cup buf[f]]
  /\ io' = [io EXCEPT ![f] = p]
  /\ RequestUnchanged
  /\ UNCHANGED <<ctlVars, cvVars, requests, latch, checkpointerVars, fstate, buf, wal, histVars,
                 timed, fails>>

(* mdcreate when the name is free, or mdextend into a new segment.  "OIDs  *)
(* must've wrapped around" for a name to come back: since then whoever     *)
(* removed files of that name has finished, and what he said of the        *)
(* segment was absorbed.                                                   *)
CreateFile(p, f) ==
  /\ Begin(p, "create", "forward", [type |-> SYNC, file |-> f])
  /\ fstate[f] = "gone"
  /\ IF f = FirstSegment THEN \A q \in Proc : op[q] \notin {"drop", "dropdb"} ELSE Live(FirstSegment)
  /\ \A i \in DOMAIN requests : requests[i] # [type |-> FORGET, file |-> f]
  /\ fstate' = [fstate EXCEPT ![f] = "live"]
  /\ owed' = [q \in Proc |-> owed[q] \ {f}]
  /\ RequestUnchanged
  /\ UNCHANGED <<ctlVars, cvVars, requests, latch, checkpointerVars, buf, os, io, wal, young, asked,
                 timed, fails>>

AfterRegister(p) ==
  IF op[p] = "flush" THEN Go(p, "clear") /\ UNCHANGED <<op, arg>> ELSE Return(p)

(* register_dirty_segment: the request is queued.                          *)
RegisterDirtySegment(p) ==
  /\ pc[p] = "forward"
  /\ ForwardSyncRequest(arg[p])
  /\ AfterRegister(p)
  /\ RequestUnchanged
  /\ UNCHANGED <<ctlVars, cvVars, checkpointerVars, fileVars, histVars, timed, fails>>

(* Mutant of BackendSync: a request that could not be queued is forgotten. *)
BackendSyncForgotten(p) == UNCHANGED os

(* FileSync of register_dirty_segment.                                     *)
BackendSync(p) == os' = [os EXCEPT ![arg[p].file] = {}]

(* register_dirty_segment: no room, the backend calls fsync itself.        *)
SyncDirtySegment(p) ==
  /\ pc[p] = "forward"
  /\ ~CanForward
  /\ BackendSync(p)
  /\ AfterRegister(p)
  /\ RequestUnchanged
  /\ UNCHANGED <<ctlVars, cvVars, requests, latch, checkpointerVars, fstate, buf, io, wal,
                 histVars, timed, fails>>

(* Its fsync fails: the write is undone by AbortBufferIO, which leaves the *)
(* buffer dirty.                                                           *)
SyncDirtySegmentError(p) ==
  /\ pc[p] = "forward"
  /\ op[p] = "flush"
  /\ ~CanForward
  /\ fails < MaxFails
  /\ fails' = fails + 1
  /\ io' = [io EXCEPT ![arg[p].file] = NoProc]
  /\ Return(p)
  /\ RequestUnchanged
  /\ UNCHANGED <<ctlVars, cvVars, requests, latch, checkpointerVars, fstate, buf, os, wal,
                 histVars, timed>>

(* TerminateBufferIO: the buffer is clean.                                 *)
TerminateBufferIO(p) ==
  /\ pc[p] = "clear"
  /\ buf' = [buf EXCEPT ![arg[p].file] = {}]
  /\ io' = [io EXCEPT ![arg[p].file] = NoProc]
  /\ Return(p)
  /\ RequestUnchanged
  /\ UNCHANGED <<ctlVars, cvVars, requests, latch, checkpointerVars, fstate, os, wal, histVars,
                 timed, fails>>

(* Nobody else uses the relation.                                          *)
Unused == \A q \in Proc : arg[q].file \notin Files /\ op[q] # "dropdb"

Dead(state) ==
  /\ fstate' = [f \in Files |-> IF fstate[f] = "gone" THEN "gone" ELSE state]
  /\ buf' = [f \in Files |-> {}]
  /\ os' = [f \in Files |-> {}]
  /\ wal' = TRUE

(* smgrdounlinkall after the commit: the buffers are dropped, then         *)
(* mdunlinkfork truncates the first segment.                               *)
DropRelation(p) ==
  /\ Begin(p, "drop", "register", [type |-> UNLINK, file |-> FirstSegment])
  /\ Live(FirstSegment) /\ Unused
  /\ Dead("dropped")
  /\ young' = young \cup {FirstSegment}
  /\ RequestUnchanged
  /\ UNCHANGED <<ctlVars, cvVars, requests, latch, checkpointerVars, io, asked, owed, timed, fails>>

(* dropdb up to ForgetDatabaseSyncRequests; perhaps an earlier one failed. *)
DropDatabase(p) ==
  /\ Begin(p, "dropdb", "register", [type |-> FILTER, file |-> NoFile])
  /\ fstate[FirstSegment] # "gone" /\ Unused
  /\ Dead("invalid")
  /\ RequestUnchanged
  /\ UNCHANGED <<ctlVars, cvVars, requests, latch, checkpointerVars, io, histVars, timed, fails>>

(* mdunlinkfork goes on with the next segment, truncated already.          *)
NextSegment(p) ==
  LET left == {f \in Segments : fstate'[f] = "dropped"}
  IN  IF left = {} THEN Return(p)
      ELSE /\ arg' = [arg EXCEPT ![p] = [type |-> FORGET, file |-> CHOOSE f \in left : TRUE]]
           /\ Go(p, "register")
           /\ UNCHANGED op

(* RegisterSyncRequest with retryOnError: sleep and try again while there  *)
(* is no room.                                                             *)
RegisterSyncRequest(p) ==
  /\ pc[p] = "register"
  /\ ForwardSyncRequest(arg[p])
  /\ UNCHANGED fileVars
  /\ CASE arg[p].type = UNLINK -> NextSegment(p)
       [] arg[p].type = FORGET -> Go(p, "unlink") /\ UNCHANGED <<op, arg>>
       [] arg[p].type = FILTER -> Go(p, "request") /\ UNCHANGED <<op, arg>>
  /\ RequestUnchanged
  /\ UNCHANGED <<ctlVars, cvVars, checkpointerVars, histVars, timed, fails>>

(* unlink of mdunlinkfork.  If it fails, a WARNING, the loop is left: this *)
(* segment and those after it stay, and there is no next one.              *)
UnlinkFile(p) ==
  /\ pc[p] = "unlink"
  /\ \/ /\ fstate' = [fstate EXCEPT ![arg[p].file] = "gone"]
        /\ UNCHANGED fails
     \/ /\ fails < MaxFails /\ fails' = fails + 1
        /\ fstate' = [f \in Files |-> IF f \in Segments /\ fstate[f] = "dropped" THEN "left"
                                      ELSE fstate[f]]
  /\ NextSegment(p)
  /\ RequestUnchanged
  /\ UNCHANGED <<ctlVars, cvVars, requests, latch, checkpointerVars, buf, os, io, wal, histVars,
                 timed>>

-----------------------------------------------------------------------------
(***************************************************************************)
(* RequestCheckpoint with CHECKPOINT_FORCE and CHECKPOINT_WAIT             *)
(***************************************************************************)
(* Files of which an unlink request was forwarded.                         *)
UnlinkForwarded ==
  {f \in {FirstSegment} : fstate[f] = "dropped" /\ \A q \in Proc : arg[q].file # f}

(* Under ckpt_lck.                                                         *)
SetRequestFlags(p) ==
  /\ old_failed' = [old_failed EXCEPT ![p] = ckpt_failed]
  /\ old_started' = [old_started EXCEPT ![p] = ckpt_started]
  /\ ckpt_flags' = TRUE
  /\ asked' = [asked EXCEPT ![p] = "asked"]
  /\ owed' = [owed EXCEPT ![p] = UnlinkForwarded]
  /\ UNCHANGED <<running, ckpt_started, ckpt_done, ckpt_failed, cvVars, requests, latch,
                 checkpointerVars, new_started, fileVars, young, timed, fails>>

(* The CHECKPOINT command, and the call of dropdb.                         *)
Checkpoint(p) == Begin(p, "checkpoint", "signal", NoRequest) /\ SetRequestFlags(p)

RequestCheckpoint(p) ==
  /\ pc[p] = "request"
  /\ SetRequestFlags(p)
  /\ Go(p, "signal")
  /\ UNCHANGED <<op, arg>>

(* kill(checkpointer_pid, SIGINT), whose handler sets the latch; retried   *)
(* until the checkpointer runs.  Then the list of start_cv is entered.     *)
SignalCheckpointer(p) ==
  /\ pc[p] = "signal"
  /\ running
  /\ latch' = TRUE
  /\ start_cv' = start_cv \cup {p}
  /\ Go(p, "started?")
  /\ UNCHANGED <<ctlVars, done_cv, requests, checkpointerVars, procVars, fileVars, histVars,
                 timed, fails>>

TestStarted(p) ==
  /\ pc[p] = "started?"
  /\ IF ckpt_started # old_started[p]
     THEN /\ new_started' = [new_started EXCEPT ![p] = ckpt_started]
          /\ start_cv' = start_cv \ {p}
          /\ done_cv' = done_cv \cup {p}
          /\ Go(p, "done?")
     ELSE Go(p, "startsleep") /\ UNCHANGED <<new_started, cvVars>>
  /\ UNCHANGED <<ctlVars, requests, latch, checkpointerVars, op, arg, old_failed, old_started,
                 fileVars, histVars, timed, fails>>

(* Mutant of Reached: the counters are compared as they are.               *)
ReachedPlain(done, started) == done >= started

(* new_done - new_started >= 0, in int arithmetic.                         *)
Reached(done, started) == (done - started) % CTR_MODULUS < CTR_MODULUS \div 2

TestDone(p) ==
  /\ pc[p] = "done?"
  /\ IF Reached(ckpt_done, new_started[p])
     THEN /\ done_cv' = done_cv \ {p}
          /\ Go(p, IF ckpt_failed # old_failed[p] THEN "failed" ELSE "success")
     ELSE Go(p, "donesleep") /\ UNCHANGED done_cv
  /\ UNCHANGED <<ctlVars, start_cv, requests, latch, checkpointerVars, procVars, fileVars,
                 histVars, timed, fails>>

(* ConditionVariableSleep: removed from the list by a broadcast, the       *)
(* process queues itself again and tests.                                  *)
SleepEnds(p) ==
  \/ /\ pc[p] = "startsleep" /\ p \notin start_cv
     /\ start_cv' = start_cv \cup {p} /\ Go(p, "started?")
     /\ UNCHANGED <<ctlVars, done_cv, requests, latch, checkpointerVars, procVars, fileVars,
                    histVars, timed, fails>>
  \/ /\ pc[p] = "donesleep" /\ p \notin done_cv
     /\ done_cv' = done_cv \cup {p} /\ Go(p, "done?")
     /\ UNCHANGED <<ctlVars, start_cv, requests, latch, checkpointerVars, procVars, fileVars,
                    histVars, timed, fails>>

(* An ERROR when the request failed; dropdb then leaves the files alone,   *)
(* else it removes them.                                                   *)
RequestReturns(p) ==
  /\ pc[p] \in {"success", "failed"}
  /\ asked' = [asked EXCEPT ![p] = "no"]
  /\ owed' = [owed EXCEPT ![p] = {}]
  /\ IF pc[p] = "success" /\ op[p] = "dropdb"
     THEN fstate' = [f \in Files |-> "gone"]
     ELSE UNCHANGED fstate
  /\ Return(p)
  /\ old_failed' = [old_failed EXCEPT ![p] = 0]
  /\ old_started' = [old_started EXCEPT ![p] = 0]
  /\ new_started' = [new_started EXCEPT ![p] = 0]
  /\ UNCHANGED <<ctlVars, cvVars, requests, latch, checkpointerVars, buf, os, io, wal, young, timed, fails>>

-----------------------------------------------------------------------------
(* What the checkpointer does by itself.                                   *)
CheckpointerStep ==
  \/ StartCheckpointer \/ LoopResetLatch \/ LoopAbsorb \/ LoopTest \/ BeginCheckpoint
  \/ BroadcastStart \/ EndCheckpoint \/ CheckpointError \/ BroadcastDone \/ LoopRecheck
  \/ WaitLatch \/ SyncPreCheckpoint \/ SetRedo \/ BufferSyncMark
  \/ CheckpointWriteDelay \/ Nap
  \/ \E f \in Files : SyncOneBuffer(f) \/ NextEntry(f)
  \/ ProcessSyncRequests \/ SyncCanceled \/ SyncFile \/ SyncRetry \/ EndSync \/ WriteRecord
  \/ SyncPostCheckpoint \/ EndPostCheckpoint

(* What may or may not happen to it.                                       *)
CheckpointerEvent == WriteError \/ SyncError \/ WaitLatchTimeout

Call(p) ==
  \/ \E f \in Files : FlushBuffer(p, f) \/ CreateFile(p, f)
  \/ DropRelation(p) \/ DropDatabase(p) \/ Checkpoint(p)

Step(p) ==
  \/ RegisterDirtySegment(p) \/ SyncDirtySegment(p) \/ TerminateBufferIO(p)
  \/ RegisterSyncRequest(p) \/ UnlinkFile(p)
  \/ RequestCheckpoint(p) \/ SignalCheckpointer(p) \/ TestStarted(p) \/ TestDone(p)
  \/ SleepEnds(p) \/ RequestReturns(p)

Next ==
  \/ CheckpointerStep \/ CheckpointerEvent
  \/ \E f \in Files : ModifyPage(f)
  \/ \E p \in Proc : Call(p) \/ Step(p) \/ SyncDirtySegmentError(p)

Spec == Init /\ [][Next]_vars

-----------------------------------------------------------------------------
Changes == SUBSET {"old", "new"}
Entry == [cycle : 0 .. CYCLE_MODULUS - 1, canceled : BOOLEAN]

TypeOK ==
  /\ {running, ckpt_flags, latch, forced, sync_in_progress, wal} \subseteq BOOLEAN
  /\ {ckpt_started, ckpt_done, ckpt_failed} \subseteq 0 .. CTR_MODULUS - 1
  /\ start_cv \subseteq Proc /\ done_cv \subseteq Proc
  /\ Len(requests) <= MAX_REQUESTS /\ \A i \in DOMAIN requests : requests[i] \in Request
  /\ cpc \in {"down", "loop", "absorb", "test", "begin", "startcast", "pre", "redo", "mark",
              "write", "delay", "nap", "scan", "try", "record", "post", "done", "donecast", "failcast", "error",
              "missing", "recheck", "sleep"}
  /\ toWrite \subseteq Files
  /\ DOMAIN pendingOps \subseteq Files
  /\ \A f \in DOMAIN pendingOps : pendingOps[f] \in Entry
  /\ \A i \in DOMAIN pendingUnlinks :
       /\ pendingUnlinks[i].file = FirstSegment
       /\ [pendingUnlinks[i] EXCEPT !.file = NoFile] \in
            [file : {NoFile}, cycle : 0 .. CYCLE_MODULUS - 1, canceled : BOOLEAN]
  /\ {sync_cycle_ctr, checkpoint_cycle_ctr} \subseteq 0 .. CYCLE_MODULUS - 1
  /\ entry \in Files \cup {NoFile} /\ (cpc = "try" => entry \in DOMAIN pendingOps)
  /\ failures \in {0, 1}
  /\ \A p \in Proc : arg[p] \in Request \cup {NoRequest}
  /\ fstate \in [Files -> {"live", "dropped", "invalid", "gone", "left"}]
  /\ buf \in [Files -> Changes] /\ os \in [Files -> Changes] /\ io \in [Files -> Proc \cup {NoProc}]

(* When the checkpoint record is written, recovery will start at its redo  *)
(* pointer: all changes before that are on disk, whether they were written *)
(* by the checkpointer or by a backend, through the queue, after failed    *)
(* attempts, or with the backend's own fsync when the queue was full.      *)
CheckpointIsDurable ==
  cpc = "record" => \A f \in Files : Live(f) => "old" \notin buf[f] \cup os[f]

(* "Since mdunlink() queues a cancel message before actually unlinking,    *)
(* the fsync request is guaranteed to be marked canceled after the         *)
(* absorb": no checkpoint fails because a file is gone.                    *)
CancelArrivesInTime == cpc # "missing"

(* Assert((CycleCtr) (entry->cycle_ctr + 1) == sync_cycle_ctr), for all    *)
(* entries of the table: cycle numbers do not get stale in failed attempts *)
(* and so never look new after they wrap around.  Every variable has its   *)
(* type, and the request queue never holds more than MAX_REQUESTS.         *)
EntriesOneCycleOld ==
  /\ TypeOK
  /\ cpc \in {"scan", "try"} => \A f \in DOMAIN pendingOps :
       sync_cycle_ctr \in {pendingOps[f].cycle, Next_(pendingOps[f].cycle, CYCLE_MODULUS)}

(* "Otherwise it was definitely successful": RequestCheckpoint returns     *)
(* without an error only if a checkpoint started after the request and was *)
(* completed, whatever other checkpoints succeed or fail meanwhile and     *)
(* when the counters wrap around.                                          *)
RequestHonoured == \A p \in Proc : pc[p] = "success" => asked[p] = "ok"

(* "Operations such as DROP TABLESPACE assume that the next checkpoint     *)
(* will process all recently forwarded unlink requests": when              *)
(* RequestCheckpoint has returned without an error, the files whose unlink *)
(* requests were forwarded before are gone, or left behind by an unlink    *)
(* that was tried and failed (no more than a WARNING, the request is not   *)
(* kept), or they go with the directory of a database that is being        *)
(* dropped, which cancels the request.                                     *)
DropsDone ==
  \A p \in Proc : pc[p] = "success" => \A f \in owed[p] : fstate[f] \in {"gone", "left", "invalid"}

(* A file leaves the disk only if it was dropped, and the first segment of *)
(* a main fork, which keeps the relfilenumber from being reused, only      *)
(* after a checkpoint whose redo pointer is past the drop.                 *)
UnlinkTiming ==
  [][\A f \in Files : fstate'[f] = "gone" /\ fstate[f] # "gone" =>
       fstate[f] # "live" /\ (f = FirstSegment /\ fstate[f] = "dropped" => f \notin young)]_vars

=============================================================================
