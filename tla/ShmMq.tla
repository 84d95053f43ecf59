-------------------------------- MODULE ShmMq --------------------------------
(***************************************************************************)
(* A shared memory message queue (backend/storage/ipc/shm_mq.c): a ring of *)
(* bytes with one sender and one receiver, who wait on their latches.  One *)
(* of the two, the leader, has created the queue; the other one is a       *)
(* background worker, which may fail before it attaches.                   *)
(*                                                                         *)
(* The unit is MAXIMUM_ALIGNOF bytes, which is also the size of the length *)
(* word of a message; everything the code copies but the end of a message  *)
(* is a multiple of it, and that is padded.  A cell of the ring is the     *)
(* length word (part 0) or another part of a message.  How sendv gathers   *)
(* a part from several vectors is left out: the message is one vector.     *)
(*                                                                         *)
(* An action is one access to shared memory, one critical section of       *)
(* mq_mutex, one latch operation or one memcpy.  Latches are the Booleans  *)
(* that module Latch justifies.                                            *)
(***************************************************************************)
EXTENDS Integers, Sequences, FiniteSets, FiniteSetsExt

CONSTANTS
  RingSize,  \* mq_ring_size, in units
  Length,    \* lengths of messages, in units
  MaxMsgs    \* bound: messages sent

ASSUME ConstantsAssumption ==
  /\ RingSize \in Nat \ {0} /\ Length \subseteq Nat /\ MaxMsgs \in Nat

S == "sender"
R == "receiver"
Party == {S, R}
Other(p) == IF p = S THEN R ELSE S

Nothing == << >>
Cell == [msg : 0..MaxMsgs, part : Nat, len : Nat]
EmptyCell == [msg |-> 0, part |-> 0, len |-> 0]

VARIABLES
  \* struct shm_mq
  mq_proc,           \* mq_sender and mq_receiver are not NULL
  mq_bytes_read, mq_bytes_written, mq_detached, mq_ring,
  latch,             \* procLatch of each party
  \* processes
  worker,            \* the party that is the worker; no step changes it
  handle,            \* the leader has a BackgroundWorkerHandle; no step changes it
  status,            \* BgwHandleStatus of the worker
  notify,            \* the postmaster is about to signal the leader
  pc,
  caller,            \* who called shm_mq_wait_internal
  found,             \* result of it, and of shm_mq_counterparty_gone
  attached,          \* mqh_counterparty_attached
  length_complete,   \* mqh_length_word_complete
  partial,           \* mqh_partial_bytes
  nowait, force_flush,
  \* the sender
  msg, len,          \* number and length of the message that is being sent
  send_pending,      \* mqh_send_pending
  available,         \* local of shm_mq_send_bytes
  receiver,          \* local of shm_mq_sendv: the receiver is not NULL
  \* the receiver
  consume_pending,   \* mqh_consume_pending
  expected,          \* mqh_expected_bytes
  written,           \* local of shm_mq_receive_bytes
  buffer,            \* mqh_buffer
  out,               \* what shm_mq_receive returned: a pointer, or the buffer
  \* history
  stream,            \* every cell ever written
  delivered,         \* messages returned to the receiver
  ended,             \* the receiver was told SHM_MQ_DETACHED
  missed             \* data was published past a receiver that had just attached

queueVars == <<mq_proc, mq_bytes_read, mq_bytes_written, mq_detached, mq_ring>>
workerVars == <<worker, handle, status, notify>>
handleVars == <<attached, length_complete, partial, nowait>>
sendVars == <<force_flush, msg, len, send_pending, available, receiver>>
receiveVars == <<consume_pending, expected, written, buffer, out>>
historyVars == <<stream, delivered, ended, missed>>
vars == <<queueVars, latch, workerVars, pc, caller, found, handleVars, sendVars, receiveVars, historyVars>>

(* The leader has called shm_mq_create, has set itself and has attached.   *)
Init ==
  /\ worker \in Party /\ handle \in BOOLEAN
  /\ status = "not_yet_started" /\ notify = FALSE
  /\ mq_proc = [p \in Party |-> p # worker]
  /\ mq_bytes_read = 0 /\ mq_bytes_written = 0 /\ mq_detached = FALSE
  /\ mq_ring = [o \in 0..RingSize - 1 |-> EmptyCell]
  /\ latch = [p \in Party |-> FALSE]
  /\ pc = [p \in Party |-> IF p = worker THEN "unborn" ELSE "idle"]
  /\ caller = [p \in Party |-> "none"] /\ found = [p \in Party |-> FALSE]
  /\ attached = [p \in Party |-> FALSE]
  /\ length_complete = [p \in Party |-> FALSE]
  /\ partial = [p \in Party |-> 0]
  /\ nowait = [p \in Party |-> FALSE] /\ force_flush = FALSE
  /\ msg = 0 /\ len = 0 /\ send_pending = 0 /\ available = 0 /\ receiver = FALSE
  /\ consume_pending = 0 /\ expected = 0 /\ written = 0
  /\ buffer = << >> /\ out = [kind |-> "none"]
  /\ stream = << >> /\ delivered = 0 /\ ended = FALSE /\ missed = FALSE

-----------------------------------------------------------------------------
At(p, label) == pc[p] = label
Go(p, label) == pc' = [pc EXCEPT ![p] = label]
SetLatch(p) == latch' = [latch EXCEPT ![p] = TRUE]

(* WaitLatch and ResetLatch; what happens between the two is seen by the   *)
(* test that follows.                                                      *)
WaitLatch(p) == latch[p] /\ latch' = [latch EXCEPT ![p] = FALSE]

(* No call is under way, or the last one returned WOULD_BLOCK.             *)
Returned == {"idle", "would_block"}

(* Labels at which the process sleeps, or may raise an error.              *)
Sleeping == {"internal_sleep", "send_sleep", "receive_sleep"}

(***************************************************************************)
(* The worker.  It starts, which the postmaster tells the leader, sets     *)
(* itself as sender or receiver, and tells the leader too; or it fails.    *)
(* The signal of the start arrives at once, so that it is not what rescues *)
(* a leader who sleeps later.                                              *)
(***************************************************************************)
StartWorker ==
  /\ At(worker, "unborn") /\ status = "not_yet_started"
  /\ status' = "started"
  /\ SetLatch(Other(worker))
  /\ Go(worker, "attach")
  /\ UNCHANGED <<queueVars, worker, handle, notify, caller, found, handleVars, sendVars, receiveVars,
                 historyVars>>

(* shm_mq_set_sender or shm_mq_set_receiver, then shm_mq_attach.           *)
Attach ==
  /\ At(worker, "attach")
  /\ mq_proc' = [mq_proc EXCEPT ![worker] = TRUE]
  /\ Go(worker, "attach_latch")
  /\ UNCHANGED <<mq_bytes_read, mq_bytes_written, mq_detached, mq_ring, latch, workerVars, caller,
                 found, handleVars, sendVars, receiveVars, historyVars>>

AttachLatch ==
  /\ At(worker, "attach_latch")
  /\ SetLatch(Other(worker))
  /\ Go(worker, "idle")
  /\ UNCHANGED <<queueVars, workerVars, caller, found, handleVars, sendVars, receiveVars, historyVars>>

(* The postmaster cannot start it, or it exits before it attaches ...      *)
WorkerFails ==
  /\ pc[worker] \in {"unborn", "attach"}
  /\ status' = "stopped" /\ notify' = TRUE
  /\ Go(worker, "exited")
  /\ UNCHANGED <<queueVars, latch, worker, handle, caller, found, handleVars, sendVars, receiveVars,
                 historyVars>>

(* ... or it has exited after it detached.                                 *)
WorkerStops ==
  /\ At(worker, "exited") /\ status = "started"
  /\ status' = "stopped" /\ notify' = TRUE
  /\ UNCHANGED <<queueVars, latch, worker, handle, pc, caller, found, handleVars, sendVars,
                 receiveVars, historyVars>>

(* The process that registered the worker (bgw_notify_pid) is signaled.    *)
NotifyLeader ==
  /\ notify
  /\ notify' = FALSE
  /\ SetLatch(Other(worker))
  /\ UNCHANGED <<queueVars, worker, handle, status, pc, caller, found, handleVars, sendVars,
                 receiveVars, historyVars>>

(* GetBackgroundWorkerPid, if there is a handle: the worker is no more.    *)
WorkerDead(p) == handle /\ p # worker /\ status = "stopped"

(***************************************************************************)
(* shm_mq_detach, and the callback that detaches when a process exits or   *)
(* its transaction fails, which does not publish what is pending           *)
(***************************************************************************)
Detach(p) ==
  /\ pc[p] \in Returned
  /\ Go(p, "detach")
  /\ IF p = S
     THEN mq_bytes_written' = mq_bytes_written + send_pending /\ send_pending' = 0
     ELSE UNCHANGED <<mq_bytes_written, send_pending>>
  /\ out' = IF p = R THEN [kind |-> "none"] ELSE out
  /\ UNCHANGED <<mq_proc, mq_bytes_read, mq_detached, mq_ring, latch, workerVars, caller, found,
                 handleVars, force_flush, msg, len, available, receiver, consume_pending, expected,
                 written, buffer, historyVars>>

Fail(p) ==
  /\ pc[p] \in Returned \cup Sleeping
  /\ Go(p, "detach")
  /\ out' = IF p = R THEN [kind |-> "none"] ELSE out
  /\ UNCHANGED <<queueVars, latch, workerVars, caller, found, handleVars, sendVars, consume_pending,
                 expected, written, buffer, historyVars>>

(* The handle is gone, and with it the private state.                      *)
DetachInternal(p) ==
  /\ At(p, "detach")
  /\ mq_detached' = TRUE
  /\ Go(p, IF mq_proc[Other(p)] THEN "detach_latch" ELSE "exited")
  /\ attached' = [attached EXCEPT ![p] = FALSE]
  /\ length_complete' = [length_complete EXCEPT ![p] = FALSE]
  /\ partial' = [partial EXCEPT ![p] = 0]
  /\ nowait' = [nowait EXCEPT ![p] = FALSE] /\ found' = [found EXCEPT ![p] = FALSE]
  /\ IF p = S
     THEN /\ force_flush' = FALSE /\ len' = 0 /\ send_pending' = 0 /\ available' = 0 /\ receiver' = FALSE
          /\ UNCHANGED <<msg, receiveVars>>
     ELSE /\ consume_pending' = 0 /\ expected' = 0 /\ written' = 0 /\ buffer' = << >>
          /\ UNCHANGED <<out, sendVars>>
  /\ UNCHANGED <<mq_proc, mq_bytes_read, mq_bytes_written, mq_ring, latch, workerVars, caller,
                 historyVars>>

DetachLatch(p) ==
  /\ At(p, "detach_latch")
  /\ SetLatch(Other(p))
  /\ Go(p, "exited")
  /\ UNCHANGED <<queueVars, workerVars, caller, found, handleVars, sendVars, receiveVars, historyVars>>

(***************************************************************************)
(* shm_mq_wait_internal: wait until the counterparty has attached          *)
(***************************************************************************)

(* shm_mq_wait_for_attach, which a leader calls before it uses the queue.  *)
WaitForAttach(p) ==
  /\ At(p, "idle")
  /\ p # worker /\ caller[p] = "none"
  /\ caller' = [caller EXCEPT ![p] = "wait_for_attach"]
  /\ Go(p, "internal")
  /\ UNCHANGED <<queueVars, latch, workerVars, found, handleVars, sendVars, receiveVars, historyVars>>

InternalTest(p) ==
  /\ At(p, "internal")
  /\ found' = [found EXCEPT ![p] = mq_proc[Other(p)]]
  /\ Go(p, "internal_detached")
  /\ UNCHANGED <<queueVars, latch, workerVars, caller, handleVars, sendVars, receiveVars, historyVars>>

(* Fail if detached; else succeed if attached; fail if the worker is dead. *)
InternalDetached(p) ==
  /\ At(p, "internal_detached")
  /\ found' = [found EXCEPT ![p] = @ /\ ~mq_detached]
  /\ Go(p, IF mq_detached \/ found[p] \/ WorkerDead(p) THEN "internal_return" ELSE "internal_sleep")
  /\ UNCHANGED <<queueVars, latch, workerVars, caller, handleVars, sendVars, receiveVars, historyVars>>

InternalSleep(p) ==
  /\ At(p, "internal_sleep")
  /\ WaitLatch(p)
  /\ Go(p, "internal")
  /\ UNCHANGED <<queueVars, workerVars, caller, found, handleVars, sendVars, receiveVars, historyVars>>

(* shm_mq_wait_for_attach returns SUCCESS or DETACHED.                     *)
WaitForAttachReturns(p) ==
  /\ At(p, "internal_return") /\ caller[p] = "wait_for_attach"
  /\ Go(p, "idle")
  /\ UNCHANGED <<queueVars, latch, workerVars, caller, found, handleVars, sendVars, receiveVars,
                 historyVars>>

(***************************************************************************)
(* shm_mq_sendv, and shm_mq_send_bytes, which it calls for the length word *)
(* and for the message                                                     *)
(***************************************************************************)

(* Units the current call of shm_mq_send_bytes has yet to send.            *)
ToSend == IF length_complete[S] THEN len - partial[S] ELSE 1

Send ==
  \E l \in Length, n, f \in BOOLEAN :
    /\ At(S, "idle") /\ msg < MaxMsgs
    /\ msg' = msg + 1 /\ len' = l
    /\ nowait' = [nowait EXCEPT ![S] = n] /\ force_flush' = f
    /\ Go(S, "send")
    /\ UNCHANGED <<queueVars, latch, workerVars, caller, found, attached, length_complete, partial,
                   send_pending, available, receiver, receiveVars, historyVars>>

(* After WOULD_BLOCK the caller waits for its latch and calls again with   *)
(* the same arguments.                                                     *)
SendAgain ==
  /\ At(S, "would_block")
  /\ WaitLatch(S)
  /\ Go(S, "send")
  /\ UNCHANGED <<queueVars, workerVars, caller, found, handleVars, sendVars, receiveVars, historyVars>>

(* The state is reset in case the caller tries to send another message.    *)
SendReturnsDetached ==
  /\ partial' = [partial EXCEPT ![S] = 0]
  /\ length_complete' = [length_complete EXCEPT ![S] = FALSE]
  /\ Go(S, "send_return")

(* The whole message is in the ring: nothing of it is left to be sent.     *)
SendDone ==
  /\ At(S, "send") /\ ToSend = 0
  /\ partial' = [partial EXCEPT ![S] = 0]
  /\ length_complete' = [length_complete EXCEPT ![S] = FALSE]
  /\ Go(S, "send_finish")
  /\ UNCHANGED <<queueVars, latch, workerVars, caller, found, attached, nowait, sendVars, receiveVars,
                 historyVars>>

SendAvailable ==
  /\ At(S, "send") /\ ToSend > 0
  /\ available' = Min({RingSize - (mq_bytes_written + send_pending - mq_bytes_read), ToSend})
  /\ Go(S, "send_detached")
  /\ UNCHANGED <<queueVars, latch, workerVars, caller, found, handleVars, force_flush, msg, len,
                 send_pending, receiver, receiveVars, historyVars>>

SendDetached ==
  /\ At(S, "send_detached")
  /\ \/ /\ mq_detached
        /\ SendReturnsDetached
        /\ UNCHANGED caller
     \/ /\ ~mq_detached
        /\ Go(S, IF available > 0 THEN "send_copy"
                 ELSE IF attached[S] THEN "send_full"
                 ELSE IF nowait[S] THEN "send_gone" ELSE "internal")
        /\ caller' = [caller EXCEPT ![S] = "send"]
        /\ UNCHANGED <<partial, length_complete>>
  /\ UNCHANGED <<queueVars, latch, workerVars, found, attached, nowait, sendVars, receiveVars, historyVars>>

(* The ring is full and the receiver is not known to have attached.  With  *)
(* nowait: shm_mq_counterparty_gone, which may mark the queue detached ... *)
SendGone ==
  /\ At(S, "send_gone")
  /\ IF mq_detached \/ WorkerDead(S)
     THEN mq_detached' = TRUE /\ SendReturnsDetached
     ELSE Go(S, "send_get_receiver") /\ UNCHANGED <<mq_detached, partial, length_complete>>
  /\ UNCHANGED <<mq_proc, mq_bytes_read, mq_bytes_written, mq_ring, latch, workerVars, caller, found,
                 attached, nowait, sendVars, receiveVars, historyVars>>

(* ... and shm_mq_get_receiver.                                            *)
SendGetReceiver ==
  /\ At(S, "send_get_receiver")
  /\ attached' = [attached EXCEPT ![S] = mq_proc[R]]
  /\ Go(S, IF mq_proc[R] THEN "send" ELSE "would_block")
  /\ UNCHANGED <<queueVars, latch, workerVars, caller, found, length_complete, partial, nowait,
                 sendVars, receiveVars, historyVars>>

(* Without: wait for it.  The queue state is tested again.                 *)
SendAttached ==
  /\ At(S, "internal_return") /\ caller[S] = "send"
  /\ IF found[S]
     THEN /\ attached' = [attached EXCEPT ![S] = TRUE]
          /\ Go(S, "send")
          /\ UNCHANGED <<mq_detached, partial, length_complete>>
     ELSE mq_detached' = TRUE /\ SendReturnsDetached /\ UNCHANGED attached
  /\ UNCHANGED <<mq_proc, mq_bytes_read, mq_bytes_written, mq_ring, latch, workerVars, caller, found,
                 nowait, sendVars, receiveVars, historyVars>>

(* Mutant of SendFull: what is pending is not published before the sender  *)
(* waits for room.                                                         *)
SendFullKeepsPending ==
  /\ At(S, "send_full")
  /\ Go(S, "send_full_latch")
  /\ UNCHANGED <<queueVars, latch, workerVars, caller, found, handleVars, sendVars, receiveVars,
                 historyVars>>

(* The ring is full: publish what is pending, wake the receiver ...        *)
SendFull ==
  /\ At(S, "send_full")
  /\ mq_bytes_written' = mq_bytes_written + send_pending
  /\ send_pending' = 0
  /\ Go(S, "send_full_latch")
  /\ UNCHANGED <<mq_proc, mq_bytes_read, mq_detached, mq_ring, latch, workerVars, caller, found,
                 handleVars, force_flush, msg, len, available, receiver, receiveVars, historyVars>>

SendFullLatch ==
  /\ At(S, "send_full_latch")
  /\ SetLatch(R)
  /\ Go(S, IF nowait[S] THEN "would_block" ELSE "send_sleep")
  /\ UNCHANGED <<queueVars, workerVars, caller, found, handleVars, sendVars, receiveVars, historyVars>>

(* ... and wait.                                                           *)
SendSleep ==
  /\ At(S, "send_sleep")
  /\ WaitLatch(S)
  /\ Go(S, "send")
  /\ UNCHANGED <<queueVars, workerVars, caller, found, handleVars, sendVars, receiveVars, historyVars>>

(* Copy up to the end of the ring.                                         *)
SendCopy ==
  LET wb      == mq_bytes_written + send_pending
      offset  == wb % RingSize
      sendnow == Min({available, RingSize - offset})
      first   == IF length_complete[S] THEN partial[S] + 1 ELSE 0
      cells   == [j \in 1..sendnow |-> [msg |-> msg, part |-> first + j - 1, len |-> len]]
  IN  /\ At(S, "send_copy")
      /\ mq_ring' = [o \in DOMAIN mq_ring |->
                       IF o \in offset..offset + sendnow - 1 THEN cells[o - offset + 1] ELSE mq_ring[o]]
      /\ stream' = stream \o cells
      /\ send_pending' = send_pending + sendnow
      /\ partial' = [partial EXCEPT ![S] = IF length_complete[S] THEN @ + sendnow ELSE 0]
      /\ length_complete' = [length_complete EXCEPT ![S] = TRUE]
      /\ Go(S, "send")
      /\ UNCHANGED <<mq_proc, mq_bytes_read, mq_bytes_written, mq_detached, latch, workerVars, caller,
                     found, attached, nowait, force_flush, msg, len, available, receiver, receiveVars,
                     delivered, ended, missed>>

(* If the queue has been detached, let the caller know.                    *)
SendFinish ==
  /\ At(S, "send_finish")
  /\ Go(S, IF mq_detached THEN "send_return" ELSE "send_receiver")
  /\ UNCHANGED <<queueVars, latch, workerVars, caller, found, handleVars, sendVars, receiveVars,
                 historyVars>>

(* Is there a receiver?  Unless it is known to have attached, ask.         *)
SendReceiver ==
  /\ At(S, "send_receiver")
  /\ receiver' = mq_proc[R]
  /\ attached' = [attached EXCEPT ![S] = mq_proc[R]]
  /\ Go(S, "send_publish")
  /\ UNCHANGED <<queueVars, latch, workerVars, caller, found, length_complete, partial, nowait,
                 force_flush, msg, len, send_pending, available, receiveVars, historyVars>>

(* Publish if that was asked for, or if more than a quarter of the ring is *)
(* pending; the receiver is woken if there was one.                        *)
SendPublish ==
  /\ At(S, "send_publish")
  /\ IF force_flush \/ send_pending * 4 > RingSize
     THEN /\ mq_bytes_written' = mq_bytes_written + send_pending
          /\ send_pending' = 0
          /\ missed' = (missed \/ (~receiver /\ mq_proc[R]))
          /\ Go(S, IF receiver THEN "send_latch" ELSE "send_return")
     ELSE Go(S, "send_return") /\ UNCHANGED <<mq_bytes_written, send_pending, missed>>
  /\ UNCHANGED <<mq_proc, mq_bytes_read, mq_detached, mq_ring, latch, workerVars, caller, found,
                 handleVars, force_flush, msg, len, available, receiver, receiveVars, stream,
                 delivered, ended>>

SendLatch ==
  /\ At(S, "send_latch")
  /\ SetLatch(R)
  /\ Go(S, "send_return")
  /\ UNCHANGED <<queueVars, workerVars, caller, found, handleVars, sendVars, receiveVars, historyVars>>

(* SUCCESS or DETACHED; the arguments and locals are gone.                 *)
SendReturn ==
  /\ At(S, "send_return")
  /\ Go(S, "idle")
  /\ nowait' = [nowait EXCEPT ![S] = FALSE] /\ found' = [found EXCEPT ![S] = FALSE]
  /\ force_flush' = FALSE /\ len' = 0 /\ available' = 0 /\ receiver' = FALSE
  /\ UNCHANGED <<queueVars, latch, workerVars, caller, attached, length_complete, partial, msg,
                 send_pending, receiveVars, historyVars>>

(***************************************************************************)
(* shm_mq_receive                                                          *)
(***************************************************************************)

(* What was returned before is no longer valid.  The call is the first, or *)
(* repeats one that returned WOULD_BLOCK, after the latch was set.         *)
Receive ==
  \E n \in BOOLEAN :
    /\ \/ At(R, "idle") /\ ~ended /\ UNCHANGED latch
       \/ At(R, "would_block") /\ WaitLatch(R)
    /\ nowait' = [nowait EXCEPT ![R] = n]
    /\ out' = [kind |-> "none"]
    /\ caller' = [caller EXCEPT ![R] = "receive"]
    /\ Go(R, IF attached[R] THEN "receive_consume" ELSE IF n THEN "receive_gone" ELSE "internal")
    /\ UNCHANGED <<queueVars, workerVars, found, attached, length_complete, partial, sendVars,
                   consume_pending, expected, written, buffer, historyVars>>

ReceiveReturnsDetached == ended' = TRUE /\ Go(R, "receive_return")

(* nowait: first find out if the sender is gone ...                        *)
ReceiveGone ==
  /\ At(R, "receive_gone")
  /\ found' = [found EXCEPT ![R] = mq_detached \/ WorkerDead(R)]
  /\ mq_detached' = (mq_detached \/ WorkerDead(R))
  /\ Go(R, "receive_get_sender")
  /\ UNCHANGED <<mq_proc, mq_bytes_read, mq_bytes_written, mq_ring, latch, workerVars, caller,
                 handleVars, sendVars, receiveVars, historyVars>>

(* ... and only then if it ever attached.                                  *)
ReceiveGetSender ==
  /\ At(R, "receive_get_sender")
  /\ attached' = [attached EXCEPT ![R] = mq_proc[S]]
  /\ IF mq_proc[S] THEN Go(R, "receive_consume") /\ UNCHANGED ended
     ELSE IF found[R] THEN ReceiveReturnsDetached
     ELSE Go(R, "would_block") /\ UNCHANGED ended
  /\ UNCHANGED <<queueVars, latch, workerVars, caller, found, length_complete, partial, nowait,
                 sendVars, receiveVars, stream, delivered, missed>>

(* The wait for the sender is over.  If it failed, the sender may still    *)
(* have attached, and have left messages.                                  *)
ReceiveAttached ==
  /\ At(R, "internal_return") /\ caller[R] = "receive"
  /\ IF found[R] \/ mq_proc[S]
     THEN /\ attached' = [attached EXCEPT ![R] = TRUE]
          /\ Go(R, "receive_consume")
          /\ UNCHANGED mq_detached
     ELSE mq_detached' = TRUE /\ Go(R, "receive_end") /\ UNCHANGED attached
  /\ UNCHANGED <<mq_proc, mq_bytes_read, mq_bytes_written, mq_ring, latch, workerVars, caller, found,
                 length_complete, partial, nowait, sendVars, receiveVars, historyVars>>

ReceiveEnd ==
  /\ At(R, "receive_end")
  /\ ReceiveReturnsDetached
  /\ UNCHANGED <<queueVars, latch, workerVars, caller, found, handleVars, sendVars, receiveVars,
                 stream, delivered, missed>>

(* shm_mq_inc_bytes_read, and the latch of the sender.                     *)
IncBytesRead(label) ==
  /\ mq_bytes_read' = mq_bytes_read + consume_pending
  /\ consume_pending' = 0
  /\ Go(R, label)

(* More than a quarter of the ring was consumed: tell the sender.          *)
ReceiveConsume ==
  /\ At(R, "receive_consume")
  /\ IF consume_pending * 4 > RingSize
     THEN IncBytesRead("receive_consume_latch")
     ELSE Go(R, "receive") /\ UNCHANGED <<mq_bytes_read, consume_pending>>
  /\ UNCHANGED <<mq_proc, mq_bytes_written, mq_detached, mq_ring, latch, workerVars, caller, found,
                 handleVars, sendVars, expected, written, buffer, out, historyVars>>

ReceiveConsumeLatch ==
  /\ At(R, "receive_consume_latch")
  /\ SetLatch(S)
  /\ Go(R, "receive")
  /\ UNCHANGED <<queueVars, workerVars, caller, found, handleVars, sendVars, receiveVars, historyVars>>

(* bytes_needed of shm_mq_receive_bytes: the length word, the message, or  *)
(* what is missing of it.                                                  *)
Needed == IF length_complete[R] THEN expected - partial[R] ELSE 1

ReadPos == mq_bytes_read + consume_pending
ReadOffset == ReadPos % RingSize

(* There is enough data, or the data goes up to the end of the ring.       *)
Enough(w) == w - ReadPos >= Needed \/ ReadOffset + (w - ReadPos) >= RingSize

ReceiveBytes ==
  /\ At(R, "receive")
  /\ written' = mq_bytes_written
  /\ Go(R, IF Enough(mq_bytes_written) THEN "receive_got" ELSE "receive_detached")
  /\ UNCHANGED <<queueVars, latch, workerVars, caller, found, handleVars, sendVars, consume_pending,
                 expected, buffer, out, historyVars>>

ReceiveDetached ==
  /\ At(R, "receive_detached")
  /\ Go(R, IF mq_detached THEN "receive_recheck"
           ELSE IF consume_pending > 0 THEN "receive_read"
           ELSE IF nowait[R] THEN "would_block" ELSE "receive_sleep")
  /\ UNCHANGED <<queueVars, latch, workerVars, caller, found, handleVars, sendVars, receiveVars,
                 historyVars>>

(* Mutant of ReceiveRecheck: the queue is detached, nothing can come.      *)
NoRecheck ==
  /\ At(R, "receive_recheck")
  /\ ReceiveReturnsDetached
  /\ UNCHANGED <<queueVars, latch, workerVars, caller, found, handleVars, sendVars, receiveVars,
                 stream, delivered, missed>>

(* The sender may have written after the counter was read, and detached    *)
(* before the flag was.                                                    *)
ReceiveRecheck ==
  /\ At(R, "receive_recheck")
  /\ IF written # mq_bytes_written THEN Go(R, "receive") /\ UNCHANGED ended
                                   ELSE ReceiveReturnsDetached
  /\ UNCHANGED <<queueVars, latch, workerVars, caller, found, handleVars, sendVars, receiveVars,
                 stream, delivered, missed>>

(* Not enough: make room for the sender, and wait.                         *)
ReceiveRead ==
  /\ At(R, "receive_read")
  /\ IncBytesRead("receive_read_latch")
  /\ UNCHANGED <<mq_proc, mq_bytes_written, mq_detached, mq_ring, latch, workerVars, caller, found,
                 handleVars, sendVars, expected, written, buffer, out, historyVars>>

(* Mutant of ReceiveReadLatch: the sender is not told.                     *)
ReceiveReadSilently ==
  /\ At(R, "receive_read_latch")
  /\ Go(R, IF nowait[R] THEN "would_block" ELSE "receive_sleep")
  /\ UNCHANGED <<queueVars, latch, workerVars, caller, found, handleVars, sendVars, receiveVars,
                 historyVars>>

ReceiveReadLatch ==
  /\ At(R, "receive_read_latch")
  /\ SetLatch(S)
  /\ Go(R, IF nowait[R] THEN "would_block" ELSE "receive_sleep")
  /\ UNCHANGED <<queueVars, workerVars, caller, found, handleVars, sendVars, receiveVars, historyVars>>

ReceiveSleep ==
  /\ At(R, "receive_sleep")
  /\ WaitLatch(R)
  /\ Go(R, "receive")
  /\ UNCHANGED <<queueVars, workerVars, caller, found, handleVars, sendVars, receiveVars, historyVars>>

(* Units that can be read at ReadOffset without wrapping around.           *)
Contiguous == Min({written - ReadPos, RingSize - ReadOffset})

(* The length word is there.  With the whole message after it, that is     *)
(* returned as a pointer into the ring.                                    *)
GotLengthWord ==
  LET nbytes == mq_ring[ReadOffset].len
      whole  == Contiguous >= 1 + nbytes
  IN  /\ At(R, "receive_got") /\ ~length_complete[R]
      /\ consume_pending' = consume_pending + (IF whole THEN 1 + nbytes ELSE 1)
      /\ IF whole
         THEN /\ out' = [kind |-> "pointer", at |-> ReadPos + 1, len |-> nbytes]
              /\ delivered' = delivered + 1
              /\ Go(R, "receive_return")
              /\ UNCHANGED <<expected, length_complete>>
         ELSE /\ expected' = nbytes
              /\ length_complete' = [length_complete EXCEPT ![R] = TRUE]
              /\ Go(R, "receive")
              /\ UNCHANGED <<out, delivered>>
      /\ UNCHANGED <<queueVars, latch, workerVars, caller, found, attached, partial, nowait, sendVars,
                     written, buffer, stream, ended, missed>>

(* Mutant of GotMessage: the length word is counted again.                 *)
GotMessageAndLengthWord ==
  /\ At(R, "receive_got") /\ length_complete[R] /\ partial[R] = 0
  /\ Contiguous >= expected
  /\ length_complete' = [length_complete EXCEPT ![R] = FALSE]
  /\ consume_pending' = consume_pending + 1 + expected
  /\ out' = [kind |-> "pointer", at |-> ReadPos, len |-> expected]
  /\ delivered' = delivered + 1
  /\ Go(R, "receive_return")
  /\ UNCHANGED <<queueVars, latch, workerVars, caller, found, attached, partial, nowait, sendVars,
                 expected, written, buffer, stream, ended, missed>>

(* The whole message is there in one piece: again a pointer.               *)
GotMessage ==
  /\ At(R, "receive_got") /\ length_complete[R] /\ partial[R] = 0
  /\ Contiguous >= expected
  /\ length_complete' = [length_complete EXCEPT ![R] = FALSE]
  /\ consume_pending' = consume_pending + expected
  /\ out' = [kind |-> "pointer", at |-> ReadPos, len |-> expected]
  /\ delivered' = delivered + 1
  /\ Go(R, "receive_return")
  /\ UNCHANGED <<queueVars, latch, workerVars, caller, found, attached, partial, nowait, sendVars,
                 expected, written, buffer, stream, ended, missed>>

(* A part of it is there: copy it.  The last part completes the message.   *)
GotPart ==
  LET rb   == Min({Contiguous, Needed})
      copy == [j \in 1..rb |-> mq_ring[(ReadPos + j - 1) % RingSize]]
      last == partial[R] + rb >= expected
  IN  /\ At(R, "receive_got") /\ length_complete[R]
      /\ partial[R] > 0 \/ Contiguous < expected
      /\ consume_pending' = consume_pending + rb
      /\ partial' = [partial EXCEPT ![R] = IF last THEN 0 ELSE @ + rb]
      /\ length_complete' = [length_complete EXCEPT ![R] = ~last]
      /\ IF last
         THEN /\ out' = [kind |-> "buffer", data |-> buffer \o copy]
              /\ buffer' = << >>
              /\ delivered' = delivered + 1
              /\ Go(R, "receive_return")
         ELSE buffer' = buffer \o copy /\ Go(R, "receive") /\ UNCHANGED <<out, delivered>>
      /\ UNCHANGED <<queueVars, latch, workerVars, caller, found, attached, nowait, sendVars,
                     expected, written, stream, ended, missed>>

ReceiveReturn ==
  /\ At(R, "receive_return")
  /\ Go(R, "idle")
  /\ nowait' = [nowait EXCEPT ![R] = FALSE] /\ found' = [found EXCEPT ![R] = FALSE]
  /\ written' = 0 /\ expected' = IF length_complete[R] THEN expected ELSE 0
  /\ UNCHANGED <<queueVars, latch, workerVars, caller, attached, length_complete, partial, sendVars,
                 consume_pending, buffer, out, historyVars>>

-----------------------------------------------------------------------------
WaitInternal(p) == InternalTest(p) \/ InternalDetached(p) \/ InternalSleep(p) \/ WaitForAttachReturns(p)

shm_mq_sendv ==
  \/ SendAgain \/ SendDone \/ SendAvailable \/ SendDetached \/ SendGone \/ SendGetReceiver
  \/ SendAttached \/ SendFull \/ SendFullLatch \/ SendSleep \/ SendCopy
  \/ SendFinish \/ SendReceiver \/ SendPublish \/ SendLatch \/ SendReturn

shm_mq_receive ==
  \/ ReceiveGone \/ ReceiveGetSender \/ ReceiveAttached \/ ReceiveEnd
  \/ ReceiveConsume \/ ReceiveConsumeLatch \/ ReceiveBytes \/ ReceiveDetached \/ ReceiveRecheck
  \/ ReceiveRead \/ ReceiveReadLatch \/ ReceiveSleep
  \/ GotLengthWord \/ GotMessage \/ GotPart \/ ReceiveReturn

Leave(p) == DetachInternal(p) \/ DetachLatch(p)

Postmaster == StartWorker \/ WorkerFails \/ WorkerStops \/ NotifyLeader

Next ==
  \/ Postmaster \/ Attach \/ AttachLatch
  \/ Send \/ shm_mq_sendv \/ Receive \/ shm_mq_receive
  \/ \E p \in Party : WaitForAttach(p) \/ WaitInternal(p) \/ Detach(p) \/ Fail(p) \/ Leave(p)

Spec == Init /\ [][Next]_vars

(* A process goes on with what it has begun; the sender sends or detaches, *)
(* the receiver receives or detaches; the postmaster does its work.  No    *)
(* process has to fail, to wait for the other one to attach, or to give up *)
(* after WOULD_BLOCK.                                                      *)
Fairness ==
  /\ WF_vars(StartWorker \/ WorkerFails) /\ WF_vars(WorkerStops) /\ WF_vars(NotifyLeader)
  /\ WF_vars(Attach \/ AttachLatch)
  /\ WF_vars(shm_mq_sendv \/ Send \/ (At(S, "idle") /\ Detach(S)))
  /\ WF_vars(shm_mq_receive \/ Receive \/ (At(R, "idle") /\ Detach(R)))
  /\ \A p \in Party : WF_vars(WaitInternal(p)) /\ WF_vars(Leave(p))

FairSpec == Spec /\ Fairness

-----------------------------------------------------------------------------
Label == {"unborn", "attach", "attach_latch", "idle", "would_block", "detach", "detach_latch", "exited",
          "internal", "internal_detached", "internal_sleep", "internal_return",
          "send", "send_detached", "send_gone", "send_get_receiver", "send_full", "send_full_latch",
          "send_sleep", "send_copy", "send_finish", "send_receiver", "send_publish", "send_latch",
          "send_return", "receive_return",
          "receive_gone", "receive_get_sender", "receive_end", "receive_consume",
          "receive_consume_latch", "receive", "receive_detached", "receive_recheck", "receive_read",
          "receive_read_latch", "receive_sleep", "receive_got"}

(* Every variable has its type; what is pending fits into the ring.        *)
TypeOK ==
  /\ mq_proc \in [Party -> BOOLEAN] /\ mq_detached \in BOOLEAN /\ latch \in [Party -> BOOLEAN]
  /\ mq_bytes_read \in Nat /\ mq_bytes_written \in Nat
  /\ mq_ring \in [0..RingSize - 1 -> Cell]
  /\ worker \in Party /\ handle \in BOOLEAN /\ notify \in BOOLEAN
  /\ status \in {"not_yet_started", "started", "stopped"}
  /\ pc \in [Party -> Label]
  /\ caller \in [Party -> {"none", "wait_for_attach", "send", "receive"}]
  /\ found \in [Party -> BOOLEAN] /\ attached \in [Party -> BOOLEAN]
  /\ length_complete \in [Party -> BOOLEAN] /\ nowait \in [Party -> BOOLEAN]
  /\ partial \in [Party -> Nat]
  /\ force_flush \in BOOLEAN /\ receiver \in BOOLEAN
  /\ msg \in 0..MaxMsgs /\ len \in Length \cup {0}
  /\ send_pending \in 0..RingSize /\ available \in 0..RingSize /\ consume_pending \in 0..RingSize
  /\ expected \in Length \cup {0} /\ written \in Nat
  /\ buffer \in Seq(Cell) /\ stream \in Seq(Cell)
  /\ delivered \in 0..MaxMsgs /\ ended \in BOOLEAN /\ missed \in BOOLEAN

(* The data that the receiver has not yet marked as read, published or     *)
(* not, is in the ring as it was written: the sender never writes where    *)
(* the receiver has not given license to, and the assertions about used    *)
(* hold.  Every variable has its type.                                     *)
UnreadIntact ==
  LET wb == mq_bytes_written + send_pending
  IN  /\ TypeOK
      /\ mq_bytes_read + consume_pending <= mq_bytes_written
      /\ wb - mq_bytes_read <= RingSize
      /\ \A x \in mq_bytes_read..wb - 1 : mq_ring[x % RingSize] = stream[x + 1]

(* A message is under way when its last part is published; its content is  *)
(* the cells that were written for it.                                     *)
Complete ==
  {k \in 1..MaxMsgs : \E x \in 1..mq_bytes_written : stream[x].msg = k /\ stream[x].part = stream[x].len}
Content(k) == SelectSeq(stream, LAMBDA c : c.msg = k /\ c.part > 0)

(* What the receiver was given, as it reads it now: a pointer into the     *)
(* ring is followed at every moment.                                       *)
ReturnedMessage ==
  CASE out.kind = "none"    -> Nothing
    [] out.kind = "pointer" -> <<[j \in 1..out.len |-> mq_ring[(out.at + j - 1) % RingSize]]>>
    [] out.kind = "buffer"  -> <<out.data>>

Channel == INSTANCE MsgChannel WITH
  chan   <- [j \in 1..Cardinality(Complete) - delivered |-> <<Content(delivered + j)>>],
  got    <- ReturnedMessage,
  closed <- mq_detached

(* The queue implements the channel of MsgChannel: messages arrive whole   *)
(* and in order, through wraparound, partial sends and receives and        *)
(* delayed publication; the memory a returned pointer leads to stays       *)
(* untouched until the next call; and SHM_MQ_DETACHED is returned to the   *)
(* receiver only after it has received every message that was published    *)
(* before the sender detached.                                             *)
ChannelSpec == Channel!Spec

(* Somebody is about to set the latch of p.                                *)
LatchComing(p) ==
  \/ pc[Other(p)] \in {"attach_latch", "detach", "detach_latch"}
  \/ p = S /\ pc[R] \in {"receive_consume_latch", "receive_read_latch"}
  \/ p = R /\ pc[S] \in {"send_latch", "send_full_latch"}
  \/ p # worker /\ notify

Waits(p) == pc[p] \in Sleeping \cup {"would_block"} /\ ~latch[p] /\ ~LatchComing(p)

(* A party that waits for its latch, in the queue or after WOULD_BLOCK,    *)
(* has nothing to do: the counterparty has not attached, detached or died, *)
(* and there is neither room for the sender nor data for the receiver it   *)
(* has not looked at, unless data was published past a receiver that had   *)
(* attached after the sender asked for it, which breaks the promise of     *)
(* shm_mq_receive: "The sender will set our process latch after more data  *)
(* has been written, and we'll resume processing."                         *)
NoLostWakeup ==
  /\ \A p \in Party : Waits(p) => ~mq_detached
  /\ \A p \in Party :
       Waits(p) /\ (pc[p] = "internal_sleep" \/ ~attached[p]) =>
         ~mq_proc[Other(p)] /\ ~WorkerDead(p)
  /\ Waits(S) /\ attached[S] => mq_bytes_written + send_pending - mq_bytes_read = RingSize
  /\ Waits(R) /\ attached[R] /\ ~missed => mq_bytes_written = written

InCall(p) == pc[p] \notin {"unborn", "attach", "attach_latch", "idle", "detach", "detach_latch", "exited"}

(* Without a handle nobody finds out that the worker will not come.        *)
Orphaned == ~handle /\ status = "stopped" /\ ~mq_proc[worker]

(* Every call returns, if the other party goes on with its own calls or    *)
(* detaches, or if the leader has a handle and the worker fails.           *)
CallsReturn == \A p \in Party : InCall(p) ~> ~InCall(p) \/ Orphaned
=============================================================================
