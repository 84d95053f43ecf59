---------------------------- MODULE ShmMqProofs -----------------------------
(***************************************************************************)
(* Proofs about ShmMq for any size of the ring, any lengths and any number *)
(* of messages: what the receiver has not read is never overwritten and is *)
(* read at the boundaries of messages, and a party that waits for its      *)
(* latch has nothing to do.                                                *)
(***************************************************************************)
EXTENDS ShmMq, TLAPS

(* Labels of shm_mq_wait_internal, of a call of shm_mq_sendv before and    *)
(* after the message is in the ring, and of shm_mq_receive.                *)
Internal  == {"internal", "internal_detached", "internal_sleep", "internal_return"}
Joining   == {"unborn", "attach", "attach_latch"}
Leaving   == {"detach", "detach_latch", "exited"}
Sending   == {"would_block", "send", "send_detached", "send_gone", "send_get_receiver",
              "send_full", "send_full_latch", "send_sleep", "send_copy"}
Sent      == {"send_finish", "send_receiver", "send_publish", "send_latch", "send_return"}
Receiving == {"receive_consume", "receive_consume_latch", "receive", "receive_detached",
              "receive_recheck", "receive_read", "receive_read_latch", "receive_sleep",
              "receive_got"}
Asked     == {"send_copy", "send_gone", "send_get_receiver", "send_finish", "send_receiver",
              "send_publish", "send_latch"}
LabelsOf(p) ==
  Internal \cup Joining \cup Leaving \cup {"idle", "would_block"} \cup
    (IF p = S THEN Sending \cup Sent
              ELSE Receiving \cup {"receive_gone", "receive_get_sender", "receive_end",
                                   "receive_return"})

(* Where the parties are, and what they know of each other there.          *)
ControlInv ==
  /\ \A p \in Party : pc[p] \in LabelsOf(p)
  /\ \A p \in Party : pc[p] \in Joining => p = worker
  /\ \A p \in Party : pc[p] \notin {"unborn", "attach", "exited"} => mq_proc[p]
  /\ status = "stopped" => pc[worker] = "exited"
  /\ \A p \in Party : pc[p] \in Internal \/ caller[p] = "none" => ~attached[p]
  /\ pc[S] \in {"send_full", "send_full_latch", "send_sleep"} => attached[S]
  /\ pc[R] \in Receiving => attached[R]
  /\ pc[S] \in Asked \/ length_complete[S] => caller[S] # "none"
  /\ pc[R] \in {"receive_gone", "receive_get_sender"} => caller[R] # "none"
  /\ \A p \in Party : pc[p] = "internal_return" /\ ~found[p] => mq_detached \/ WorkerDead(p)

(* Positions in the stream: the receiver's, the published end, the end.    *)
End == mq_bytes_written + send_pending

PositionInv ==
  /\ ReadPos <= mq_bytes_written
  /\ End <= mq_bytes_read + RingSize
  /\ End <= Len(stream)
  /\ pc[S] \notin {"detach_latch", "exited"} => Len(stream) = End
  /\ \A x \in mq_bytes_read..End - 1 : mq_ring[x % RingSize] = stream[x + 1]
  /\ written <= mq_bytes_written
  /\ pc[R] = "receive_got" => ReadPos <= written /\ Enough(written)

(* A message is being sent, and is not complete in the ring.               *)
InMessage == pc[S] \in Sending \/ (pc[S] \in Internal /\ caller[S] = "send")

(* The sender's view of the room is at most what there is.                 *)
RoomInv ==
  /\ length_complete[S] => partial[S] <= len /\ (InMessage \/ pc[S] = "detach")
  /\ ~length_complete[S] => partial[S] = 0
  /\ pc[S] \in {"send_detached", "send_copy"} =>
       available <= ToSend /\ End + available <= mq_bytes_read + RingSize
  /\ pc[S] \in {"send_detached", "send_copy"} => ToSend > 0
  /\ pc[S] = "send_copy" => available > 0

(* The stream is made of messages, numbered one after the other: after a   *)
(* length word come the parts of the message, in order.                    *)
FormatInv ==
  LET n == Len(stream)
  IN  /\ \A x \in 1..n :
           /\ stream[x].msg \in 1..msg /\ stream[x].len \in Length
           /\ stream[x].part <= stream[x].len
      /\ \A x, y \in 1..n :
           x <= y /\ stream[x].part + (y - x) <= stream[x].len =>
             stream[y] = [msg |-> stream[x].msg, part |-> stream[x].part + (y - x),
                          len |-> stream[x].len]
      /\ \A x, y \in 1..n :
           y = x + 1 /\ stream[x].part = stream[x].len =>
             stream[y].part = 0 /\ stream[y].msg = stream[x].msg + 1
      /\ n > 0 => stream[1].part = 0 /\ stream[1].msg = 1

(* The cells before a position end with message number k.                  *)
EndsMessage(x, k) ==
  \/ x = 0 /\ k = 0
  \/ x > 0 /\ stream[x].part = stream[x].len /\ stream[x].msg = k

(* While more can be sent, the sender knows where it is in the message.    *)
SenderInv ==
  /\ InMessage => len \in Length /\ msg > 0
  /\ length_complete[S] => len \in Length
  /\ pc[S] = "send_copy" \/ (~mq_detached /\ pc[S] \notin Leaving) =>
       IF length_complete[S]
       THEN InMessage /\ Len(stream) > 0
            /\ stream[Len(stream)] = [msg |-> msg, part |-> partial[S], len |-> len]
       ELSE EndsMessage(Len(stream), IF InMessage THEN msg - 1 ELSE msg)

(* And the receiver, which reads at the boundaries of messages.            *)
ReceiverInv ==
  pc[R] \notin {"detach_latch", "exited"} =>
    IF length_complete[R]
    THEN /\ ReadPos > 0 /\ partial[R] < expected
         /\ stream[ReadPos] = [msg |-> delivered + 1, part |-> partial[R], len |-> expected]
    ELSE partial[R] = 0 /\ EndsMessage(ReadPos, delivered)

(* The latch of p is set, or is about to be.                               *)
Pinged(p) == latch[p] \/ LatchComing(p)

(* What p has found before it waits: the queue is not detached, the        *)
(* counterparty has not attached, it may still do so, the ring is full, or *)
(* there is no more data than it has seen.                                 *)
SawAttached(p) ==
  \/ pc[p] \in Sleeping \cup {"would_block", "send_full", "send_full_latch", "receive_read",
                              "receive_read_latch", "send_get_receiver"}
  \/ pc[p] = "receive_get_sender" /\ ~found[p]
SawNobody(p) ==
  \/ pc[p] = "internal_detached" /\ ~found[p]
  \/ pc[p] = "internal_sleep"
  \/ pc[p] = "would_block" /\ ~attached[p]
SawAlive(p) ==
  \/ pc[p] \in {"internal_sleep", "send_get_receiver"}
  \/ pc[p] = "receive_get_sender" /\ ~found[p]
  \/ pc[p] = "would_block" /\ ~attached[p]
SawFull ==
  \/ pc[S] = "send_detached" /\ available = 0
  \/ pc[S] \in {"send_full", "send_full_latch", "send_sleep"}
  \/ pc[S] = "would_block" /\ attached[S]
SawAll ==
  \/ pc[R] \in {"receive_detached", "receive_read", "receive_read_latch", "receive_sleep"}
  \/ pc[R] = "would_block" /\ attached[R]

(* It is still so, or whoever has changed it sets the latch of p.          *)
WakeInv ==
  /\ \A p \in Party : SawAttached(p) => ~mq_detached \/ Pinged(p)
  /\ \A p \in Party : SawNobody(p) => ~mq_proc[Other(p)] \/ Pinged(p)
  /\ \A p \in Party : SawAlive(p) => ~WorkerDead(p) \/ Pinged(p)
  /\ SawFull => End = mq_bytes_read + RingSize \/ Pinged(S)
  /\ SawAll => mq_bytes_written = written \/ missed \/ Pinged(R)

IInv ==
  /\ TypeOK /\ ControlInv /\ PositionInv /\ RoomInv /\ FormatInv /\ SenderInv /\ ReceiverInv
  /\ WakeInv

-----------------------------------------------------------------------------
(* Numbers                                                                 *)

(* Quotient and remainder.                                                 *)
LEMMA ModDef ==
  ASSUME NEW d \in Nat \ {0}, NEW x \in Nat
  PROVE  x % d \in 0..d - 1 /\ x \div d \in Nat /\ x = d * (x \div d) + (x % d)
<1>1. x % d \in 0..d - 1
  OBVIOUS
<1>2. x \div d \in Nat
  OBVIOUS
<1>3. x = d * (x \div d) + (x % d)
  OBVIOUS
<1> QED
  BY <1>1, <1>2, <1>3

(* Numbers that are less than d apart have different places in a ring.     *)
LEMMA ModDifferent ==
  ASSUME NEW d \in Nat \ {0}, NEW x \in Nat, NEW y \in Nat, x < y, y < x + d
  PROVE  x % d # y % d
<1>0. PICK a \in Nat, r \in 0..d - 1 : r = x % d /\ x = d * a + r
  BY ModDef
<1>1. PICK b \in Nat, q \in 0..d - 1 : q = y % d /\ y = d * b + q
  BY ModDef
<1>2. SUFFICES ASSUME r = q
               PROVE  FALSE
  BY <1>0, <1>1
<1>3. d * (b - a) = y - x
  <2>1. d * (b - a) = d * b - d * a
    OBVIOUS
  <2> QED
    BY <1>0, <1>1, <1>2, <2>1
<1>4. CASE b - a >= 1
  <2>1. d * (b - a) >= d
    BY <1>4
  <2> QED
    BY <1>3, <2>1
<1>5. CASE b - a <= 0
  <2>1. d * (b - a) <= 0
    BY <1>5
  <2> QED
    BY <1>3, <2>1
<1> QED
  BY <1>4, <1>5

(* Up to the end of the ring places follow each other.                     *)
LEMMA ModContiguous ==
  ASSUME NEW d \in Nat \ {0}, NEW x \in Nat, NEW k \in Nat, (x % d) + k < d
  PROVE  (x + k) % d = (x % d) + k
<1>1. PICK a \in Nat, r \in 0..d - 1 : a = x \div d /\ r = x % d /\ x = d * a + r
  BY ModDef
<1>2. PICK y \in Nat : y = x + k
  OBVIOUS
<1>3. PICK b \in Nat, q \in 0..d - 1 : b = y \div d /\ q = y % d /\ y = d * b + q
  BY ModDef
<1>4. d * (b - a) = (r + k) - q
  <2>1. d * (b - a) = d * b - d * a
    OBVIOUS
  <2>2. PICK da, db \in Int : da = d * a /\ db = d * b
    OBVIOUS
  <2>3. x = da + r /\ y = db + q
    BY <1>1, <1>3, <2>2
  <2>4. db - da = (r + k) - q
    BY <1>2, <2>3
  <2> QED
    BY <2>1, <2>2, <2>4
<1>5. r + k \in 0..d - 1
  BY <1>1
<1>6. CASE b - a >= 1
  <2>1. d * (b - a) >= d
    BY <1>6
  <2> QED
    BY <1>4, <1>5, <2>1
<1>7. CASE b - a <= -1
  <2>1. d * (b - a) <= -d
    BY <1>7
  <2> QED
    BY <1>4, <1>5, <2>1
<1>8. CASE b - a = 0
  <2>1. d * (b - a) = 0
    BY <1>8
  <2>2. r + k = q
    BY <1>4, <2>1
  <2> QED
    BY <1>1, <1>2, <1>3, <2>2
<1> QED
  BY <1>6, <1>7, <1>8

(* The smaller of two numbers.                                             *)
LEMMA MinOfTwo ==
  ASSUME NEW a \in Int, NEW b \in Int
  PROVE  /\ Min({a, b}) = a \/ Min({a, b}) = b
         /\ Min({a, b}) <= a /\ Min({a, b}) <= b
<1>1. \E x \in {a, b} : \A y \in {a, b} : x <= y
  BY SMT
<1>2. /\ Min({a, b}) \in {a, b}
      /\ \A y \in {a, b} : Min({a, b}) <= y
  BY <1>1 DEF Min
<1> QED
  BY <1>2

-----------------------------------------------------------------------------
(* What happens, by actor: the worker before and after its calls and the   *)
(* postmaster, the sender, the receiver, and either party.                 *)
WorkerAct ==
  \/ StartWorker \/ Attach \/ AttachLatch \/ WorkerFails \/ WorkerStops \/ NotifyLeader

SenderAct ==
  \/ Send \/ SendAgain \/ SendDone \/ SendAvailable \/ SendDetached \/ SendGone
  \/ SendGetReceiver \/ SendAttached \/ SendFull \/ SendFullLatch \/ SendSleep \/ SendCopy
  \/ SendFinish \/ SendReceiver \/ SendPublish \/ SendLatch \/ SendReturn

ReceiverAct ==
  \/ Receive \/ ReceiveGone \/ ReceiveGetSender \/ ReceiveAttached \/ ReceiveEnd
  \/ ReceiveConsume \/ ReceiveConsumeLatch \/ ReceiveBytes \/ ReceiveDetached
  \/ ReceiveRecheck \/ ReceiveRead \/ ReceiveReadLatch \/ ReceiveSleep \/ GotLengthWord
  \/ GotMessage \/ GotPart \/ ReceiveReturn

PartyAct(p) ==
  \/ WaitForAttach(p) \/ InternalTest(p) \/ InternalDetached(p) \/ InternalSleep(p)
  \/ WaitForAttachReturns(p) \/ Detach(p) \/ Fail(p) \/ DetachInternal(p) \/ DetachLatch(p)

Step(p) == WorkerAct \/ SenderAct \/ ReceiverAct \/ PartyAct(p)

(* They are the disjuncts of Next.                                         *)
LEMMA NextIsStep == Next => \E p \in Party : Step(p)
<1>1. S \in Party /\ R \in Party
  BY DEF Party
<1> QED
  BY <1>1 DEF Next, Step, WorkerAct, SenderAct, ReceiverAct, PartyAct, Postmaster,
     shm_mq_sendv, shm_mq_receive, WaitInternal, Leave

(* There are two parties.                                                  *)
LEMMA TwoParties ==
  /\ S # R /\ S \in Party /\ R \in Party /\ \A p \in Party : p = S \/ p = R
  /\ Other(S) = R /\ Other(R) = S
  /\ \A p \in Party : Other(p) \in Party /\ Other(p) # p /\ Other(Other(p)) = p
BY DEF Party, Other, S, R

(* Where a party is and what its handle says.                              *)
Stays(q) ==
  /\ pc'[q] = pc[q] /\ caller'[q] = caller[q] /\ found'[q] = found[q] /\ attached'[q] = attached[q]
  /\ length_complete'[q] = length_complete[q] /\ partial'[q] = partial[q] /\ nowait'[q] = nowait[q]

(* No step changes that of two parties.                                    *)
LEMMA OneMoves ==
  ASSUME IInv, NEW p \in Party, Step(p), NEW q \in Party
  PROVE  \/ Stays(q)
         \/ WorkerAct /\ q = worker
         \/ SenderAct /\ q = S
         \/ ReceiverAct /\ q = R
         \/ PartyAct(p) /\ q = p
<1>1. /\ pc \in [Party -> Label] /\ attached \in [Party -> BOOLEAN]
      /\ caller \in [Party -> {"none", "wait_for_attach", "send", "receive"}]
      /\ found \in [Party -> BOOLEAN] /\ length_complete \in [Party -> BOOLEAN]
      /\ partial \in [Party -> Nat] /\ nowait \in [Party -> BOOLEAN] /\ worker \in Party
  BY DEF IInv, TypeOK
<1>2. S \in Party /\ R \in Party
  BY TwoParties
<1>3. CASE WorkerAct /\ q # worker
  BY <1>1, <1>3 DEF Stays, WorkerAct, StartWorker, Attach, AttachLatch, WorkerFails,
     WorkerStops, NotifyLeader, At, Go, SetLatch, WaitLatch, SendReturnsDetached,
     ReceiveReturnsDetached, IncBytesRead, queueVars, workerVars, handleVars, sendVars,
     receiveVars, historyVars
<1>4. CASE SenderAct /\ q # S
  BY <1>1, <1>2, <1>4 DEF Stays, SenderAct, Send, SendAgain, SendDone, SendAvailable,
     SendDetached, SendGone, SendGetReceiver, SendAttached, SendFull, SendFullLatch, SendSleep,
     SendCopy, SendFinish, SendReceiver, SendPublish, SendLatch, SendReturn, At, Go, SetLatch,
     WaitLatch, SendReturnsDetached, ReceiveReturnsDetached, IncBytesRead, queueVars,
     workerVars, handleVars, sendVars, receiveVars, historyVars
<1>5. CASE ReceiverAct /\ q # R
  BY <1>1, <1>2, <1>5 DEF Stays, ReceiverAct, Receive, ReceiveGone, ReceiveGetSender,
     ReceiveAttached, ReceiveEnd, ReceiveConsume, ReceiveConsumeLatch, ReceiveBytes,
     ReceiveDetached, ReceiveRecheck, ReceiveRead, ReceiveReadLatch, ReceiveSleep,
     GotLengthWord, GotMessage, GotPart, ReceiveReturn, At, Go, SetLatch, WaitLatch,
     SendReturnsDetached, ReceiveReturnsDetached, IncBytesRead, queueVars, workerVars,
     handleVars, sendVars, receiveVars, historyVars
<1>6. CASE PartyAct(p) /\ q # p
  BY <1>1, <1>6 DEF Stays, PartyAct, WaitForAttach, InternalTest, InternalDetached,
     InternalSleep, WaitForAttachReturns, Detach, Fail, DetachInternal, DetachLatch, At, Go,
     SetLatch, WaitLatch, SendReturnsDetached, ReceiveReturnsDetached, IncBytesRead, queueVars,
     workerVars, handleVars, sendVars, receiveVars, historyVars
<1> QED
  BY <1>3, <1>4, <1>5, <1>6 DEF Step

(* Numbers and positions.                                                  *)
LEMMA Numbers ==
  ASSUME IInv
  PROVE  /\ RingSize \in Nat \ {0} /\ mq_bytes_read \in Nat /\ mq_bytes_written \in Nat
         /\ send_pending \in Nat /\ consume_pending \in Nat /\ written \in Nat /\ available \in Nat
         /\ ReadPos \in Nat /\ End \in Nat /\ Len(stream) \in Nat
         /\ ReadOffset \in 0..RingSize - 1
         /\ mq_bytes_read <= ReadPos /\ ReadPos <= mq_bytes_written /\ mq_bytes_written <= End
         /\ End <= Len(stream) /\ End <= mq_bytes_read + RingSize
         /\ \A k \in Length : k \in Nat
         /\ len \in Nat /\ expected \in Nat /\ partial[S] \in Nat /\ partial[R] \in Nat
         /\ msg \in 0..MaxMsgs /\ delivered \in 0..MaxMsgs /\ MaxMsgs \in Nat
<1>1. TypeOK /\ PositionInv
  BY DEF IInv
<1>2. /\ RingSize \in Nat \ {0} /\ mq_bytes_read \in Nat /\ mq_bytes_written \in Nat
      /\ send_pending \in Nat /\ consume_pending \in Nat /\ written \in Nat /\ available \in Nat
  BY <1>1, ConstantsAssumption DEF TypeOK
<1>3. /\ \A k \in Length : k \in Nat
      /\ len \in Nat /\ expected \in Nat /\ partial[S] \in Nat /\ partial[R] \in Nat
  BY <1>1, ConstantsAssumption, TwoParties DEF TypeOK
<1>4. Len(stream) \in Nat
  BY <1>1 DEF TypeOK
<1>5. ReadPos \in Nat /\ End \in Nat /\ mq_bytes_read <= ReadPos /\ mq_bytes_written <= End
  BY <1>2 DEF ReadPos, End
<1>6. ReadOffset \in 0..RingSize - 1
  BY <1>2, <1>5, ModDef DEF ReadOffset
<1> QED
  BY <1>1, <1>2, <1>3, <1>4, <1>5, <1>6, ConstantsAssumption DEF TypeOK, PositionInv

(* What the receiver can read: at least one cell, in one piece, as it was  *)
(* written.                                                                *)
LEMMA Readable ==
  ASSUME IInv, pc[R] = "receive_got"
  PROVE  /\ Contiguous \in Nat /\ Contiguous >= 1 /\ Contiguous <= RingSize
         /\ ReadPos + Contiguous <= mq_bytes_written
         /\ \A j \in Nat : j < Contiguous =>
              mq_ring[(ReadPos + j) % RingSize] = stream[ReadPos + j + 1]
<1>1. /\ RingSize \in Nat \ {0} /\ mq_bytes_read \in Nat /\ mq_bytes_written \in Nat
      /\ written \in Nat /\ ReadPos \in Nat /\ End \in Nat /\ ReadOffset \in 0..RingSize - 1
      /\ mq_bytes_read <= ReadPos /\ mq_bytes_written <= End
  BY Numbers
<1>2. ReadPos <= written /\ Enough(written) /\ written <= mq_bytes_written
  BY DEF IInv, PositionInv
<1>3. Needed \in Int /\ Needed >= 1
  <2>1. CASE length_complete[R]
    <3>1. partial[R] < expected
      BY <2>1 DEF IInv, ReceiverInv
    <3>2. partial[R] \in Nat /\ expected \in Nat
      BY Numbers
    <3> QED
      BY <2>1, <3>1, <3>2 DEF Needed
  <2>2. CASE ~length_complete[R]
    BY <2>2 DEF Needed
  <2> QED
    BY <2>1, <2>2
<1>4. written - ReadPos >= 1
  BY <1>1, <1>2, <1>3 DEF Enough
<1>5. PICK a, b \in Int : a = written - ReadPos /\ b = RingSize - ReadOffset
  BY <1>1
<1>6. Contiguous = Min({a, b})
  BY <1>5 DEF Contiguous
<1>7. (Contiguous = a \/ Contiguous = b) /\ Contiguous <= a /\ Contiguous <= b
  BY <1>6, MinOfTwo
<1>8. Contiguous \in Nat /\ Contiguous >= 1 /\ Contiguous <= RingSize
  BY <1>1, <1>4, <1>5, <1>7
<1>9. ReadPos + Contiguous <= mq_bytes_written
  BY <1>1, <1>2, <1>5, <1>7, <1>8
<1>10. ASSUME NEW j \in Nat, j < Contiguous
       PROVE  mq_ring[(ReadPos + j) % RingSize] = stream[ReadPos + j + 1]
  <2>1. PICK x \in Nat : x = ReadPos + j
    BY <1>1
  <2>2. x \in mq_bytes_read..End - 1
    BY <1>1, <1>8, <1>9, <1>10, <2>1
  <2>3. mq_ring[x % RingSize] = stream[x + 1]
    BY <2>2 DEF IInv, PositionInv
  <2> QED
    BY <2>1, <2>3
<1> QED
  BY <1>8, <1>9, <1>10

(* At a boundary the receiver finds the length word of the next message.   *)
LEMMA NextLengthWord ==
  ASSUME IInv, pc[R] = "receive_got", ~length_complete[R]
  PROVE  LET c == mq_ring[ReadOffset]
         IN  /\ c = stream[ReadPos + 1] /\ c.len \in Length /\ c.part = 0
             /\ c.msg = delivered + 1 /\ delivered + 1 <= msg
<1>1. ReadPos \in Nat /\ Len(stream) \in Nat /\ ReadPos + 1 <= Len(stream)
  <2>1. /\ ReadPos \in Nat /\ Len(stream) \in Nat /\ mq_bytes_written \in Nat
        /\ End \in Nat /\ mq_bytes_written <= End /\ End <= Len(stream)
    BY Numbers
  <2>2. Contiguous \in Nat /\ Contiguous >= 1 /\ ReadPos + Contiguous <= mq_bytes_written
    BY Readable
  <2> QED
    BY <2>1, <2>2
<1>2. mq_ring[ReadOffset] = stream[ReadPos + 1]
  <2>1. mq_ring[(ReadPos + 0) % RingSize] = stream[ReadPos + 0 + 1]
    BY Readable
  <2> QED
    BY <1>1, <2>1 DEF ReadOffset
<1>3. PICK y \in 1..Len(stream) : y = ReadPos + 1
  BY <1>1
<1>4. EndsMessage(ReadPos, delivered)
  BY DEF IInv, ReceiverInv
<1>5. FormatInv /\ delivered \in Nat /\ msg \in Nat
  BY Numbers DEF IInv
<1>6. stream[y].part = 0 /\ stream[y].msg = delivered + 1
  <2>1. CASE ReadPos = 0 /\ delivered = 0
    BY <1>1, <1>3, <1>5, <2>1 DEF FormatInv
  <2>2. CASE /\ ReadPos > 0 /\ stream[ReadPos].part = stream[ReadPos].len
             /\ stream[ReadPos].msg = delivered
    <3>1. PICK x \in 1..Len(stream) : x = ReadPos
      BY <1>1, <2>2
    <3> QED
      BY <1>3, <1>5, <2>2, <3>1 DEF FormatInv
  <2> QED
    BY <1>4, <2>1, <2>2 DEF EndsMessage
<1>7. stream[y].len \in Length /\ stream[y].msg \in 1..msg
  BY <1>5 DEF FormatInv
<1> QED
  BY <1>2, <1>3, <1>5, <1>6, <1>7

(* In a message the receiver finds its parts.                              *)
LEMMA NextParts ==
  ASSUME IInv, pc[R] # "detach_latch", pc[R] # "exited", length_complete[R], NEW k \in Nat,
         ReadPos + k <= mq_bytes_written, partial[R] + k <= expected
  PROVE  stream[ReadPos + k] = [msg |-> delivered + 1, part |-> partial[R] + k,
                len |-> expected]
<1>1. /\ ReadPos \in Nat /\ Len(stream) \in Nat /\ mq_bytes_written \in Nat
      /\ mq_bytes_written <= Len(stream)
  BY Numbers
<1>2. /\ ReadPos > 0
      /\ stream[ReadPos] = [msg |-> delivered + 1, part |-> partial[R], len |-> expected]
  BY DEF IInv, ReceiverInv
<1>3. PICK x, y \in 1..Len(stream) : x = ReadPos /\ y = ReadPos + k
  BY <1>1, <1>2
<1>4. x <= y /\ y - x = k
  BY <1>1, <1>3
<1>5. stream[x].part + (y - x) <= stream[x].len
  BY <1>2, <1>3, <1>4
<1>6. stream[y] = [msg |-> stream[x].msg, part |-> stream[x].part + (y - x),
                   len |-> stream[x].len]
  BY <1>4, <1>5 DEF IInv, FormatInv
<1> QED
  BY <1>2, <1>3, <1>4, <1>6

-----------------------------------------------------------------------------
(* What SendCopy computes.                                                 *)
Offset  == End % RingSize
SendNow == Min({available, RingSize - Offset})
First   == IF length_complete[S] THEN partial[S] + 1 ELSE 0
NewCell(j) == [msg |-> msg, part |-> First + (j - 1), len |-> len]
Cells   == [j \in 1..SendNow |-> NewCell(j)]

(* What it copies fits, and it does not wrap around.                       *)
LEMMA CopyFits ==
  ASSUME IInv, pc[S] = "send_copy"
  PROVE  /\ Offset \in 0..RingSize - 1
         /\ SendNow \in Nat /\ SendNow >= 1 /\ Offset + SendNow <= RingSize
         /\ SendNow <= available /\ available <= ToSend /\ ToSend \in Nat
         /\ End + SendNow <= mq_bytes_read + RingSize
         /\ Len(stream) = End /\ First \in Nat /\ len \in Length
         /\ length_complete[S] => partial[S] + SendNow <= len
         /\ ~length_complete[S] => SendNow = 1
<1>1. /\ RingSize \in Nat \ {0} /\ available \in Nat /\ End \in Nat /\ mq_bytes_read \in Nat
      /\ partial[S] \in Nat /\ len \in Nat
  BY Numbers
<1>2. /\ available > 0 /\ available <= ToSend /\ End + available <= mq_bytes_read + RingSize
      /\ length_complete[S] => partial[S] <= len
  BY DEF IInv, RoomInv
<1>3. Offset \in 0..RingSize - 1
  BY <1>1, ModDef DEF Offset
<1>4. PICK a, b \in Int : a = available /\ b = RingSize - Offset
  BY <1>1, <1>3
<1>5. (SendNow = available \/ SendNow = b) /\ SendNow <= available /\ SendNow <= b
  <2>1. SendNow = Min({a, b})
    BY <1>4 DEF SendNow
  <2>2. (SendNow = a \/ SendNow = b) /\ SendNow <= a /\ SendNow <= b
    BY <2>1, MinOfTwo
  <2> QED
    BY <1>4, <2>2
<1>6. ToSend \in Nat
  BY <1>1, <1>2 DEF ToSend
<1>7. SendNow \in Nat /\ SendNow >= 1 /\ Offset + SendNow <= RingSize
  BY <1>1, <1>2, <1>3, <1>4, <1>5
<1>8. End + SendNow <= mq_bytes_read + RingSize
  BY <1>1, <1>2, <1>5, <1>7
<1>9. SendNow <= ToSend
  BY <1>1, <1>2, <1>5, <1>6, <1>7
<1>10. /\ length_complete[S] => partial[S] + SendNow <= len
       /\ ~length_complete[S] => SendNow = 1
  BY <1>1, <1>7, <1>9 DEF ToSend
<1>11. Len(stream) = End
  BY DEF IInv, PositionInv
<1>12. First \in Nat
  BY <1>1 DEF First
<1>13. len \in Length
  BY DEF IInv, SenderInv, InMessage, Sending
<1> QED
  BY <1>2, <1>3, <1>5, <1>6, <1>7, <1>8, <1>10, <1>11, <1>12, <1>13

(* The cells that are written, in the stream and in the ring.              *)
LEMMA CopyEffect ==
  ASSUME IInv, SendCopy
  PROVE  /\ pc[S] = "send_copy" /\ pc' = [pc EXCEPT ![S] = "send"]
         /\ send_pending' = send_pending + SendNow /\ mq_bytes_written' = mq_bytes_written
         /\ mq_bytes_read' = mq_bytes_read
         /\ stream' \in Seq(Cell) /\ Len(stream') = Len(stream) + SendNow
         /\ \A x \in 1..Len(stream) : stream'[x] = stream[x]
         /\ \A j \in 1..SendNow : stream'[Len(stream) + j] = NewCell(j)
         /\ mq_ring' \in [0..RingSize - 1 -> Cell]
         /\ \A o \in 0..RingSize - 1 :
              mq_ring'[o] = IF o \in Offset..(Offset + SendNow) - 1
                            THEN NewCell((o - Offset) + 1) ELSE mq_ring[o]
<1>1. /\ pc[S] = "send_copy" /\ pc' = [pc EXCEPT ![S] = "send"]
      /\ send_pending' = send_pending + SendNow /\ mq_bytes_written' = mq_bytes_written
      /\ mq_bytes_read' = mq_bytes_read
  BY DEF SendCopy, At, Go, End, Offset, SendNow
<1>2. /\ stream' = stream \o Cells
      /\ mq_ring' = [o \in DOMAIN mq_ring |->
                       IF o \in Offset..(Offset + SendNow) - 1
                       THEN Cells[(o - Offset) + 1] ELSE mq_ring[o]]
  <2>1. Offset \in Int /\ SendNow \in Int
    BY <1>1, CopyFits
  <2>2. Offset..Offset + SendNow - 1 = Offset..(Offset + SendNow) - 1
    BY <2>1
  <2>3. \A o \in Offset..(Offset + SendNow) - 1 : o - Offset + 1 = (o - Offset) + 1
    BY <2>1
  <2>4. Cells = [j \in 1..SendNow |-> [msg |-> msg, part |-> First + j - 1, len |-> len]]
    <3>1. First \in Int
      BY <1>1, CopyFits
    <3> QED
      BY <2>1, <3>1 DEF Cells, NewCell
  <2>5. stream' = stream \o Cells
    BY <2>4 DEF SendCopy, End, Offset, SendNow, First
  <2>6. mq_ring' = [o \in DOMAIN mq_ring |->
                      IF o \in Offset..Offset + SendNow - 1
                      THEN Cells[o - Offset + 1] ELSE mq_ring[o]]
    BY <2>4 DEF SendCopy, End, Offset, SendNow, First
  <2>7. mq_ring' = [o \in DOMAIN mq_ring |->
                      IF o \in Offset..(Offset + SendNow) - 1
                      THEN Cells[(o - Offset) + 1] ELSE mq_ring[o]]
    BY <2>2, <2>3, <2>6
  <2> QED
    BY <2>5, <2>7
<1>3. /\ Offset \in 0..RingSize - 1 /\ SendNow \in Nat /\ SendNow >= 1
      /\ Offset + SendNow <= RingSize /\ First \in Nat /\ len \in Length
  BY <1>1, CopyFits
<1>4. /\ RingSize \in Nat \ {0} /\ msg \in 0..MaxMsgs /\ len \in Nat
      /\ stream \in Seq(Cell) /\ mq_ring \in [0..RingSize - 1 -> Cell]
  BY <1>3, Numbers DEF IInv, TypeOK
<1>5. \A j \in 1..SendNow : NewCell(j) \in Cell
  <2>1. \A j \in 1..SendNow : First + (j - 1) \in Nat
    BY <1>3
  <2> QED
    BY <1>4, <2>1 DEF NewCell, Cell
<1>6. Cells \in Seq(Cell) /\ Len(Cells) = SendNow /\ \A j \in 1..SendNow : Cells[j] = NewCell(j)
  BY <1>3, <1>5 DEF Cells
<1>7. /\ stream' \in Seq(Cell) /\ Len(stream') = Len(stream) + SendNow
      /\ \A x \in 1..Len(stream) : stream'[x] = stream[x]
  <2>1. stream' = stream \o Cells /\ Cells \in Seq(Cell) /\ stream \in Seq(Cell)
    BY <1>2, <1>4, <1>6
  <2>2. stream' \in Seq(Cell)
    BY <2>1
  <2>3. Len(stream') = Len(stream) + Len(Cells)
    BY <2>1
  <2>4. \A x \in 1..Len(stream) : stream'[x] = stream[x]
    BY <2>1
  <2> QED
    BY <1>6, <2>2, <2>3, <2>4
<1>8. ASSUME NEW j \in 1..SendNow
      PROVE  stream'[Len(stream) + j] = NewCell(j)
  <2>1. PICK n \in Nat : n = Len(stream)
    BY <1>4
  <2>2. n + j \in 1..n + SendNow /\ n + j > n /\ (n + j) - n = j
    BY <1>3, <2>1
  <2>3. stream'[n + j] = Cells[(n + j) - n]
    BY <1>2, <1>3, <1>4, <1>6, <2>1, <2>2
  <2> QED
    BY <1>6, <2>1, <2>2, <2>3
<1>9. ASSUME NEW o \in 0..RingSize - 1
      PROVE  /\ mq_ring'[o] = IF o \in Offset..(Offset + SendNow) - 1
                              THEN NewCell((o - Offset) + 1) ELSE mq_ring[o]
             /\ mq_ring'[o] \in Cell
  <2>1. mq_ring'[o] = IF o \in Offset..(Offset + SendNow) - 1
                      THEN Cells[(o - Offset) + 1] ELSE mq_ring[o]
    BY <1>2, <1>4
  <2>2. CASE o \in Offset..(Offset + SendNow) - 1
    <3>1. (o - Offset) + 1 \in 1..SendNow
      BY <1>3, <1>4, <2>2
    <3> QED
      BY <1>5, <1>6, <2>1, <2>2, <3>1
  <2>3. CASE o \notin Offset..(Offset + SendNow) - 1
    BY <1>4, <2>1, <2>3
  <2> QED
    BY <2>2, <2>3
<1>10. mq_ring' \in [0..RingSize - 1 -> Cell]
  BY <1>2, <1>4, <1>9
<1> QED
  BY <1>1, <1>7, <1>8, <1>9, <1>10

(* What the receiver takes: it moves on by k cells, and is again at a      *)
(* boundary or within a message it knows.                                  *)
Takes(k) ==
  /\ ReadPos + k <= mq_bytes_written
  /\ consume_pending' = consume_pending + k /\ mq_bytes_read' = mq_bytes_read
  /\ pc' = [pc EXCEPT ![R] = "receive"] \/ pc' = [pc EXCEPT ![R] = "receive_return"]
  /\ expected' \in Length \cup {0} /\ delivered' \in 0..MaxMsgs /\ buffer' \in Seq(Cell)
  /\ length_complete' \in [Party -> BOOLEAN] /\ partial' \in [Party -> Nat]
  /\ length_complete'[S] = length_complete[S] /\ partial'[S] = partial[S]
  /\ IF length_complete'[R]
     THEN /\ partial'[R] < expected'
          /\ stream[ReadPos + k] = [msg |-> delivered' + 1, part |-> partial'[R],
                        len |-> expected']
     ELSE partial'[R] = 0 /\ EndsMessage(ReadPos + k, delivered')

LEMMA GotEffect ==
  ASSUME IInv, GotLengthWord \/ GotMessage \/ GotPart
  PROVE  \E k \in Nat \ {0} : Takes(k)
<1>1. pc[R] = "receive_got"
  BY DEF GotLengthWord, GotMessage, GotPart, At
<1>2. /\ ReadPos \in Nat /\ mq_bytes_written \in Nat /\ RingSize \in Nat \ {0}
      /\ Len(stream) \in Nat /\ mq_bytes_written <= Len(stream)
      /\ partial[R] \in Nat /\ expected \in Nat /\ msg \in 0..MaxMsgs /\ delivered \in 0..MaxMsgs
      /\ MaxMsgs \in Nat
  BY Numbers
<1>3. /\ Contiguous \in Nat /\ Contiguous >= 1 /\ ReadPos + Contiguous <= mq_bytes_written
  BY <1>1, Readable
<1>4. /\ length_complete \in [Party -> BOOLEAN] /\ partial \in [Party -> Nat]
      /\ buffer \in Seq(Cell) /\ expected \in Length \cup {0} /\ stream \in Seq(Cell)
      /\ mq_ring \in [0..RingSize - 1 -> Cell]
  BY DEF IInv, TypeOK
<1>5. S # R /\ S \in Party /\ R \in Party
  BY TwoParties
<1>6. CASE GotLengthWord
  <2>1. ~length_complete[R] /\ partial[R] = 0
    BY <1>1, <1>6 DEF GotLengthWord, IInv, ReceiverInv
  <2>2. PICK c : c = mq_ring[ReadOffset]
    OBVIOUS
  <2>3. /\ c = stream[ReadPos + 1] /\ c.len \in Length /\ c.part = 0
        /\ c.msg = delivered + 1 /\ delivered + 1 <= msg
    BY <1>1, <2>1, <2>2, NextLengthWord
  <2>4. PICK n \in Nat : n = c.len
    BY <2>3, Numbers
  <2>5. ReadPos + 1 \in 1..Len(stream) /\ c \in Cell
    <3>1. ReadPos + 1 \in 1..Len(stream)
      BY <1>2, <1>3
    <3> QED
      BY <1>4, <2>3, <3>1
  <2>6. delivered + 1 \in 0..MaxMsgs
    BY <1>2, <2>3
  <2>7. /\ mq_bytes_read' = mq_bytes_read /\ partial' = partial /\ buffer' = buffer
    BY <1>6 DEF GotLengthWord, queueVars
  <2>8. CASE Contiguous >= 1 + n
    <3>1. /\ consume_pending' = consume_pending + (1 + n) /\ delivered' = delivered + 1
          /\ pc' = [pc EXCEPT ![R] = "receive_return"] /\ expected' = expected
          /\ length_complete' = length_complete
      BY <1>6, <2>2, <2>4, <2>8 DEF GotLengthWord, Go
    <3>2. PICK x, y \in 1..Len(stream) : x = ReadPos + 1 /\ y = ReadPos + (1 + n)
      BY <1>2, <1>3, <2>4, <2>5, <2>8
    <3>3. x <= y /\ y - x = n
      BY <1>2, <2>4, <3>2
    <3>4. stream[x].part + (y - x) <= stream[x].len
      BY <2>3, <2>4, <3>2, <3>3
    <3>5. stream[y] = [msg |-> stream[x].msg, part |-> stream[x].part + (y - x),
                       len |-> stream[x].len]
      BY <3>3, <3>4 DEF IInv, FormatInv
    <3>6. stream[y].part = stream[y].len /\ stream[y].msg = delivered + 1
      BY <2>3, <2>4, <3>2, <3>3, <3>5
    <3>7. EndsMessage(ReadPos + (1 + n), delivered')
      BY <3>1, <3>2, <3>6 DEF EndsMessage
    <3>8. ReadPos + (1 + n) <= mq_bytes_written
      BY <1>2, <1>3, <2>4, <2>8
    <3>9. ~length_complete'[R] /\ partial'[R] = 0
      BY <2>1, <2>7, <3>1
    <3>10. Takes(1 + n)
      BY <1>4, <2>6, <2>7, <3>1, <3>7, <3>8, <3>9 DEF Takes
    <3>11. 1 + n \in Nat \ {0}
      BY <2>4
    <3> QED
      BY <3>10, <3>11
  <2>9. CASE ~(Contiguous >= 1 + n)
    <3>1. /\ consume_pending' = consume_pending + 1 /\ delivered' = delivered
          /\ pc' = [pc EXCEPT ![R] = "receive"] /\ expected' = n
          /\ length_complete' = [length_complete EXCEPT ![R] = TRUE]
      BY <1>6, <2>2, <2>4, <2>9 DEF GotLengthWord, Go
    <3>2. n > 0
      BY <1>3, <2>4, <2>9
    <3>3. c = [msg |-> delivered + 1, part |-> 0, len |-> n]
      BY <2>3, <2>4, <2>5 DEF Cell
    <3>4. length_complete'[R] /\ length_complete'[S] = length_complete[S]
      BY <1>4, <1>5, <3>1
    <3>5. ReadPos + 1 <= mq_bytes_written
      BY <1>2, <1>3
    <3>6. /\ partial'[R] < expected'
          /\ stream[ReadPos + 1] = [msg |-> delivered' + 1, part |-> partial'[R],
                                    len |-> expected']
      BY <2>1, <2>3, <2>7, <3>1, <3>2, <3>3
    <3>7. expected' \in Length \cup {0} /\ delivered' \in 0..MaxMsgs
      BY <1>2, <2>3, <2>4, <3>1
    <3>8. length_complete' \in [Party -> BOOLEAN]
      BY <1>4, <3>1
    <3>9. Takes(1)
      BY <1>4, <2>7, <3>1, <3>4, <3>5, <3>6, <3>7, <3>8 DEF Takes
    <3> QED
      BY <3>9
  <2> QED
    BY <2>8, <2>9
<1>7. CASE GotMessage
  <2>1. /\ length_complete[R] /\ partial[R] = 0 /\ Contiguous >= expected
        /\ length_complete' = [length_complete EXCEPT ![R] = FALSE]
        /\ consume_pending' = consume_pending + expected /\ delivered' = delivered + 1
        /\ pc' = [pc EXCEPT ![R] = "receive_return"]
        /\ mq_bytes_read' = mq_bytes_read /\ partial' = partial /\ buffer' = buffer
        /\ expected' = expected
    BY <1>7 DEF GotMessage, Go, queueVars
  <2>2. partial[R] < expected
    BY <1>1, <2>1 DEF IInv, ReceiverInv
  <2>3. ReadPos + expected <= mq_bytes_written
    BY <1>2, <1>3, <2>1
  <2>4. stream[ReadPos + expected] =
          [msg |-> delivered + 1, part |-> partial[R] + expected, len |-> expected]
    BY <1>1, <1>2, <2>1, <2>3, NextParts
  <2>5. EndsMessage(ReadPos + expected, delivered')
    BY <1>2, <2>1, <2>2, <2>4 DEF EndsMessage
  <2>6. delivered' \in 0..MaxMsgs
    <3>1. PICK y \in 1..Len(stream) : y = ReadPos + expected
      BY <1>2, <2>2, <2>3
    <3>2. stream[y].msg \in 1..msg
      BY DEF IInv, FormatInv
    <3> QED
      BY <1>2, <2>1, <2>4, <3>1, <3>2
  <2>7. ~length_complete'[R] /\ length_complete'[S] = length_complete[S]
    BY <1>4, <1>5, <2>1
  <2>8. length_complete' \in [Party -> BOOLEAN]
    BY <1>4, <2>1
  <2>9. Takes(expected)
    BY <1>4, <2>1, <2>3, <2>5, <2>6, <2>7, <2>8 DEF Takes
  <2>10. expected \in Nat \ {0}
    BY <1>2, <2>2
  <2> QED
    BY <2>9, <2>10
<1>8. CASE GotPart
  <2>1. length_complete[R]
    BY <1>8 DEF GotPart
  <2>2. partial[R] < expected
    BY <1>1, <2>1 DEF IInv, ReceiverInv
  <2>3. PICK b \in Nat : b = expected - partial[R] /\ b = Needed /\ b >= 1
    BY <1>2, <2>1, <2>2 DEF Needed
  <2>4. PICK k : k = Min({Contiguous, b})
    OBVIOUS
  <2>5. (k = Contiguous \/ k = b) /\ k <= Contiguous /\ k <= b
    <3>1. PICK a \in Int : a = Contiguous
      BY <1>3
    <3>2. b \in Int
      BY <2>3
    <3>3. (k = a \/ k = b) /\ k <= a /\ k <= b
      BY <2>4, <3>1, <3>2, MinOfTwo
    <3> QED
      BY <3>1, <3>3
  <2>6. k \in Nat \ {0} /\ ReadPos + k <= mq_bytes_written /\ partial[R] + k <= expected
    BY <1>2, <1>3, <2>3, <2>5
  <2>7. stream[ReadPos + k] =
          [msg |-> delivered + 1, part |-> partial[R] + k, len |-> expected]
    BY <1>1, <2>1, <2>6, NextParts
  <2>8. /\ consume_pending' = consume_pending + k
        /\ partial' = [partial EXCEPT ![R] = IF partial[R] + k >= expected THEN 0
                                             ELSE partial[R] + k]
        /\ length_complete' = [length_complete EXCEPT ![R] = ~(partial[R] + k >= expected)]
        /\ mq_bytes_read' = mq_bytes_read /\ expected' = expected
    BY <1>8, <2>3, <2>4 DEF GotPart, queueVars
  <2>9. buffer' \in Seq(Cell)
    <3>1. PICK copy : copy = [j \in 1..k |-> mq_ring[(ReadPos + j - 1) % RingSize]]
      OBVIOUS
    <3>2. buffer' = << >> \/ buffer' = buffer \o copy
      BY <1>8, <2>3, <2>4, <3>1 DEF GotPart
    <3>3. \A j \in 1..k : ReadPos + j - 1 \in Nat
      BY <1>2, <2>6
    <3>4. \A j \in 1..k : (ReadPos + j - 1) % RingSize \in 0..RingSize - 1
      BY <1>2, <3>3, ModDef
    <3>5. \A j \in 1..k : mq_ring[(ReadPos + j - 1) % RingSize] \in Cell
      BY <1>4, <3>4
    <3>6. copy \in Seq(Cell)
      BY <2>6, <3>1, <3>5
    <3>7. buffer \o copy \in Seq(Cell)
      BY <1>4, <3>6
    <3>8. << >> \in Seq(Cell)
      OBVIOUS
    <3> QED
      BY <3>2, <3>7, <3>8
  <2>10. partial'[S] = partial[S] /\ length_complete'[S] = length_complete[S]
    BY <1>4, <1>5, <2>8
  <2>11. length_complete' \in [Party -> BOOLEAN] /\ partial' \in [Party -> Nat]
    <3>1. PICK n \in Nat : n = IF partial[R] + k >= expected THEN 0 ELSE partial[R] + k
      BY <1>2, <2>6
    <3>2. partial' = [partial EXCEPT ![R] = n]
      BY <2>8, <3>1
    <3>3. PICK l \in BOOLEAN : l = ~(partial[R] + k >= expected)
      OBVIOUS
    <3>4. length_complete' = [length_complete EXCEPT ![R] = l]
      BY <2>8, <3>3
    <3>5. partial' \in [Party -> Nat]
      BY <1>4, <3>2
    <3>6. length_complete' \in [Party -> BOOLEAN]
      BY <1>4, <3>4
    <3> QED
      BY <3>5, <3>6
  <2>12. CASE partial[R] + k >= expected
    <3>1. partial[R] + k = expected
      BY <1>2, <2>6, <2>12
    <3>2. delivered' = delivered + 1 /\ pc' = [pc EXCEPT ![R] = "receive_return"]
      BY <1>8, <2>3, <2>4, <2>12 DEF GotPart, Go
    <3>3. ~length_complete'[R] /\ partial'[R] = 0
      BY <1>4, <1>5, <2>8, <2>12
    <3>4. EndsMessage(ReadPos + k, delivered')
      BY <1>2, <2>6, <2>7, <3>1, <3>2 DEF EndsMessage
    <3>5. delivered' \in 0..MaxMsgs
      <4>1. PICK y \in 1..Len(stream) : y = ReadPos + k
        BY <1>2, <2>6
      <4>2. stream[y].msg \in 1..msg
        BY DEF IInv, FormatInv
      <4> QED
        BY <1>2, <2>7, <3>2, <4>1, <4>2
    <3>6. Takes(k)
      BY <1>4, <2>6, <2>8, <2>9, <2>10, <2>11, <3>2, <3>3, <3>4, <3>5 DEF Takes
    <3> QED
      BY <2>6, <3>6
  <2>13. CASE ~(partial[R] + k >= expected)
    <3>1. delivered' = delivered /\ pc' = [pc EXCEPT ![R] = "receive"]
      BY <1>8, <2>3, <2>4, <2>13 DEF GotPart, Go
    <3>2. length_complete'[R] /\ partial'[R] = partial[R] + k
      BY <1>4, <1>5, <2>8, <2>13
    <3>3. partial'[R] < expected'
      BY <1>2, <2>6, <2>8, <2>13, <3>2
    <3>4. Takes(k)
      BY <1>2, <1>4, <2>6, <2>7, <2>8, <2>9, <2>10, <2>11, <3>1, <3>2, <3>3 DEF Takes
    <3> QED
      BY <2>6, <3>4
  <2> QED
    BY <2>12, <2>13
<1> QED
  BY <1>6, <1>7, <1>8

-----------------------------------------------------------------------------
(* TypeOK                                                                  *)

(* The labels, and the Boolean and enumerated state of the parties.        *)
LEMMA TypePartiesStep ==
  ASSUME IInv, NEW p \in Party, Step(p)
  PROVE  /\ mq_proc' \in [Party -> BOOLEAN] /\ mq_detached' \in BOOLEAN /\ latch' \in [Party -> BOOLEAN]
         /\ worker' \in Party /\ handle' \in BOOLEAN /\ notify' \in BOOLEAN
         /\ status' \in {"not_yet_started", "started", "stopped"}
         /\ pc' \in [Party -> Label]
         /\ caller' \in [Party -> {"none", "wait_for_attach", "send", "receive"}]
         /\ found' \in [Party -> BOOLEAN] /\ attached' \in [Party -> BOOLEAN]
         /\ nowait' \in [Party -> BOOLEAN]
         /\ force_flush' \in BOOLEAN /\ receiver' \in BOOLEAN
         /\ ended' \in BOOLEAN /\ missed' \in BOOLEAN
<1>1. TypeOK
  BY DEF IInv
<1>2. S \in Party /\ R \in Party /\ worker \in Party /\ \A q \in Party : Other(q) \in Party
  BY <1>1, TwoParties DEF TypeOK
<1>3. worker' = worker /\ handle' = handle
  <2>1. CASE WorkerAct
    BY <2>1 DEF WorkerAct, StartWorker, Attach, AttachLatch, WorkerFails, WorkerStops,
       NotifyLeader, At, Go, SetLatch, WaitLatch, SendReturnsDetached, ReceiveReturnsDetached,
       IncBytesRead, queueVars, workerVars, handleVars, sendVars, receiveVars, historyVars
  <2>2. CASE SenderAct
    BY <2>2 DEF SenderAct, Send, SendAgain, SendDone, SendAvailable, SendDetached, SendGone,
       SendGetReceiver, SendAttached, SendFull, SendFullLatch, SendSleep, SendCopy, SendFinish,
       SendReceiver, SendPublish, SendLatch, SendReturn, At, Go, SetLatch, WaitLatch,
       SendReturnsDetached, ReceiveReturnsDetached, IncBytesRead, queueVars, workerVars,
       handleVars, sendVars, receiveVars, historyVars
  <2>3. CASE ReceiverAct
    BY <2>3 DEF ReceiverAct, Receive, ReceiveGone, ReceiveGetSender, ReceiveAttached,
       ReceiveEnd, ReceiveConsume, ReceiveConsumeLatch, ReceiveBytes, ReceiveDetached,
       ReceiveRecheck, ReceiveRead, ReceiveReadLatch, ReceiveSleep, GotLengthWord, GotMessage,
       GotPart, ReceiveReturn, At, Go, SetLatch, WaitLatch, SendReturnsDetached,
       ReceiveReturnsDetached, IncBytesRead, queueVars, workerVars, handleVars, sendVars,
       receiveVars, historyVars
  <2>4. CASE PartyAct(p)
    BY <2>4 DEF PartyAct, WaitForAttach, InternalTest, InternalDetached, InternalSleep,
       WaitForAttachReturns, Detach, Fail, DetachInternal, DetachLatch, At, Go, SetLatch,
       WaitLatch, SendReturnsDetached, ReceiveReturnsDetached, IncBytesRead, queueVars,
       workerVars, handleVars, sendVars, receiveVars, historyVars
  <2> QED
    BY <2>1, <2>2, <2>3, <2>4 DEF Step
<1>4. mq_proc' \in [Party -> BOOLEAN]
  <2>1. mq_proc' = mq_proc \/ mq_proc' = [mq_proc EXCEPT ![worker] = TRUE]
    <3>1. CASE WorkerAct
      BY <3>1 DEF WorkerAct, StartWorker, Attach, AttachLatch, WorkerFails, WorkerStops,
         NotifyLeader, At, Go, SetLatch, WaitLatch, SendReturnsDetached,
         ReceiveReturnsDetached, IncBytesRead, queueVars, workerVars, handleVars, sendVars,
         receiveVars, historyVars
    <3>2. CASE SenderAct
      BY <3>2 DEF SenderAct, Send, SendAgain, SendDone, SendAvailable, SendDetached, SendGone,
         SendGetReceiver, SendAttached, SendFull, SendFullLatch, SendSleep, SendCopy,
         SendFinish, SendReceiver, SendPublish, SendLatch, SendReturn, At, Go, SetLatch,
         WaitLatch, SendReturnsDetached, ReceiveReturnsDetached, IncBytesRead, queueVars,
         workerVars, handleVars, sendVars, receiveVars, historyVars
    <3>3. CASE ReceiverAct
      BY <3>3 DEF ReceiverAct, Receive, ReceiveGone, ReceiveGetSender, ReceiveAttached,
         ReceiveEnd, ReceiveConsume, ReceiveConsumeLatch, ReceiveBytes, ReceiveDetached,
         ReceiveRecheck, ReceiveRead, ReceiveReadLatch, ReceiveSleep, GotLengthWord,
         GotMessage, GotPart, ReceiveReturn, At, Go, SetLatch, WaitLatch, SendReturnsDetached,
         ReceiveReturnsDetached, IncBytesRead, queueVars, workerVars, handleVars, sendVars,
         receiveVars, historyVars
    <3>4. CASE PartyAct(p)
      BY <3>4 DEF PartyAct, WaitForAttach, InternalTest, InternalDetached, InternalSleep,
         WaitForAttachReturns, Detach, Fail, DetachInternal, DetachLatch, At, Go, SetLatch,
         WaitLatch, SendReturnsDetached, ReceiveReturnsDetached, IncBytesRead, queueVars,
         workerVars, handleVars, sendVars, receiveVars, historyVars
    <3> QED
      BY <3>1, <3>2, <3>3, <3>4 DEF Step
  <2> QED
    BY <1>1, <1>2, <2>1 DEF TypeOK
<1>5. mq_detached' \in BOOLEAN
  <2>1. mq_detached' = mq_detached \/ mq_detached' = TRUE \/ mq_detached' = (mq_detached \/ WorkerDead(R))
    <3>1. CASE WorkerAct
      BY <3>1 DEF WorkerAct, StartWorker, Attach, AttachLatch, WorkerFails, WorkerStops,
         NotifyLeader, At, Go, SetLatch, WaitLatch, SendReturnsDetached,
         ReceiveReturnsDetached, IncBytesRead, queueVars, workerVars, handleVars, sendVars,
         receiveVars, historyVars
    <3>2. CASE SenderAct
      BY <3>2 DEF SenderAct, Send, SendAgain, SendDone, SendAvailable, SendDetached, SendGone,
         SendGetReceiver, SendAttached, SendFull, SendFullLatch, SendSleep, SendCopy,
         SendFinish, SendReceiver, SendPublish, SendLatch, SendReturn, At, Go, SetLatch,
         WaitLatch, SendReturnsDetached, ReceiveReturnsDetached, IncBytesRead, queueVars,
         workerVars, handleVars, sendVars, receiveVars, historyVars
    <3>3. CASE ReceiverAct
      BY <3>3 DEF ReceiverAct, Receive, ReceiveGone, ReceiveGetSender, ReceiveAttached,
         ReceiveEnd, ReceiveConsume, ReceiveConsumeLatch, ReceiveBytes, ReceiveDetached,
         ReceiveRecheck, ReceiveRead, ReceiveReadLatch, ReceiveSleep, GotLengthWord,
         GotMessage, GotPart, ReceiveReturn, At, Go, SetLatch, WaitLatch, SendReturnsDetached,
         ReceiveReturnsDetached, IncBytesRead, queueVars, workerVars, handleVars, sendVars,
         receiveVars, historyVars
    <3>4. CASE PartyAct(p)
      BY <3>4 DEF PartyAct, WaitForAttach, InternalTest, InternalDetached, InternalSleep,
         WaitForAttachReturns, Detach, Fail, DetachInternal, DetachLatch, At, Go, SetLatch,
         WaitLatch, SendReturnsDetached, ReceiveReturnsDetached, IncBytesRead, queueVars,
         workerVars, handleVars, sendVars, receiveVars, historyVars
    <3> QED
      BY <3>1, <3>2, <3>3, <3>4 DEF Step
  <2> QED
    BY <1>1, <2>1 DEF TypeOK
<1>6. latch' \in [Party -> BOOLEAN]
  <2>1. latch' = latch \/ \E q \in Party, b \in BOOLEAN : latch' = [latch EXCEPT ![q] = b]
    <3>1. CASE WorkerAct
      BY <1>2, <3>1 DEF WorkerAct, StartWorker, Attach, AttachLatch, WorkerFails, WorkerStops,
         NotifyLeader, At, Go, SetLatch, WaitLatch, SendReturnsDetached,
         ReceiveReturnsDetached, IncBytesRead, queueVars, workerVars, handleVars, sendVars,
         receiveVars, historyVars
    <3>2. CASE SenderAct
      BY <1>2, <3>2 DEF SenderAct, Send, SendAgain, SendDone, SendAvailable, SendDetached,
         SendGone, SendGetReceiver, SendAttached, SendFull, SendFullLatch, SendSleep, SendCopy,
         SendFinish, SendReceiver, SendPublish, SendLatch, SendReturn, At, Go, SetLatch,
         WaitLatch, SendReturnsDetached, ReceiveReturnsDetached, IncBytesRead, queueVars,
         workerVars, handleVars, sendVars, receiveVars, historyVars
    <3>3. CASE ReceiverAct
      BY <1>2, <3>3 DEF ReceiverAct, Receive, ReceiveGone, ReceiveGetSender, ReceiveAttached,
         ReceiveEnd, ReceiveConsume, ReceiveConsumeLatch, ReceiveBytes, ReceiveDetached,
         ReceiveRecheck, ReceiveRead, ReceiveReadLatch, ReceiveSleep, GotLengthWord,
         GotMessage, GotPart, ReceiveReturn, At, Go, SetLatch, WaitLatch, SendReturnsDetached,
         ReceiveReturnsDetached, IncBytesRead, queueVars, workerVars, handleVars, sendVars,
         receiveVars, historyVars
    <3>4. CASE PartyAct(p)
      BY <1>2, <3>4 DEF PartyAct, WaitForAttach, InternalTest, InternalDetached, InternalSleep,
         WaitForAttachReturns, Detach, Fail, DetachInternal, DetachLatch, At, Go, SetLatch,
         WaitLatch, SendReturnsDetached, ReceiveReturnsDetached, IncBytesRead, queueVars,
         workerVars, handleVars, sendVars, receiveVars, historyVars
    <3> QED
      BY <3>1, <3>2, <3>3, <3>4 DEF Step
  <2> QED
    BY <1>1, <2>1 DEF TypeOK
<1>7. notify' \in BOOLEAN /\ status' \in {"not_yet_started", "started", "stopped"}
  <2>1. /\ notify' = notify \/ notify' = TRUE \/ notify' = FALSE
        /\ status' = status \/ status' = "started" \/ status' = "stopped"
    <3>1. CASE WorkerAct
      BY <3>1 DEF WorkerAct, StartWorker, Attach, AttachLatch, WorkerFails, WorkerStops,
         NotifyLeader, At, Go, SetLatch, WaitLatch, SendReturnsDetached,
         ReceiveReturnsDetached, IncBytesRead, queueVars, workerVars, handleVars, sendVars,
         receiveVars, historyVars
    <3>2. CASE SenderAct
      BY <3>2 DEF SenderAct, Send, SendAgain, SendDone, SendAvailable, SendDetached, SendGone,
         SendGetReceiver, SendAttached, SendFull, SendFullLatch, SendSleep, SendCopy,
         SendFinish, SendReceiver, SendPublish, SendLatch, SendReturn, At, Go, SetLatch,
         WaitLatch, SendReturnsDetached, ReceiveReturnsDetached, IncBytesRead, queueVars,
         workerVars, handleVars, sendVars, receiveVars, historyVars
    <3>3. CASE ReceiverAct
      BY <3>3 DEF ReceiverAct, Receive, ReceiveGone, ReceiveGetSender, ReceiveAttached,
         ReceiveEnd, ReceiveConsume, ReceiveConsumeLatch, ReceiveBytes, ReceiveDetached,
         ReceiveRecheck, ReceiveRead, ReceiveReadLatch, ReceiveSleep, GotLengthWord,
         GotMessage, GotPart, ReceiveReturn, At, Go, SetLatch, WaitLatch, SendReturnsDetached,
         ReceiveReturnsDetached, IncBytesRead, queueVars, workerVars, handleVars, sendVars,
         receiveVars, historyVars
    <3>4. CASE PartyAct(p)
      BY <3>4 DEF PartyAct, WaitForAttach, InternalTest, InternalDetached, InternalSleep,
         WaitForAttachReturns, Detach, Fail, DetachInternal, DetachLatch, At, Go, SetLatch,
         WaitLatch, SendReturnsDetached, ReceiveReturnsDetached, IncBytesRead, queueVars,
         workerVars, handleVars, sendVars, receiveVars, historyVars
    <3> QED
      BY <3>1, <3>2, <3>3, <3>4 DEF Step
  <2> QED
    BY <1>1, <2>1 DEF TypeOK
<1>8. pc' \in [Party -> Label]
  <2>1. pc' = pc \/ \E q \in Party, l \in Label : pc' = [pc EXCEPT ![q] = l]
    <3>1. CASE WorkerAct
      BY <1>2, <3>1 DEF WorkerAct, StartWorker, Attach, AttachLatch, WorkerFails, WorkerStops,
         NotifyLeader, Label, At, Go, SetLatch, WaitLatch, SendReturnsDetached,
         ReceiveReturnsDetached, IncBytesRead, queueVars, workerVars, handleVars, sendVars,
         receiveVars, historyVars
    <3>2. CASE SenderAct
      BY <1>2, <3>2 DEF SenderAct, Send, SendAgain, SendDone, SendAvailable, SendDetached,
         SendGone, SendGetReceiver, SendAttached, SendFull, SendFullLatch, SendSleep, SendCopy,
         SendFinish, SendReceiver, SendPublish, SendLatch, SendReturn, Label, At, Go, SetLatch,
         WaitLatch, SendReturnsDetached, ReceiveReturnsDetached, IncBytesRead, queueVars,
         workerVars, handleVars, sendVars, receiveVars, historyVars
    <3>3. CASE ReceiverAct
      BY <1>2, <3>3 DEF ReceiverAct, Receive, ReceiveGone, ReceiveGetSender, ReceiveAttached,
         ReceiveEnd, ReceiveConsume, ReceiveConsumeLatch, ReceiveBytes, ReceiveDetached,
         ReceiveRecheck, ReceiveRead, ReceiveReadLatch, ReceiveSleep, GotLengthWord,
         GotMessage, GotPart, ReceiveReturn, Label, At, Go, SetLatch, WaitLatch,
         SendReturnsDetached, ReceiveReturnsDetached, IncBytesRead, queueVars, workerVars,
         handleVars, sendVars, receiveVars, historyVars
    <3>4. CASE PartyAct(p)
      BY <1>2, <3>4 DEF PartyAct, WaitForAttach, InternalTest, InternalDetached, InternalSleep,
         WaitForAttachReturns, Detach, Fail, DetachInternal, DetachLatch, Label, At, Go,
         SetLatch, WaitLatch, SendReturnsDetached, ReceiveReturnsDetached, IncBytesRead,
         queueVars, workerVars, handleVars, sendVars, receiveVars, historyVars
    <3> QED
      BY <3>1, <3>2, <3>3, <3>4 DEF Step
  <2> QED
    BY <1>1, <2>1 DEF TypeOK
<1>9. caller' \in [Party -> {"none", "wait_for_attach", "send", "receive"}]
  <2>1. \/ caller' = caller
        \/ \E q \in Party, c \in {"wait_for_attach", "send",
                      "receive"} : caller' = [caller EXCEPT ![q] = c]
    <3>1. CASE WorkerAct
      BY <1>2, <3>1 DEF WorkerAct, StartWorker, Attach, AttachLatch, WorkerFails, WorkerStops,
         NotifyLeader, At, Go, SetLatch, WaitLatch, SendReturnsDetached,
         ReceiveReturnsDetached, IncBytesRead, queueVars, workerVars, handleVars, sendVars,
         receiveVars, historyVars
    <3>2. CASE SenderAct
      BY <1>2, <3>2 DEF SenderAct, Send, SendAgain, SendDone, SendAvailable, SendDetached,
         SendGone, SendGetReceiver, SendAttached, SendFull, SendFullLatch, SendSleep, SendCopy,
         SendFinish, SendReceiver, SendPublish, SendLatch, SendReturn, At, Go, SetLatch,
         WaitLatch, SendReturnsDetached, ReceiveReturnsDetached, IncBytesRead, queueVars,
         workerVars, handleVars, sendVars, receiveVars, historyVars
    <3>3. CASE ReceiverAct
      BY <1>2, <3>3 DEF ReceiverAct, Receive, ReceiveGone, ReceiveGetSender, ReceiveAttached,
         ReceiveEnd, ReceiveConsume, ReceiveConsumeLatch, ReceiveBytes, ReceiveDetached,
         ReceiveRecheck, ReceiveRead, ReceiveReadLatch, ReceiveSleep, GotLengthWord,
         GotMessage, GotPart, ReceiveReturn, At, Go, SetLatch, WaitLatch, SendReturnsDetached,
         ReceiveReturnsDetached, IncBytesRead, queueVars, workerVars, handleVars, sendVars,
         receiveVars, historyVars
    <3>4. CASE PartyAct(p)
      BY <1>2, <3>4 DEF PartyAct, WaitForAttach, InternalTest, InternalDetached, InternalSleep,
         WaitForAttachReturns, Detach, Fail, DetachInternal, DetachLatch, At, Go, SetLatch,
         WaitLatch, SendReturnsDetached, ReceiveReturnsDetached, IncBytesRead, queueVars,
         workerVars, handleVars, sendVars, receiveVars, historyVars
    <3> QED
      BY <3>1, <3>2, <3>3, <3>4 DEF Step
  <2> QED
    BY <1>1, <2>1 DEF TypeOK
<1>10. found' \in [Party -> BOOLEAN]
  <2>1. found' = found \/ \E q \in Party, b \in BOOLEAN : found' = [found EXCEPT ![q] = b]
    <3>1. \A q \in Party : mq_proc[q] \in BOOLEAN
      BY <1>1 DEF TypeOK
    <3>2. \/ found' = found \/ \E q \in Party : found' = [found EXCEPT ![q] = FALSE]
          \/ found' = [found EXCEPT ![p] = mq_proc[Other(p)]]
          \/ found' = [found EXCEPT ![p] = @ /\ ~mq_detached]
          \/ found' = [found EXCEPT ![R] = mq_detached \/ WorkerDead(R)]
      <4>1. CASE WorkerAct
        BY <1>2, <4>1 DEF WorkerAct, StartWorker, Attach, AttachLatch, WorkerFails,
           WorkerStops, NotifyLeader, At, Go, SetLatch, WaitLatch, SendReturnsDetached,
           ReceiveReturnsDetached, IncBytesRead, queueVars, workerVars, handleVars, sendVars,
           receiveVars, historyVars
      <4>2. CASE SenderAct
        BY <1>2, <4>2 DEF SenderAct, Send, SendAgain, SendDone, SendAvailable, SendDetached,
           SendGone, SendGetReceiver, SendAttached, SendFull, SendFullLatch, SendSleep,
           SendCopy, SendFinish, SendReceiver, SendPublish, SendLatch, SendReturn, At, Go,
           SetLatch, WaitLatch, SendReturnsDetached, ReceiveReturnsDetached, IncBytesRead,
           queueVars, workerVars, handleVars, sendVars, receiveVars, historyVars
      <4>3. CASE ReceiverAct
        BY <1>2, <4>3 DEF ReceiverAct, Receive, ReceiveGone, ReceiveGetSender, ReceiveAttached,
           ReceiveEnd, ReceiveConsume, ReceiveConsumeLatch, ReceiveBytes, ReceiveDetached,
           ReceiveRecheck, ReceiveRead, ReceiveReadLatch, ReceiveSleep, GotLengthWord,
           GotMessage, GotPart, ReceiveReturn, At, Go, SetLatch, WaitLatch,
           SendReturnsDetached, ReceiveReturnsDetached, IncBytesRead, queueVars, workerVars,
           handleVars, sendVars, receiveVars, historyVars
      <4>4. CASE PartyAct(p)
        BY <1>2, <4>4 DEF PartyAct, WaitForAttach, InternalTest, InternalDetached,
           InternalSleep, WaitForAttachReturns, Detach, Fail, DetachInternal, DetachLatch, At,
           Go, SetLatch, WaitLatch, SendReturnsDetached, ReceiveReturnsDetached, IncBytesRead,
           queueVars, workerVars, handleVars, sendVars, receiveVars, historyVars
      <4> QED
        BY <4>1, <4>2, <4>3, <4>4 DEF Step
    <3>3. (found[p] /\ ~mq_detached) \in BOOLEAN /\ (mq_detached \/ WorkerDead(R)) \in BOOLEAN
      OBVIOUS
    <3> QED
      BY <1>2, <3>1, <3>2, <3>3
  <2> QED
    BY <1>1, <2>1 DEF TypeOK
<1>11. attached' \in [Party -> BOOLEAN]
  <2>1. attached' = attached \/ \E q \in Party,
                b \in BOOLEAN : attached' = [attached EXCEPT ![q] = b]
    <3>1. \A q \in Party : mq_proc[q] \in BOOLEAN
      BY <1>1 DEF TypeOK
    <3>2. \/ attached' = attached \/ \E q \in Party : attached' = [attached EXCEPT ![q] = FALSE]
          \/ \E q \in Party : attached' = [attached EXCEPT ![q] = TRUE]
          \/ attached' = [attached EXCEPT ![S] = mq_proc[R]]
          \/ attached' = [attached EXCEPT ![R] = mq_proc[S]]
      <4>1. CASE WorkerAct
        BY <1>2, <4>1 DEF WorkerAct, StartWorker, Attach, AttachLatch, WorkerFails,
           WorkerStops, NotifyLeader, At, Go, SetLatch, WaitLatch, SendReturnsDetached,
           ReceiveReturnsDetached, IncBytesRead, queueVars, workerVars, handleVars, sendVars,
           receiveVars, historyVars
      <4>2. CASE SenderAct
        BY <1>2, <4>2 DEF SenderAct, Send, SendAgain, SendDone, SendAvailable, SendDetached,
           SendGone, SendGetReceiver, SendAttached, SendFull, SendFullLatch, SendSleep,
           SendCopy, SendFinish, SendReceiver, SendPublish, SendLatch, SendReturn, At, Go,
           SetLatch, WaitLatch, SendReturnsDetached, ReceiveReturnsDetached, IncBytesRead,
           queueVars, workerVars, handleVars, sendVars, receiveVars, historyVars
      <4>3. CASE ReceiverAct
        BY <1>2, <4>3 DEF ReceiverAct, Receive, ReceiveGone, ReceiveGetSender, ReceiveAttached,
           ReceiveEnd, ReceiveConsume, ReceiveConsumeLatch, ReceiveBytes, ReceiveDetached,
           ReceiveRecheck, ReceiveRead, ReceiveReadLatch, ReceiveSleep, GotLengthWord,
           GotMessage, GotPart, ReceiveReturn, At, Go, SetLatch, WaitLatch,
           SendReturnsDetached, ReceiveReturnsDetached, IncBytesRead, queueVars, workerVars,
           handleVars, sendVars, receiveVars, historyVars
      <4>4. CASE PartyAct(p)
        BY <1>2, <4>4 DEF PartyAct, WaitForAttach, InternalTest, InternalDetached,
           InternalSleep, WaitForAttachReturns, Detach, Fail, DetachInternal, DetachLatch, At,
           Go, SetLatch, WaitLatch, SendReturnsDetached, ReceiveReturnsDetached, IncBytesRead,
           queueVars, workerVars, handleVars, sendVars, receiveVars, historyVars
      <4> QED
        BY <4>1, <4>2, <4>3, <4>4 DEF Step
    <3> QED
      BY <1>2, <3>1, <3>2
  <2> QED
    BY <1>1, <2>1 DEF TypeOK
<1>12. nowait' \in [Party -> BOOLEAN]
  <2>1. nowait' = nowait \/ \E q \in Party, b \in BOOLEAN : nowait' = [nowait EXCEPT ![q] = b]
    <3>1. CASE WorkerAct
      BY <1>2, <3>1 DEF WorkerAct, StartWorker, Attach, AttachLatch, WorkerFails, WorkerStops,
         NotifyLeader, At, Go, SetLatch, WaitLatch, SendReturnsDetached,
         ReceiveReturnsDetached, IncBytesRead, queueVars, workerVars, handleVars, sendVars,
         receiveVars, historyVars
    <3>2. CASE SenderAct
      BY <1>2, <3>2 DEF SenderAct, Send, SendAgain, SendDone, SendAvailable, SendDetached,
         SendGone, SendGetReceiver, SendAttached, SendFull, SendFullLatch, SendSleep, SendCopy,
         SendFinish, SendReceiver, SendPublish, SendLatch, SendReturn, At, Go, SetLatch,
         WaitLatch, SendReturnsDetached, ReceiveReturnsDetached, IncBytesRead, queueVars,
         workerVars, handleVars, sendVars, receiveVars, historyVars
    <3>3. CASE ReceiverAct
      BY <1>2, <3>3 DEF ReceiverAct, Receive, ReceiveGone, ReceiveGetSender, ReceiveAttached,
         ReceiveEnd, ReceiveConsume, ReceiveConsumeLatch, ReceiveBytes, ReceiveDetached,
         ReceiveRecheck, ReceiveRead, ReceiveReadLatch, ReceiveSleep, GotLengthWord,
         GotMessage, GotPart, ReceiveReturn, At, Go, SetLatch, WaitLatch, SendReturnsDetached,
         ReceiveReturnsDetached, IncBytesRead, queueVars, workerVars, handleVars, sendVars,
         receiveVars, historyVars
    <3>4. CASE PartyAct(p)
      BY <1>2, <3>4 DEF PartyAct, WaitForAttach, InternalTest, InternalDetached, InternalSleep,
         WaitForAttachReturns, Detach, Fail, DetachInternal, DetachLatch, At, Go, SetLatch,
         WaitLatch, SendReturnsDetached, ReceiveReturnsDetached, IncBytesRead, queueVars,
         workerVars, handleVars, sendVars, receiveVars, historyVars
    <3> QED
      BY <3>1, <3>2, <3>3, <3>4 DEF Step
  <2> QED
    BY <1>1, <2>1 DEF TypeOK
<1>13. force_flush' \in BOOLEAN /\ receiver' \in BOOLEAN
  <2>1. mq_proc[R] \in BOOLEAN
    BY <1>1, <1>2 DEF TypeOK
  <2>2. force_flush' = force_flush \/ force_flush' \in BOOLEAN
    <3>1. CASE WorkerAct
      BY <3>1 DEF WorkerAct, StartWorker, Attach, AttachLatch, WorkerFails, WorkerStops,
         NotifyLeader, At, Go, SetLatch, WaitLatch, SendReturnsDetached,
         ReceiveReturnsDetached, IncBytesRead, queueVars, workerVars, handleVars, sendVars,
         receiveVars, historyVars
    <3>2. CASE SenderAct
      BY <3>2 DEF SenderAct, Send, SendAgain, SendDone, SendAvailable, SendDetached, SendGone,
         SendGetReceiver, SendAttached, SendFull, SendFullLatch, SendSleep, SendCopy,
         SendFinish, SendReceiver, SendPublish, SendLatch, SendReturn, At, Go, SetLatch,
         WaitLatch, SendReturnsDetached, ReceiveReturnsDetached, IncBytesRead, queueVars,
         workerVars, handleVars, sendVars, receiveVars, historyVars
    <3>3. CASE ReceiverAct
      BY <3>3 DEF ReceiverAct, Receive, ReceiveGone, ReceiveGetSender, ReceiveAttached,
         ReceiveEnd, ReceiveConsume, ReceiveConsumeLatch, ReceiveBytes, ReceiveDetached,
         ReceiveRecheck, ReceiveRead, ReceiveReadLatch, ReceiveSleep, GotLengthWord,
         GotMessage, GotPart, ReceiveReturn, At, Go, SetLatch, WaitLatch, SendReturnsDetached,
         ReceiveReturnsDetached, IncBytesRead, queueVars, workerVars, handleVars, sendVars,
         receiveVars, historyVars
    <3>4. CASE PartyAct(p)
      BY <3>4 DEF PartyAct, WaitForAttach, InternalTest, InternalDetached, InternalSleep,
         WaitForAttachReturns, Detach, Fail, DetachInternal, DetachLatch, At, Go, SetLatch,
         WaitLatch, SendReturnsDetached, ReceiveReturnsDetached, IncBytesRead, queueVars,
         workerVars, handleVars, sendVars, receiveVars, historyVars
    <3> QED
      BY <3>1, <3>2, <3>3, <3>4 DEF Step
  <2>3. receiver' = receiver \/ receiver' = FALSE \/ receiver' = mq_proc[R]
    <3>1. CASE WorkerAct
      BY <3>1 DEF WorkerAct, StartWorker, Attach, AttachLatch, WorkerFails, WorkerStops,
         NotifyLeader, At, Go, SetLatch, WaitLatch, SendReturnsDetached,
         ReceiveReturnsDetached, IncBytesRead, queueVars, workerVars, handleVars, sendVars,
         receiveVars, historyVars
    <3>2. CASE SenderAct
      BY <3>2 DEF SenderAct, Send, SendAgain, SendDone, SendAvailable, SendDetached, SendGone,
         SendGetReceiver, SendAttached, SendFull, SendFullLatch, SendSleep, SendCopy,
         SendFinish, SendReceiver, SendPublish, SendLatch, SendReturn, At, Go, SetLatch,
         WaitLatch, SendReturnsDetached, ReceiveReturnsDetached, IncBytesRead, queueVars,
         workerVars, handleVars, sendVars, receiveVars, historyVars
    <3>3. CASE ReceiverAct
      BY <3>3 DEF ReceiverAct, Receive, ReceiveGone, ReceiveGetSender, ReceiveAttached,
         ReceiveEnd, ReceiveConsume, ReceiveConsumeLatch, ReceiveBytes, ReceiveDetached,
         ReceiveRecheck, ReceiveRead, ReceiveReadLatch, ReceiveSleep, GotLengthWord,
         GotMessage, GotPart, ReceiveReturn, At, Go, SetLatch, WaitLatch, SendReturnsDetached,
         ReceiveReturnsDetached, IncBytesRead, queueVars, workerVars, handleVars, sendVars,
         receiveVars, historyVars
    <3>4. CASE PartyAct(p)
      BY <3>4 DEF PartyAct, WaitForAttach, InternalTest, InternalDetached, InternalSleep,
         WaitForAttachReturns, Detach, Fail, DetachInternal, DetachLatch, At, Go, SetLatch,
         WaitLatch, SendReturnsDetached, ReceiveReturnsDetached, IncBytesRead, queueVars,
         workerVars, handleVars, sendVars, receiveVars, historyVars
    <3> QED
      BY <3>1, <3>2, <3>3, <3>4 DEF Step
  <2> QED
    BY <1>1, <2>1, <2>2, <2>3 DEF TypeOK
<1>14. ended' \in BOOLEAN /\ missed' \in BOOLEAN
  <2>1. ended' = ended \/ ended' = TRUE
    <3>1. CASE WorkerAct
      BY <3>1 DEF WorkerAct, StartWorker, Attach, AttachLatch, WorkerFails, WorkerStops,
         NotifyLeader, At, Go, SetLatch, WaitLatch, SendReturnsDetached,
         ReceiveReturnsDetached, IncBytesRead, queueVars, workerVars, handleVars, sendVars,
         receiveVars, historyVars
    <3>2. CASE SenderAct
      BY <3>2 DEF SenderAct, Send, SendAgain, SendDone, SendAvailable, SendDetached, SendGone,
         SendGetReceiver, SendAttached, SendFull, SendFullLatch, SendSleep, SendCopy,
         SendFinish, SendReceiver, SendPublish, SendLatch, SendReturn, At, Go, SetLatch,
         WaitLatch, SendReturnsDetached, ReceiveReturnsDetached, IncBytesRead, queueVars,
         workerVars, handleVars, sendVars, receiveVars, historyVars
    <3>3. CASE ReceiverAct
      BY <3>3 DEF ReceiverAct, Receive, ReceiveGone, ReceiveGetSender, ReceiveAttached,
         ReceiveEnd, ReceiveConsume, ReceiveConsumeLatch, ReceiveBytes, ReceiveDetached,
         ReceiveRecheck, ReceiveRead, ReceiveReadLatch, ReceiveSleep, GotLengthWord,
         GotMessage, GotPart, ReceiveReturn, At, Go, SetLatch, WaitLatch, SendReturnsDetached,
         ReceiveReturnsDetached, IncBytesRead, queueVars, workerVars, handleVars, sendVars,
         receiveVars, historyVars
    <3>4. CASE PartyAct(p)
      BY <3>4 DEF PartyAct, WaitForAttach, InternalTest, InternalDetached, InternalSleep,
         WaitForAttachReturns, Detach, Fail, DetachInternal, DetachLatch, At, Go, SetLatch,
         WaitLatch, SendReturnsDetached, ReceiveReturnsDetached, IncBytesRead, queueVars,
         workerVars, handleVars, sendVars, receiveVars, historyVars
    <3> QED
      BY <3>1, <3>2, <3>3, <3>4 DEF Step
  <2>2. missed' = missed \/ missed' = (missed \/ (~receiver /\ mq_proc[R]))
    <3>1. CASE WorkerAct
      BY <3>1 DEF WorkerAct, StartWorker, Attach, AttachLatch, WorkerFails, WorkerStops,
         NotifyLeader, At, Go, SetLatch, WaitLatch, SendReturnsDetached,
         ReceiveReturnsDetached, IncBytesRead, queueVars, workerVars, handleVars, sendVars,
         receiveVars, historyVars
    <3>2. CASE SenderAct
      BY <3>2 DEF SenderAct, Send, SendAgain, SendDone, SendAvailable, SendDetached, SendGone,
         SendGetReceiver, SendAttached, SendFull, SendFullLatch, SendSleep, SendCopy,
         SendFinish, SendReceiver, SendPublish, SendLatch, SendReturn, At, Go, SetLatch,
         WaitLatch, SendReturnsDetached, ReceiveReturnsDetached, IncBytesRead, queueVars,
         workerVars, handleVars, sendVars, receiveVars, historyVars
    <3>3. CASE ReceiverAct
      BY <3>3 DEF ReceiverAct, Receive, ReceiveGone, ReceiveGetSender, ReceiveAttached,
         ReceiveEnd, ReceiveConsume, ReceiveConsumeLatch, ReceiveBytes, ReceiveDetached,
         ReceiveRecheck, ReceiveRead, ReceiveReadLatch, ReceiveSleep, GotLengthWord,
         GotMessage, GotPart, ReceiveReturn, At, Go, SetLatch, WaitLatch, SendReturnsDetached,
         ReceiveReturnsDetached, IncBytesRead, queueVars, workerVars, handleVars, sendVars,
         receiveVars, historyVars
    <3>4. CASE PartyAct(p)
      BY <3>4 DEF PartyAct, WaitForAttach, InternalTest, InternalDetached, InternalSleep,
         WaitForAttachReturns, Detach, Fail, DetachInternal, DetachLatch, At, Go, SetLatch,
         WaitLatch, SendReturnsDetached, ReceiveReturnsDetached, IncBytesRead, queueVars,
         workerVars, handleVars, sendVars, receiveVars, historyVars
    <3> QED
      BY <3>1, <3>2, <3>3, <3>4 DEF Step
  <2> QED
    BY <1>1, <2>1, <2>2 DEF TypeOK
<1> QED
  BY <1>1, <1>3, <1>4, <1>5, <1>6, <1>7, <1>8, <1>9, <1>10, <1>11, <1>12, <1>13,
     <1>14 DEF TypeOK

(* What is counted and copied.                                             *)
LEMMA TypeDataStep ==
  ASSUME IInv, NEW p \in Party, Step(p)
  PROVE  /\ mq_bytes_read' \in Nat /\ mq_bytes_written' \in Nat
         /\ mq_ring' \in [0..RingSize - 1 -> Cell]
         /\ length_complete' \in [Party -> BOOLEAN] /\ partial' \in [Party -> Nat]
         /\ msg' \in 0..MaxMsgs /\ len' \in Length \cup {0}
         /\ expected' \in Length \cup {0} /\ written' \in Nat
         /\ buffer' \in Seq(Cell) /\ stream' \in Seq(Cell)
         /\ delivered' \in 0..MaxMsgs
<1>1. TypeOK
  BY DEF IInv
<1>2. S \in Party /\ R \in Party
  BY TwoParties
<1>3. CASE SendCopy
  <2>1. mq_ring' \in [0..RingSize - 1 -> Cell] /\ stream' \in Seq(Cell)
    BY <1>3, CopyEffect
  <2>2. UNCHANGED <<mq_bytes_read, mq_bytes_written, msg, len, expected, written, buffer,
                    delivered>>
    BY <1>3 DEF SendCopy, receiveVars
  <2>3. /\ length_complete' = [length_complete EXCEPT ![S] = TRUE]
        /\ \E n \in Nat : partial' = [partial EXCEPT ![S] = n]
    <3>1. /\ length_complete' = [length_complete EXCEPT ![S] = TRUE]
          /\ partial' = [partial EXCEPT ![S] = IF length_complete[S] THEN @ + SendNow ELSE 0]
      BY <1>3 DEF SendCopy, SendNow, Offset, End
    <3>2. partial[S] \in Nat /\ SendNow \in Nat
      BY <1>3, Numbers, CopyFits, CopyEffect
    <3>3. PICK n \in Nat : n = IF length_complete[S] THEN partial[S] + SendNow ELSE 0
      BY <3>2
    <3>4. partial' = [partial EXCEPT ![S] = n]
      BY <3>1, <3>3
    <3> QED
      BY <3>1, <3>4
  <2>4. length_complete' \in [Party -> BOOLEAN] /\ partial' \in [Party -> Nat]
    BY <1>1, <2>3 DEF TypeOK
  <2> QED
    BY <1>1, <2>1, <2>2, <2>4 DEF TypeOK
<1>4. CASE GotLengthWord \/ GotMessage \/ GotPart
  <2>1. PICK k \in Nat \ {0} : Takes(k)
    BY <1>4, GotEffect
  <2>2. UNCHANGED <<mq_bytes_read, mq_bytes_written, mq_ring, msg, len, written, stream>>
    BY <1>4 DEF GotLengthWord, GotMessage, GotPart, queueVars, sendVars
  <2> QED
    BY <1>1, <2>1, <2>2 DEF TypeOK, Takes
<1>5. CASE ~SendCopy /\ ~GotLengthWord /\ ~GotMessage /\ ~GotPart
  <2>1. UNCHANGED <<mq_ring, stream, delivered>>
    <3>1. CASE WorkerAct
      BY <1>5, <3>1 DEF WorkerAct, StartWorker, Attach, AttachLatch, WorkerFails, WorkerStops,
         NotifyLeader, At, Go, SetLatch, WaitLatch, SendReturnsDetached,
         ReceiveReturnsDetached, IncBytesRead, queueVars, workerVars, handleVars, sendVars,
         receiveVars, historyVars
    <3>2. CASE SenderAct
      BY <1>5, <3>2 DEF SenderAct, Send, SendAgain, SendDone, SendAvailable, SendDetached,
         SendGone, SendGetReceiver, SendAttached, SendFull, SendFullLatch, SendSleep, SendCopy,
         SendFinish, SendReceiver, SendPublish, SendLatch, SendReturn, At, Go, SetLatch,
         WaitLatch, SendReturnsDetached, ReceiveReturnsDetached, IncBytesRead, queueVars,
         workerVars, handleVars, sendVars, receiveVars, historyVars
    <3>3. CASE ReceiverAct
      BY <1>5, <3>3 DEF ReceiverAct, Receive, ReceiveGone, ReceiveGetSender, ReceiveAttached,
         ReceiveEnd, ReceiveConsume, ReceiveConsumeLatch, ReceiveBytes, ReceiveDetached,
         ReceiveRecheck, ReceiveRead, ReceiveReadLatch, ReceiveSleep, GotLengthWord,
         GotMessage, GotPart, ReceiveReturn, At, Go, SetLatch, WaitLatch, SendReturnsDetached,
         ReceiveReturnsDetached, IncBytesRead, queueVars, workerVars, handleVars, sendVars,
         receiveVars, historyVars
    <3>4. CASE PartyAct(p)
      BY <1>5, <3>4 DEF PartyAct, WaitForAttach, InternalTest, InternalDetached, InternalSleep,
         WaitForAttachReturns, Detach, Fail, DetachInternal, DetachLatch, At, Go, SetLatch,
         WaitLatch, SendReturnsDetached, ReceiveReturnsDetached, IncBytesRead, queueVars,
         workerVars, handleVars, sendVars, receiveVars, historyVars
    <3> QED
      BY <3>1, <3>2, <3>3, <3>4 DEF Step
  <2>2. /\ mq_bytes_read' = mq_bytes_read \/ mq_bytes_read' = mq_bytes_read + consume_pending
        /\ mq_bytes_written' = mq_bytes_written \/ mq_bytes_written' = mq_bytes_written + send_pending
    <3>1. CASE WorkerAct
      BY <1>5, <3>1 DEF WorkerAct, StartWorker, Attach, AttachLatch, WorkerFails, WorkerStops,
         NotifyLeader, At, Go, SetLatch, WaitLatch, SendReturnsDetached,
         ReceiveReturnsDetached, IncBytesRead, queueVars, workerVars, handleVars, sendVars,
         receiveVars, historyVars
    <3>2. CASE SenderAct
      BY <1>5, <3>2 DEF SenderAct, Send, SendAgain, SendDone, SendAvailable, SendDetached,
         SendGone, SendGetReceiver, SendAttached, SendFull, SendFullLatch, SendSleep, SendCopy,
         SendFinish, SendReceiver, SendPublish, SendLatch, SendReturn, At, Go, SetLatch,
         WaitLatch, SendReturnsDetached, ReceiveReturnsDetached, IncBytesRead, queueVars,
         workerVars, handleVars, sendVars, receiveVars, historyVars
    <3>3. CASE ReceiverAct
      BY <1>5, <3>3 DEF ReceiverAct, Receive, ReceiveGone, ReceiveGetSender, ReceiveAttached,
         ReceiveEnd, ReceiveConsume, ReceiveConsumeLatch, ReceiveBytes, ReceiveDetached,
         ReceiveRecheck, ReceiveRead, ReceiveReadLatch, ReceiveSleep, GotLengthWord,
         GotMessage, GotPart, ReceiveReturn, At, Go, SetLatch, WaitLatch, SendReturnsDetached,
         ReceiveReturnsDetached, IncBytesRead, queueVars, workerVars, handleVars, sendVars,
         receiveVars, historyVars
    <3>4. CASE PartyAct(p)
      BY <1>5, <3>4 DEF PartyAct, WaitForAttach, InternalTest, InternalDetached, InternalSleep,
         WaitForAttachReturns, Detach, Fail, DetachInternal, DetachLatch, At, Go, SetLatch,
         WaitLatch, SendReturnsDetached, ReceiveReturnsDetached, IncBytesRead, queueVars,
         workerVars, handleVars, sendVars, receiveVars, historyVars
    <3> QED
      BY <3>1, <3>2, <3>3, <3>4 DEF Step
  <2>3. /\ length_complete' = length_complete \/ \E q \in Party : length_complete' = [length_complete EXCEPT ![q] = FALSE]
        /\ partial' = partial \/ \E q \in Party : partial' = [partial EXCEPT ![q] = 0]
    <3>1. CASE WorkerAct
      BY <1>2, <1>5, <3>1 DEF WorkerAct, StartWorker, Attach, AttachLatch, WorkerFails,
         WorkerStops, NotifyLeader, At, Go, SetLatch, WaitLatch, SendReturnsDetached,
         ReceiveReturnsDetached, IncBytesRead, queueVars, workerVars, handleVars, sendVars,
         receiveVars, historyVars
    <3>2. CASE SenderAct
      BY <1>2, <1>5, <3>2 DEF SenderAct, Send, SendAgain, SendDone, SendAvailable,
         SendDetached, SendGone, SendGetReceiver, SendAttached, SendFull, SendFullLatch,
         SendSleep, SendCopy, SendFinish, SendReceiver, SendPublish, SendLatch, SendReturn, At,
         Go, SetLatch, WaitLatch, SendReturnsDetached, ReceiveReturnsDetached, IncBytesRead,
         queueVars, workerVars, handleVars, sendVars, receiveVars, historyVars
    <3>3. CASE ReceiverAct
      BY <1>2, <1>5, <3>3 DEF ReceiverAct, Receive, ReceiveGone, ReceiveGetSender,
         ReceiveAttached, ReceiveEnd, ReceiveConsume, ReceiveConsumeLatch, ReceiveBytes,
         ReceiveDetached, ReceiveRecheck, ReceiveRead, ReceiveReadLatch, ReceiveSleep,
         GotLengthWord, GotMessage, GotPart, ReceiveReturn, At, Go, SetLatch, WaitLatch,
         SendReturnsDetached, ReceiveReturnsDetached, IncBytesRead, queueVars, workerVars,
         handleVars, sendVars, receiveVars, historyVars
    <3>4. CASE PartyAct(p)
      BY <1>2, <1>5, <3>4 DEF PartyAct, WaitForAttach, InternalTest, InternalDetached,
         InternalSleep, WaitForAttachReturns, Detach, Fail, DetachInternal, DetachLatch, At,
         Go, SetLatch, WaitLatch, SendReturnsDetached, ReceiveReturnsDetached, IncBytesRead,
         queueVars, workerVars, handleVars, sendVars, receiveVars, historyVars
    <3> QED
      BY <3>1, <3>2, <3>3, <3>4 DEF Step
  <2>4. /\ len' = len \/ len' = 0 \/ len' \in Length
        /\ expected' = expected \/ expected' = 0
        /\ written' = written \/ written' = 0 \/ written' = mq_bytes_written
        /\ buffer' = buffer \/ buffer' = << >>
    <3>1. CASE WorkerAct
      BY <1>5, <3>1 DEF WorkerAct, StartWorker, Attach, AttachLatch, WorkerFails, WorkerStops,
         NotifyLeader, At, Go, SetLatch, WaitLatch, SendReturnsDetached,
         ReceiveReturnsDetached, IncBytesRead, queueVars, workerVars, handleVars, sendVars,
         receiveVars, historyVars
    <3>2. CASE SenderAct
      BY <1>5, <3>2 DEF SenderAct, Send, SendAgain, SendDone, SendAvailable, SendDetached,
         SendGone, SendGetReceiver, SendAttached, SendFull, SendFullLatch, SendSleep, SendCopy,
         SendFinish, SendReceiver, SendPublish, SendLatch, SendReturn, At, Go, SetLatch,
         WaitLatch, SendReturnsDetached, ReceiveReturnsDetached, IncBytesRead, queueVars,
         workerVars, handleVars, sendVars, receiveVars, historyVars
    <3>3. CASE ReceiverAct
      BY <1>5, <3>3 DEF ReceiverAct, Receive, ReceiveGone, ReceiveGetSender, ReceiveAttached,
         ReceiveEnd, ReceiveConsume, ReceiveConsumeLatch, ReceiveBytes, ReceiveDetached,
         ReceiveRecheck, ReceiveRead, ReceiveReadLatch, ReceiveSleep, GotLengthWord,
         GotMessage, GotPart, ReceiveReturn, At, Go, SetLatch, WaitLatch, SendReturnsDetached,
         ReceiveReturnsDetached, IncBytesRead, queueVars, workerVars, handleVars, sendVars,
         receiveVars, historyVars
    <3>4. CASE PartyAct(p)
      BY <1>5, <3>4 DEF PartyAct, WaitForAttach, InternalTest, InternalDetached, InternalSleep,
         WaitForAttachReturns, Detach, Fail, DetachInternal, DetachLatch, At, Go, SetLatch,
         WaitLatch, SendReturnsDetached, ReceiveReturnsDetached, IncBytesRead, queueVars,
         workerVars, handleVars, sendVars, receiveVars, historyVars
    <3> QED
      BY <3>1, <3>2, <3>3, <3>4 DEF Step
  <2>5. msg' = msg \/ (msg < MaxMsgs /\ msg' = msg + 1)
    <3>1. CASE WorkerAct
      BY <1>5, <3>1 DEF WorkerAct, StartWorker, Attach, AttachLatch, WorkerFails, WorkerStops,
         NotifyLeader, At, Go, SetLatch, WaitLatch, SendReturnsDetached,
         ReceiveReturnsDetached, IncBytesRead, queueVars, workerVars, handleVars, sendVars,
         receiveVars, historyVars
    <3>2. CASE SenderAct
      BY <1>5, <3>2 DEF SenderAct, Send, SendAgain, SendDone, SendAvailable, SendDetached,
         SendGone, SendGetReceiver, SendAttached, SendFull, SendFullLatch, SendSleep, SendCopy,
         SendFinish, SendReceiver, SendPublish, SendLatch, SendReturn, At, Go, SetLatch,
         WaitLatch, SendReturnsDetached, ReceiveReturnsDetached, IncBytesRead, queueVars,
         workerVars, handleVars, sendVars, receiveVars, historyVars
    <3>3. CASE ReceiverAct
      BY <1>5, <3>3 DEF ReceiverAct, Receive, ReceiveGone, ReceiveGetSender, ReceiveAttached,
         ReceiveEnd, ReceiveConsume, ReceiveConsumeLatch, ReceiveBytes, ReceiveDetached,
         ReceiveRecheck, ReceiveRead, ReceiveReadLatch, ReceiveSleep, GotLengthWord,
         GotMessage, GotPart, ReceiveReturn, At, Go, SetLatch, WaitLatch, SendReturnsDetached,
         ReceiveReturnsDetached, IncBytesRead, queueVars, workerVars, handleVars, sendVars,
         receiveVars, historyVars
    <3>4. CASE PartyAct(p)
      BY <1>5, <3>4 DEF PartyAct, WaitForAttach, InternalTest, InternalDetached, InternalSleep,
         WaitForAttachReturns, Detach, Fail, DetachInternal, DetachLatch, At, Go, SetLatch,
         WaitLatch, SendReturnsDetached, ReceiveReturnsDetached, IncBytesRead, queueVars,
         workerVars, handleVars, sendVars, receiveVars, historyVars
    <3> QED
      BY <3>1, <3>2, <3>3, <3>4 DEF Step
  <2>6. length_complete' \in [Party -> BOOLEAN] /\ partial' \in [Party -> Nat]
    <3>1. length_complete \in [Party -> BOOLEAN] /\ partial \in [Party -> Nat]
      BY <1>1 DEF TypeOK
    <3>2. length_complete' \in [Party -> BOOLEAN]
      BY <2>3, <3>1
    <3>3. partial' \in [Party -> Nat]
      <4>1. 0 \in Nat
        OBVIOUS
      <4> QED
        BY <2>3, <3>1, <4>1
    <3> QED
      BY <3>2, <3>3
  <2>7. mq_bytes_read' \in Nat /\ mq_bytes_written' \in Nat /\ written' \in Nat
    <3>1. /\ mq_bytes_read \in Nat /\ mq_bytes_written \in Nat /\ consume_pending \in Nat
          /\ send_pending \in Nat /\ written \in Nat
      BY Numbers
    <3> QED
      BY <2>2, <2>4, <3>1
  <2>8. msg' \in 0..MaxMsgs
    BY <1>1, <2>5, ConstantsAssumption DEF TypeOK
  <2>9. << >> \in Seq(Cell)
    OBVIOUS
  <2> QED
    BY <1>1, <2>1, <2>4, <2>6, <2>7, <2>8, <2>9 DEF TypeOK
<1> QED
  BY <1>3, <1>4, <1>5

-----------------------------------------------------------------------------
(* ControlInv                                                              *)
LEMMA ControlStep ==
  ASSUME IInv, NEW p \in Party, Step(p)
  PROVE  ControlInv'
<1>1. /\ pc \in [Party -> Label] /\ mq_proc \in [Party -> BOOLEAN] /\ attached \in [Party -> BOOLEAN]
      /\ caller \in [Party -> {"none", "wait_for_attach", "send", "receive"}]
      /\ found \in [Party -> BOOLEAN] /\ length_complete \in [Party -> BOOLEAN]
      /\ worker \in Party /\ mq_detached \in BOOLEAN
  BY DEF IInv, TypeOK
<1>2. /\ S # R /\ S \in Party /\ R \in Party /\ \A q \in Party : q = S \/ q = R
      /\ Other(S) = R /\ Other(R) = S
  BY TwoParties
<1>3. ControlInv
  BY DEF IInv
<1>4. worker' = worker /\ handle' = handle
  <2>1. CASE WorkerAct
    BY <2>1 DEF WorkerAct, StartWorker, Attach, AttachLatch, WorkerFails, WorkerStops,
       NotifyLeader, At, Go, SetLatch, WaitLatch, SendReturnsDetached, ReceiveReturnsDetached,
       IncBytesRead, queueVars, workerVars, handleVars, sendVars, receiveVars, historyVars
  <2>2. CASE SenderAct
    BY <2>2 DEF SenderAct, Send, SendAgain, SendDone, SendAvailable, SendDetached, SendGone,
       SendGetReceiver, SendAttached, SendFull, SendFullLatch, SendSleep, SendCopy, SendFinish,
       SendReceiver, SendPublish, SendLatch, SendReturn, At, Go, SetLatch, WaitLatch,
       SendReturnsDetached, ReceiveReturnsDetached, IncBytesRead, queueVars, workerVars,
       handleVars, sendVars, receiveVars, historyVars
  <2>3. CASE ReceiverAct
    BY <2>3 DEF ReceiverAct, Receive, ReceiveGone, ReceiveGetSender, ReceiveAttached,
       ReceiveEnd, ReceiveConsume, ReceiveConsumeLatch, ReceiveBytes, ReceiveDetached,
       ReceiveRecheck, ReceiveRead, ReceiveReadLatch, ReceiveSleep, GotLengthWord, GotMessage,
       GotPart, ReceiveReturn, At, Go, SetLatch, WaitLatch, SendReturnsDetached,
       ReceiveReturnsDetached, IncBytesRead, queueVars, workerVars, handleVars, sendVars,
       receiveVars, historyVars
  <2>4. CASE PartyAct(p)
    BY <2>4 DEF PartyAct, WaitForAttach, InternalTest, InternalDetached, InternalSleep,
       WaitForAttachReturns, Detach, Fail, DetachInternal, DetachLatch, At, Go, SetLatch,
       WaitLatch, SendReturnsDetached, ReceiveReturnsDetached, IncBytesRead, queueVars,
       workerVars, handleVars, sendVars, receiveVars, historyVars
  <2> QED
    BY <2>1, <2>2, <2>3, <2>4 DEF Step
<1>5. \A q \in Party : pc'[q] \in LabelsOf(q)
  <2>1. pc[S] \in LabelsOf(S) /\ pc[R] \in LabelsOf(R)
    BY <1>2, <1>3 DEF ControlInv
  <2>2. pc'[S] = pc[S] \/ pc'[S] \in LabelsOf(S)
    <3>1. CASE WorkerAct
      BY <1>1, <1>2, <3>1 DEF WorkerAct, StartWorker, Attach, AttachLatch, WorkerFails,
         WorkerStops, NotifyLeader, LabelsOf, Internal, Joining, Leaving, Sending, Sent, At,
         Go, SetLatch, WaitLatch, SendReturnsDetached, ReceiveReturnsDetached, IncBytesRead,
         queueVars, workerVars, handleVars, sendVars, receiveVars, historyVars
    <3>2. CASE SenderAct
      BY <1>1, <1>2, <3>2 DEF SenderAct, Send, SendAgain, SendDone, SendAvailable,
         SendDetached, SendGone, SendGetReceiver, SendAttached, SendFull, SendFullLatch,
         SendSleep, SendCopy, SendFinish, SendReceiver, SendPublish, SendLatch, SendReturn,
         LabelsOf, Internal, Joining, Leaving, Sending, Sent, At, Go, SetLatch, WaitLatch,
         SendReturnsDetached, ReceiveReturnsDetached, IncBytesRead, queueVars, workerVars,
         handleVars, sendVars, receiveVars, historyVars
    <3>3. CASE ReceiverAct
      BY <1>1, <1>2, <3>3 DEF ReceiverAct, Receive, ReceiveGone, ReceiveGetSender,
         ReceiveAttached, ReceiveEnd, ReceiveConsume, ReceiveConsumeLatch, ReceiveBytes,
         ReceiveDetached, ReceiveRecheck, ReceiveRead, ReceiveReadLatch, ReceiveSleep,
         GotLengthWord, GotMessage, GotPart, ReceiveReturn, LabelsOf, Internal, Joining,
         Leaving, Sending, Sent, At, Go, SetLatch, WaitLatch, SendReturnsDetached,
         ReceiveReturnsDetached, IncBytesRead, queueVars, workerVars, handleVars, sendVars,
         receiveVars, historyVars
    <3>4. CASE PartyAct(p)
      BY <1>1, <1>2, <3>4 DEF PartyAct, WaitForAttach, InternalTest, InternalDetached,
         InternalSleep, WaitForAttachReturns, Detach, Fail, DetachInternal, DetachLatch,
         LabelsOf, Internal, Joining, Leaving, Sending, Sent, At, Go, SetLatch, WaitLatch,
         SendReturnsDetached, ReceiveReturnsDetached, IncBytesRead, queueVars, workerVars,
         handleVars, sendVars, receiveVars, historyVars
    <3> QED
      BY <3>1, <3>2, <3>3, <3>4 DEF Step
  <2>3. pc'[R] = pc[R] \/ pc'[R] \in LabelsOf(R)
    <3>1. CASE ReceiverAct
      BY <1>1, <1>2, <3>1 DEF LabelsOf, Internal, Receiving, ReceiverAct, Receive, ReceiveGone,
         ReceiveGetSender, ReceiveAttached, ReceiveEnd, ReceiveConsume, ReceiveConsumeLatch,
         ReceiveBytes, ReceiveDetached, ReceiveRecheck, ReceiveRead, ReceiveReadLatch,
         ReceiveSleep, GotLengthWord, GotMessage, GotPart, ReceiveReturn, At, Go, SetLatch,
         WaitLatch, SendReturnsDetached, ReceiveReturnsDetached, IncBytesRead, queueVars,
         workerVars, handleVars, sendVars, receiveVars, historyVars
    <3>2. CASE PartyAct(p) /\ p = R
      BY <1>1, <1>2, <3>2 DEF LabelsOf, Internal, Leaving, PartyAct, WaitForAttach,
         InternalTest, InternalDetached, InternalSleep, WaitForAttachReturns, Detach, Fail,
         DetachInternal, DetachLatch, At, Go, SetLatch, WaitLatch, SendReturnsDetached,
         ReceiveReturnsDetached, IncBytesRead, queueVars, workerVars, handleVars, sendVars,
         receiveVars, historyVars
    <3>3. CASE WorkerAct /\ worker = R
      BY <1>1, <1>2, <3>3 DEF LabelsOf, Joining, Leaving, WorkerAct, StartWorker, Attach,
         AttachLatch, WorkerFails, WorkerStops, NotifyLeader, At, Go, SetLatch, WaitLatch,
         SendReturnsDetached, ReceiveReturnsDetached, IncBytesRead, queueVars, workerVars,
         handleVars, sendVars, receiveVars, historyVars
    <3> QED
      BY <1>2, <3>1, <3>2, <3>3, OneMoves DEF Stays
  <2> QED
    BY <1>2, <2>1, <2>2, <2>3
<1>6. ASSUME NEW q \in Party, pc'[q] \in Joining
      PROVE  q = worker
  <2>1. pc'[q] = pc[q] \/ q = worker
    <3>1. CASE WorkerAct /\ q = worker
      BY <3>1
    <3>2. CASE SenderAct /\ q = S
      BY <1>1, <1>2, <1>6, <3>2 DEF Joining, SenderAct, Send, SendAgain, SendDone,
         SendAvailable, SendDetached, SendGone, SendGetReceiver, SendAttached, SendFull,
         SendFullLatch, SendSleep, SendCopy, SendFinish, SendReceiver, SendPublish, SendLatch,
         SendReturn, At, Go, SetLatch, WaitLatch, SendReturnsDetached, ReceiveReturnsDetached,
         IncBytesRead, queueVars, workerVars, handleVars, sendVars, receiveVars, historyVars
    <3>3. CASE ReceiverAct /\ q = R
      BY <1>1, <1>2, <1>6, <3>3 DEF Joining, ReceiverAct, Receive, ReceiveGone,
         ReceiveGetSender, ReceiveAttached, ReceiveEnd, ReceiveConsume, ReceiveConsumeLatch,
         ReceiveBytes, ReceiveDetached, ReceiveRecheck, ReceiveRead, ReceiveReadLatch,
         ReceiveSleep, GotLengthWord, GotMessage, GotPart, ReceiveReturn, At, Go, SetLatch,
         WaitLatch, SendReturnsDetached, ReceiveReturnsDetached, IncBytesRead, queueVars,
         workerVars, handleVars, sendVars, receiveVars, historyVars
    <3>4. CASE PartyAct(p) /\ q = p
      BY <1>1, <1>6, <3>4 DEF Joining, PartyAct, WaitForAttach, InternalTest, InternalDetached,
         InternalSleep, WaitForAttachReturns, Detach, Fail, DetachInternal, DetachLatch, At,
         Go, SetLatch, WaitLatch, SendReturnsDetached, ReceiveReturnsDetached, IncBytesRead,
         queueVars, workerVars, handleVars, sendVars, receiveVars, historyVars
    <3> QED
      BY <3>1, <3>2, <3>3, <3>4, OneMoves DEF Stays
  <2> QED
    BY <1>3, <1>6, <2>1 DEF ControlInv
<1>7. ASSUME NEW q \in Party, pc'[q] \notin {"unborn", "attach", "exited"}
      PROVE  mq_proc'[q]
  <2>1. mq_proc[q] => mq_proc'[q]
    <3>1. CASE WorkerAct
      BY <1>1, <3>1 DEF WorkerAct, StartWorker, Attach, AttachLatch, WorkerFails, WorkerStops,
         NotifyLeader, At, Go, SetLatch, WaitLatch, SendReturnsDetached,
         ReceiveReturnsDetached, IncBytesRead, queueVars, workerVars, handleVars, sendVars,
         receiveVars, historyVars
    <3>2. CASE SenderAct
      BY <1>1, <3>2 DEF SenderAct, Send, SendAgain, SendDone, SendAvailable, SendDetached,
         SendGone, SendGetReceiver, SendAttached, SendFull, SendFullLatch, SendSleep, SendCopy,
         SendFinish, SendReceiver, SendPublish, SendLatch, SendReturn, At, Go, SetLatch,
         WaitLatch, SendReturnsDetached, ReceiveReturnsDetached, IncBytesRead, queueVars,
         workerVars, handleVars, sendVars, receiveVars, historyVars
    <3>3. CASE ReceiverAct
      BY <1>1, <3>3 DEF ReceiverAct, Receive, ReceiveGone, ReceiveGetSender, ReceiveAttached,
         ReceiveEnd, ReceiveConsume, ReceiveConsumeLatch, ReceiveBytes, ReceiveDetached,
         ReceiveRecheck, ReceiveRead, ReceiveReadLatch, ReceiveSleep, GotLengthWord,
         GotMessage, GotPart, ReceiveReturn, At, Go, SetLatch, WaitLatch, SendReturnsDetached,
         ReceiveReturnsDetached, IncBytesRead, queueVars, workerVars, handleVars, sendVars,
         receiveVars, historyVars
    <3>4. CASE PartyAct(p)
      BY <1>1, <3>4 DEF PartyAct, WaitForAttach, InternalTest, InternalDetached, InternalSleep,
         WaitForAttachReturns, Detach, Fail, DetachInternal, DetachLatch, At, Go, SetLatch,
         WaitLatch, SendReturnsDetached, ReceiveReturnsDetached, IncBytesRead, queueVars,
         workerVars, handleVars, sendVars, receiveVars, historyVars
    <3> QED
      BY <3>1, <3>2, <3>3, <3>4 DEF Step
  <2>2. pc[q] \notin {"unborn", "attach", "exited"} \/ mq_proc'[q]
    <3>1. CASE WorkerAct /\ q = worker
      BY <1>1, <1>7, <3>1 DEF WorkerAct, StartWorker, Attach, AttachLatch, WorkerFails,
         WorkerStops, NotifyLeader, At, Go, SetLatch, WaitLatch, SendReturnsDetached,
         ReceiveReturnsDetached, IncBytesRead, queueVars, workerVars, handleVars, sendVars,
         receiveVars, historyVars
    <3>2. CASE SenderAct /\ q = S
      BY <1>1, <1>2, <1>7, <3>2 DEF SenderAct, Send, SendAgain, SendDone, SendAvailable,
         SendDetached, SendGone, SendGetReceiver, SendAttached, SendFull, SendFullLatch,
         SendSleep, SendCopy, SendFinish, SendReceiver, SendPublish, SendLatch, SendReturn, At,
         Go, SetLatch, WaitLatch, SendReturnsDetached, ReceiveReturnsDetached, IncBytesRead,
         queueVars, workerVars, handleVars, sendVars, receiveVars, historyVars
    <3>3. CASE ReceiverAct /\ q = R
      BY <1>1, <1>2, <1>7, <3>3 DEF ReceiverAct, Receive, ReceiveGone, ReceiveGetSender,
         ReceiveAttached, ReceiveEnd, ReceiveConsume, ReceiveConsumeLatch, ReceiveBytes,
         ReceiveDetached, ReceiveRecheck, ReceiveRead, ReceiveReadLatch, ReceiveSleep,
         GotLengthWord, GotMessage, GotPart, ReceiveReturn, At, Go, SetLatch, WaitLatch,
         SendReturnsDetached, ReceiveReturnsDetached, IncBytesRead, queueVars, workerVars,
         handleVars, sendVars, receiveVars, historyVars
    <3>4. CASE PartyAct(p) /\ q = p
      BY <1>1, <1>7, <3>4 DEF Returned, Sleeping, PartyAct, WaitForAttach, InternalTest,
         InternalDetached, InternalSleep, WaitForAttachReturns, Detach, Fail, DetachInternal,
         DetachLatch, At, Go, SetLatch, WaitLatch, SendReturnsDetached, ReceiveReturnsDetached,
         IncBytesRead, queueVars, workerVars, handleVars, sendVars, receiveVars, historyVars
    <3> QED
      BY <1>7, <3>1, <3>2, <3>3, <3>4, OneMoves DEF Stays
  <2> QED
    BY <1>3, <2>1, <2>2 DEF ControlInv
<1>8. ASSUME status' = "stopped"
      PROVE  pc'[worker] = "exited"
  <2>1. \/ status = "stopped" /\ (pc[worker] = "exited" => pc'[worker] = "exited")
        \/ pc'[worker] = "exited"
    <3>1. CASE WorkerAct
      BY <1>1, <1>8, <3>1 DEF WorkerAct, StartWorker, Attach, AttachLatch, WorkerFails,
         WorkerStops, NotifyLeader, Returned, Sleeping, At, Go, SetLatch, WaitLatch,
         SendReturnsDetached, ReceiveReturnsDetached, IncBytesRead, queueVars, workerVars,
         handleVars, sendVars, receiveVars, historyVars
    <3>2. CASE SenderAct
      BY <1>1, <1>8, <3>2 DEF SenderAct, Send, SendAgain, SendDone, SendAvailable,
         SendDetached, SendGone, SendGetReceiver, SendAttached, SendFull, SendFullLatch,
         SendSleep, SendCopy, SendFinish, SendReceiver, SendPublish, SendLatch, SendReturn,
         Returned, Sleeping, At, Go, SetLatch, WaitLatch, SendReturnsDetached,
         ReceiveReturnsDetached, IncBytesRead, queueVars, workerVars, handleVars, sendVars,
         receiveVars, historyVars
    <3>3. CASE ReceiverAct
      BY <1>1, <1>8, <3>3 DEF ReceiverAct, Receive, ReceiveGone, ReceiveGetSender,
         ReceiveAttached, ReceiveEnd, ReceiveConsume, ReceiveConsumeLatch, ReceiveBytes,
         ReceiveDetached, ReceiveRecheck, ReceiveRead, ReceiveReadLatch, ReceiveSleep,
         GotLengthWord, GotMessage, GotPart, ReceiveReturn, Returned, Sleeping, At, Go,
         SetLatch, WaitLatch, SendReturnsDetached, ReceiveReturnsDetached, IncBytesRead,
         queueVars, workerVars, handleVars, sendVars, receiveVars, historyVars
    <3>4. CASE PartyAct(p)
      BY <1>1, <1>8, <3>4 DEF PartyAct, WaitForAttach, InternalTest, InternalDetached,
         InternalSleep, WaitForAttachReturns, Detach, Fail, DetachInternal, DetachLatch,
         Returned, Sleeping, At, Go, SetLatch, WaitLatch, SendReturnsDetached,
         ReceiveReturnsDetached, IncBytesRead, queueVars, workerVars, handleVars, sendVars,
         receiveVars, historyVars
    <3> QED
      BY <3>1, <3>2, <3>3, <3>4 DEF Step
  <2> QED
    BY <1>3, <2>1 DEF ControlInv
<1>9. ASSUME NEW q \in Party, pc'[q] \in Internal \/ caller'[q] = "none"
      PROVE  ~attached'[q]
  <2>1. CASE Stays(q)
    BY <1>3, <1>9, <2>1 DEF Stays, ControlInv
  <2>2. CASE WorkerAct /\ q = worker
    <3>1. /\ attached' = attached /\ caller' = caller
          /\ pc'[q] \in {"attach", "attach_latch", "idle", "exited"} \/ pc'[q] = pc[q]
      BY <1>1, <2>2 DEF WorkerAct, StartWorker, Attach, AttachLatch, WorkerFails, WorkerStops,
         NotifyLeader, At, Go, SetLatch, WaitLatch, SendReturnsDetached,
         ReceiveReturnsDetached, IncBytesRead, queueVars, workerVars, handleVars, sendVars,
         receiveVars, historyVars
    <3> QED
      BY <1>3, <1>9, <3>1 DEF ControlInv, Internal
  <2>3. CASE SenderAct /\ q = S
    <3>1. \/ ~attached'[S]
          \/ attached'[S] = attached[S] /\ (~attached[S] \/ pc[S] \in Internal \/ caller[S] = "none")
          \/ pc'[S] \notin Internal /\ caller'[S] = "send"
          \/ pc[S] \in Asked /\ pc'[S] \notin Internal /\ caller'[S] = caller[S]
      BY <1>1, <1>2, <1>9, <2>3 DEF Internal, Asked, SenderAct, Send, SendAgain, SendDone,
         SendAvailable, SendDetached, SendGone, SendGetReceiver, SendAttached, SendFull,
         SendFullLatch, SendSleep, SendCopy, SendFinish, SendReceiver, SendPublish, SendLatch,
         SendReturn, At, Go, SetLatch, WaitLatch, SendReturnsDetached, ReceiveReturnsDetached,
         IncBytesRead, queueVars, workerVars, handleVars, sendVars, receiveVars, historyVars
    <3>2. pc[S] \in Asked => caller[S] # "none"
      BY <1>3 DEF ControlInv
    <3> QED
      BY <1>3, <1>9, <2>3, <3>1, <3>2 DEF ControlInv
  <2>4. CASE ReceiverAct /\ q = R
    <3>1. \/ ~attached'[R]
          \/ attached'[R] = attached[R] /\ (~attached[R] \/ pc[R] \in Internal \/ caller[R] = "none")
          \/ pc'[R] \notin Internal /\ caller'[R] = "receive"
          \/ pc[R] = "receive_get_sender" /\ pc'[R] \notin Internal /\ caller'[R] = caller[R]
      BY <1>1, <1>2, <1>9, <2>4 DEF Internal, ReceiverAct, Receive, ReceiveGone,
         ReceiveGetSender, ReceiveAttached, ReceiveEnd, ReceiveConsume, ReceiveConsumeLatch,
         ReceiveBytes, ReceiveDetached, ReceiveRecheck, ReceiveRead, ReceiveReadLatch,
         ReceiveSleep, GotLengthWord, GotMessage, GotPart, ReceiveReturn, At, Go, SetLatch,
         WaitLatch, SendReturnsDetached, ReceiveReturnsDetached, IncBytesRead, queueVars,
         workerVars, handleVars, sendVars, receiveVars, historyVars
    <3> QED
      BY <1>3, <1>9, <2>4, <3>1 DEF ControlInv
  <2>5. CASE PartyAct(p) /\ q = p
    <3>1. \/ ~attached'[q]
          \/ attached'[q] = attached[q] /\ (pc[q] \in Internal \/ caller[q] = "none")
      BY <1>1, <1>9, <2>5 DEF Internal, PartyAct, WaitForAttach, InternalTest,
         InternalDetached, InternalSleep, WaitForAttachReturns, Detach, Fail, DetachInternal,
         DetachLatch, At, Go, SetLatch, WaitLatch, SendReturnsDetached, ReceiveReturnsDetached,
         IncBytesRead, queueVars, workerVars, handleVars, sendVars, receiveVars, historyVars
    <3> QED
      BY <1>3, <3>1 DEF ControlInv
  <2> QED
    BY <2>1, <2>2, <2>3, <2>4, <2>5, OneMoves
<1>10. ASSUME pc'[S] \in {"send_full", "send_full_latch", "send_sleep"}
       PROVE  attached'[S]
  <2>1. \/ attached'[S]
        \/ attached'[S] = attached[S] /\ pc[S] \in {"send_full", "send_full_latch",
                      "send_sleep"}
    <3>1. CASE WorkerAct
      BY <1>1, <1>2, <1>10, <3>1 DEF WorkerAct, StartWorker, Attach, AttachLatch, WorkerFails,
         WorkerStops, NotifyLeader, At, Go, SetLatch, WaitLatch, SendReturnsDetached,
         ReceiveReturnsDetached, IncBytesRead, queueVars, workerVars, handleVars, sendVars,
         receiveVars, historyVars
    <3>2. CASE SenderAct
      BY <1>1, <1>2, <1>10, <3>2 DEF SenderAct, Send, SendAgain, SendDone, SendAvailable,
         SendDetached, SendGone, SendGetReceiver, SendAttached, SendFull, SendFullLatch,
         SendSleep, SendCopy, SendFinish, SendReceiver, SendPublish, SendLatch, SendReturn, At,
         Go, SetLatch, WaitLatch, SendReturnsDetached, ReceiveReturnsDetached, IncBytesRead,
         queueVars, workerVars, handleVars, sendVars, receiveVars, historyVars
    <3>3. CASE ReceiverAct
      BY <1>1, <1>2, <1>10, <3>3 DEF ReceiverAct, Receive, ReceiveGone, ReceiveGetSender,
         ReceiveAttached, ReceiveEnd, ReceiveConsume, ReceiveConsumeLatch, ReceiveBytes,
         ReceiveDetached, ReceiveRecheck, ReceiveRead, ReceiveReadLatch, ReceiveSleep,
         GotLengthWord, GotMessage, GotPart, ReceiveReturn, At, Go, SetLatch, WaitLatch,
         SendReturnsDetached, ReceiveReturnsDetached, IncBytesRead, queueVars, workerVars,
         handleVars, sendVars, receiveVars, historyVars
    <3>4. CASE PartyAct(p)
      BY <1>1, <1>2, <1>10, <3>4 DEF PartyAct, WaitForAttach, InternalTest, InternalDetached,
         InternalSleep, WaitForAttachReturns, Detach, Fail, DetachInternal, DetachLatch, At,
         Go, SetLatch, WaitLatch, SendReturnsDetached, ReceiveReturnsDetached, IncBytesRead,
         queueVars, workerVars, handleVars, sendVars, receiveVars, historyVars
    <3> QED
      BY <3>1, <3>2, <3>3, <3>4 DEF Step
  <2> QED
    BY <1>3, <2>1 DEF ControlInv
<1>11. ASSUME pc'[R] \in Receiving
       PROVE  attached'[R]
  <2>1. attached'[R] \/ (attached'[R] = attached[R] /\ pc[R] \in Receiving)
    <3>1. CASE Stays(R)
      BY <1>11, <3>1 DEF Stays
    <3>2. CASE WorkerAct /\ worker = R
      BY <1>1, <1>2, <1>11, <3>2 DEF Receiving, WorkerAct, StartWorker, Attach, AttachLatch,
         WorkerFails, WorkerStops, NotifyLeader, At, Go, SetLatch, WaitLatch,
         SendReturnsDetached, ReceiveReturnsDetached, IncBytesRead, queueVars, workerVars,
         handleVars, sendVars, receiveVars, historyVars
    <3>3. CASE ReceiverAct
      BY <1>1, <1>2, <1>11, <3>3 DEF Receiving, ReceiverAct, Receive, ReceiveGone,
         ReceiveGetSender, ReceiveAttached, ReceiveEnd, ReceiveConsume, ReceiveConsumeLatch,
         ReceiveBytes, ReceiveDetached, ReceiveRecheck, ReceiveRead, ReceiveReadLatch,
         ReceiveSleep, GotLengthWord, GotMessage, GotPart, ReceiveReturn, At, Go, SetLatch,
         WaitLatch, SendReturnsDetached, ReceiveReturnsDetached, IncBytesRead, queueVars,
         workerVars, handleVars, sendVars, receiveVars, historyVars
    <3>4. CASE PartyAct(p) /\ p = R
      BY <1>1, <1>2, <1>11, <3>4 DEF Receiving, PartyAct, WaitForAttach, InternalTest,
         InternalDetached, InternalSleep, WaitForAttachReturns, Detach, Fail, DetachInternal,
         DetachLatch, At, Go, SetLatch, WaitLatch, SendReturnsDetached, ReceiveReturnsDetached,
         IncBytesRead, queueVars, workerVars, handleVars, sendVars, receiveVars, historyVars
    <3> QED
      BY <1>2, <3>1, <3>2, <3>3, <3>4, OneMoves
  <2> QED
    BY <1>3, <2>1 DEF ControlInv
<1>12. ASSUME pc'[S] \in Asked \/ length_complete'[S]
       PROVE  caller'[S] # "none"
  <2>1. \/ caller'[S] = "send"
        \/ /\ caller'[S] # "none" \/ caller'[S] = caller[S]
           /\ pc[S] \in Asked \/ length_complete[S] \/ ToSend = 0
    <3>1. CASE Stays(S)
      BY <1>12, <3>1 DEF Stays
    <3>2. CASE WorkerAct /\ worker = S
      BY <1>1, <1>2, <1>12, <3>2 DEF Asked, WorkerAct, StartWorker, Attach, AttachLatch,
         WorkerFails, WorkerStops, NotifyLeader, At, Go, SetLatch, WaitLatch,
         SendReturnsDetached, ReceiveReturnsDetached, IncBytesRead, queueVars, workerVars,
         handleVars, sendVars, receiveVars, historyVars
    <3>3. CASE SenderAct
      BY <1>1, <1>2, <1>12, <3>3 DEF Asked, SenderAct, Send, SendAgain, SendDone,
         SendAvailable, SendDetached, SendGone, SendGetReceiver, SendAttached, SendFull,
         SendFullLatch, SendSleep, SendCopy, SendFinish, SendReceiver, SendPublish, SendLatch,
         SendReturn, At, Go, SetLatch, WaitLatch, SendReturnsDetached, ReceiveReturnsDetached,
         IncBytesRead, queueVars, workerVars, handleVars, sendVars, receiveVars, historyVars
    <3>4. CASE PartyAct(p) /\ p = S
      BY <1>1, <1>2, <1>12, <3>4 DEF Asked, PartyAct, WaitForAttach, InternalTest,
         InternalDetached, InternalSleep, WaitForAttachReturns, Detach, Fail, DetachInternal,
         DetachLatch, At, Go, SetLatch, WaitLatch, SendReturnsDetached, ReceiveReturnsDetached,
         IncBytesRead, queueVars, workerVars, handleVars, sendVars, receiveVars, historyVars
    <3> QED
      BY <1>2, <3>1, <3>2, <3>3, <3>4, OneMoves
  <2>2. ToSend = 0 => length_complete[S]
    BY DEF ToSend
  <2> QED
    BY <1>3, <2>1, <2>2 DEF ControlInv
<1>14. ASSUME pc'[R] \in {"receive_gone", "receive_get_sender"}
       PROVE  caller'[R] # "none"
  <2>1. \/ caller'[R] = "receive"
        \/ caller'[R] = caller[R] /\ pc[R] \in {"receive_gone", "receive_get_sender"}
    <3>1. CASE Stays(R)
      BY <1>14, <3>1 DEF Stays
    <3>2. CASE WorkerAct /\ worker = R
      BY <1>1, <1>2, <1>14, <3>2 DEF WorkerAct, StartWorker, Attach, AttachLatch, WorkerFails,
         WorkerStops, NotifyLeader, At, Go, SetLatch, WaitLatch, SendReturnsDetached,
         ReceiveReturnsDetached, IncBytesRead, queueVars, workerVars, handleVars, sendVars,
         receiveVars, historyVars
    <3>3. CASE ReceiverAct
      BY <1>1, <1>2, <1>14, <3>3 DEF ReceiverAct, Receive, ReceiveGone, ReceiveGetSender,
         ReceiveAttached, ReceiveEnd, ReceiveConsume, ReceiveConsumeLatch, ReceiveBytes,
         ReceiveDetached, ReceiveRecheck, ReceiveRead, ReceiveReadLatch, ReceiveSleep,
         GotLengthWord, GotMessage, GotPart, ReceiveReturn, At, Go, SetLatch, WaitLatch,
         SendReturnsDetached, ReceiveReturnsDetached, IncBytesRead, queueVars, workerVars,
         handleVars, sendVars, receiveVars, historyVars
    <3>4. CASE PartyAct(p) /\ p = R
      BY <1>1, <1>2, <1>14, <3>4 DEF PartyAct, WaitForAttach, InternalTest, InternalDetached,
         InternalSleep, WaitForAttachReturns, Detach, Fail, DetachInternal, DetachLatch, At,
         Go, SetLatch, WaitLatch, SendReturnsDetached, ReceiveReturnsDetached, IncBytesRead,
         queueVars, workerVars, handleVars, sendVars, receiveVars, historyVars
    <3> QED
      BY <1>2, <3>1, <3>2, <3>3, <3>4, OneMoves
  <2> QED
    BY <1>3, <2>1 DEF ControlInv
<1>13. ASSUME NEW q \in Party, pc'[q] = "internal_return", ~found'[q]
       PROVE  mq_detached' \/ WorkerDead(q)'
  <2>1. /\ mq_detached => mq_detached'
        /\ status = "stopped" => status' = "stopped"
    <3>1. CASE WorkerAct
      BY <1>1, <3>1 DEF WorkerAct, StartWorker, Attach, AttachLatch, WorkerFails, WorkerStops,
         NotifyLeader, At, Go, SetLatch, WaitLatch, SendReturnsDetached,
         ReceiveReturnsDetached, IncBytesRead, queueVars, workerVars, handleVars, sendVars,
         receiveVars, historyVars
    <3>2. CASE SenderAct
      BY <1>1, <3>2 DEF SenderAct, Send, SendAgain, SendDone, SendAvailable, SendDetached,
         SendGone, SendGetReceiver, SendAttached, SendFull, SendFullLatch, SendSleep, SendCopy,
         SendFinish, SendReceiver, SendPublish, SendLatch, SendReturn, At, Go, SetLatch,
         WaitLatch, SendReturnsDetached, ReceiveReturnsDetached, IncBytesRead, queueVars,
         workerVars, handleVars, sendVars, receiveVars, historyVars
    <3>3. CASE ReceiverAct
      BY <1>1, <3>3 DEF ReceiverAct, Receive, ReceiveGone, ReceiveGetSender, ReceiveAttached,
         ReceiveEnd, ReceiveConsume, ReceiveConsumeLatch, ReceiveBytes, ReceiveDetached,
         ReceiveRecheck, ReceiveRead, ReceiveReadLatch, ReceiveSleep, GotLengthWord,
         GotMessage, GotPart, ReceiveReturn, At, Go, SetLatch, WaitLatch, SendReturnsDetached,
         ReceiveReturnsDetached, IncBytesRead, queueVars, workerVars, handleVars, sendVars,
         receiveVars, historyVars
    <3>4. CASE PartyAct(p)
      BY <1>1, <3>4 DEF PartyAct, WaitForAttach, InternalTest, InternalDetached, InternalSleep,
         WaitForAttachReturns, Detach, Fail, DetachInternal, DetachLatch, At, Go, SetLatch,
         WaitLatch, SendReturnsDetached, ReceiveReturnsDetached, IncBytesRead, queueVars,
         workerVars, handleVars, sendVars, receiveVars, historyVars
    <3> QED
      BY <3>1, <3>2, <3>3, <3>4 DEF Step
  <2>2. \/ pc[q] = "internal_return" /\ ~found[q]
        \/ mq_detached \/ WorkerDead(q)
    <3>1. CASE WorkerAct
      BY <1>1, <1>2, <1>13, <3>1 DEF WorkerAct, StartWorker, Attach, AttachLatch, WorkerFails,
         WorkerStops, NotifyLeader, At, Go, SetLatch, WaitLatch, SendReturnsDetached,
         ReceiveReturnsDetached, IncBytesRead, queueVars, workerVars, handleVars, sendVars,
         receiveVars, historyVars
    <3>2. CASE SenderAct
      BY <1>1, <1>2, <1>13, <3>2 DEF SenderAct, Send, SendAgain, SendDone, SendAvailable,
         SendDetached, SendGone, SendGetReceiver, SendAttached, SendFull, SendFullLatch,
         SendSleep, SendCopy, SendFinish, SendReceiver, SendPublish, SendLatch, SendReturn, At,
         Go, SetLatch, WaitLatch, SendReturnsDetached, ReceiveReturnsDetached, IncBytesRead,
         queueVars, workerVars, handleVars, sendVars, receiveVars, historyVars
    <3>3. CASE ReceiverAct
      BY <1>1, <1>2, <1>13, <3>3 DEF ReceiverAct, Receive, ReceiveGone, ReceiveGetSender,
         ReceiveAttached, ReceiveEnd, ReceiveConsume, ReceiveConsumeLatch, ReceiveBytes,
         ReceiveDetached, ReceiveRecheck, ReceiveRead, ReceiveReadLatch, ReceiveSleep,
         GotLengthWord, GotMessage, GotPart, ReceiveReturn, At, Go, SetLatch, WaitLatch,
         SendReturnsDetached, ReceiveReturnsDetached, IncBytesRead, queueVars, workerVars,
         handleVars, sendVars, receiveVars, historyVars
    <3>4. CASE InternalDetached(p)
      <4>1. /\ pc' = [pc EXCEPT ![p] = IF mq_detached \/ found[p] \/ WorkerDead(p)
                                       THEN "internal_return" ELSE "internal_sleep"]
            /\ found' = [found EXCEPT ![p] = found[p] /\ ~mq_detached]
        BY <3>4 DEF InternalDetached, Go
      <4>2. CASE q # p
        BY <1>1, <1>2, <1>13, <4>1, <4>2
      <4>3. CASE q = p
        <5>1. mq_detached \/ found[p] \/ WorkerDead(p)
          BY <1>1, <1>2, <1>13, <4>1, <4>3
        <5>2. found[p] => mq_detached
          BY <1>1, <1>2, <1>13, <4>1, <4>3
        <5> QED
          BY <4>3, <5>1, <5>2
      <4> QED
        BY <4>2, <4>3
    <3>5. CASE \/ WaitForAttach(p) \/ InternalTest(p) \/ InternalSleep(p)
               \/ WaitForAttachReturns(p) \/ Detach(p) \/ Fail(p) \/ DetachInternal(p)
               \/ DetachLatch(p)
      BY <1>1, <1>2, <1>13, <3>5 DEF WaitForAttach, InternalTest, InternalSleep,
         WaitForAttachReturns, Detach, Fail, DetachInternal, DetachLatch, At, Go, SetLatch,
         WaitLatch, SendReturnsDetached, ReceiveReturnsDetached, IncBytesRead, queueVars,
         workerVars, handleVars, sendVars, receiveVars, historyVars
    <3> QED
      BY <1>1, <3>1, <3>2, <3>3, <3>4, <3>5 DEF Step, PartyAct
  <2> QED
    BY <1>3, <1>4, <2>1, <2>2 DEF ControlInv, WorkerDead
<1> QED
  BY <1>4, <1>5, <1>6, <1>7, <1>8, <1>9, <1>10, <1>11, <1>12, <1>13, <1>14 DEF ControlInv

-----------------------------------------------------------------------------
(* PositionInv                                                             *)

(* The steps that move an end of the queue without touching the ring.      *)
Same      == UNCHANGED <<mq_ring, stream>>
Publishes ==
  /\ Same /\ mq_bytes_written' = mq_bytes_written + send_pending /\ send_pending' = 0
  /\ UNCHANGED <<mq_bytes_read, consume_pending, written>>
Consumes  ==
  /\ Same /\ mq_bytes_read' = mq_bytes_read + consume_pending /\ consume_pending' = 0
  /\ UNCHANGED <<mq_bytes_written, send_pending, written>>
Looks     ==
  /\ Same /\ written' \in {0, mq_bytes_written}
  /\ UNCHANGED <<mq_bytes_read, mq_bytes_written, send_pending, consume_pending>>
Forgets   ==
  /\ Same /\ UNCHANGED <<mq_bytes_read, mq_bytes_written>>
  /\ \/ /\ send_pending' = 0 /\ UNCHANGED <<consume_pending, written>>
        /\ pc'[S] \in {"detach_latch", "exited"}
     \/ consume_pending' = 0 /\ written' = 0 /\ UNCHANGED send_pending
Quiet     ==
  /\ Same
  /\ UNCHANGED <<mq_bytes_read, mq_bytes_written, send_pending, consume_pending, written>>

(* Every step but a copy and one that takes from the ring is one of them.  *)
LEMMA PositionEffect ==
  ASSUME IInv, NEW p \in Party, Step(p)
  PROVE  \/ SendCopy \/ GotLengthWord \/ GotMessage \/ GotPart
         \/ Publishes \/ Consumes \/ Looks \/ Forgets \/ Quiet
<1>1. pc \in [Party -> Label] /\ S \in Party /\ R \in Party /\ S # R
  BY TwoParties DEF IInv, TypeOK
<1>2. CASE WorkerAct
  BY <1>2 DEF Quiet, Same, WorkerAct, StartWorker, Attach, AttachLatch, WorkerFails,
     WorkerStops, NotifyLeader, At, Go, SetLatch, WaitLatch, SendReturnsDetached,
     ReceiveReturnsDetached, IncBytesRead, queueVars, workerVars, handleVars, sendVars,
     receiveVars, historyVars
<1>3. CASE SenderAct
  BY <1>3 DEF Quiet, Publishes, Same, SenderAct, Send, SendAgain, SendDone, SendAvailable,
     SendDetached, SendGone, SendGetReceiver, SendAttached, SendFull, SendFullLatch, SendSleep,
     SendCopy, SendFinish, SendReceiver, SendPublish, SendLatch, SendReturn, At, Go, SetLatch,
     WaitLatch, SendReturnsDetached, ReceiveReturnsDetached, IncBytesRead, queueVars,
     workerVars, handleVars, sendVars, receiveVars, historyVars
<1>4. CASE ReceiverAct
  BY <1>4 DEF Quiet, Consumes, Looks, Same, ReceiverAct, Receive, ReceiveGone,
     ReceiveGetSender, ReceiveAttached, ReceiveEnd, ReceiveConsume, ReceiveConsumeLatch,
     ReceiveBytes, ReceiveDetached, ReceiveRecheck, ReceiveRead, ReceiveReadLatch,
     ReceiveSleep, GotLengthWord, GotMessage, GotPart, ReceiveReturn, At, Go, SetLatch,
     WaitLatch, SendReturnsDetached, ReceiveReturnsDetached, IncBytesRead, queueVars,
     workerVars, handleVars, sendVars, receiveVars, historyVars
<1>5. CASE PartyAct(p)
  <2>1. CASE DetachInternal(p)
    BY <1>1, <2>1, TwoParties DEF DetachInternal, Forgets, Same, Go, historyVars, sendVars,
       receiveVars
  <2>2. CASE ~DetachInternal(p)
    BY <1>5, <2>2 DEF Quiet, Publishes, Same, PartyAct, WaitForAttach, InternalTest,
       InternalDetached, InternalSleep, WaitForAttachReturns, Detach, Fail, DetachInternal,
       DetachLatch, At, Go, SetLatch, WaitLatch, SendReturnsDetached, ReceiveReturnsDetached,
       IncBytesRead, queueVars, workerVars, handleVars, sendVars, receiveVars, historyVars
  <2> QED
    BY <2>1, <2>2
<1> QED
  BY <1>2, <1>3, <1>4, <1>5 DEF Step

(* While the receiver has found enough data, only it changes what it knows.*)
LEMMA StillGot ==
  ASSUME IInv, NEW p \in Party, Step(p), pc'[R] = "receive_got"
  PROVE  \/ ReceiveBytes /\ Enough(mq_bytes_written)
         \/ /\ pc[R] = "receive_got" /\ Stays(R)
            /\ UNCHANGED <<mq_bytes_read, consume_pending, written, expected>>
<1>1. pc \in [Party -> Label] /\ S \in Party /\ R \in Party /\ S # R
  BY TwoParties DEF IInv, TypeOK
<1>2. CASE Stays(R) /\ ~ReceiverAct
  <2>1. pc[R] = "receive_got"
    BY <1>2 DEF Stays
  <2>2. CASE WorkerAct \/ SenderAct
    BY <1>2, <2>1, <2>2 DEF WorkerAct, StartWorker, Attach, AttachLatch, WorkerFails,
       WorkerStops, NotifyLeader, At, Go, SetLatch, WaitLatch, SendReturnsDetached,
       ReceiveReturnsDetached, IncBytesRead, queueVars, workerVars, handleVars, sendVars,
       receiveVars, historyVars, SenderAct, Send, SendAgain, SendDone, SendAvailable,
       SendDetached, SendGone, SendGetReceiver, SendAttached, SendFull, SendFullLatch,
       SendSleep, SendCopy, SendFinish, SendReceiver, SendPublish, SendLatch, SendReturn
  <2>3. CASE PartyAct(p)
    <3>1. p = S
      BY <2>1, <2>3, TwoParties DEF Returned, Sleeping, PartyAct, WaitForAttach, InternalTest,
         InternalDetached, InternalSleep, WaitForAttachReturns, Detach, Fail, DetachInternal,
         DetachLatch, At, Go, SetLatch, WaitLatch, SendReturnsDetached, ReceiveReturnsDetached,
         IncBytesRead, queueVars, workerVars, handleVars, sendVars, receiveVars, historyVars
    <3> QED
      BY <1>1, <1>2, <2>1, <2>3, <3>1 DEF PartyAct, WaitForAttach, InternalTest,
         InternalDetached, InternalSleep, WaitForAttachReturns, Detach, Fail, DetachInternal,
         DetachLatch, At, Go, SetLatch, WaitLatch, SendReturnsDetached, ReceiveReturnsDetached,
         IncBytesRead, queueVars, workerVars, handleVars, sendVars, receiveVars, historyVars
  <2> QED
    BY <1>2, <2>2, <2>3 DEF Step
<1>3. CASE ReceiverAct
  BY <1>1, <1>3 DEF ReceiverAct, Receive, ReceiveGone, ReceiveGetSender, ReceiveAttached,
     ReceiveEnd, ReceiveConsume, ReceiveConsumeLatch, ReceiveBytes, ReceiveDetached,
     ReceiveRecheck, ReceiveRead, ReceiveReadLatch, ReceiveSleep, GotLengthWord, GotMessage,
     GotPart, ReceiveReturn, At, Go, SetLatch, WaitLatch, SendReturnsDetached,
     ReceiveReturnsDetached, IncBytesRead, queueVars, workerVars, handleVars, sendVars,
     receiveVars, historyVars
<1>4. CASE WorkerAct /\ R = worker
  BY <1>1, <1>4 DEF Stays, WorkerAct, StartWorker, Attach, AttachLatch, WorkerFails,
     WorkerStops, NotifyLeader, At, Go, SetLatch, WaitLatch, SendReturnsDetached,
     ReceiveReturnsDetached, IncBytesRead, queueVars, workerVars, handleVars, sendVars,
     receiveVars, historyVars
<1>5. CASE PartyAct(p) /\ R = p
  BY <1>1, <1>5 DEF PartyAct, WaitForAttach, InternalTest, InternalDetached, InternalSleep,
     WaitForAttachReturns, Detach, Fail, DetachInternal, DetachLatch, At, Go, SetLatch,
     WaitLatch, SendReturnsDetached, ReceiveReturnsDetached, IncBytesRead, queueVars,
     workerVars, handleVars, sendVars, receiveVars, historyVars
<1> QED
  BY <1>1, <1>2, <1>3, <1>4, <1>5, OneMoves

(* The sender's private end goes when the sender goes.                     *)
LEMMA StillSending ==
  ASSUME IInv, NEW p \in Party, Step(p), pc'[S] \notin {"detach_latch", "exited"}
  PROVE  pc[S] \notin {"detach_latch", "exited"}
<1>1. pc \in [Party -> Label] /\ S \in Party /\ R \in Party /\ S # R
  BY TwoParties DEF IInv, TypeOK
<1>2. CASE WorkerAct /\ S = worker
  BY <1>1, <1>2 DEF WorkerAct, StartWorker, Attach, AttachLatch, WorkerFails, WorkerStops,
     NotifyLeader, At, Go, SetLatch, WaitLatch, SendReturnsDetached, ReceiveReturnsDetached,
     IncBytesRead, queueVars, workerVars, handleVars, sendVars, receiveVars, historyVars
<1>3. CASE SenderAct
  BY <1>1, <1>3 DEF SenderAct, Send, SendAgain, SendDone, SendAvailable, SendDetached,
     SendGone, SendGetReceiver, SendAttached, SendFull, SendFullLatch, SendSleep, SendCopy,
     SendFinish, SendReceiver, SendPublish, SendLatch, SendReturn, At, Go, SetLatch, WaitLatch,
     SendReturnsDetached, ReceiveReturnsDetached, IncBytesRead, queueVars, workerVars,
     handleVars, sendVars, receiveVars, historyVars
<1>4. CASE PartyAct(p) /\ p = S
  BY <1>1, <1>4 DEF Returned, Sleeping, PartyAct, WaitForAttach, InternalTest,
     InternalDetached, InternalSleep, WaitForAttachReturns, Detach, Fail, DetachInternal,
     DetachLatch, At, Go, SetLatch, WaitLatch, SendReturnsDetached, ReceiveReturnsDetached,
     IncBytesRead, queueVars, workerVars, handleVars, sendVars, receiveVars, historyVars
<1> QED
  BY <1>1, <1>2, <1>3, <1>4, OneMoves DEF Stays

(* What is copied goes to places of the ring that hold nothing unread.     *)
LEMMA CopyKeepsUnread ==
  ASSUME IInv, SendCopy
  PROVE  \A x \in mq_bytes_read'..End' - 1 : mq_ring'[x % RingSize] = stream'[x + 1]
<1>1. pc[S] = "send_copy" /\ End' = End + SendNow /\ mq_bytes_read' = mq_bytes_read
  <2>1. /\ pc[S] = "send_copy" /\ send_pending' = send_pending + SendNow
        /\ mq_bytes_written' = mq_bytes_written /\ mq_bytes_read' = mq_bytes_read
    BY CopyEffect
  <2>2. SendNow \in Nat /\ send_pending \in Nat /\ mq_bytes_written \in Nat
    BY <2>1, CopyFits, Numbers
  <2> QED
    BY <2>1, <2>2 DEF End
<1>2. /\ Offset \in 0..RingSize - 1 /\ SendNow \in Nat /\ Offset + SendNow <= RingSize
      /\ End + SendNow <= mq_bytes_read + RingSize /\ Len(stream) = End
  BY <1>1, CopyFits
<1>3. RingSize \in Nat \ {0} /\ mq_bytes_read \in Nat /\ End \in Nat
  BY Numbers
<1>4. SUFFICES ASSUME NEW x \in mq_bytes_read..(End + SendNow) - 1
               PROVE  mq_ring'[x % RingSize] = stream'[x + 1]
  BY <1>1
<1>5. x \in Nat /\ x % RingSize \in 0..RingSize - 1
  BY <1>3, ModDef
<1>6. /\ \A y \in 1..Len(stream) : stream'[y] = stream[y]
      /\ \A j \in 1..SendNow : stream'[Len(stream) + j] = NewCell(j)
      /\ \A o \in 0..RingSize - 1 :
           mq_ring'[o] = IF o \in Offset..(Offset + SendNow) - 1
                         THEN NewCell((o - Offset) + 1) ELSE mq_ring[o]
  BY CopyEffect
<1>7. ASSUME NEW j \in Nat, j < SendNow
      PROVE  (End + j) % RingSize = Offset + j
  <2>1. (End % RingSize) + j < RingSize
    BY <1>2, <1>3, <1>7 DEF Offset
  <2> QED
    BY <1>3, <2>1, ModContiguous DEF Offset
<1>8. CASE x < End
  <2>1. mq_ring[x % RingSize] = stream[x + 1]
    BY <1>3, <1>8 DEF IInv, PositionInv
  <2>2. x % RingSize \notin Offset..(Offset + SendNow) - 1
    <3>1. SUFFICES ASSUME x % RingSize \in Offset..(Offset + SendNow) - 1
                   PROVE  FALSE
      OBVIOUS
    <3>2. PICK j \in Nat : j = (x % RingSize) - Offset /\ j < SendNow
      BY <1>2, <1>5, <3>1
    <3>3. PICK y \in Nat : y = End + j
      BY <1>3
    <3>4. y % RingSize = x % RingSize
      BY <1>2, <1>5, <1>7, <3>2, <3>3
    <3>5. x < y /\ y < x + RingSize
      BY <1>2, <1>3, <1>5, <1>8, <3>2, <3>3
    <3> QED
      BY <1>3, <1>5, <3>4, <3>5, ModDifferent
  <2>3. mq_ring'[x % RingSize] = mq_ring[x % RingSize]
    BY <1>5, <1>6, <2>2
  <2>4. x + 1 \in 1..Len(stream)
    BY <1>2, <1>3, <1>5, <1>8
  <2> QED
    BY <1>6, <2>1, <2>3, <2>4
<1>9. CASE ~(x < End)
  <2>1. PICK j \in Nat : j = x - End /\ j < SendNow
    BY <1>2, <1>3, <1>5, <1>9
  <2>2. x = End + j
    BY <1>3, <1>5, <2>1
  <2>3. x % RingSize = Offset + j
    BY <1>7, <2>1, <2>2
  <2>4. /\ x % RingSize \in Offset..(Offset + SendNow) - 1
        /\ ((x % RingSize) - Offset) + 1 = j + 1
    BY <1>2, <1>5, <2>1, <2>3
  <2>5. mq_ring'[x % RingSize] = NewCell(j + 1)
    BY <1>5, <1>6, <2>4
  <2>6. j + 1 \in 1..SendNow /\ x + 1 = Len(stream) + (j + 1)
    BY <1>2, <1>3, <2>1, <2>2
  <2>7. stream'[x + 1] = NewCell(j + 1)
    BY <1>6, <2>6
  <2> QED
    BY <2>5, <2>7
<1> QED
  BY <1>8, <1>9

(* The positions are in order, and what is unread is in the ring.          *)
LEMMA PositionStep ==
  ASSUME IInv, NEW p \in Party, Step(p)
  PROVE  PositionInv' /\ send_pending' \in Nat /\ consume_pending' \in Nat
<1>1. /\ RingSize \in Nat \ {0} /\ mq_bytes_read \in Nat /\ mq_bytes_written \in Nat
      /\ send_pending \in Nat /\ consume_pending \in Nat /\ written \in Nat
      /\ End \in Nat /\ ReadPos \in Nat /\ Len(stream) \in Nat
  BY Numbers
<1>2. /\ ReadPos <= mq_bytes_written /\ End <= mq_bytes_read + RingSize /\ End <= Len(stream)
      /\ pc[S] \notin {"detach_latch", "exited"} => Len(stream) = End
      /\ \A x \in mq_bytes_read..End - 1 : mq_ring[x % RingSize] = stream[x + 1]
      /\ written <= mq_bytes_written
      /\ pc[R] = "receive_got" => ReadPos <= written /\ Enough(written)
  BY DEF IInv, PositionInv
<1>3. pc'[R] = "receive_got" => (ReadPos <= written /\ Enough(written))'
  <2>1. SUFFICES ASSUME pc'[R] = "receive_got"
                 PROVE  (ReadPos <= written)' /\ Enough(written)'
    OBVIOUS
  <2>2. CASE ReceiveBytes /\ Enough(mq_bytes_written)
    <3>1. /\ written' = mq_bytes_written
          /\ UNCHANGED <<mq_bytes_read, consume_pending, expected, length_complete, partial>>
      BY <2>2 DEF ReceiveBytes, queueVars, handleVars
    <3>2. ReadPos' = ReadPos /\ Needed' = Needed
      BY <3>1 DEF ReadPos, Needed
    <3> QED
      BY <1>2, <2>2, <3>1, <3>2 DEF Enough, ReadOffset
  <2>3. CASE /\ pc[R] = "receive_got" /\ Stays(R)
             /\ UNCHANGED <<mq_bytes_read, consume_pending, written, expected>>
    <3>1. ReadPos' = ReadPos /\ Needed' = Needed
      BY <2>3 DEF ReadPos, Needed, Stays
    <3> QED
      BY <1>2, <2>3, <3>1 DEF Enough, ReadOffset
  <2> QED
    BY <2>1, <2>2, <2>3, StillGot
<1>4. pc'[S] \notin {"detach_latch", "exited"} => Len(stream) = End
  BY <1>2, StillSending
<1>5. CASE SendCopy
  <2>1. /\ send_pending' = send_pending + SendNow /\ mq_bytes_written' = mq_bytes_written
        /\ mq_bytes_read' = mq_bytes_read /\ Len(stream') = Len(stream) + SendNow /\ pc[S] = "send_copy"
    BY <1>5, CopyEffect
  <2>2. consume_pending' = consume_pending /\ written' = written
    BY <1>5 DEF SendCopy, receiveVars
  <2>3. SendNow \in Nat /\ End + SendNow <= mq_bytes_read + RingSize /\ Len(stream) = End
    BY <2>1, CopyFits
  <2>4. End' = End + SendNow /\ ReadPos' = ReadPos
    BY <1>1, <2>1, <2>2, <2>3 DEF End, ReadPos
  <2>5. send_pending' \in Nat /\ consume_pending' \in Nat
    BY <1>1, <2>1, <2>2, <2>3
  <2>6. /\ ReadPos' <= mq_bytes_written' /\ End' <= mq_bytes_read' + RingSize
        /\ Len(stream') = End' /\ End' <= Len(stream') /\ written' <= mq_bytes_written'
    BY <1>1, <1>2, <2>1, <2>2, <2>3, <2>4
  <2>7. \A x \in mq_bytes_read'..End' - 1 : mq_ring'[x % RingSize] = stream'[x + 1]
    BY <1>5, CopyKeepsUnread
  <2> QED
    BY <1>3, <2>5, <2>6, <2>7 DEF PositionInv
<1>6. ASSUME /\ Same /\ send_pending' \in Nat /\ consume_pending' \in Nat
             /\ mq_bytes_read <= mq_bytes_read' /\ mq_bytes_read' \in Nat
             /\ ReadPos' <= mq_bytes_written' /\ mq_bytes_written' \in Nat
             /\ End' <= End /\ written' <= mq_bytes_written'
             /\ pc'[S] \notin {"detach_latch", "exited"} => End' = End
      PROVE  PositionInv' /\ send_pending' \in Nat /\ consume_pending' \in Nat
  <2>1. PICK r, w, sp, e \in Nat :
          mq_bytes_read' = r /\ mq_bytes_written' = w /\ send_pending' = sp /\ e = w + sp
    BY <1>6
  <2>2. End' = e /\ Len(stream') = Len(stream) /\ e <= End /\ mq_bytes_read <= r
    <3>1. End' = e
      BY <2>1 DEF End
    <3>2. Len(stream') = Len(stream)
      BY <1>6 DEF Same
    <3> QED
      BY <1>6, <2>1, <3>1, <3>2
  <2>3. End' <= mq_bytes_read' + RingSize /\ End' <= Len(stream')
    <3>1. e <= r + RingSize /\ e <= Len(stream)
      BY <1>1, <1>2, <2>1, <2>2
    <3> QED
      BY <2>1, <2>2, <3>1
  <2>4. ASSUME NEW x \in mq_bytes_read'..End' - 1
        PROVE  mq_ring'[x % RingSize] = stream'[x + 1]
    <3>0. x \in r..e - 1
      BY <2>1, <2>2
    <3>1. x \in mq_bytes_read..End - 1
      BY <1>1, <2>1, <2>2, <3>0
    <3> QED
      BY <1>2, <1>6, <3>1 DEF Same
  <2>5. pc'[S] \notin {"detach_latch", "exited"} => Len(stream') = End'
    BY <1>4, <1>6, <2>2
  <2> QED
    BY <1>3, <1>6, <2>3, <2>4, <2>5 DEF PositionInv
<1>7. CASE GotLengthWord \/ GotMessage \/ GotPart
  <2>1. PICK k \in Nat \ {0} : Takes(k)
    BY <1>7, GotEffect
  <2>2. ReadPos + k <= mq_bytes_written /\ consume_pending' = consume_pending + k
    BY <2>1 DEF Takes
  <2>3. /\ UNCHANGED <<mq_bytes_read, mq_bytes_written, send_pending, written>>
        /\ Same
    BY <1>7 DEF GotLengthWord, GotMessage, GotPart, queueVars, sendVars, Same
  <2>4. ReadPos' = ReadPos + k /\ End' = End
    BY <1>1, <2>2, <2>3 DEF ReadPos, End
  <2>5. consume_pending' \in Nat
    BY <1>1, <2>2
  <2> QED
    BY <1>1, <1>2, <1>6, <2>2, <2>3, <2>4, <2>5
<1>8. CASE Publishes
  <2>1. End' = End /\ ReadPos' = ReadPos
    BY <1>1, <1>8 DEF Publishes, End, ReadPos
  <2> QED
    BY <1>1, <1>2, <1>6, <1>8, <2>1 DEF Publishes
<1>9. CASE Consumes
  <2>1. End' = End /\ ReadPos' = ReadPos
    BY <1>1, <1>9 DEF Consumes, End, ReadPos
  <2> QED
    BY <1>1, <1>2, <1>6, <1>9, <2>1 DEF Consumes
<1>10. CASE Looks
  <2>1. End' = End /\ ReadPos' = ReadPos
    BY <1>10 DEF Looks, End, ReadPos
  <2> QED
    BY <1>1, <1>2, <1>6, <1>10, <2>1 DEF Looks
<1>11. CASE Forgets
  <2>1. /\ Same /\ UNCHANGED <<mq_bytes_read, mq_bytes_written>>
        /\ send_pending' \in Nat /\ consume_pending' \in Nat /\ written' \in Nat
        /\ send_pending' <= send_pending /\ consume_pending' <= consume_pending /\ written' <= written
        /\ pc'[S] \notin {"detach_latch", "exited"} => send_pending' = send_pending
    BY <1>1, <1>11 DEF Forgets
  <2>2. /\ End' <= End /\ ReadPos' <= ReadPos /\ ReadPos' \in Nat
        /\ pc'[S] \notin {"detach_latch", "exited"} => End' = End
    <3>1. PICK sp, cp, e, rp \in Nat :
            /\ send_pending' = sp /\ consume_pending' = cp
            /\ e = mq_bytes_written + sp /\ rp = mq_bytes_read + cp
      BY <1>1, <2>1
    <3>2. End' = e /\ ReadPos' = rp
      BY <2>1, <3>1 DEF End, ReadPos
    <3>3. e <= End /\ rp <= ReadPos /\ (sp = send_pending => e = End)
      BY <1>1, <2>1, <3>1 DEF End, ReadPos
    <3> QED
      BY <2>1, <3>1, <3>2, <3>3
  <2>3. ReadPos' <= mq_bytes_written /\ written' <= mq_bytes_written
    BY <1>1, <1>2, <2>1, <2>2
  <2> QED
    BY <1>1, <1>6, <2>1, <2>2, <2>3
<1>12. CASE Quiet
  <2>1. End' = End /\ ReadPos' = ReadPos
    BY <1>12 DEF Quiet, End, ReadPos
  <2> QED
    BY <1>1, <1>2, <1>6, <1>12, <2>1 DEF Quiet
<1> QED
  BY <1>5, <1>7, <1>8, <1>9, <1>10, <1>11, <1>12, PositionEffect

-----------------------------------------------------------------------------
(* What a party leaves to the other one                                    *)

LEMMA SenderKeeps ==
  ASSUME IInv, NEW p \in Party, Step(p), ~SenderAct, ~(PartyAct(p) /\ p = S)
  PROVE  /\ UNCHANGED <<len, msg, available, send_pending, mq_bytes_written, stream>>
         /\ length_complete'[S] = length_complete[S] /\ partial'[S] = partial[S]
         /\ caller'[S] = caller[S] /\ attached'[S] = attached[S] /\ found'[S] = found[S]
         /\ \/ pc'[S] = pc[S]
            \/ /\ WorkerAct /\ worker = S /\ pc[S] \in Joining
               /\ pc'[S] \in {"attach", "attach_latch", "idle", "exited"}
<1>1. /\ pc \in [Party -> Label] /\ S \in Party /\ R \in Party /\ S # R /\ worker \in Party
      /\ length_complete \in [Party -> BOOLEAN] /\ partial \in [Party -> Nat]
      /\ caller \in [Party -> {"none", "wait_for_attach", "send", "receive"}]
      /\ attached \in [Party -> BOOLEAN] /\ found \in [Party -> BOOLEAN]
  BY TwoParties DEF IInv, TypeOK
<1>2. CASE WorkerAct
  BY <1>1, <1>2 DEF Joining, WorkerAct, StartWorker, Attach, AttachLatch, WorkerFails,
     WorkerStops, NotifyLeader, At, Go, SetLatch, WaitLatch, SendReturnsDetached,
     ReceiveReturnsDetached, IncBytesRead, queueVars, workerVars, handleVars, sendVars,
     receiveVars, historyVars
<1>3. CASE ReceiverAct
  <2>1. UNCHANGED <<len, msg, available, send_pending, mq_bytes_written, stream>>
    BY <1>3 DEF ReceiverAct, Receive, ReceiveGone, ReceiveGetSender, ReceiveAttached,
       ReceiveEnd, ReceiveConsume, ReceiveConsumeLatch, ReceiveBytes, ReceiveDetached,
       ReceiveRecheck, ReceiveRead, ReceiveReadLatch, ReceiveSleep, GotLengthWord, GotMessage,
       GotPart, ReceiveReturn, At, Go, SetLatch, WaitLatch, SendReturnsDetached,
       ReceiveReturnsDetached, IncBytesRead, queueVars, workerVars, handleVars, sendVars,
       receiveVars, historyVars
  <2>2. length_complete'[S] = length_complete[S] /\ partial'[S] = partial[S]
    BY <1>1, <1>3 DEF ReceiverAct, Receive, ReceiveGone, ReceiveGetSender, ReceiveAttached,
       ReceiveEnd, ReceiveConsume, ReceiveConsumeLatch, ReceiveBytes, ReceiveDetached,
       ReceiveRecheck, ReceiveRead, ReceiveReadLatch, ReceiveSleep, GotLengthWord, GotMessage,
       GotPart, ReceiveReturn, At, Go, SetLatch, WaitLatch, SendReturnsDetached,
       ReceiveReturnsDetached, IncBytesRead, queueVars, workerVars, handleVars, sendVars,
       receiveVars, historyVars
  <2>3. /\ caller'[S] = caller[S] /\ attached'[S] = attached[S] /\ found'[S] = found[S]
        /\ pc'[S] = pc[S]
    BY <1>1, <1>3 DEF ReceiverAct, Receive, ReceiveGone, ReceiveGetSender, ReceiveAttached,
       ReceiveEnd, ReceiveConsume, ReceiveConsumeLatch, ReceiveBytes, ReceiveDetached,
       ReceiveRecheck, ReceiveRead, ReceiveReadLatch, ReceiveSleep, GotLengthWord, GotMessage,
       GotPart, ReceiveReturn, At, Go, SetLatch, WaitLatch, SendReturnsDetached,
       ReceiveReturnsDetached, IncBytesRead, queueVars, workerVars, handleVars, sendVars,
       receiveVars, historyVars
  <2> QED
    BY <2>1, <2>2, <2>3
<1>4. CASE PartyAct(p) /\ p = R
  <2>1. UNCHANGED <<len, msg, available, send_pending, mq_bytes_written, stream>>
    BY <1>1, <1>4 DEF PartyAct, WaitForAttach, InternalTest, InternalDetached, InternalSleep,
       WaitForAttachReturns, Detach, Fail, DetachInternal, DetachLatch, At, Go, SetLatch,
       WaitLatch, SendReturnsDetached, ReceiveReturnsDetached, IncBytesRead, queueVars,
       workerVars, handleVars, sendVars, receiveVars, historyVars
  <2>2. length_complete'[S] = length_complete[S] /\ partial'[S] = partial[S]
    BY <1>1, <1>4 DEF PartyAct, WaitForAttach, InternalTest, InternalDetached, InternalSleep,
       WaitForAttachReturns, Detach, Fail, DetachInternal, DetachLatch, At, Go, SetLatch,
       WaitLatch, SendReturnsDetached, ReceiveReturnsDetached, IncBytesRead, queueVars,
       workerVars, handleVars, sendVars, receiveVars, historyVars
  <2>3. /\ caller'[S] = caller[S] /\ attached'[S] = attached[S] /\ found'[S] = found[S]
        /\ pc'[S] = pc[S]
    BY <1>1, <1>4 DEF PartyAct, WaitForAttach, InternalTest, InternalDetached, InternalSleep,
       WaitForAttachReturns, Detach, Fail, DetachInternal, DetachLatch, At, Go, SetLatch,
       WaitLatch, SendReturnsDetached, ReceiveReturnsDetached, IncBytesRead, queueVars,
       workerVars, handleVars, sendVars, receiveVars, historyVars
  <2> QED
    BY <2>1, <2>2, <2>3
<1> QED
  BY <1>2, <1>3, <1>4, TwoParties DEF Step

LEMMA ReceiverKeeps ==
  ASSUME IInv, NEW p \in Party, Step(p), ~ReceiverAct, ~(PartyAct(p) /\ p = R)
  PROVE  /\ UNCHANGED <<mq_bytes_read, consume_pending, expected, written, delivered>>
         /\ length_complete'[R] = length_complete[R] /\ partial'[R] = partial[R]
         /\ caller'[R] = caller[R] /\ attached'[R] = attached[R] /\ found'[R] = found[R]
         /\ \/ pc'[R] = pc[R]
            \/ /\ WorkerAct /\ worker = R /\ pc[R] \in Joining
               /\ pc'[R] \in {"attach", "attach_latch", "idle", "exited"}
<1>1. /\ pc \in [Party -> Label] /\ S \in Party /\ R \in Party /\ S # R /\ worker \in Party
      /\ length_complete \in [Party -> BOOLEAN] /\ partial \in [Party -> Nat]
      /\ caller \in [Party -> {"none", "wait_for_attach", "send", "receive"}]
      /\ attached \in [Party -> BOOLEAN] /\ found \in [Party -> BOOLEAN]
  BY TwoParties DEF IInv, TypeOK
<1>2. CASE WorkerAct
  BY <1>1, <1>2 DEF Joining, WorkerAct, StartWorker, Attach, AttachLatch, WorkerFails,
     WorkerStops, NotifyLeader, At, Go, SetLatch, WaitLatch, SendReturnsDetached,
     ReceiveReturnsDetached, IncBytesRead, queueVars, workerVars, handleVars, sendVars,
     receiveVars, historyVars
<1>3. CASE SenderAct
  <2>1. UNCHANGED <<mq_bytes_read, consume_pending, expected, written, delivered>>
    BY <1>3 DEF SenderAct, Send, SendAgain, SendDone, SendAvailable, SendDetached, SendGone,
       SendGetReceiver, SendAttached, SendFull, SendFullLatch, SendSleep, SendCopy, SendFinish,
       SendReceiver, SendPublish, SendLatch, SendReturn, At, Go, SetLatch, WaitLatch,
       SendReturnsDetached, ReceiveReturnsDetached, IncBytesRead, queueVars, workerVars,
       handleVars, sendVars, receiveVars, historyVars
  <2>2. length_complete'[R] = length_complete[R] /\ partial'[R] = partial[R]
    BY <1>1, <1>3 DEF SenderAct, Send, SendAgain, SendDone, SendAvailable, SendDetached,
       SendGone, SendGetReceiver, SendAttached, SendFull, SendFullLatch, SendSleep, SendCopy,
       SendFinish, SendReceiver, SendPublish, SendLatch, SendReturn, At, Go, SetLatch,
       WaitLatch, SendReturnsDetached, ReceiveReturnsDetached, IncBytesRead, queueVars,
       workerVars, handleVars, sendVars, receiveVars, historyVars
  <2>3. /\ caller'[R] = caller[R] /\ attached'[R] = attached[R] /\ found'[R] = found[R]
        /\ pc'[R] = pc[R]
    BY <1>1, <1>3 DEF SenderAct, Send, SendAgain, SendDone, SendAvailable, SendDetached,
       SendGone, SendGetReceiver, SendAttached, SendFull, SendFullLatch, SendSleep, SendCopy,
       SendFinish, SendReceiver, SendPublish, SendLatch, SendReturn, At, Go, SetLatch,
       WaitLatch, SendReturnsDetached, ReceiveReturnsDetached, IncBytesRead, queueVars,
       workerVars, handleVars, sendVars, receiveVars, historyVars
  <2> QED
    BY <2>1, <2>2, <2>3
<1>4. CASE PartyAct(p) /\ p = S
  <2>1. UNCHANGED <<mq_bytes_read, consume_pending, expected, written, delivered>>
    BY <1>1, <1>4 DEF PartyAct, WaitForAttach, InternalTest, InternalDetached, InternalSleep,
       WaitForAttachReturns, Detach, Fail, DetachInternal, DetachLatch, At, Go, SetLatch,
       WaitLatch, SendReturnsDetached, ReceiveReturnsDetached, IncBytesRead, queueVars,
       workerVars, handleVars, sendVars, receiveVars, historyVars
  <2>2. length_complete'[R] = length_complete[R] /\ partial'[R] = partial[R]
    BY <1>1, <1>4 DEF PartyAct, WaitForAttach, InternalTest, InternalDetached, InternalSleep,
       WaitForAttachReturns, Detach, Fail, DetachInternal, DetachLatch, At, Go, SetLatch,
       WaitLatch, SendReturnsDetached, ReceiveReturnsDetached, IncBytesRead, queueVars,
       workerVars, handleVars, sendVars, receiveVars, historyVars
  <2>3. /\ caller'[R] = caller[R] /\ attached'[R] = attached[R] /\ found'[R] = found[R]
        /\ pc'[R] = pc[R]
    BY <1>1, <1>4 DEF PartyAct, WaitForAttach, InternalTest, InternalDetached, InternalSleep,
       WaitForAttachReturns, Detach, Fail, DetachInternal, DetachLatch, At, Go, SetLatch,
       WaitLatch, SendReturnsDetached, ReceiveReturnsDetached, IncBytesRead, queueVars,
       workerVars, handleVars, sendVars, receiveVars, historyVars
  <2> QED
    BY <2>1, <2>2, <2>3
<1> QED
  BY <1>2, <1>3, <1>4, TwoParties DEF Step

(* The receiver only makes room.                                           *)
LEMMA ReadGrows ==
  ASSUME IInv, NEW p \in Party, Step(p)
  PROVE  /\ mq_bytes_read' = mq_bytes_read \/ mq_bytes_read' = mq_bytes_read + consume_pending
         /\ mq_bytes_read' \in Nat /\ mq_bytes_read <= mq_bytes_read'
<1>1. mq_bytes_read' = mq_bytes_read \/ mq_bytes_read' = mq_bytes_read + consume_pending
  <2>1. CASE WorkerAct
    BY <2>1 DEF WorkerAct, StartWorker, Attach, AttachLatch, WorkerFails, WorkerStops,
       NotifyLeader, At, Go, SetLatch, WaitLatch, SendReturnsDetached, ReceiveReturnsDetached,
       IncBytesRead, queueVars, workerVars, handleVars, sendVars, receiveVars, historyVars
  <2>2. CASE SenderAct
    BY <2>2 DEF SenderAct, Send, SendAgain, SendDone, SendAvailable, SendDetached, SendGone,
       SendGetReceiver, SendAttached, SendFull, SendFullLatch, SendSleep, SendCopy, SendFinish,
       SendReceiver, SendPublish, SendLatch, SendReturn, At, Go, SetLatch, WaitLatch,
       SendReturnsDetached, ReceiveReturnsDetached, IncBytesRead, queueVars, workerVars,
       handleVars, sendVars, receiveVars, historyVars
  <2>3. CASE ReceiverAct
    BY <2>3 DEF ReceiverAct, Receive, ReceiveGone, ReceiveGetSender, ReceiveAttached,
       ReceiveEnd, ReceiveConsume, ReceiveConsumeLatch, ReceiveBytes, ReceiveDetached,
       ReceiveRecheck, ReceiveRead, ReceiveReadLatch, ReceiveSleep, GotLengthWord, GotMessage,
       GotPart, ReceiveReturn, At, Go, SetLatch, WaitLatch, SendReturnsDetached,
       ReceiveReturnsDetached, IncBytesRead, queueVars, workerVars, handleVars, sendVars,
       receiveVars, historyVars
  <2>4. CASE PartyAct(p)
    BY <2>4 DEF PartyAct, WaitForAttach, InternalTest, InternalDetached, InternalSleep,
       WaitForAttachReturns, Detach, Fail, DetachInternal, DetachLatch, At, Go, SetLatch,
       WaitLatch, SendReturnsDetached, ReceiveReturnsDetached, IncBytesRead, queueVars,
       workerVars, handleVars, sendVars, receiveVars, historyVars
  <2> QED
    BY <2>1, <2>2, <2>3, <2>4 DEF Step
<1>2. mq_bytes_read \in Nat /\ consume_pending \in Nat
  BY Numbers
<1> QED
  BY <1>1, <1>2

(* What the sender may write when it asks.                                 *)
LEMMA RoomFound ==
  ASSUME IInv, SendAvailable
  PROVE  /\ available' \in Nat /\ available' <= RingSize /\ available' <= ToSend
         /\ End + available' <= mq_bytes_read + RingSize
         /\ ToSend \in Nat /\ ToSend > 0
         /\ available' = 0 => End = mq_bytes_read + RingSize
<1>1. /\ RingSize \in Nat \ {0} /\ End \in Nat /\ mq_bytes_read \in Nat /\ len \in Nat
      /\ partial[S] \in Nat /\ End <= mq_bytes_read + RingSize /\ mq_bytes_read <= End
      /\ send_pending \in Nat /\ mq_bytes_written \in Nat
  BY Numbers
<1>2. ToSend > 0 /\ ToSend \in Nat
  <2>1. ToSend > 0 /\ (length_complete[S] => partial[S] <= len)
    BY DEF SendAvailable, IInv, RoomInv
  <2> QED
    BY <1>1, <2>1 DEF ToSend
<1>3. PICK a, b \in Int : a = RingSize - (End - mq_bytes_read) /\ b = ToSend
  BY <1>1, <1>2
<1>4. available' = Min({a, b})
  <2>1. available' = Min({RingSize - (mq_bytes_written + send_pending - mq_bytes_read), ToSend})
    BY DEF SendAvailable
  <2>2. mq_bytes_written + send_pending - mq_bytes_read = End - mq_bytes_read
    BY <1>1 DEF End
  <2> QED
    BY <1>3, <2>1, <2>2
<1>5. PICK m : m = Min({a, b})
  OBVIOUS
<1>6. (m = a \/ m = b) /\ m <= a /\ m <= b
  BY <1>5, MinOfTwo
<1> QED
  BY <1>1, <1>2, <1>3, <1>4, <1>5, <1>6

LEMMA TypeStep ==
  ASSUME IInv, NEW p \in Party, Step(p)
  PROVE  TypeOK'
<1>1. send_pending' \in 0..RingSize /\ consume_pending' \in 0..RingSize
  <2>1. PositionInv' /\ mq_bytes_read' \in Nat /\ mq_bytes_written' \in Nat /\ send_pending' \in Nat /\ consume_pending' \in Nat
    BY PositionStep, TypeDataStep
  <2>2. PICK r, w, sp, cp \in Nat :
          mq_bytes_read' = r /\ mq_bytes_written' = w /\ send_pending' = sp /\ consume_pending' = cp
    BY <2>1
  <2>3. End' = w + sp /\ ReadPos' = r + cp
    BY <2>2 DEF End, ReadPos
  <2>4. ReadPos' <= mq_bytes_written' /\ End' <= mq_bytes_read' + RingSize
    BY <2>1 DEF PositionInv
  <2>5. r + cp <= w /\ w + sp <= r + RingSize
    BY <2>2, <2>3, <2>4
  <2>6. RingSize \in Nat
    BY ConstantsAssumption
  <2>7. sp \in 0..RingSize /\ cp \in 0..RingSize
    BY <2>2, <2>5, <2>6
  <2> QED
    BY <2>2, <2>7
<1>2. available' \in 0..RingSize
  <2>1. CASE SendAvailable
    <3>1. RingSize \in Nat /\ available' \in Nat /\ available' <= RingSize
      BY <2>1, RoomFound, Numbers
    <3> QED
      BY <3>1
  <2>2. CASE ~SendAvailable
    <3>1. available' = available \/ available' = 0
      <4>1. CASE WorkerAct
        BY <2>2, <4>1 DEF WorkerAct, StartWorker, Attach, AttachLatch, WorkerFails,
           WorkerStops, NotifyLeader, At, Go, SetLatch, WaitLatch, SendReturnsDetached,
           ReceiveReturnsDetached, IncBytesRead, queueVars, workerVars, handleVars, sendVars,
           receiveVars, historyVars
      <4>2. CASE SenderAct
        BY <2>2, <4>2 DEF SenderAct, Send, SendAgain, SendDone, SendAvailable, SendDetached,
           SendGone, SendGetReceiver, SendAttached, SendFull, SendFullLatch, SendSleep,
           SendCopy, SendFinish, SendReceiver, SendPublish, SendLatch, SendReturn, At, Go,
           SetLatch, WaitLatch, SendReturnsDetached, ReceiveReturnsDetached, IncBytesRead,
           queueVars, workerVars, handleVars, sendVars, receiveVars, historyVars
      <4>3. CASE ReceiverAct
        BY <2>2, <4>3 DEF ReceiverAct, Receive, ReceiveGone, ReceiveGetSender, ReceiveAttached,
           ReceiveEnd, ReceiveConsume, ReceiveConsumeLatch, ReceiveBytes, ReceiveDetached,
           ReceiveRecheck, ReceiveRead, ReceiveReadLatch, ReceiveSleep, GotLengthWord,
           GotMessage, GotPart, ReceiveReturn, At, Go, SetLatch, WaitLatch,
           SendReturnsDetached, ReceiveReturnsDetached, IncBytesRead, queueVars, workerVars,
           handleVars, sendVars, receiveVars, historyVars
      <4>4. CASE PartyAct(p)
        BY <2>2, <4>4 DEF PartyAct, WaitForAttach, InternalTest, InternalDetached,
           InternalSleep, WaitForAttachReturns, Detach, Fail, DetachInternal, DetachLatch, At,
           Go, SetLatch, WaitLatch, SendReturnsDetached, ReceiveReturnsDetached, IncBytesRead,
           queueVars, workerVars, handleVars, sendVars, receiveVars, historyVars
      <4> QED
        BY <4>1, <4>2, <4>3, <4>4 DEF Step
    <3>2. RingSize \in Nat /\ available \in 0..RingSize
      BY ConstantsAssumption DEF IInv, TypeOK
    <3> QED
      BY <3>1, <3>2
  <2> QED
    BY <2>1, <2>2
<1> QED
  BY <1>1, <1>2, TypePartiesStep, TypeDataStep DEF TypeOK

-----------------------------------------------------------------------------
(* RoomInv                                                                 *)
LEMMA RoomStep ==
  ASSUME IInv, NEW p \in Party, Step(p)
  PROVE  RoomInv'
<1>1. /\ pc \in [Party -> Label] /\ S \in Party /\ R \in Party /\ S # R
      /\ length_complete \in [Party -> BOOLEAN] /\ partial \in [Party -> Nat]
      /\ caller \in [Party -> {"none", "wait_for_attach", "send", "receive"}]
  BY TwoParties DEF IInv, TypeOK
<1>2. /\ length_complete[S] => partial[S] <= len /\ (InMessage \/ pc[S] = "detach")
      /\ ~length_complete[S] => partial[S] = 0
  BY DEF IInv, RoomInv
<1>3. CASE ~SenderAct /\ ~(PartyAct(p) /\ p = S)
  <2>1. /\ UNCHANGED <<len, msg, available, send_pending, mq_bytes_written, stream>>
        /\ length_complete'[S] = length_complete[S] /\ partial'[S] = partial[S]
        /\ caller'[S] = caller[S]
        /\ \/ pc'[S] = pc[S]
           \/ pc[S] \in Joining /\ pc'[S] \in {"attach", "attach_latch", "idle", "exited"}
    BY <1>3, SenderKeeps
  <2>2. ToSend' = ToSend /\ End' = End
    BY <2>1 DEF ToSend, End
  <2>3. /\ length_complete'[S] => partial'[S] <= len' /\ (InMessage' \/ pc'[S] = "detach")
        /\ ~length_complete'[S] => partial'[S] = 0
    BY <1>2, <2>1 DEF InMessage, Joining, Sending, Internal
  <2>4. ASSUME pc'[S] \in {"send_detached", "send_copy"}
        PROVE  /\ available' <= ToSend' /\ End' + available' <= mq_bytes_read' + RingSize
               /\ ToSend' > 0 /\ (pc'[S] = "send_copy" => available' > 0)
    <3>1. pc[S] = pc'[S]
      BY <2>1, <2>4
    <3>2. /\ available <= ToSend /\ End + available <= mq_bytes_read + RingSize
          /\ ToSend > 0 /\ (pc[S] = "send_copy" => available > 0)
      BY <2>4, <3>1 DEF IInv, RoomInv
    <3>3. PICK r \in Nat : mq_bytes_read' = r /\ mq_bytes_read <= r
      BY ReadGrows
    <3>4. End + available <= r + RingSize
      <4>1. /\ End \in Nat /\ available \in Nat /\ mq_bytes_read \in Nat /\ RingSize \in Nat
        BY Numbers
      <4> QED
        BY <3>2, <3>3, <4>1
    <3> QED
      BY <2>1, <2>2, <3>1, <3>2, <3>3, <3>4
  <2> QED
    BY <2>3, <2>4 DEF RoomInv
<1>4. CASE PartyAct(p) /\ p = S
  <2>1. pc'[S] \notin {"send_detached", "send_copy"}
    BY <1>1, <1>4 DEF PartyAct, WaitForAttach, InternalTest, InternalDetached, InternalSleep,
       WaitForAttachReturns, Detach, Fail, DetachInternal, DetachLatch, At, Go, SetLatch,
       WaitLatch, SendReturnsDetached, ReceiveReturnsDetached, IncBytesRead, queueVars,
       workerVars, handleVars, sendVars, receiveVars, historyVars
  <2>2. \/ ~length_complete'[S] /\ partial'[S] = 0
        \/ /\ length_complete'[S] = length_complete[S] /\ partial'[S] = partial[S] /\ len' = len
           /\ InMessage' \/ pc'[S] = "detach" \/ ~(InMessage \/ pc[S] = "detach")
    BY <1>1, <1>4 DEF InMessage, Sending, Internal, PartyAct, WaitForAttach, InternalTest,
       InternalDetached, InternalSleep, WaitForAttachReturns, Detach, Fail, DetachInternal,
       DetachLatch, At, Go, SetLatch, WaitLatch, SendReturnsDetached, ReceiveReturnsDetached,
       IncBytesRead, queueVars, workerVars, handleVars, sendVars, receiveVars, historyVars
  <2> QED
    BY <1>2, <2>1, <2>2 DEF RoomInv
<1>5. CASE SendCopy
  <2>1. /\ pc' = [pc EXCEPT ![S] = "send"] /\ len' = len
        /\ length_complete' = [length_complete EXCEPT ![S] = TRUE]
        /\ partial' = [partial EXCEPT ![S] = IF length_complete[S] THEN @ + SendNow ELSE 0]
    BY <1>5 DEF SendCopy, Go, SendNow, Offset, End
  <2>2. /\ length_complete[S] => partial[S] + SendNow <= len
        /\ len \in Nat
    BY <1>5, CopyFits, CopyEffect, Numbers
  <2>3. partial'[S] <= len'
    BY <1>1, <2>1, <2>2
  <2>4. pc'[S] = "send" /\ length_complete'[S]
    BY <1>1, <2>1
  <2> QED
    BY <2>3, <2>4 DEF RoomInv, InMessage, Sending
<1>6. CASE SendAvailable
  <2>1. /\ UNCHANGED <<len, length_complete, partial, mq_bytes_read, mq_bytes_written,
                       send_pending, caller>>
        /\ pc[S] = "send" /\ pc'[S] = "send_detached"
    BY <1>1, <1>6 DEF SendAvailable, At, Go, queueVars, handleVars
  <2>2. ToSend' = ToSend /\ End' = End
    BY <2>1 DEF ToSend, End
  <2>3. available' <= ToSend /\ End + available' <= mq_bytes_read + RingSize /\ ToSend > 0
    BY <1>6, RoomFound
  <2>4. InMessage'
    BY <2>1 DEF InMessage, Sending
  <2> QED
    BY <1>2, <2>1, <2>2, <2>3, <2>4 DEF RoomInv
<1>7. CASE SendDetached
  <2>1. /\ UNCHANGED <<len, available, mq_bytes_read, mq_bytes_written, send_pending>>
        /\ pc[S] = "send_detached"
        /\ \/ pc'[S] = "send_return" /\ ~length_complete'[S] /\ partial'[S] = 0
           \/ /\ UNCHANGED <<length_complete, partial>> /\ InMessage'
              /\ pc'[S] # "send_detached" /\ (pc'[S] = "send_copy" => available > 0)
    BY <1>1, <1>7 DEF SendDetached, SendReturnsDetached, At, Go, queueVars, sendVars,
       InMessage, Sending, Internal
  <2>2. End' = End /\ (UNCHANGED <<length_complete, partial>> => ToSend' = ToSend)
    BY <2>1 DEF ToSend, End
  <2>3. /\ available <= ToSend /\ End + available <= mq_bytes_read + RingSize /\ ToSend > 0
    BY <2>1 DEF IInv, RoomInv
  <2> QED
    BY <1>2, <2>1, <2>2, <2>3 DEF RoomInv
<1>8. CASE SenderAct /\ ~SendCopy /\ ~SendAvailable /\ ~SendDetached
  <2>1. pc'[S] \notin {"send_detached", "send_copy"}
    BY <1>1, <1>8 DEF SenderAct, Send, SendAgain, SendDone, SendAvailable, SendDetached,
       SendGone, SendGetReceiver, SendAttached, SendFull, SendFullLatch, SendSleep, SendCopy,
       SendFinish, SendReceiver, SendPublish, SendLatch, SendReturn, At, Go, SetLatch,
       WaitLatch, SendReturnsDetached, ReceiveReturnsDetached, IncBytesRead, queueVars,
       workerVars, handleVars, sendVars, receiveVars, historyVars
  <2>2. \/ ~length_complete'[S] /\ partial'[S] = 0
        \/ /\ length_complete'[S] = length_complete[S] /\ partial'[S] = partial[S]
           /\ len' = len /\ InMessage'
        \/ /\ length_complete'[S] = length_complete[S] /\ partial'[S] = partial[S]
           /\ ~InMessage /\ pc[S] # "detach"
    BY <1>1, <1>8 DEF InMessage, Sending, Internal, SenderAct, Send, SendAgain, SendDone,
       SendAvailable, SendDetached, SendGone, SendGetReceiver, SendAttached, SendFull,
       SendFullLatch, SendSleep, SendCopy, SendFinish, SendReceiver, SendPublish, SendLatch,
       SendReturn, At, Go, SetLatch, WaitLatch, SendReturnsDetached, ReceiveReturnsDetached,
       IncBytesRead, queueVars, workerVars, handleVars, sendVars, receiveVars, historyVars
  <2> QED
    BY <1>2, <2>1, <2>2 DEF RoomInv
<1> QED
  BY <1>3, <1>4, <1>5, <1>6, <1>7, <1>8

-----------------------------------------------------------------------------
(* FormatInv                                                               *)

(* The stream grows by cells that continue its last message, or by the     *)
(* length word of the next one.                                            *)
LEMMA FormatGrows ==
  ASSUME IInv, SendCopy
  PROVE  FormatInv'
<1> DEFINE n == Len(stream)
<1>1. pc[S] = "send_copy" /\ stream \in Seq(Cell)
  BY CopyEffect DEF IInv, TypeOK
<1>2. PICK k \in Nat, f \in Nat, m \in Nat, l \in Nat, g \in Nat :
        k = SendNow /\ f = First /\ m = msg /\ l = len /\ g = partial[S]
  <2>1. SendNow \in Nat /\ First \in Nat
    BY <1>1, CopyFits
  <2>2. msg \in Nat /\ len \in Nat /\ partial[S] \in Nat
    BY Numbers
  <2> QED
    BY <2>1, <2>2
<1>3. n \in Nat /\ k >= 1 /\ l \in Length
  BY <1>1, <1>2, CopyFits, Numbers
<1>4. \A x \in 1..n : stream'[x] = stream[x]
  BY CopyEffect
<1>5. \A j \in 1..k : stream'[n + j] = [msg |-> m, part |-> f + (j - 1), len |-> l]
  BY <1>2, CopyEffect DEF NewCell
<1>6. Len(stream') = n + k
  BY <1>2, CopyEffect
<1>7. msg' = m
  BY <1>2 DEF SendCopy
<1>8. FormatInv
  BY DEF IInv
<1>9. m > 0
  BY <1>1, <1>2 DEF IInv, SenderInv, InMessage, Sending
<1>10. \/ /\ length_complete[S] /\ f = g + 1 /\ g + k <= l /\ n > 0
          /\ stream[n] = [msg |-> m, part |-> g, len |-> l]
       \/ /\ ~length_complete[S] /\ f = 0 /\ k = 1
          /\ EndsMessage(n, m - 1)
  <2>1. IF length_complete[S]
        THEN n > 0 /\ stream[n] = [msg |-> msg, part |-> partial[S], len |-> len]
        ELSE EndsMessage(n, msg - 1)
    BY <1>1 DEF IInv, SenderInv, InMessage, Sending
  <2>2. /\ length_complete[S] => partial[S] + SendNow <= len
        /\ ~length_complete[S] => SendNow = 1
    BY <1>1, CopyFits
  <2>3. First = IF length_complete[S] THEN partial[S] + 1 ELSE 0
    BY DEF First
  <2> QED
    BY <1>2, <2>1, <2>2, <2>3
<1>11. ASSUME NEW x \in 1..n + k
       PROVE  /\ stream'[x].msg \in 1..m /\ stream'[x].len \in Length
              /\ stream'[x].part <= stream'[x].len
  <2>1. CASE x <= n
    <3>1. x \in 1..n
      BY <1>3, <2>1
    <3> QED
      BY <1>2, <1>4, <1>8, <3>1 DEF FormatInv
  <2>2. CASE x > n
    <3>1. PICK j \in 1..k : x = n + j
      BY <1>2, <1>3, <2>2
    <3>2. stream'[x] = [msg |-> m, part |-> f + (j - 1), len |-> l]
      BY <1>5, <3>1
    <3>3. f + (j - 1) <= l
      BY <1>2, <1>10
    <3>4. m \in 1..m
      BY <1>2, <1>9
    <3> QED
      BY <1>3, <3>2, <3>3, <3>4
  <2> QED
    BY <1>3, <2>1, <2>2
<1>12. ASSUME NEW x \in 1..n + k, NEW y \in 1..n + k, x <= y,
              stream'[x].part + (y - x) <= stream'[x].len
       PROVE  stream'[y] = [msg |-> stream'[x].msg, part |-> stream'[x].part + (y - x),
                            len |-> stream'[x].len]
  <2>1. CASE y <= n
    <3>1. x \in 1..n /\ y \in 1..n
      BY <1>2, <1>3, <1>12, <2>1
    <3>2. stream'[x] = stream[x] /\ stream'[y] = stream[y]
      BY <1>4, <3>1
    <3> QED
      BY <1>8, <1>12, <3>1, <3>2 DEF FormatInv
  <2>2. CASE x <= n /\ y > n
    <3>1. x \in 1..n /\ n \in 1..n
      BY <1>2, <1>3, <2>2
    <3>2. PICK j \in 1..k : y = n + j
      BY <1>2, <1>3, <2>2
    <3>3. stream[x] \in Cell
      BY <1>1, <3>1
    <3>4. PICK a \in Nat, b \in Nat : a = stream[x].part /\ b = stream[x].len
      BY <3>3 DEF Cell
    <3>5. stream'[x] = stream[x] /\ a + (y - x) <= b
      BY <1>4, <1>12, <3>1, <3>4
    <3>6. a + (n - x) <= b /\ x <= n /\ a + (n - x) < b
      BY <1>2, <1>3, <2>2, <3>1, <3>2, <3>4, <3>5
    <3>7. stream[n] = [msg |-> stream[x].msg, part |-> a + (n - x), len |-> b]
      <4>1. stream[x].part + (n - x) <= stream[x].len
        BY <3>4, <3>6
      <4> QED
        BY <1>8, <3>1, <3>4, <3>6, <4>1 DEF FormatInv
    <3>8. length_complete[S] /\ f = g + 1 /\ stream[n] = [msg |-> m, part |-> g, len |-> l]
      <4>1. stream[n].part # stream[n].len
        BY <1>3, <3>1, <3>4, <3>6, <3>7
      <4>2. ~EndsMessage(n, m - 1)
        BY <1>3, <3>1, <4>1 DEF EndsMessage
      <4> QED
        BY <1>10, <4>2
    <3>9. stream[x].msg = m /\ a + (n - x) = g /\ b = l
      BY <3>7, <3>8
    <3>10. f + (j - 1) = a + (y - x)
      <4>1. x \in Nat /\ j \in Nat
        BY <1>2, <1>3
      <4>2. y - x = (n - x) + j
        BY <1>3, <3>2, <4>1
      <4>3. a + (y - x) = g + j
        <5>1. PICK d \in Int : d = n - x
          BY <1>3, <4>1
        <5>2. a + d = g
          BY <3>9, <5>1
        <5>3. PICK e \in Int : e = d + j
          BY <4>1
        <5>4. a + e = g + j
          BY <4>1, <5>2, <5>3
        <5>5. y - x = e
          BY <4>2, <5>1, <5>3
        <5> QED
          BY <5>4, <5>5
      <4>4. f + (j - 1) = g + j
        BY <1>2, <3>8, <4>1
      <4> QED
        BY <4>3, <4>4
    <3>11. stream'[y] = [msg |-> m, part |-> f + (j - 1), len |-> l]
      BY <1>5, <3>2
    <3> QED
      BY <3>4, <3>5, <3>9, <3>10, <3>11
  <2>3. CASE x > n
    <3>0. PICK i \in 1..k : x = n + i
      BY <1>2, <1>3, <2>3
    <3>1. PICK j \in 1..k : y = n + j
      <4>1. y > n
        BY <1>2, <1>3, <1>12, <2>3
      <4> QED
        BY <1>2, <1>3, <4>1
    <3>2. /\ stream'[x] = [msg |-> m, part |-> f + (i - 1), len |-> l]
          /\ stream'[y] = [msg |-> m, part |-> f + (j - 1), len |-> l]
      BY <1>5, <3>0, <3>1
    <3>3. f + (j - 1) = (f + (i - 1)) + (y - x)
      BY <1>2, <1>3, <3>0, <3>1
    <3> QED
      BY <3>2, <3>3
  <2> QED
    BY <1>2, <1>3, <2>1, <2>2, <2>3
<1>13. ASSUME NEW x \in 1..n + k, NEW y \in 1..n + k, y = x + 1,
              stream'[x].part = stream'[x].len
       PROVE  stream'[y].part = 0 /\ stream'[y].msg = stream'[x].msg + 1
  <2>1. CASE y <= n
    <3>1. x \in 1..n /\ y \in 1..n
      BY <1>2, <1>3, <1>13, <2>1
    <3>2. stream'[x] = stream[x] /\ stream'[y] = stream[y]
      BY <1>4, <3>1
    <3> QED
      BY <1>8, <1>13, <3>1, <3>2 DEF FormatInv
  <2>2. CASE x = n
    <3>1. stream'[x] = stream[n] /\ n > 0 /\ 1 \in 1..k
      BY <1>2, <1>3, <1>4, <2>2
    <3>2. stream'[y] = [msg |-> m, part |-> f + (1 - 1), len |-> l]
      BY <1>5, <1>13, <2>2, <3>1
    <3>3. ~(stream[n] = [msg |-> m, part |-> g, len |-> l] /\ g + k <= l)
      BY <1>2, <1>3, <1>13, <3>1
    <3>4. f = 0 /\ EndsMessage(n, m - 1)
      BY <1>10, <3>3
    <3>5. stream[n].msg = m - 1
      BY <1>3, <3>1, <3>4 DEF EndsMessage
    <3> QED
      BY <1>2, <3>1, <3>2, <3>4, <3>5
  <2>3. CASE x > n
    <3>1. PICK i \in 1..k : x = n + i /\ i < k
      <4>1. x \in Nat /\ x < n + k
        BY <1>2, <1>3, <1>13
      <4>2. x - n \in 1..k /\ x = n + (x - n) /\ x - n < k
        BY <1>2, <2>3, <4>1
      <4> QED
        BY <4>2
    <3>2. stream'[x] = [msg |-> m, part |-> f + (i - 1), len |-> l]
      BY <1>5, <3>1
    <3>3. f + (i - 1) = l
      BY <1>13, <3>2
    <3> QED
      BY <1>2, <1>10, <3>1, <3>3
  <2> QED
    BY <1>2, <1>3, <1>13, <2>1, <2>2, <2>3
<1>14. stream'[1].part = 0 /\ stream'[1].msg = 1
  <2>1. CASE n > 0
    <3>1. 1 \in 1..n
      BY <1>3, <2>1
    <3> QED
      BY <1>4, <1>8, <2>1, <3>1 DEF FormatInv
  <2>2. CASE n = 0
    <3>1. f = 0 /\ EndsMessage(n, m - 1)
      BY <1>10, <2>2
    <3>2. m = 1
      BY <1>2, <2>2, <3>1 DEF EndsMessage
    <3>3. 1 \in 1..k /\ n + 1 = 1
      BY <1>2, <1>3, <2>2
    <3>4. stream'[1] = [msg |-> m, part |-> f + (1 - 1), len |-> l]
      BY <1>5, <3>3
    <3> QED
      BY <1>2, <3>1, <3>2, <3>4
  <2> QED
    BY <1>3, <2>1, <2>2
<1> QED
  <2> HIDE DEF n
  <2>1. \A x \in 1..Len(stream') :
          /\ stream'[x].msg \in 1..msg' /\ stream'[x].len \in Length
          /\ stream'[x].part <= stream'[x].len
    BY <1>6, <1>7, <1>11
  <2>2. \A x, y \in 1..Len(stream') :
          x <= y /\ stream'[x].part + (y - x) <= stream'[x].len =>
            stream'[y] = [msg |-> stream'[x].msg, part |-> stream'[x].part + (y - x),
                          len |-> stream'[x].len]
    BY <1>6, <1>12
  <2>3. \A x, y \in 1..Len(stream') :
          y = x + 1 /\ stream'[x].part = stream'[x].len =>
            stream'[y].part = 0 /\ stream'[y].msg = stream'[x].msg + 1
    BY <1>6, <1>13
  <2> QED
    BY <1>14, <2>1, <2>2, <2>3 DEF FormatInv

(* The number of the message only grows.                                   *)
LEMMA FormatStep ==
  ASSUME IInv, NEW p \in Party, Step(p)
  PROVE  FormatInv'
<1>1. CASE SendCopy
  BY <1>1, FormatGrows
<1>2. CASE ~SendCopy
  <2>1. stream' = stream /\ (msg' = msg \/ msg' = msg + 1)
    <3>1. CASE WorkerAct
      BY <1>2, <3>1 DEF WorkerAct, StartWorker, Attach, AttachLatch, WorkerFails, WorkerStops,
         NotifyLeader, At, Go, SetLatch, WaitLatch, SendReturnsDetached,
         ReceiveReturnsDetached, IncBytesRead, queueVars, workerVars, handleVars, sendVars,
         receiveVars, historyVars
    <3>2. CASE SenderAct
      BY <1>2, <3>2 DEF SenderAct, Send, SendAgain, SendDone, SendAvailable, SendDetached,
         SendGone, SendGetReceiver, SendAttached, SendFull, SendFullLatch, SendSleep, SendCopy,
         SendFinish, SendReceiver, SendPublish, SendLatch, SendReturn, At, Go, SetLatch,
         WaitLatch, SendReturnsDetached, ReceiveReturnsDetached, IncBytesRead, queueVars,
         workerVars, handleVars, sendVars, receiveVars, historyVars
    <3>3. CASE ReceiverAct
      BY <1>2, <3>3 DEF ReceiverAct, Receive, ReceiveGone, ReceiveGetSender, ReceiveAttached,
         ReceiveEnd, ReceiveConsume, ReceiveConsumeLatch, ReceiveBytes, ReceiveDetached,
         ReceiveRecheck, ReceiveRead, ReceiveReadLatch, ReceiveSleep, GotLengthWord,
         GotMessage, GotPart, ReceiveReturn, At, Go, SetLatch, WaitLatch, SendReturnsDetached,
         ReceiveReturnsDetached, IncBytesRead, queueVars, workerVars, handleVars, sendVars,
         receiveVars, historyVars
    <3>4. CASE PartyAct(p)
      BY <1>2, <3>4 DEF PartyAct, WaitForAttach, InternalTest, InternalDetached, InternalSleep,
         WaitForAttachReturns, Detach, Fail, DetachInternal, DetachLatch, At, Go, SetLatch,
         WaitLatch, SendReturnsDetached, ReceiveReturnsDetached, IncBytesRead, queueVars,
         workerVars, handleVars, sendVars, receiveVars, historyVars
    <3> QED
      BY <3>1, <3>2, <3>3, <3>4 DEF Step
  <2>2. PICK m \in Nat : m = msg' /\ msg <= m /\ msg \in Nat
    <3>1. msg \in Nat
      BY Numbers
    <3> QED
      BY <2>1, <3>1
  <2>3. \A z \in 1..msg : z \in 1..msg'
    BY <2>2
  <2>4. FormatInv
    BY DEF IInv
  <2> QED
    BY <2>1, <2>3, <2>4 DEF FormatInv
<1> QED
  BY <1>1, <1>2

-----------------------------------------------------------------------------
(* SenderInv                                                               *)

(* A queue is never attached again, and only a copy changes the stream.    *)
LEMMA DetachedStays ==
  ASSUME IInv, NEW p \in Party, Step(p)
  PROVE  (mq_detached => mq_detached') /\ (~SendCopy => stream' = stream)
<1>1. mq_detached => mq_detached'
  <2>1. CASE WorkerAct
    BY <2>1 DEF WorkerAct, StartWorker, Attach, AttachLatch, WorkerFails, WorkerStops,
       NotifyLeader, At, Go, SetLatch, WaitLatch, SendReturnsDetached, ReceiveReturnsDetached,
       IncBytesRead, queueVars, workerVars, handleVars, sendVars, receiveVars, historyVars
  <2>2. CASE SenderAct
    BY <2>2 DEF SenderAct, Send, SendAgain, SendDone, SendAvailable, SendDetached, SendGone,
       SendGetReceiver, SendAttached, SendFull, SendFullLatch, SendSleep, SendCopy, SendFinish,
       SendReceiver, SendPublish, SendLatch, SendReturn, At, Go, SetLatch, WaitLatch,
       SendReturnsDetached, ReceiveReturnsDetached, IncBytesRead, queueVars, workerVars,
       handleVars, sendVars, receiveVars, historyVars
  <2>3. CASE ReceiverAct
    BY <2>3 DEF ReceiverAct, Receive, ReceiveGone, ReceiveGetSender, ReceiveAttached,
       ReceiveEnd, ReceiveConsume, ReceiveConsumeLatch, ReceiveBytes, ReceiveDetached,
       ReceiveRecheck, ReceiveRead, ReceiveReadLatch, ReceiveSleep, GotLengthWord, GotMessage,
       GotPart, ReceiveReturn, At, Go, SetLatch, WaitLatch, SendReturnsDetached,
       ReceiveReturnsDetached, IncBytesRead, queueVars, workerVars, handleVars, sendVars,
       receiveVars, historyVars
  <2>4. CASE PartyAct(p)
    BY <2>4 DEF PartyAct, WaitForAttach, InternalTest, InternalDetached, InternalSleep,
       WaitForAttachReturns, Detach, Fail, DetachInternal, DetachLatch, At, Go, SetLatch,
       WaitLatch, SendReturnsDetached, ReceiveReturnsDetached, IncBytesRead, queueVars,
       workerVars, handleVars, sendVars, receiveVars, historyVars
  <2> QED
    BY <2>1, <2>2, <2>3, <2>4 DEF Step
<1>2. ~SendCopy => stream' = stream
  <2>1. CASE WorkerAct
    BY <2>1 DEF WorkerAct, StartWorker, Attach, AttachLatch, WorkerFails, WorkerStops,
       NotifyLeader, At, Go, SetLatch, WaitLatch, SendReturnsDetached, ReceiveReturnsDetached,
       IncBytesRead, queueVars, workerVars, handleVars, sendVars, receiveVars, historyVars
  <2>2. CASE SenderAct
    BY <2>2 DEF SenderAct, Send, SendAgain, SendDone, SendAvailable, SendDetached, SendGone,
       SendGetReceiver, SendAttached, SendFull, SendFullLatch, SendSleep, SendCopy, SendFinish,
       SendReceiver, SendPublish, SendLatch, SendReturn, At, Go, SetLatch, WaitLatch,
       SendReturnsDetached, ReceiveReturnsDetached, IncBytesRead, queueVars, workerVars,
       handleVars, sendVars, receiveVars, historyVars
  <2>3. CASE ReceiverAct
    BY <2>3 DEF ReceiverAct, Receive, ReceiveGone, ReceiveGetSender, ReceiveAttached,
       ReceiveEnd, ReceiveConsume, ReceiveConsumeLatch, ReceiveBytes, ReceiveDetached,
       ReceiveRecheck, ReceiveRead, ReceiveReadLatch, ReceiveSleep, GotLengthWord, GotMessage,
       GotPart, ReceiveReturn, At, Go, SetLatch, WaitLatch, SendReturnsDetached,
       ReceiveReturnsDetached, IncBytesRead, queueVars, workerVars, handleVars, sendVars,
       receiveVars, historyVars
  <2>4. CASE PartyAct(p)
    BY <2>4 DEF PartyAct, WaitForAttach, InternalTest, InternalDetached, InternalSleep,
       WaitForAttachReturns, Detach, Fail, DetachInternal, DetachLatch, At, Go, SetLatch,
       WaitLatch, SendReturnsDetached, ReceiveReturnsDetached, IncBytesRead, queueVars,
       workerVars, handleVars, sendVars, receiveVars, historyVars
  <2> QED
    BY <2>1, <2>2, <2>3, <2>4 DEF Step
<1> QED
  BY <1>1, <1>2

LEMMA SenderStep ==
  ASSUME IInv, NEW p \in Party, Step(p)
  PROVE  SenderInv'
<1>1. /\ pc \in [Party -> Label] /\ S \in Party /\ R \in Party /\ S # R
      /\ length_complete \in [Party -> BOOLEAN] /\ partial \in [Party -> Nat]
      /\ caller \in [Party -> {"none", "wait_for_attach", "send", "receive"}]
  BY TwoParties DEF IInv, TypeOK
<1>2. /\ InMessage => len \in Length /\ msg > 0
      /\ length_complete[S] => len \in Length
      /\ pc[S] = "send_copy" \/ (~mq_detached /\ pc[S] \notin Leaving) =>
           IF length_complete[S]
           THEN InMessage /\ Len(stream) > 0
                /\ stream[Len(stream)] = [msg |-> msg, part |-> partial[S], len |-> len]
           ELSE EndsMessage(Len(stream), IF InMessage THEN msg - 1 ELSE msg)
  BY DEF IInv, SenderInv
<1>3. mq_detached => mq_detached'
  BY DetachedStays
<1>4. CASE SendCopy
  <2>1. /\ pc[S] = "send_copy" /\ pc' = [pc EXCEPT ![S] = "send"]
        /\ Len(stream') = Len(stream) + SendNow
        /\ \A j \in 1..SendNow : stream'[Len(stream) + j] = NewCell(j)
    BY <1>4, CopyEffect
  <2>2. /\ msg' = msg /\ len' = len /\ length_complete' = [length_complete EXCEPT ![S] = TRUE]
        /\ partial' = [partial EXCEPT ![S] = IF length_complete[S] THEN @ + SendNow ELSE 0]
    BY <1>4 DEF SendCopy, SendNow, Offset, End
  <2>3. SendNow \in Nat /\ SendNow >= 1 /\ (~length_complete[S] => SendNow = 1)
    BY <2>1, CopyFits
  <2>4. InMessage /\ InMessage' /\ length_complete'[S]
    BY <1>1, <2>1, <2>2 DEF InMessage, Sending
  <2>5. Len(stream) \in Nat /\ partial[S] \in Nat
    BY Numbers
  <2>6. PICK k \in 1..SendNow : k = SendNow
    BY <2>3
  <2>7. stream'[Len(stream')] = NewCell(k)
    BY <2>1, <2>6
  <2>8. First + (k - 1) = partial'[S]
    <3>1. partial'[S] = IF length_complete[S] THEN partial[S] + SendNow ELSE 0
      BY <1>1, <2>2
    <3>2. First = IF length_complete[S] THEN partial[S] + 1 ELSE 0
      BY DEF First
    <3> QED
      BY <2>3, <2>5, <2>6, <3>1, <3>2
  <2>9. stream'[Len(stream')] = [msg |-> msg', part |-> partial'[S], len |-> len']
    BY <2>2, <2>7, <2>8 DEF NewCell
  <2>10. Len(stream') > 0
    BY <2>1, <2>3, <2>5
  <2> QED
    BY <1>2, <2>2, <2>4, <2>9, <2>10 DEF SenderInv
<1>5. ASSUME /\ stream' = stream /\ msg' = msg
             /\ length_complete'[S] = length_complete[S] /\ partial'[S] = partial[S]
             /\ length_complete[S] => len' = len
             /\ InMessage' = InMessage /\ (InMessage => len' = len)
             /\ \/ pc'[S] = "send_copy" \/ (~mq_detached' /\ pc'[S] \notin Leaving)
                => pc[S] = "send_copy" \/ (~mq_detached /\ pc[S] \notin Leaving)
      PROVE  SenderInv'
  <2>1. EndsMessage(Len(stream), IF InMessage THEN msg - 1 ELSE msg)' <=>
          EndsMessage(Len(stream), IF InMessage THEN msg - 1 ELSE msg)
    BY <1>5 DEF EndsMessage
  <2> QED
    BY <1>2, <1>5, <2>1 DEF SenderInv
<1>6. CASE ~SenderAct /\ ~(PartyAct(p) /\ p = S)
  <2>1. /\ UNCHANGED <<len, msg, available, send_pending, mq_bytes_written, stream>>
        /\ length_complete'[S] = length_complete[S] /\ partial'[S] = partial[S]
        /\ caller'[S] = caller[S]
        /\ \/ pc'[S] = pc[S]
           \/ pc[S] \in Joining /\ pc'[S] \in {"attach", "attach_latch", "idle", "exited"}
    BY <1>6, SenderKeeps
  <2>2. InMessage' = InMessage
    BY <2>1 DEF InMessage, Sending, Internal, Joining
  <2>3. \/ pc'[S] = "send_copy" \/ (~mq_detached' /\ pc'[S] \notin Leaving)
        => pc[S] = "send_copy" \/ (~mq_detached /\ pc[S] \notin Leaving)
    BY <1>3, <2>1 DEF Leaving, Joining
  <2> QED
    BY <1>5, <2>1, <2>2, <2>3
<1>7. CASE PartyAct(p) /\ p = S
  <2>1. stream' = stream /\ msg' = msg
    BY <1>7 DEF PartyAct, WaitForAttach, InternalTest, InternalDetached, InternalSleep,
       WaitForAttachReturns, Detach, Fail, DetachInternal, DetachLatch, At, Go, SetLatch,
       WaitLatch, SendReturnsDetached, ReceiveReturnsDetached, IncBytesRead, queueVars,
       workerVars, handleVars, sendVars, receiveVars, historyVars
  <2>2. CASE pc'[S] \in Leaving
    <3>1. ~InMessage' /\ pc'[S] # "send_copy"
      BY <2>2 DEF InMessage, Leaving, Sending, Internal
    <3>2. length_complete'[S] => length_complete[S] /\ len' = len
      BY <1>1, <1>7 DEF PartyAct, WaitForAttach, InternalTest, InternalDetached, InternalSleep,
         WaitForAttachReturns, Detach, Fail, DetachInternal, DetachLatch, At, Go, SetLatch,
         WaitLatch, SendReturnsDetached, ReceiveReturnsDetached, IncBytesRead, queueVars,
         workerVars, handleVars, sendVars, receiveVars, historyVars
    <3> QED
      BY <1>2, <2>2, <3>1, <3>2 DEF SenderInv
  <2>3. CASE pc'[S] \notin Leaving
    <3>1. /\ length_complete'[S] = length_complete[S] /\ partial'[S] = partial[S] /\ len' = len
          /\ pc[S] \notin Leaving /\ pc'[S] # "send_copy" /\ (InMessage' <=> InMessage)
      BY <1>1, <1>7, <2>3 DEF InMessage, Leaving, Sending, Internal, PartyAct, WaitForAttach,
         InternalTest, InternalDetached, InternalSleep, WaitForAttachReturns, Detach, Fail,
         DetachInternal, DetachLatch, At, Go, SetLatch, WaitLatch, SendReturnsDetached,
         ReceiveReturnsDetached, IncBytesRead, queueVars, workerVars, handleVars, sendVars,
         receiveVars, historyVars
    <3>2. InMessage' = InMessage
      BY <3>1 DEF InMessage
    <3> QED
      BY <1>3, <1>5, <2>1, <3>1, <3>2
  <2> QED
    BY <2>2, <2>3
<1>8. CASE Send
  <2>1. /\ stream' = stream /\ msg' = msg + 1 /\ len' \in Length /\ mq_detached' = mq_detached
        /\ length_complete' = length_complete /\ pc[S] = "idle" /\ pc'[S] = "send"
    BY <1>1, <1>8 DEF Send, At, Go, historyVars, queueVars
  <2>2. ~InMessage /\ InMessage'
    BY <2>1 DEF InMessage, Sending, Internal
  <2>3. msg \in Nat
    BY Numbers
  <2>4. msg' > 0 /\ msg' - 1 = msg
    BY <2>1, <2>3
  <2>5. ~mq_detached => ~length_complete[S] /\ EndsMessage(Len(stream), msg)
    BY <1>2, <2>1, <2>2 DEF Leaving
  <2>6. ~mq_detached => EndsMessage(Len(stream), msg - 1)'
    BY <2>1, <2>4, <2>5 DEF EndsMessage
  <2> QED
    BY <2>1, <2>2, <2>4, <2>5, <2>6 DEF SenderInv
<1>9. CASE SendDone
  <2>1. /\ stream' = stream /\ msg' = msg /\ mq_detached' = mq_detached /\ ~length_complete'[S]
        /\ pc[S] = "send" /\ pc'[S] = "send_finish" /\ ToSend = 0
    BY <1>1, <1>9 DEF SendDone, At, Go, historyVars, queueVars, sendVars
  <2>2. InMessage /\ ~InMessage'
    BY <2>1 DEF InMessage, Sending, Internal
  <2>3. length_complete[S] /\ partial[S] = len
    <3>1. len \in Nat /\ partial[S] \in Nat
      BY Numbers
    <3> QED
      BY <2>1, <3>1 DEF ToSend
  <2>4. ~mq_detached => EndsMessage(Len(stream), msg)
    BY <1>2, <2>1, <2>3 DEF EndsMessage, Leaving
  <2>5. ~mq_detached => EndsMessage(Len(stream), msg)'
    BY <2>1, <2>4 DEF EndsMessage
  <2> QED
    BY <2>1, <2>2, <2>5 DEF SenderInv
<1>10. CASE SenderAct /\ ~SendCopy /\ ~Send /\ ~SendDone
  <2>1. stream' = stream /\ msg' = msg
    BY <1>10 DEF SenderAct, Send, SendAgain, SendDone, SendAvailable, SendDetached, SendGone,
       SendGetReceiver, SendAttached, SendFull, SendFullLatch, SendSleep, SendCopy, SendFinish,
       SendReceiver, SendPublish, SendLatch, SendReturn, At, Go, SetLatch, WaitLatch,
       SendReturnsDetached, ReceiveReturnsDetached, IncBytesRead, queueVars, workerVars,
       handleVars, sendVars, receiveVars, historyVars
  <2>2. pc[S] \in Sending \cup Sent \cup Internal
    BY <1>10 DEF Sending, Sent, Internal, SenderAct, Send, SendAgain, SendDone, SendAvailable,
       SendDetached, SendGone, SendGetReceiver, SendAttached, SendFull, SendFullLatch,
       SendSleep, SendCopy, SendFinish, SendReceiver, SendPublish, SendLatch, SendReturn, At,
       Go, SetLatch, WaitLatch, SendReturnsDetached, ReceiveReturnsDetached, IncBytesRead,
       queueVars, workerVars, handleVars, sendVars, receiveVars, historyVars
  <2>4. CASE pc'[S] = "send_return" /\ mq_detached' /\ ~length_complete'[S]
    <3>1. ~InMessage'
      BY <2>4 DEF InMessage, Sending, Internal
    <3> QED
      BY <2>4, <3>1 DEF SenderInv
  <2>5. CASE ~(pc'[S] = "send_return" /\ mq_detached' /\ ~length_complete'[S])
    <3>4. length_complete'[S] = length_complete[S] /\ partial'[S] = partial[S]
      <4>1. CASE SendDetached
        BY <1>1, <2>5, <4>1, DetachedStays DEF SendDetached, SendReturnsDetached, Go
      <4>2. CASE SendGone
        BY <1>1, <2>5, <4>2 DEF SendGone, SendReturnsDetached, Go
      <4>3. CASE SendAttached
        BY <1>1, <2>5, <4>3 DEF SendAttached, SendReturnsDetached, Go
      <4>4. CASE ~SendDetached /\ ~SendGone /\ ~SendAttached
        BY <1>10, <4>4 DEF SenderAct, Send, SendAgain, SendDone, SendAvailable, SendDetached,
           SendGone, SendGetReceiver, SendAttached, SendFull, SendFullLatch, SendSleep,
           SendCopy, SendFinish, SendReceiver, SendPublish, SendLatch, SendReturn, At, Go,
           SetLatch, WaitLatch, SendReturnsDetached, ReceiveReturnsDetached, IncBytesRead,
           queueVars, workerVars, handleVars, sendVars, receiveVars, historyVars
      <4> QED
        BY <4>1, <4>2, <4>3, <4>4
    <3>5. len' = len \/ pc[S] = "send_return"
      BY <1>1, <1>10, <2>5 DEF SenderAct, Send, SendAgain, SendDone, SendAvailable,
         SendDetached, SendGone, SendGetReceiver, SendAttached, SendFull, SendFullLatch,
         SendSleep, SendCopy, SendFinish, SendReceiver, SendPublish, SendLatch, SendReturn, At,
         Go, SetLatch, WaitLatch, SendReturnsDetached, ReceiveReturnsDetached, IncBytesRead,
         queueVars, workerVars, handleVars, sendVars, receiveVars, historyVars
    <3>6. pc'[S] \notin Leaving /\ (pc'[S] = "send_copy" => ~mq_detached')
      BY <1>1, <1>10, <2>5 DEF Leaving, SenderAct, Send, SendAgain, SendDone, SendAvailable,
         SendDetached, SendGone, SendGetReceiver, SendAttached, SendFull, SendFullLatch,
         SendSleep, SendCopy, SendFinish, SendReceiver, SendPublish, SendLatch, SendReturn, At,
         Go, SetLatch, WaitLatch, SendReturnsDetached, ReceiveReturnsDetached, IncBytesRead,
         queueVars, workerVars, handleVars, sendVars, receiveVars, historyVars
    <3>7. InMessage' <=> InMessage
      <4>1. CASE SendDetached \/ SendGone \/ SendAttached
        BY <1>1, <2>5, <4>1, DetachedStays
        DEF SendDetached, SendGone, SendAttached, SendReturnsDetached, At, Go, InMessage,
        Sending,
            Internal
      <4>2. CASE ~SendDetached /\ ~SendGone /\ ~SendAttached
        <5>1. caller' = caller
          BY <1>10, <4>2 DEF SenderAct, Send, SendAgain, SendDone, SendAvailable, SendDetached,
             SendGone, SendGetReceiver, SendAttached, SendFull, SendFullLatch, SendSleep,
             SendCopy, SendFinish, SendReceiver, SendPublish, SendLatch, SendReturn, At, Go,
             SetLatch, WaitLatch, SendReturnsDetached, ReceiveReturnsDetached, IncBytesRead,
             queueVars, workerVars, handleVars, sendVars, receiveVars, historyVars
        <5>2. \/ pc[S] \in Sending /\ pc'[S] \in Sending
              \/ pc[S] \notin Sending \cup Internal /\ pc'[S] \notin Sending \cup Internal
          BY <1>1, <1>10, <4>2 DEF Sending, Internal, SenderAct, Send, SendAgain, SendDone,
             SendAvailable, SendDetached, SendGone, SendGetReceiver, SendAttached, SendFull,
             SendFullLatch, SendSleep, SendCopy, SendFinish, SendReceiver, SendPublish,
             SendLatch, SendReturn, At, Go, SetLatch, WaitLatch, SendReturnsDetached,
             ReceiveReturnsDetached, IncBytesRead, queueVars, workerVars, handleVars, sendVars,
             receiveVars, historyVars
        <5> QED
          BY <5>1, <5>2 DEF InMessage
      <4> QED
        BY <4>1, <4>2
    <3>1. InMessage' = InMessage
      BY <3>7 DEF InMessage
    <3>2. pc[S] = "send_return" => ~InMessage /\ ~length_complete[S]
      BY DEF InMessage, Sending, Internal, IInv, RoomInv
    <3>3. pc[S] \notin Leaving
      BY <2>2 DEF Leaving, Sending, Sent, Internal
    <3> QED
      BY <1>3, <1>5, <2>1, <3>1, <3>2, <3>3, <3>4, <3>5, <3>6
  <2> QED
    BY <2>4, <2>5
<1> QED
  BY <1>4, <1>6, <1>7, <1>8, <1>9, <1>10

-----------------------------------------------------------------------------
(* ReceiverInv                                                             *)

LEMMA StillReceiving ==
  ASSUME IInv, NEW p \in Party, Step(p), pc'[R] \notin {"detach_latch", "exited"}
  PROVE  pc[R] \notin {"detach_latch", "exited"}
<1>1. pc \in [Party -> Label] /\ S \in Party /\ R \in Party /\ S # R
  BY TwoParties DEF IInv, TypeOK
<1>2. CASE WorkerAct /\ R = worker
  BY <1>1, <1>2 DEF WorkerAct, StartWorker, Attach, AttachLatch, WorkerFails, WorkerStops,
     NotifyLeader, At, Go, SetLatch, WaitLatch, SendReturnsDetached, ReceiveReturnsDetached,
     IncBytesRead, queueVars, workerVars, handleVars, sendVars, receiveVars, historyVars
<1>3. CASE ReceiverAct
  BY <1>1, <1>3 DEF ReceiverAct, Receive, ReceiveGone, ReceiveGetSender, ReceiveAttached,
     ReceiveEnd, ReceiveConsume, ReceiveConsumeLatch, ReceiveBytes, ReceiveDetached,
     ReceiveRecheck, ReceiveRead, ReceiveReadLatch, ReceiveSleep, GotLengthWord, GotMessage,
     GotPart, ReceiveReturn, At, Go, SetLatch, WaitLatch, SendReturnsDetached,
     ReceiveReturnsDetached, IncBytesRead, queueVars, workerVars, handleVars, sendVars,
     receiveVars, historyVars
<1>4. CASE PartyAct(p) /\ p = R
  BY <1>1, <1>4 DEF Returned, Sleeping, PartyAct, WaitForAttach, InternalTest,
     InternalDetached, InternalSleep, WaitForAttachReturns, Detach, Fail, DetachInternal,
     DetachLatch, At, Go, SetLatch, WaitLatch, SendReturnsDetached, ReceiveReturnsDetached,
     IncBytesRead, queueVars, workerVars, handleVars, sendVars, receiveVars, historyVars
<1> QED
  BY <1>1, <1>2, <1>3, <1>4, OneMoves DEF Stays

(* What was written and published stays in the stream.                     *)
LEMMA StreamStays ==
  ASSUME IInv, NEW p \in Party, Step(p), NEW x \in Nat, x > 0, x <= Len(stream)
  PROVE  stream'[x] = stream[x]
<1>1. CASE SendCopy
  <2>1. x \in 1..Len(stream)
    BY Numbers
  <2> QED
    BY <1>1, <2>1, CopyEffect
<1>2. CASE ~SendCopy
  BY <1>2, DetachedStays
<1> QED
  BY <1>1, <1>2

LEMMA ReceiverStep ==
  ASSUME IInv, NEW p \in Party, Step(p)
  PROVE  ReceiverInv'
<1>1. /\ pc \in [Party -> Label] /\ S \in Party /\ R \in Party /\ S # R
      /\ length_complete \in [Party -> BOOLEAN] /\ partial \in [Party -> Nat]
  BY TwoParties DEF IInv, TypeOK
<1>2. /\ ReadPos \in Nat /\ mq_bytes_written \in Nat /\ Len(stream) \in Nat
      /\ ReadPos <= mq_bytes_written /\ mq_bytes_written <= Len(stream)
      /\ mq_bytes_read \in Nat /\ consume_pending \in Nat /\ delivered \in Nat
  BY Numbers
<1>3. SUFFICES ASSUME pc'[R] \notin {"detach_latch", "exited"}
               PROVE  IF length_complete'[R]
                      THEN /\ ReadPos' > 0 /\ partial'[R] < expected'
                           /\ stream'[ReadPos'] = [msg |-> delivered' + 1,
                                         part |-> partial'[R], len |-> expected']
                      ELSE partial'[R] = 0 /\ EndsMessage(ReadPos, delivered)'
  BY DEF ReceiverInv
<1>4. IF length_complete[R]
      THEN /\ ReadPos > 0 /\ partial[R] < expected
           /\ stream[ReadPos] = [msg |-> delivered + 1, part |-> partial[R], len |-> expected]
      ELSE partial[R] = 0 /\ EndsMessage(ReadPos, delivered)
  BY <1>3, StillReceiving DEF IInv, ReceiverInv
<1>5. ReadPos > 0 => stream'[ReadPos] = stream[ReadPos]
  BY <1>2, StreamStays
<1>6. CASE GotLengthWord \/ GotMessage \/ GotPart
  <2>1. PICK k \in Nat \ {0} : Takes(k)
    BY <1>6, GotEffect
  <2>2. PICK x \in Nat : x = ReadPos + k /\ x > 0 /\ x <= mq_bytes_written
    BY <1>2, <2>1 DEF Takes
  <2>3. stream'[x] = stream[x]
    BY <1>2, <2>2, StreamStays
  <2>4. ReadPos' = x
    BY <1>2, <2>1, <2>2 DEF ReadPos, Takes
  <2>5. IF length_complete'[R]
        THEN /\ partial'[R] < expected'
             /\ stream[x] = [msg |-> delivered' + 1, part |-> partial'[R], len |-> expected']
        ELSE partial'[R] = 0 /\ EndsMessage(x, delivered')
    BY <2>1, <2>2 DEF Takes
  <2>6. EndsMessage(x, delivered') => EndsMessage(ReadPos, delivered)'
    BY <2>2, <2>3, <2>4 DEF EndsMessage
  <2> QED
    BY <2>2, <2>3, <2>4, <2>5, <2>6
<1>7. CASE ~GotLengthWord /\ ~GotMessage /\ ~GotPart
  <2>1. /\ length_complete'[R] = length_complete[R] /\ partial'[R] = partial[R]
        /\ delivered' = delivered /\ (length_complete[R] => expected' = expected)
    <3>1. CASE ReceiverAct
      BY <1>1, <1>7, <3>1 DEF ReceiverAct, Receive, ReceiveGone, ReceiveGetSender,
         ReceiveAttached, ReceiveEnd, ReceiveConsume, ReceiveConsumeLatch, ReceiveBytes,
         ReceiveDetached, ReceiveRecheck, ReceiveRead, ReceiveReadLatch, ReceiveSleep,
         GotLengthWord, GotMessage, GotPart, ReceiveReturn, At, Go, SetLatch, WaitLatch,
         SendReturnsDetached, ReceiveReturnsDetached, IncBytesRead, queueVars, workerVars,
         handleVars, sendVars, receiveVars, historyVars
    <3>2. CASE PartyAct(p) /\ p = R
      BY <1>1, <1>3, <3>2 DEF PartyAct, WaitForAttach, InternalTest, InternalDetached,
         InternalSleep, WaitForAttachReturns, Detach, Fail, DetachInternal, DetachLatch, At,
         Go, SetLatch, WaitLatch, SendReturnsDetached, ReceiveReturnsDetached, IncBytesRead,
         queueVars, workerVars, handleVars, sendVars, receiveVars, historyVars
    <3> QED
      BY <3>1, <3>2, ReceiverKeeps
  <2>2. ReadPos' = ReadPos
    <3>1. CASE ReceiverAct
      <4>1. \/ UNCHANGED <<mq_bytes_read, consume_pending>>
            \/ mq_bytes_read' = mq_bytes_read + consume_pending /\ consume_pending' = 0
        BY <1>7, <3>1 DEF ReceiverAct, Receive, ReceiveGone, ReceiveGetSender, ReceiveAttached,
           ReceiveEnd, ReceiveConsume, ReceiveConsumeLatch, ReceiveBytes, ReceiveDetached,
           ReceiveRecheck, ReceiveRead, ReceiveReadLatch, ReceiveSleep, GotLengthWord,
           GotMessage, GotPart, ReceiveReturn, At, Go, SetLatch, WaitLatch,
           SendReturnsDetached, ReceiveReturnsDetached, IncBytesRead, queueVars, workerVars,
           handleVars, sendVars, receiveVars, historyVars
      <4> QED
        BY <1>2, <4>1 DEF ReadPos
    <3>2. CASE PartyAct(p) /\ p = R
      <4>1. UNCHANGED <<mq_bytes_read, consume_pending>>
        BY <1>1, <1>3, <3>2 DEF PartyAct, WaitForAttach, InternalTest, InternalDetached,
           InternalSleep, WaitForAttachReturns, Detach, Fail, DetachInternal, DetachLatch, At,
           Go, SetLatch, WaitLatch, SendReturnsDetached, ReceiveReturnsDetached, IncBytesRead,
           queueVars, workerVars, handleVars, sendVars, receiveVars, historyVars
      <4> QED
        BY <4>1 DEF ReadPos
    <3>3. CASE ~ReceiverAct /\ ~(PartyAct(p) /\ p = R)
      <4>1. UNCHANGED <<mq_bytes_read, consume_pending>>
        BY <3>3, ReceiverKeeps
      <4> QED
        BY <4>1 DEF ReadPos
    <3> QED
      BY <3>1, <3>2, <3>3
  <2>3. EndsMessage(ReadPos, delivered) => EndsMessage(ReadPos, delivered)'
    BY <1>2, <1>5, <2>1, <2>2 DEF EndsMessage
  <2> QED
    BY <1>4, <1>5, <2>1, <2>2, <2>3
<1> QED
  BY <1>6, <1>7

-----------------------------------------------------------------------------
(* WakeInv                                                                 *)

(* A step of q: one of its calls, or of its end.                           *)
Own(q, p) == (q = S /\ SenderAct) \/ (q = R /\ ReceiverAct) \/ (q = p /\ PartyAct(p))

(* q resets its latch.                                                     *)
Woke(q) ==
  /\ pc[q] \in Sleeping \cup {"would_block"}
  /\ pc'[q] \in {"internal", "send", "receive", "receive_consume", "receive_gone"}

(* A latch that is set stays so until its owner resets it; one that is     *)
(* about to be set is set.                                                 *)
LEMMA PingStays ==
  ASSUME IInv, NEW p \in Party, Step(p), NEW q \in Party, Pinged(q), mq_proc[q], ~Woke(q)
  PROVE  Pinged(q)'
<1>1. /\ pc \in [Party -> Label] /\ S \in Party /\ R \in Party /\ S # R /\ worker \in Party
      /\ latch \in [Party -> BOOLEAN] /\ mq_proc \in [Party -> BOOLEAN]
      /\ attached \in [Party -> BOOLEAN] /\ found \in [Party -> BOOLEAN]
      /\ Other(S) = R /\ Other(R) = S
  BY TwoParties DEF IInv, TypeOK
<1>2. worker' = worker
  <2>1. CASE WorkerAct
    BY <2>1 DEF WorkerAct, StartWorker, Attach, AttachLatch, WorkerFails, WorkerStops,
       NotifyLeader, At, Go, SetLatch, WaitLatch, SendReturnsDetached, ReceiveReturnsDetached,
       IncBytesRead, queueVars, workerVars, handleVars, sendVars, receiveVars, historyVars
  <2>2. CASE SenderAct
    BY <2>2 DEF SenderAct, Send, SendAgain, SendDone, SendAvailable, SendDetached, SendGone,
       SendGetReceiver, SendAttached, SendFull, SendFullLatch, SendSleep, SendCopy, SendFinish,
       SendReceiver, SendPublish, SendLatch, SendReturn, At, Go, SetLatch, WaitLatch,
       SendReturnsDetached, ReceiveReturnsDetached, IncBytesRead, queueVars, workerVars,
       handleVars, sendVars, receiveVars, historyVars
  <2>3. CASE ReceiverAct
    BY <2>3 DEF ReceiverAct, Receive, ReceiveGone, ReceiveGetSender, ReceiveAttached,
       ReceiveEnd, ReceiveConsume, ReceiveConsumeLatch, ReceiveBytes, ReceiveDetached,
       ReceiveRecheck, ReceiveRead, ReceiveReadLatch, ReceiveSleep, GotLengthWord, GotMessage,
       GotPart, ReceiveReturn, At, Go, SetLatch, WaitLatch, SendReturnsDetached,
       ReceiveReturnsDetached, IncBytesRead, queueVars, workerVars, handleVars, sendVars,
       receiveVars, historyVars
  <2>4. CASE PartyAct(p)
    BY <2>4 DEF PartyAct, WaitForAttach, InternalTest, InternalDetached, InternalSleep,
       WaitForAttachReturns, Detach, Fail, DetachInternal, DetachLatch, At, Go, SetLatch,
       WaitLatch, SendReturnsDetached, ReceiveReturnsDetached, IncBytesRead, queueVars,
       workerVars, handleVars, sendVars, receiveVars, historyVars
  <2> QED
    BY <2>1, <2>2, <2>3, <2>4 DEF Step
<1>3. Other(q) \in Party /\ Other(q) # q /\ Other(Other(q)) = q /\ (q = S \/ q = R)
  BY TwoParties
<1>4. ASSUME latch[q]
      PROVE  latch'[q]
  <2>1. CASE WorkerAct
    BY <1>1, <1>4, <2>1 DEF WorkerAct, StartWorker, Attach, AttachLatch, WorkerFails,
       WorkerStops, NotifyLeader, At, Go, SetLatch, WaitLatch, SendReturnsDetached,
       ReceiveReturnsDetached, IncBytesRead, queueVars, workerVars, handleVars, sendVars,
       receiveVars, historyVars
  <2>2. CASE SenderAct
    BY <1>1, <1>4, <2>2 DEF Woke, Sleeping, SenderAct, Send, SendAgain, SendDone,
       SendAvailable, SendDetached, SendGone, SendGetReceiver, SendAttached, SendFull,
       SendFullLatch, SendSleep, SendCopy, SendFinish, SendReceiver, SendPublish, SendLatch,
       SendReturn, At, Go, SetLatch, WaitLatch, SendReturnsDetached, ReceiveReturnsDetached,
       IncBytesRead, queueVars, workerVars, handleVars, sendVars, receiveVars, historyVars
  <2>3. CASE ReceiverAct
    BY <1>1, <1>4, <2>3 DEF Woke, Sleeping, ReceiverAct, Receive, ReceiveGone,
       ReceiveGetSender, ReceiveAttached, ReceiveEnd, ReceiveConsume, ReceiveConsumeLatch,
       ReceiveBytes, ReceiveDetached, ReceiveRecheck, ReceiveRead, ReceiveReadLatch,
       ReceiveSleep, GotLengthWord, GotMessage, GotPart, ReceiveReturn, At, Go, SetLatch,
       WaitLatch, SendReturnsDetached, ReceiveReturnsDetached, IncBytesRead, queueVars,
       workerVars, handleVars, sendVars, receiveVars, historyVars
  <2>4. CASE PartyAct(p)
    BY <1>1, <1>4, <2>4 DEF Woke, Sleeping, PartyAct, WaitForAttach, InternalTest,
       InternalDetached, InternalSleep, WaitForAttachReturns, Detach, Fail, DetachInternal,
       DetachLatch, At, Go, SetLatch, WaitLatch, SendReturnsDetached, ReceiveReturnsDetached,
       IncBytesRead, queueVars, workerVars, handleVars, sendVars, receiveVars, historyVars
  <2> QED
    BY <2>1, <2>2, <2>3, <2>4 DEF Step
<1>5. ASSUME pc[Other(q)] \in {"attach_latch", "detach", "detach_latch"}
      PROVE  pc'[Other(q)] \in {"attach_latch", "detach", "detach_latch"} \/ latch'[q]
  <2>1. CASE WorkerAct /\ Other(q) = worker
    BY <1>1, <1>3, <1>5, <2>1 DEF WorkerAct, StartWorker, Attach, AttachLatch, WorkerFails,
       WorkerStops, NotifyLeader, At, Go, SetLatch, WaitLatch, SendReturnsDetached,
       ReceiveReturnsDetached, IncBytesRead, queueVars, workerVars, handleVars, sendVars,
       receiveVars, historyVars
  <2>2. CASE SenderAct /\ Other(q) = S
    BY <1>1, <1>5, <2>2 DEF SenderAct, Send, SendAgain, SendDone, SendAvailable, SendDetached,
       SendGone, SendGetReceiver, SendAttached, SendFull, SendFullLatch, SendSleep, SendCopy,
       SendFinish, SendReceiver, SendPublish, SendLatch, SendReturn, At, Go, SetLatch,
       WaitLatch, SendReturnsDetached, ReceiveReturnsDetached, IncBytesRead, queueVars,
       workerVars, handleVars, sendVars, receiveVars, historyVars
  <2>3. CASE ReceiverAct /\ Other(q) = R
    BY <1>1, <1>5, <2>3 DEF ReceiverAct, Receive, ReceiveGone, ReceiveGetSender,
       ReceiveAttached, ReceiveEnd, ReceiveConsume, ReceiveConsumeLatch, ReceiveBytes,
       ReceiveDetached, ReceiveRecheck, ReceiveRead, ReceiveReadLatch, ReceiveSleep,
       GotLengthWord, GotMessage, GotPart, ReceiveReturn, At, Go, SetLatch, WaitLatch,
       SendReturnsDetached, ReceiveReturnsDetached, IncBytesRead, queueVars, workerVars,
       handleVars, sendVars, receiveVars, historyVars
  <2>4. CASE PartyAct(p) /\ Other(q) = p
    BY <1>1, <1>3, <1>5, <2>4 DEF Returned, Sleeping, PartyAct, WaitForAttach, InternalTest,
       InternalDetached, InternalSleep, WaitForAttachReturns, Detach, Fail, DetachInternal,
       DetachLatch, At, Go, SetLatch, WaitLatch, SendReturnsDetached, ReceiveReturnsDetached,
       IncBytesRead, queueVars, workerVars, handleVars, sendVars, receiveVars, historyVars
  <2> QED
    BY <1>3, <1>5, <2>1, <2>2, <2>3, <2>4, OneMoves DEF Stays
<1>6. ASSUME q = S, pc[R] \in {"receive_consume_latch", "receive_read_latch"}
      PROVE  pc'[R] \in {"receive_consume_latch", "receive_read_latch"} \/ latch'[S]
  <2>1. CASE ReceiverAct
    BY <1>1, <1>6, <2>1 DEF ReceiverAct, Receive, ReceiveGone, ReceiveGetSender,
       ReceiveAttached, ReceiveEnd, ReceiveConsume, ReceiveConsumeLatch, ReceiveBytes,
       ReceiveDetached, ReceiveRecheck, ReceiveRead, ReceiveReadLatch, ReceiveSleep,
       GotLengthWord, GotMessage, GotPart, ReceiveReturn, At, Go, SetLatch, WaitLatch,
       SendReturnsDetached, ReceiveReturnsDetached, IncBytesRead, queueVars, workerVars,
       handleVars, sendVars, receiveVars, historyVars
  <2>2. CASE WorkerAct /\ R = worker
    BY <1>1, <1>6, <2>2 DEF WorkerAct, StartWorker, Attach, AttachLatch, WorkerFails,
       WorkerStops, NotifyLeader, At, Go, SetLatch, WaitLatch, SendReturnsDetached,
       ReceiveReturnsDetached, IncBytesRead, queueVars, workerVars, handleVars, sendVars,
       receiveVars, historyVars
  <2>3. CASE PartyAct(p) /\ R = p
    BY <1>1, <1>6, <2>3 DEF Returned, Sleeping, PartyAct, WaitForAttach, InternalTest,
       InternalDetached, InternalSleep, WaitForAttachReturns, Detach, Fail, DetachInternal,
       DetachLatch, At, Go, SetLatch, WaitLatch, SendReturnsDetached, ReceiveReturnsDetached,
       IncBytesRead, queueVars, workerVars, handleVars, sendVars, receiveVars, historyVars
  <2> QED
    BY <1>1, <1>6, <2>1, <2>2, <2>3, OneMoves DEF Stays
<1>7. ASSUME q = R, pc[S] \in {"send_latch", "send_full_latch"}
      PROVE  pc'[S] \in {"send_latch", "send_full_latch"} \/ latch'[R]
  <2>1. CASE SenderAct
    BY <1>1, <1>7, <2>1 DEF SenderAct, Send, SendAgain, SendDone, SendAvailable, SendDetached,
       SendGone, SendGetReceiver, SendAttached, SendFull, SendFullLatch, SendSleep, SendCopy,
       SendFinish, SendReceiver, SendPublish, SendLatch, SendReturn, At, Go, SetLatch,
       WaitLatch, SendReturnsDetached, ReceiveReturnsDetached, IncBytesRead, queueVars,
       workerVars, handleVars, sendVars, receiveVars, historyVars
  <2>2. CASE WorkerAct /\ S = worker
    BY <1>1, <1>7, <2>2 DEF WorkerAct, StartWorker, Attach, AttachLatch, WorkerFails,
       WorkerStops, NotifyLeader, At, Go, SetLatch, WaitLatch, SendReturnsDetached,
       ReceiveReturnsDetached, IncBytesRead, queueVars, workerVars, handleVars, sendVars,
       receiveVars, historyVars
  <2>3. CASE PartyAct(p) /\ S = p
    BY <1>1, <1>7, <2>3 DEF Returned, Sleeping, PartyAct, WaitForAttach, InternalTest,
       InternalDetached, InternalSleep, WaitForAttachReturns, Detach, Fail, DetachInternal,
       DetachLatch, At, Go, SetLatch, WaitLatch, SendReturnsDetached, ReceiveReturnsDetached,
       IncBytesRead, queueVars, workerVars, handleVars, sendVars, receiveVars, historyVars
  <2> QED
    BY <1>1, <1>7, <2>1, <2>2, <2>3, OneMoves DEF Stays
<1>8. ASSUME q # worker, notify
      PROVE  notify' \/ latch'[q]
  <2>1. Other(worker) = q
    BY <1>1, <1>8, TwoParties
  <2>2. notify' = notify \/ NotifyLeader \/ notify' = TRUE
    <3>1. CASE WorkerAct
      BY <3>1 DEF WorkerAct, StartWorker, Attach, AttachLatch, WorkerFails, WorkerStops,
         NotifyLeader, At, Go, SetLatch, WaitLatch, SendReturnsDetached,
         ReceiveReturnsDetached, IncBytesRead, queueVars, workerVars, handleVars, sendVars,
         receiveVars, historyVars
    <3>2. CASE SenderAct
      BY <3>2 DEF SenderAct, Send, SendAgain, SendDone, SendAvailable, SendDetached, SendGone,
         SendGetReceiver, SendAttached, SendFull, SendFullLatch, SendSleep, SendCopy,
         SendFinish, SendReceiver, SendPublish, SendLatch, SendReturn, At, Go, SetLatch,
         WaitLatch, SendReturnsDetached, ReceiveReturnsDetached, IncBytesRead, queueVars,
         workerVars, handleVars, sendVars, receiveVars, historyVars
    <3>3. CASE ReceiverAct
      BY <3>3 DEF ReceiverAct, Receive, ReceiveGone, ReceiveGetSender, ReceiveAttached,
         ReceiveEnd, ReceiveConsume, ReceiveConsumeLatch, ReceiveBytes, ReceiveDetached,
         ReceiveRecheck, ReceiveRead, ReceiveReadLatch, ReceiveSleep, GotLengthWord,
         GotMessage, GotPart, ReceiveReturn, At, Go, SetLatch, WaitLatch, SendReturnsDetached,
         ReceiveReturnsDetached, IncBytesRead, queueVars, workerVars, handleVars, sendVars,
         receiveVars, historyVars
    <3>4. CASE PartyAct(p)
      BY <3>4 DEF PartyAct, WaitForAttach, InternalTest, InternalDetached, InternalSleep,
         WaitForAttachReturns, Detach, Fail, DetachInternal, DetachLatch, At, Go, SetLatch,
         WaitLatch, SendReturnsDetached, ReceiveReturnsDetached, IncBytesRead, queueVars,
         workerVars, handleVars, sendVars, receiveVars, historyVars
    <3> QED
      BY <3>1, <3>2, <3>3, <3>4 DEF Step
  <2>3. NotifyLeader => latch'[q]
    BY <1>1, <1>3, <2>1 DEF NotifyLeader, SetLatch
  <2> QED
    BY <1>8, <2>2, <2>3
<1> QED
  BY <1>2, <1>4, <1>5, <1>6, <1>7, <1>8 DEF Pinged, LatchComing

(* Who does not act has found what it had found.                           *)
LEMMA SeesTheSame ==
  ASSUME IInv, NEW p \in Party, Step(p), NEW q \in Party, ~Own(q, p)
  PROVE  /\ SawAttached(q)' => SawAttached(q) /\ pc'[q] = pc[q]
         /\ SawNobody(q)' => SawNobody(q) /\ pc'[q] = pc[q]
         /\ SawAlive(q)' => SawAlive(q) /\ pc'[q] = pc[q]
         /\ q = S /\ SawFull' => SawFull /\ pc'[S] = pc[S]
         /\ q = R /\ SawAll' => SawAll /\ pc'[R] = pc[R]
<1>1. /\ attached'[q] = attached[q] /\ found'[q] = found[q] /\ (q = S => available' = available)
      /\ \/ pc'[q] = pc[q]
         \/ pc'[q] \in {"attach", "attach_latch", "idle", "exited"}
  BY SenderKeeps, ReceiverKeeps, TwoParties DEF Own
<1> QED
  BY <1>1 DEF SawAttached, SawNobody, SawAlive, SawFull, SawAll, Sleeping

(* Who has found something exists, and is not waiting any more if it has   *)
(* reset its latch.                                                        *)
LEMMA SeerIsThere ==
  ASSUME IInv, NEW q \in Party,
         SawAttached(q) \/ SawNobody(q) \/ SawAlive(q) \/ (q = S /\ SawFull) \/ (q = R /\ SawAll)
  PROVE  mq_proc[q] /\ pc[q] \notin {"unborn", "attach", "exited"}
<1>1. pc[q] \notin {"unborn", "attach", "exited"}
  BY DEF SawAttached, SawNobody, SawAlive, SawFull, SawAll, Sleeping
<1> QED
  BY <1>1 DEF IInv, ControlInv

LEMMA SeerSleeps ==
  ASSUME NEW q \in Party,
         (SawAttached(q) \/ SawNobody(q) \/ SawAlive(q) \/ (q = S /\ SawFull) \/ (q = R /\ SawAll))'
  PROVE  ~Woke(q)
BY DEF Woke, SawAttached, SawNobody, SawAlive, SawFull, SawAll, Sleeping

(* The queue is detached by who leaves it, and sets the latch of the other *)
(* one, or by who finds that the worker is dead.                           *)
LEMMA WhoDetaches ==
  ASSUME IInv, NEW p \in Party, Step(p), ~mq_detached, mq_detached'
  PROVE  \/ PartyAct(p) /\ DetachInternal(p)
         \/ SenderAct /\ WorkerDead(S)
         \/ ReceiverAct /\ WorkerDead(R)
<1>1. /\ pc \in [Party -> Label] /\ S \in Party /\ R \in Party /\ S # R /\ worker \in Party
      /\ latch \in [Party -> BOOLEAN] /\ mq_proc \in [Party -> BOOLEAN]
      /\ attached \in [Party -> BOOLEAN] /\ found \in [Party -> BOOLEAN]
      /\ Other(S) = R /\ Other(R) = S
  BY TwoParties DEF IInv, TypeOK
<1>2. /\ pc[S] = "internal_return" /\ ~found[S] => mq_detached \/ WorkerDead(S)
      /\ pc[R] = "internal_return" /\ ~found[R] => mq_detached \/ WorkerDead(R)
  BY <1>1 DEF IInv, ControlInv
<1>3. CASE WorkerAct
  BY <1>3 DEF WorkerAct, StartWorker, Attach, AttachLatch, WorkerFails, WorkerStops,
     NotifyLeader, At, Go, SetLatch, WaitLatch, SendReturnsDetached, ReceiveReturnsDetached,
     IncBytesRead, queueVars, workerVars, handleVars, sendVars, receiveVars, historyVars
<1>4. CASE SenderAct
  BY <1>2, <1>4 DEF SenderAct, Send, SendAgain, SendDone, SendAvailable, SendDetached,
     SendGone, SendGetReceiver, SendAttached, SendFull, SendFullLatch, SendSleep, SendCopy,
     SendFinish, SendReceiver, SendPublish, SendLatch, SendReturn, At, Go, SetLatch, WaitLatch,
     SendReturnsDetached, ReceiveReturnsDetached, IncBytesRead, queueVars, workerVars,
     handleVars, sendVars, receiveVars, historyVars
<1>5. CASE ReceiverAct
  BY <1>2, <1>5 DEF ReceiverAct, Receive, ReceiveGone, ReceiveGetSender, ReceiveAttached,
     ReceiveEnd, ReceiveConsume, ReceiveConsumeLatch, ReceiveBytes, ReceiveDetached,
     ReceiveRecheck, ReceiveRead, ReceiveReadLatch, ReceiveSleep, GotLengthWord, GotMessage,
     GotPart, ReceiveReturn, At, Go, SetLatch, WaitLatch, SendReturnsDetached,
     ReceiveReturnsDetached, IncBytesRead, queueVars, workerVars, handleVars, sendVars,
     receiveVars, historyVars
<1>6. CASE PartyAct(p)
  BY <1>6 DEF PartyAct, WaitForAttach, InternalTest, InternalDetached, InternalSleep,
     WaitForAttachReturns, Detach, Fail, DetachInternal, DetachLatch, At, Go, SetLatch,
     WaitLatch, SendReturnsDetached, ReceiveReturnsDetached, IncBytesRead, queueVars,
     workerVars, handleVars, sendVars, receiveVars, historyVars
<1> QED
  BY <1>3, <1>4, <1>5, <1>6 DEF Step

LEMMA WakeDetached ==
  ASSUME IInv, NEW p \in Party, Step(p), NEW q \in Party, SawAttached(q)'
  PROVE  ~mq_detached' \/ Pinged(q)'
<1>1. /\ pc \in [Party -> Label] /\ S \in Party /\ R \in Party /\ S # R /\ worker \in Party
      /\ latch \in [Party -> BOOLEAN] /\ mq_proc \in [Party -> BOOLEAN]
      /\ attached \in [Party -> BOOLEAN] /\ found \in [Party -> BOOLEAN]
      /\ Other(S) = R /\ Other(R) = S
  BY TwoParties DEF IInv, TypeOK
<1>2. \/ ~Own(q, p) \/ (q = S /\ SenderAct) \/ (q = R /\ ReceiverAct) \/ (q = p /\ PartyAct(p))
  BY DEF Own
<1>3. ControlInv /\ WakeInv
  BY DEF IInv
<1>4. SawAttached(q) /\ (mq_detached' => mq_detached) => ~mq_detached' \/ Pinged(q)'
  BY <1>3, PingStays, SeerIsThere, SeerSleeps DEF WakeInv
<1>5. CASE ~Own(q, p)
  <2>1. SawAttached(q) /\ pc'[q] = pc[q]
    BY <1>5, SeesTheSame
  <2>2. mq_proc[q] /\ pc[q] # "exited"
    BY <2>1, SeerIsThere
  <2>3. SUFFICES ASSUME ~mq_detached, mq_detached'
                 PROVE  Pinged(q)'
    BY <1>4, <2>1
  <2>4. status = "stopped" => worker # q
    BY <1>3, <2>2 DEF ControlInv
  <2>5. PartyAct(p) /\ DetachInternal(p) /\ p = Other(q)
    <3>1. ~(SenderAct /\ WorkerDead(S)) /\ ~(ReceiverAct /\ WorkerDead(R))
      BY <1>1, <1>5, <2>4, TwoParties DEF WorkerDead, Own
    <3> QED
      BY <1>5, <2>3, <3>1, WhoDetaches, TwoParties DEF Own
  <2>6. pc'[Other(q)] = "detach_latch"
    <3>1. Other(p) = q
      BY <2>5, TwoParties
    <3> QED
      BY <1>1, <2>2, <2>5, <3>1 DEF DetachInternal, Go
  <2> QED
    BY <2>6 DEF Pinged, LatchComing
<1>6. CASE q = S /\ SenderAct
  <2>1. ~mq_detached' \/ (SawAttached(S) /\ (mq_detached' => mq_detached))
    BY <1>1, <1>6 DEF SawAttached, Sleeping, SenderAct, Send, SendAgain, SendDone,
       SendAvailable, SendDetached, SendGone, SendGetReceiver, SendAttached, SendFull,
       SendFullLatch, SendSleep, SendCopy, SendFinish, SendReceiver, SendPublish, SendLatch,
       SendReturn, At, Go, SetLatch, WaitLatch, SendReturnsDetached, ReceiveReturnsDetached,
       IncBytesRead, queueVars, workerVars, handleVars, sendVars, receiveVars, historyVars
  <2> QED
    BY <1>4, <1>6, <2>1
<1>7. CASE q = R /\ ReceiverAct
  <2>1. ~mq_detached' \/ (SawAttached(R) /\ (mq_detached' => mq_detached))
    BY <1>1, <1>7 DEF SawAttached, Sleeping, ReceiverAct, Receive, ReceiveGone,
       ReceiveGetSender, ReceiveAttached, ReceiveEnd, ReceiveConsume, ReceiveConsumeLatch,
       ReceiveBytes, ReceiveDetached, ReceiveRecheck, ReceiveRead, ReceiveReadLatch,
       ReceiveSleep, GotLengthWord, GotMessage, GotPart, ReceiveReturn, At, Go, SetLatch,
       WaitLatch, SendReturnsDetached, ReceiveReturnsDetached, IncBytesRead, queueVars,
       workerVars, handleVars, sendVars, receiveVars, historyVars
  <2> QED
    BY <1>4, <1>7, <2>1
<1>8. CASE q = p /\ PartyAct(p)
  <2>1. ~mq_detached' \/ (SawAttached(q) /\ (mq_detached' => mq_detached))
    BY <1>1, <1>8 DEF SawAttached, Sleeping, PartyAct, WaitForAttach, InternalTest,
       InternalDetached, InternalSleep, WaitForAttachReturns, Detach, Fail, DetachInternal,
       DetachLatch, At, Go, SetLatch, WaitLatch, SendReturnsDetached, ReceiveReturnsDetached,
       IncBytesRead, queueVars, workerVars, handleVars, sendVars, receiveVars, historyVars
  <2> QED
    BY <1>4, <2>1
<1> QED
  BY <1>2, <1>5, <1>6, <1>7, <1>8

LEMMA WakeAttached ==
  ASSUME IInv, NEW p \in Party, Step(p), NEW q \in Party, SawNobody(q)'
  PROVE  ~mq_proc'[Other(q)] \/ Pinged(q)'
<1>1. /\ pc \in [Party -> Label] /\ S \in Party /\ R \in Party /\ S # R /\ worker \in Party
      /\ latch \in [Party -> BOOLEAN] /\ mq_proc \in [Party -> BOOLEAN]
      /\ attached \in [Party -> BOOLEAN] /\ found \in [Party -> BOOLEAN]
      /\ Other(S) = R /\ Other(R) = S
  BY TwoParties DEF IInv, TypeOK
<1>2. \/ ~Own(q, p) \/ (q = S /\ SenderAct) \/ (q = R /\ ReceiverAct) \/ (q = p /\ PartyAct(p))
  BY DEF Own
<1>3. ControlInv /\ WakeInv
  BY DEF IInv
<1>4. SawNobody(q) => ~mq_proc[Other(q)] \/ Pinged(q)'
  BY <1>3, PingStays, SeerIsThere, SeerSleeps DEF WakeInv
<1>5. CASE ~Own(q, p)
  <2>1. SawNobody(q)
    BY <1>5, SeesTheSame
  <2>2. mq_proc' = mq_proc \/ Attach
    <3>1. CASE WorkerAct
      BY <3>1 DEF WorkerAct, StartWorker, Attach, AttachLatch, WorkerFails, WorkerStops,
         NotifyLeader, At, Go, SetLatch, WaitLatch, SendReturnsDetached,
         ReceiveReturnsDetached, IncBytesRead, queueVars, workerVars, handleVars, sendVars,
         receiveVars, historyVars
    <3>2. CASE SenderAct
      BY <3>2 DEF SenderAct, Send, SendAgain, SendDone, SendAvailable, SendDetached, SendGone,
         SendGetReceiver, SendAttached, SendFull, SendFullLatch, SendSleep, SendCopy,
         SendFinish, SendReceiver, SendPublish, SendLatch, SendReturn, At, Go, SetLatch,
         WaitLatch, SendReturnsDetached, ReceiveReturnsDetached, IncBytesRead, queueVars,
         workerVars, handleVars, sendVars, receiveVars, historyVars
    <3>3. CASE ReceiverAct
      BY <3>3 DEF ReceiverAct, Receive, ReceiveGone, ReceiveGetSender, ReceiveAttached,
         ReceiveEnd, ReceiveConsume, ReceiveConsumeLatch, ReceiveBytes, ReceiveDetached,
         ReceiveRecheck, ReceiveRead, ReceiveReadLatch, ReceiveSleep, GotLengthWord,
         GotMessage, GotPart, ReceiveReturn, At, Go, SetLatch, WaitLatch, SendReturnsDetached,
         ReceiveReturnsDetached, IncBytesRead, queueVars, workerVars, handleVars, sendVars,
         receiveVars, historyVars
    <3>4. CASE PartyAct(p)
      BY <3>4 DEF PartyAct, WaitForAttach, InternalTest, InternalDetached, InternalSleep,
         WaitForAttachReturns, Detach, Fail, DetachInternal, DetachLatch, At, Go, SetLatch,
         WaitLatch, SendReturnsDetached, ReceiveReturnsDetached, IncBytesRead, queueVars,
         workerVars, handleVars, sendVars, receiveVars, historyVars
    <3> QED
      BY <3>1, <3>2, <3>3, <3>4 DEF Step
  <2>3. CASE Attach
    <3>1. CASE Other(q) = worker
      <4>1. pc'[Other(q)] = "attach_latch"
        BY <1>1, <2>3, <3>1 DEF Attach, Go
      <4> QED
        BY <4>1 DEF Pinged, LatchComing
    <3>2. CASE Other(q) # worker
      <4>1. Other(q) \in Party
        BY TwoParties
      <4>2. mq_proc'[Other(q)] = mq_proc[Other(q)]
        BY <1>1, <2>3, <3>2, <4>1 DEF Attach
      <4> QED
        BY <1>4, <2>1, <4>2
    <3> QED
      BY <3>1, <3>2
  <2> QED
    BY <1>4, <2>1, <2>2, <2>3
<1>6. CASE q = S /\ SenderAct
  <2>1. mq_proc' = mq_proc
    BY <1>6 DEF SenderAct, Send, SendAgain, SendDone, SendAvailable, SendDetached, SendGone,
       SendGetReceiver, SendAttached, SendFull, SendFullLatch, SendSleep, SendCopy, SendFinish,
       SendReceiver, SendPublish, SendLatch, SendReturn, At, Go, SetLatch, WaitLatch,
       SendReturnsDetached, ReceiveReturnsDetached, IncBytesRead, queueVars, workerVars,
       handleVars, sendVars, receiveVars, historyVars
  <2>2. pc[S] \in {"send_full", "send_full_latch", "send_sleep"} => attached[S]
    BY <1>3 DEF ControlInv
  <2>3. ~mq_proc[R] \/ SawNobody(S)
    BY <1>1, <1>6, <2>2 DEF SawNobody, SenderAct, Send, SendAgain, SendDone, SendAvailable,
       SendDetached, SendGone, SendGetReceiver, SendAttached, SendFull, SendFullLatch,
       SendSleep, SendCopy, SendFinish, SendReceiver, SendPublish, SendLatch, SendReturn, At,
       Go, SetLatch, WaitLatch, SendReturnsDetached, ReceiveReturnsDetached, IncBytesRead,
       queueVars, workerVars, handleVars, sendVars, receiveVars, historyVars
  <2> QED
    BY <1>1, <1>4, <1>6, <2>1, <2>3
<1>7. CASE q = R /\ ReceiverAct
  <2>1. mq_proc' = mq_proc
    BY <1>7 DEF ReceiverAct, Receive, ReceiveGone, ReceiveGetSender, ReceiveAttached,
       ReceiveEnd, ReceiveConsume, ReceiveConsumeLatch, ReceiveBytes, ReceiveDetached,
       ReceiveRecheck, ReceiveRead, ReceiveReadLatch, ReceiveSleep, GotLengthWord, GotMessage,
       GotPart, ReceiveReturn, At, Go, SetLatch, WaitLatch, SendReturnsDetached,
       ReceiveReturnsDetached, IncBytesRead, queueVars, workerVars, handleVars, sendVars,
       receiveVars, historyVars
  <2>2. pc[R] \in Receiving => attached[R]
    BY <1>3 DEF ControlInv
  <2>3. ~mq_proc[S] \/ SawNobody(R)
    BY <1>1, <1>7, <2>2 DEF SawNobody, Receiving, ReceiverAct, Receive, ReceiveGone,
       ReceiveGetSender, ReceiveAttached, ReceiveEnd, ReceiveConsume, ReceiveConsumeLatch,
       ReceiveBytes, ReceiveDetached, ReceiveRecheck, ReceiveRead, ReceiveReadLatch,
       ReceiveSleep, GotLengthWord, GotMessage, GotPart, ReceiveReturn, At, Go, SetLatch,
       WaitLatch, SendReturnsDetached, ReceiveReturnsDetached, IncBytesRead, queueVars,
       workerVars, handleVars, sendVars, receiveVars, historyVars
  <2> QED
    BY <1>1, <1>4, <1>7, <2>1, <2>3
<1>8. CASE q = p /\ PartyAct(p)
  <2>1. mq_proc' = mq_proc
    BY <1>8 DEF PartyAct, WaitForAttach, InternalTest, InternalDetached, InternalSleep,
       WaitForAttachReturns, Detach, Fail, DetachInternal, DetachLatch, At, Go, SetLatch,
       WaitLatch, SendReturnsDetached, ReceiveReturnsDetached, IncBytesRead, queueVars,
       workerVars, handleVars, sendVars, receiveVars, historyVars
  <2>2. ~mq_proc[Other(q)] \/ SawNobody(q)
    BY <1>1, <1>8 DEF SawNobody, PartyAct, WaitForAttach, InternalTest, InternalDetached,
       InternalSleep, WaitForAttachReturns, Detach, Fail, DetachInternal, DetachLatch, At, Go,
       SetLatch, WaitLatch, SendReturnsDetached, ReceiveReturnsDetached, IncBytesRead,
       queueVars, workerVars, handleVars, sendVars, receiveVars, historyVars
  <2> QED
    BY <1>4, <2>1, <2>2
<1> QED
  BY <1>2, <1>5, <1>6, <1>7, <1>8

LEMMA WakeAlive ==
  ASSUME IInv, NEW p \in Party, Step(p), NEW q \in Party, SawAlive(q)'
  PROVE  ~WorkerDead(q)' \/ Pinged(q)'
<1>1. /\ pc \in [Party -> Label] /\ S \in Party /\ R \in Party /\ S # R /\ worker \in Party
      /\ latch \in [Party -> BOOLEAN] /\ mq_proc \in [Party -> BOOLEAN]
      /\ attached \in [Party -> BOOLEAN] /\ found \in [Party -> BOOLEAN]
      /\ Other(S) = R /\ Other(R) = S
  BY TwoParties DEF IInv, TypeOK
<1>2. \/ ~Own(q, p) \/ (q = S /\ SenderAct) \/ (q = R /\ ReceiverAct) \/ (q = p /\ PartyAct(p))
  BY DEF Own
<1>3. ControlInv /\ WakeInv
  BY DEF IInv
<1>4. SawAlive(q) => ~WorkerDead(q) \/ Pinged(q)'
  BY <1>3, PingStays, SeerIsThere, SeerSleeps DEF WakeInv
<1>9. worker' = worker /\ handle' = handle
  <2>1. CASE WorkerAct
    BY <2>1 DEF WorkerAct, StartWorker, Attach, AttachLatch, WorkerFails, WorkerStops,
       NotifyLeader, At, Go, SetLatch, WaitLatch, SendReturnsDetached, ReceiveReturnsDetached,
       IncBytesRead, queueVars, workerVars, handleVars, sendVars, receiveVars, historyVars
  <2>2. CASE SenderAct
    BY <2>2 DEF SenderAct, Send, SendAgain, SendDone, SendAvailable, SendDetached, SendGone,
       SendGetReceiver, SendAttached, SendFull, SendFullLatch, SendSleep, SendCopy, SendFinish,
       SendReceiver, SendPublish, SendLatch, SendReturn, At, Go, SetLatch, WaitLatch,
       SendReturnsDetached, ReceiveReturnsDetached, IncBytesRead, queueVars, workerVars,
       handleVars, sendVars, receiveVars, historyVars
  <2>3. CASE ReceiverAct
    BY <2>3 DEF ReceiverAct, Receive, ReceiveGone, ReceiveGetSender, ReceiveAttached,
       ReceiveEnd, ReceiveConsume, ReceiveConsumeLatch, ReceiveBytes, ReceiveDetached,
       ReceiveRecheck, ReceiveRead, ReceiveReadLatch, ReceiveSleep, GotLengthWord, GotMessage,
       GotPart, ReceiveReturn, At, Go, SetLatch, WaitLatch, SendReturnsDetached,
       ReceiveReturnsDetached, IncBytesRead, queueVars, workerVars, handleVars, sendVars,
       receiveVars, historyVars
  <2>4. CASE PartyAct(p)
    BY <2>4 DEF PartyAct, WaitForAttach, InternalTest, InternalDetached, InternalSleep,
       WaitForAttachReturns, Detach, Fail, DetachInternal, DetachLatch, At, Go, SetLatch,
       WaitLatch, SendReturnsDetached, ReceiveReturnsDetached, IncBytesRead, queueVars,
       workerVars, handleVars, sendVars, receiveVars, historyVars
  <2> QED
    BY <2>1, <2>2, <2>3, <2>4 DEF Step
<1>5. CASE ~Own(q, p)
  <2>1. SawAlive(q)
    BY <1>5, SeesTheSame
  <2>2. status' = status \/ status' # "stopped" \/ notify'
    <3>1. CASE WorkerAct
      BY <3>1 DEF WorkerAct, StartWorker, Attach, AttachLatch, WorkerFails, WorkerStops,
         NotifyLeader, At, Go, SetLatch, WaitLatch, SendReturnsDetached,
         ReceiveReturnsDetached, IncBytesRead, queueVars, workerVars, handleVars, sendVars,
         receiveVars, historyVars
    <3>2. CASE SenderAct
      BY <3>2 DEF SenderAct, Send, SendAgain, SendDone, SendAvailable, SendDetached, SendGone,
         SendGetReceiver, SendAttached, SendFull, SendFullLatch, SendSleep, SendCopy,
         SendFinish, SendReceiver, SendPublish, SendLatch, SendReturn, At, Go, SetLatch,
         WaitLatch, SendReturnsDetached, ReceiveReturnsDetached, IncBytesRead, queueVars,
         workerVars, handleVars, sendVars, receiveVars, historyVars
    <3>3. CASE ReceiverAct
      BY <3>3 DEF ReceiverAct, Receive, ReceiveGone, ReceiveGetSender, ReceiveAttached,
         ReceiveEnd, ReceiveConsume, ReceiveConsumeLatch, ReceiveBytes, ReceiveDetached,
         ReceiveRecheck, ReceiveRead, ReceiveReadLatch, ReceiveSleep, GotLengthWord,
         GotMessage, GotPart, ReceiveReturn, At, Go, SetLatch, WaitLatch, SendReturnsDetached,
         ReceiveReturnsDetached, IncBytesRead, queueVars, workerVars, handleVars, sendVars,
         receiveVars, historyVars
    <3>4. CASE PartyAct(p)
      BY <3>4 DEF PartyAct, WaitForAttach, InternalTest, InternalDetached, InternalSleep,
         WaitForAttachReturns, Detach, Fail, DetachInternal, DetachLatch, At, Go, SetLatch,
         WaitLatch, SendReturnsDetached, ReceiveReturnsDetached, IncBytesRead, queueVars,
         workerVars, handleVars, sendVars, receiveVars, historyVars
    <3> QED
      BY <3>1, <3>2, <3>3, <3>4 DEF Step
  <2>3. CASE notify' /\ q # worker
    BY <1>9, <2>3 DEF Pinged, LatchComing
  <2> QED
    BY <1>4, <1>9, <2>1, <2>2, <2>3 DEF WorkerDead
<1>6. CASE q = S /\ SenderAct
  <2>1. status' = status
    BY <1>6 DEF SenderAct, Send, SendAgain, SendDone, SendAvailable, SendDetached, SendGone,
       SendGetReceiver, SendAttached, SendFull, SendFullLatch, SendSleep, SendCopy, SendFinish,
       SendReceiver, SendPublish, SendLatch, SendReturn, At, Go, SetLatch, WaitLatch,
       SendReturnsDetached, ReceiveReturnsDetached, IncBytesRead, queueVars, workerVars,
       handleVars, sendVars, receiveVars, historyVars
  <2>2. pc[S] \in {"send_full", "send_full_latch", "send_sleep"} => attached[S]
    BY <1>3 DEF ControlInv
  <2>3. ~WorkerDead(S) \/ SawAlive(S)
    BY <1>1, <1>6, <2>2 DEF SawAlive, SenderAct, Send, SendAgain, SendDone, SendAvailable,
       SendDetached, SendGone, SendGetReceiver, SendAttached, SendFull, SendFullLatch,
       SendSleep, SendCopy, SendFinish, SendReceiver, SendPublish, SendLatch, SendReturn, At,
       Go, SetLatch, WaitLatch, SendReturnsDetached, ReceiveReturnsDetached, IncBytesRead,
       queueVars, workerVars, handleVars, sendVars, receiveVars, historyVars
  <2> QED
    BY <1>4, <1>6, <1>9, <2>1, <2>3 DEF WorkerDead
<1>7. CASE q = R /\ ReceiverAct
  <2>1. status' = status
    BY <1>7 DEF ReceiverAct, Receive, ReceiveGone, ReceiveGetSender, ReceiveAttached,
       ReceiveEnd, ReceiveConsume, ReceiveConsumeLatch, ReceiveBytes, ReceiveDetached,
       ReceiveRecheck, ReceiveRead, ReceiveReadLatch, ReceiveSleep, GotLengthWord, GotMessage,
       GotPart, ReceiveReturn, At, Go, SetLatch, WaitLatch, SendReturnsDetached,
       ReceiveReturnsDetached, IncBytesRead, queueVars, workerVars, handleVars, sendVars,
       receiveVars, historyVars
  <2>2. pc[R] \in Receiving => attached[R]
    BY <1>3 DEF ControlInv
  <2>3. ~WorkerDead(R) \/ SawAlive(R)
    <3>1. CASE ReceiveGone
      <4>1. /\ pc'[R] = "receive_get_sender"
            /\ found' = [found EXCEPT ![R] = mq_detached \/ WorkerDead(R)]
        BY <1>1, <3>1 DEF ReceiveGone, Go
      <4>2. ~found'[R]
        BY <1>7, <4>1 DEF SawAlive
      <4> QED
        BY <1>1, <4>1, <4>2
    <3>2. CASE ReceiveGetSender
      BY <1>1, <1>7, <3>2 DEF ReceiveGetSender, ReceiveReturnsDetached, SawAlive, At, Go
    <3>3. CASE ~ReceiveGone /\ ~ReceiveGetSender
      <4>1. /\ pc'[R] = "would_block" => pc[R] \in Receiving /\ attached'[R] = attached[R]
            /\ pc'[R] # "internal_sleep" /\ pc'[R] # "receive_get_sender"
            /\ pc'[R] # "send_get_receiver"
        BY <1>1, <1>7, <3>3 DEF Receiving, ReceiverAct, Receive, ReceiveGone, ReceiveGetSender,
           ReceiveAttached, ReceiveEnd, ReceiveConsume, ReceiveConsumeLatch, ReceiveBytes,
           ReceiveDetached, ReceiveRecheck, ReceiveRead, ReceiveReadLatch, ReceiveSleep,
           GotLengthWord, GotMessage, GotPart, ReceiveReturn, At, Go, SetLatch, WaitLatch,
           SendReturnsDetached, ReceiveReturnsDetached, IncBytesRead, queueVars, workerVars,
           handleVars, sendVars, receiveVars, historyVars
      <4> QED
        BY <1>7, <2>2, <4>1 DEF SawAlive
    <3> QED
      BY <3>1, <3>2, <3>3
  <2> QED
    BY <1>4, <1>7, <1>9, <2>1, <2>3 DEF WorkerDead
<1>8. CASE q = p /\ PartyAct(p)
  <2>1. status' = status
    BY <1>8 DEF PartyAct, WaitForAttach, InternalTest, InternalDetached, InternalSleep,
       WaitForAttachReturns, Detach, Fail, DetachInternal, DetachLatch, At, Go, SetLatch,
       WaitLatch, SendReturnsDetached, ReceiveReturnsDetached, IncBytesRead, queueVars,
       workerVars, handleVars, sendVars, receiveVars, historyVars
  <2>2. ~WorkerDead(q) \/ SawAlive(q)
    BY <1>1, <1>8 DEF SawAlive, PartyAct, WaitForAttach, InternalTest, InternalDetached,
       InternalSleep, WaitForAttachReturns, Detach, Fail, DetachInternal, DetachLatch, At, Go,
       SetLatch, WaitLatch, SendReturnsDetached, ReceiveReturnsDetached, IncBytesRead,
       queueVars, workerVars, handleVars, sendVars, receiveVars, historyVars
  <2> QED
    BY <1>4, <1>9, <2>1, <2>2 DEF WorkerDead
<1> QED
  BY <1>2, <1>5, <1>6, <1>7, <1>8

LEMMA WakeRoom ==
  ASSUME IInv, NEW p \in Party, Step(p), SawFull'
  PROVE  End' = mq_bytes_read' + RingSize \/ Pinged(S)'
<1>1. /\ pc \in [Party -> Label] /\ S \in Party /\ R \in Party /\ S # R /\ worker \in Party
      /\ latch \in [Party -> BOOLEAN] /\ mq_proc \in [Party -> BOOLEAN]
      /\ attached \in [Party -> BOOLEAN] /\ found \in [Party -> BOOLEAN]
      /\ Other(S) = R /\ Other(R) = S
  BY TwoParties DEF IInv, TypeOK
<1>2. /\ mq_bytes_written \in Nat /\ send_pending \in Nat /\ available \in Nat
  BY Numbers
<1>3. WakeInv
  BY DEF IInv
<1>4. SawFull => End = mq_bytes_read + RingSize \/ Pinged(S)'
  BY <1>1, <1>3, PingStays, SeerIsThere, SeerSleeps DEF WakeInv
<1>5. CASE ~Own(S, p)
  <2>1. SawFull
    BY <1>1, <1>5, SeesTheSame
  <2>2. UNCHANGED <<mq_bytes_written, send_pending>>
    BY <1>5, SenderKeeps DEF Own
  <2>3. End' = End
    BY <2>2 DEF End
  <2>4. \/ mq_bytes_read' = mq_bytes_read
        \/ pc'[R] \in {"receive_consume_latch", "receive_read_latch"}
    <3>1. CASE WorkerAct
      BY <1>1, <3>1 DEF WorkerAct, StartWorker, Attach, AttachLatch, WorkerFails, WorkerStops,
         NotifyLeader, At, Go, SetLatch, WaitLatch, SendReturnsDetached,
         ReceiveReturnsDetached, IncBytesRead, queueVars, workerVars, handleVars, sendVars,
         receiveVars, historyVars
    <3>2. CASE SenderAct
      BY <1>1, <3>2 DEF SenderAct, Send, SendAgain, SendDone, SendAvailable, SendDetached,
         SendGone, SendGetReceiver, SendAttached, SendFull, SendFullLatch, SendSleep, SendCopy,
         SendFinish, SendReceiver, SendPublish, SendLatch, SendReturn, At, Go, SetLatch,
         WaitLatch, SendReturnsDetached, ReceiveReturnsDetached, IncBytesRead, queueVars,
         workerVars, handleVars, sendVars, receiveVars, historyVars
    <3>3. CASE ReceiverAct
      BY <1>1, <3>3 DEF ReceiverAct, Receive, ReceiveGone, ReceiveGetSender, ReceiveAttached,
         ReceiveEnd, ReceiveConsume, ReceiveConsumeLatch, ReceiveBytes, ReceiveDetached,
         ReceiveRecheck, ReceiveRead, ReceiveReadLatch, ReceiveSleep, GotLengthWord,
         GotMessage, GotPart, ReceiveReturn, At, Go, SetLatch, WaitLatch, SendReturnsDetached,
         ReceiveReturnsDetached, IncBytesRead, queueVars, workerVars, handleVars, sendVars,
         receiveVars, historyVars
    <3>4. CASE PartyAct(p)
      BY <1>1, <3>4 DEF PartyAct, WaitForAttach, InternalTest, InternalDetached, InternalSleep,
         WaitForAttachReturns, Detach, Fail, DetachInternal, DetachLatch, At, Go, SetLatch,
         WaitLatch, SendReturnsDetached, ReceiveReturnsDetached, IncBytesRead, queueVars,
         workerVars, handleVars, sendVars, receiveVars, historyVars
    <3> QED
      BY <3>1, <3>2, <3>3, <3>4 DEF Step
  <2>5. pc'[R] \in {"receive_consume_latch", "receive_read_latch"} => Pinged(S)'
    BY DEF Pinged, LatchComing
  <2> QED
    BY <1>4, <2>1, <2>3, <2>4, <2>5
<1>6. CASE SendAvailable
  <2>1. UNCHANGED <<mq_bytes_read, mq_bytes_written, send_pending>> /\ pc'[S] = "send_detached"
    BY <1>1, <1>6 DEF SendAvailable, Go, queueVars
  <2>2. End' = End
    BY <2>1 DEF End
  <2>3. available' = 0
    BY <2>1 DEF SawFull
  <2> QED
    BY <1>6, <2>1, <2>2, <2>3, RoomFound
<1>7. CASE SenderAct /\ ~SendAvailable
  <2>1. SawFull
    BY <1>1, <1>2, <1>7 DEF SawFull, SenderAct, Send, SendAgain, SendDone, SendAvailable,
       SendDetached, SendGone, SendGetReceiver, SendAttached, SendFull, SendFullLatch,
       SendSleep, SendCopy, SendFinish, SendReceiver, SendPublish, SendLatch, SendReturn, At,
       Go, SetLatch, WaitLatch, SendReturnsDetached, ReceiveReturnsDetached, IncBytesRead,
       queueVars, workerVars, handleVars, sendVars, receiveVars, historyVars
  <2>2. mq_bytes_read' = mq_bytes_read
    BY <1>7 DEF SenderAct, Send, SendAgain, SendDone, SendAvailable, SendDetached, SendGone,
       SendGetReceiver, SendAttached, SendFull, SendFullLatch, SendSleep, SendCopy, SendFinish,
       SendReceiver, SendPublish, SendLatch, SendReturn, At, Go, SetLatch, WaitLatch,
       SendReturnsDetached, ReceiveReturnsDetached, IncBytesRead, queueVars, workerVars,
       handleVars, sendVars, receiveVars, historyVars
  <2>3. End' = End
    <3>1. \/ UNCHANGED <<mq_bytes_written, send_pending>>
          \/ mq_bytes_written' = mq_bytes_written + send_pending /\ send_pending' = 0
      BY <1>1, <1>7 DEF SawFull, SenderAct, Send, SendAgain, SendDone, SendAvailable,
         SendDetached, SendGone, SendGetReceiver, SendAttached, SendFull, SendFullLatch,
         SendSleep, SendCopy, SendFinish, SendReceiver, SendPublish, SendLatch, SendReturn, At,
         Go, SetLatch, WaitLatch, SendReturnsDetached, ReceiveReturnsDetached, IncBytesRead,
         queueVars, workerVars, handleVars, sendVars, receiveVars, historyVars
    <3> QED
      BY <1>2, <3>1 DEF End
  <2> QED
    BY <1>4, <2>1, <2>2, <2>3
<1>8. CASE S = p /\ PartyAct(p)
  <2>1. pc'[S] \notin {"send_detached", "send_full", "send_full_latch", "send_sleep",
                "would_block"}
    BY <1>1, <1>8 DEF PartyAct, WaitForAttach, InternalTest, InternalDetached, InternalSleep,
       WaitForAttachReturns, Detach, Fail, DetachInternal, DetachLatch, At, Go, SetLatch,
       WaitLatch, SendReturnsDetached, ReceiveReturnsDetached, IncBytesRead, queueVars,
       workerVars, handleVars, sendVars, receiveVars, historyVars
  <2> QED
    BY <2>1 DEF SawFull
<1> QED
  BY <1>1, <1>5, <1>6, <1>7, <1>8 DEF Own

LEMMA WakeData ==
  ASSUME IInv, NEW p \in Party, Step(p), SawAll'
  PROVE  mq_bytes_written' = written' \/ missed' \/ Pinged(R)'
<1>1. /\ pc \in [Party -> Label] /\ S \in Party /\ R \in Party /\ S # R /\ worker \in Party
      /\ latch \in [Party -> BOOLEAN] /\ mq_proc \in [Party -> BOOLEAN]
      /\ attached \in [Party -> BOOLEAN] /\ found \in [Party -> BOOLEAN]
      /\ Other(S) = R /\ Other(R) = S
  BY TwoParties DEF IInv, TypeOK
<1>2. ControlInv /\ WakeInv
  BY DEF IInv
<1>3. missed => missed'
  <2>1. CASE WorkerAct
    BY <2>1 DEF WorkerAct, StartWorker, Attach, AttachLatch, WorkerFails, WorkerStops,
       NotifyLeader, At, Go, SetLatch, WaitLatch, SendReturnsDetached, ReceiveReturnsDetached,
       IncBytesRead, queueVars, workerVars, handleVars, sendVars, receiveVars, historyVars
  <2>2. CASE SenderAct
    BY <2>2 DEF SenderAct, Send, SendAgain, SendDone, SendAvailable, SendDetached, SendGone,
       SendGetReceiver, SendAttached, SendFull, SendFullLatch, SendSleep, SendCopy, SendFinish,
       SendReceiver, SendPublish, SendLatch, SendReturn, At, Go, SetLatch, WaitLatch,
       SendReturnsDetached, ReceiveReturnsDetached, IncBytesRead, queueVars, workerVars,
       handleVars, sendVars, receiveVars, historyVars
  <2>3. CASE ReceiverAct
    BY <2>3 DEF ReceiverAct, Receive, ReceiveGone, ReceiveGetSender, ReceiveAttached,
       ReceiveEnd, ReceiveConsume, ReceiveConsumeLatch, ReceiveBytes, ReceiveDetached,
       ReceiveRecheck, ReceiveRead, ReceiveReadLatch, ReceiveSleep, GotLengthWord, GotMessage,
       GotPart, ReceiveReturn, At, Go, SetLatch, WaitLatch, SendReturnsDetached,
       ReceiveReturnsDetached, IncBytesRead, queueVars, workerVars, handleVars, sendVars,
       receiveVars, historyVars
  <2>4. CASE PartyAct(p)
    BY <2>4 DEF PartyAct, WaitForAttach, InternalTest, InternalDetached, InternalSleep,
       WaitForAttachReturns, Detach, Fail, DetachInternal, DetachLatch, At, Go, SetLatch,
       WaitLatch, SendReturnsDetached, ReceiveReturnsDetached, IncBytesRead, queueVars,
       workerVars, handleVars, sendVars, receiveVars, historyVars
  <2> QED
    BY <2>1, <2>2, <2>3, <2>4 DEF Step
<1>4. SawAll => mq_bytes_written = written \/ missed' \/ Pinged(R)'
  BY <1>1, <1>2, <1>3, PingStays, SeerIsThere, SeerSleeps DEF WakeInv
<1>5. CASE ~Own(R, p)
  <2>1. SawAll
    BY <1>1, <1>5, SeesTheSame
  <2>2. mq_proc[R]
    BY <1>1, <2>1, SeerIsThere
  <2>3. written' = written
    BY <1>5, ReceiverKeeps DEF Own
  <2>4. \/ mq_bytes_written' = mq_bytes_written \/ missed'
        \/ pc'[S] \in {"send_full_latch", "send_latch", "detach"}
    <3>1. CASE WorkerAct
      BY <3>1 DEF WorkerAct, StartWorker, Attach, AttachLatch, WorkerFails, WorkerStops,
         NotifyLeader, At, Go, SetLatch, WaitLatch, SendReturnsDetached,
         ReceiveReturnsDetached, IncBytesRead, queueVars, workerVars, handleVars, sendVars,
         receiveVars, historyVars
    <3>2. CASE SenderAct
      BY <1>1, <2>2, <3>2 DEF SenderAct, Send, SendAgain, SendDone, SendAvailable,
         SendDetached, SendGone, SendGetReceiver, SendAttached, SendFull, SendFullLatch,
         SendSleep, SendCopy, SendFinish, SendReceiver, SendPublish, SendLatch, SendReturn, At,
         Go, SetLatch, WaitLatch, SendReturnsDetached, ReceiveReturnsDetached, IncBytesRead,
         queueVars, workerVars, handleVars, sendVars, receiveVars, historyVars
    <3>3. CASE ReceiverAct
      BY <3>3 DEF ReceiverAct, Receive, ReceiveGone, ReceiveGetSender, ReceiveAttached,
         ReceiveEnd, ReceiveConsume, ReceiveConsumeLatch, ReceiveBytes, ReceiveDetached,
         ReceiveRecheck, ReceiveRead, ReceiveReadLatch, ReceiveSleep, GotLengthWord,
         GotMessage, GotPart, ReceiveReturn, At, Go, SetLatch, WaitLatch, SendReturnsDetached,
         ReceiveReturnsDetached, IncBytesRead, queueVars, workerVars, handleVars, sendVars,
         receiveVars, historyVars
    <3>4. CASE PartyAct(p)
      BY <1>1, <3>4 DEF PartyAct, WaitForAttach, InternalTest, InternalDetached, InternalSleep,
         WaitForAttachReturns, Detach, Fail, DetachInternal, DetachLatch, At, Go, SetLatch,
         WaitLatch, SendReturnsDetached, ReceiveReturnsDetached, IncBytesRead, queueVars,
         workerVars, handleVars, sendVars, receiveVars, historyVars
    <3> QED
      BY <3>1, <3>2, <3>3, <3>4 DEF Step
  <2>5. pc'[S] \in {"send_full_latch", "send_latch", "detach"} => Pinged(R)'
    BY <1>1 DEF Pinged, LatchComing
  <2> QED
    BY <1>4, <2>1, <2>3, <2>4, <2>5
<1>6. CASE ReceiverAct
  <2>1. mq_bytes_written' = mq_bytes_written
    BY <1>6 DEF ReceiverAct, Receive, ReceiveGone, ReceiveGetSender, ReceiveAttached,
       ReceiveEnd, ReceiveConsume, ReceiveConsumeLatch, ReceiveBytes, ReceiveDetached,
       ReceiveRecheck, ReceiveRead, ReceiveReadLatch, ReceiveSleep, GotLengthWord, GotMessage,
       GotPart, ReceiveReturn, At, Go, SetLatch, WaitLatch, SendReturnsDetached,
       ReceiveReturnsDetached, IncBytesRead, queueVars, workerVars, handleVars, sendVars,
       receiveVars, historyVars
  <2>2. written' = mq_bytes_written \/ (SawAll /\ written' = written)
    BY <1>1, <1>6 DEF SawAll, ReceiverAct, Receive, ReceiveGone, ReceiveGetSender,
       ReceiveAttached, ReceiveEnd, ReceiveConsume, ReceiveConsumeLatch, ReceiveBytes,
       ReceiveDetached, ReceiveRecheck, ReceiveRead, ReceiveReadLatch, ReceiveSleep,
       GotLengthWord, GotMessage, GotPart, ReceiveReturn, At, Go, SetLatch, WaitLatch,
       SendReturnsDetached, ReceiveReturnsDetached, IncBytesRead, queueVars, workerVars,
       handleVars, sendVars, receiveVars, historyVars
  <2> QED
    BY <1>4, <2>1, <2>2
<1>7. CASE R = p /\ PartyAct(p)
  <2>1. pc'[R] \notin {"receive_detached", "receive_read", "receive_read_latch",
                "receive_sleep",
                       "would_block"}
    BY <1>1, <1>7 DEF PartyAct, WaitForAttach, InternalTest, InternalDetached, InternalSleep,
       WaitForAttachReturns, Detach, Fail, DetachInternal, DetachLatch, At, Go, SetLatch,
       WaitLatch, SendReturnsDetached, ReceiveReturnsDetached, IncBytesRead, queueVars,
       workerVars, handleVars, sendVars, receiveVars, historyVars
  <2> QED
    BY <2>1 DEF SawAll
<1> QED
  BY <1>1, <1>5, <1>6, <1>7 DEF Own

LEMMA WakeStep ==
  ASSUME IInv, NEW p \in Party, Step(p)
  PROVE  WakeInv'
BY WakeDetached, WakeAttached, WakeAlive, WakeRoom, WakeData DEF WakeInv

-----------------------------------------------------------------------------
(* The invariant, and what it implies                                      *)

LEMMA InitInv ==
  ASSUME Init
  PROVE  IInv
<1>1. /\ RingSize \in Nat \ {0} /\ MaxMsgs \in Nat
      /\ S # R /\ S \in Party /\ R \in Party /\ \A q \in Party : q = S \/ q = R
  BY ConstantsAssumption, TwoParties
<1>2. EmptyCell \in Cell /\ << >> \in Seq(Cell)
  BY <1>1 DEF EmptyCell, Cell
<1>3. /\ pc = [p \in Party |-> IF p = worker THEN "unborn" ELSE "idle"]
      /\ mq_bytes_read = 0 /\ mq_bytes_written = 0 /\ send_pending = 0 /\ consume_pending = 0
      /\ stream = << >> /\ written = 0 /\ delivered = 0 /\ msg = 0
      /\ length_complete = [p \in Party |-> FALSE] /\ partial = [p \in Party |-> 0]
      /\ mq_proc = [p \in Party |-> p # worker] /\ status = "not_yet_started"
      /\ attached = [p \in Party |-> FALSE] /\ caller = [p \in Party |-> "none"] /\ worker \in Party
  BY DEF Init
<1>4. \A q \in Party : pc[q] \in {"unborn", "idle"} /\ (pc[q] = "unborn" => q = worker)
                       /\ (pc[q] = "idle" => mq_proc[q])
  BY <1>3
<1>5. TypeOK
  <2>1. mq_ring \in [0..RingSize - 1 -> Cell]
    BY <1>2 DEF Init
  <2>2. pc \in [Party -> Label] /\ mq_proc \in [Party -> BOOLEAN] /\ latch \in [Party -> BOOLEAN]
    BY DEF Init, Label
  <2>3. /\ caller \in [Party -> {"none", "wait_for_attach", "send", "receive"}]
        /\ found \in [Party -> BOOLEAN] /\ attached \in [Party -> BOOLEAN]
        /\ length_complete \in [Party -> BOOLEAN] /\ nowait \in [Party -> BOOLEAN]
        /\ partial \in [Party -> Nat]
    BY DEF Init
  <2>4. /\ mq_detached \in BOOLEAN /\ worker \in Party /\ handle \in BOOLEAN /\ notify \in BOOLEAN
        /\ status \in {"not_yet_started", "started", "stopped"}
        /\ force_flush \in BOOLEAN /\ receiver \in BOOLEAN /\ ended \in BOOLEAN /\ missed \in BOOLEAN
    BY DEF Init
  <2>5. /\ mq_bytes_read \in Nat /\ mq_bytes_written \in Nat /\ msg \in 0..MaxMsgs
        /\ len \in Length \cup {0} /\ send_pending \in 0..RingSize /\ available \in 0..RingSize
        /\ consume_pending \in 0..RingSize /\ expected \in Length \cup {0} /\ written \in Nat
        /\ delivered \in 0..MaxMsgs
    BY <1>1 DEF Init
  <2>6. buffer \in Seq(Cell) /\ stream \in Seq(Cell)
    BY <1>2 DEF Init
  <2> QED
    BY <2>1, <2>2, <2>3, <2>4, <2>5, <2>6 DEF TypeOK
<1>6. ControlInv
  <2>1. \A q \in Party : pc[q] \in LabelsOf(q)
    BY <1>4 DEF LabelsOf, Joining
  <2> QED
    BY <1>1, <1>3, <1>4, <2>1 DEF ControlInv, Joining, Internal, Receiving, Asked
<1>7. Len(stream) = 0 /\ End = 0 /\ ReadPos = 0
  BY <1>3 DEF End, ReadPos
<1>8. PositionInv
  BY <1>1, <1>3, <1>4, <1>7 DEF PositionInv
<1>9. ~InMessage
  BY <1>1, <1>4 DEF InMessage, Sending, Internal
<1>10. RoomInv
  BY <1>1, <1>3, <1>4 DEF RoomInv
<1>11. FormatInv
  BY <1>7 DEF FormatInv
<1>12. SenderInv
  BY <1>1, <1>3, <1>4, <1>7, <1>9 DEF SenderInv, EndsMessage
<1>13. ReceiverInv
  BY <1>1, <1>3, <1>7 DEF ReceiverInv, EndsMessage
<1>14. WakeInv
  BY <1>1, <1>4 DEF WakeInv, SawAttached, SawNobody, SawAlive, SawFull, SawAll, Sleeping
<1> QED
  BY <1>5, <1>6, <1>8, <1>10, <1>11, <1>12, <1>13, <1>14 DEF IInv

LEMMA InvStep ==
  ASSUME IInv, [Next]_vars
  PROVE  IInv'
<1>1. CASE Next
  <2>1. PICK p \in Party : Step(p)
    BY <1>1, NextIsStep
  <2> QED
    BY <2>1, TypeStep, ControlStep, PositionStep, RoomStep, FormatStep, SenderStep,
       ReceiverStep,
       WakeStep DEF IInv
<1>2. CASE UNCHANGED vars
  <2>1. /\ UNCHANGED <<mq_proc, mq_bytes_read, mq_bytes_written, mq_detached, mq_ring, latch,
                       worker,
                       handle, status, notify, pc, caller, found>>
        /\ UNCHANGED <<attached, length_complete, partial, nowait, force_flush, msg, len,
                       send_pending,
                       available, receiver, consume_pending, expected, written, buffer, out,
                                     stream,
                       delivered, ended, missed>>
    BY <1>2 DEF vars, queueVars, workerVars, handleVars, sendVars, receiveVars, historyVars
  <2>2. TypeOK'
    BY <2>1 DEF IInv, TypeOK
  <2>3. ControlInv'
    BY <2>1 DEF IInv, ControlInv, WorkerDead
  <2>4. End' = End /\ ReadPos' = ReadPos /\ ToSend' = ToSend /\ Needed' = Needed
        /\ InMessage' = InMessage
    BY <2>1 DEF End, ReadPos, ToSend, Needed, InMessage
  <2>5. PositionInv'
    BY <2>1, <2>4 DEF IInv, PositionInv, Enough, ReadOffset
  <2>6. RoomInv' /\ FormatInv'
    BY <2>1, <2>4 DEF IInv, RoomInv, FormatInv
  <2>7. SenderInv' /\ ReceiverInv'
    BY <2>1, <2>4 DEF IInv, SenderInv, ReceiverInv, EndsMessage
  <2>8. WakeInv'
    BY <2>1, <2>4 DEF IInv, WakeInv, SawAttached, SawNobody, SawAlive, SawFull, SawAll, Pinged,
                      LatchComing, WorkerDead
  <2> QED
    BY <2>2, <2>3, <2>5, <2>6, <2>7, <2>8 DEF IInv
<1> QED
  BY <1>1, <1>2

(* What the receiver has not yet marked as read is in the ring as it was   *)
(* written, and the positions are in order: the sender never overwrites    *)
(* it, for any ring and any messages, whatever the interleaving of copies, *)
(* delayed publications and delayed acknowledgements.                      *)
THEOREM UnreadNeverOverwritten == Spec => []UnreadIntact
<1>1. IInv => UnreadIntact
  <2>1. SUFFICES ASSUME IInv
                 PROVE  UnreadIntact
    OBVIOUS
  <2>2. /\ ReadPos <= mq_bytes_written /\ End <= mq_bytes_read + RingSize
        /\ \A x \in mq_bytes_read..End - 1 : mq_ring[x % RingSize] = stream[x + 1]
    BY <2>1 DEF IInv, PositionInv
  <2>3. /\ mq_bytes_read \in Nat /\ End \in Nat /\ RingSize \in Nat
    BY <2>1, Numbers
  <2>4. End - mq_bytes_read <= RingSize
    BY <2>2, <2>3
  <2> QED
    BY <2>1, <2>2, <2>4 DEF IInv, UnreadIntact, End, ReadPos
<1> QED
  BY InitInv, InvStep, <1>1, PTL DEF Spec

(* A party that waits for its latch, and to whom nobody is about to set    *)
(* it, has nothing to do: the counterparty has neither attached, detached  *)
(* nor died since it looked, and there is no room and no data it has not   *)
(* seen.                                                                   *)
THEOREM NobodySleepsOn == Spec => []NoLostWakeup
<1>1. IInv => NoLostWakeup
  <2>1. SUFFICES ASSUME IInv
                 PROVE  NoLostWakeup
    OBVIOUS
  <2>2. WakeInv /\ ControlInv
    BY <2>1 DEF IInv
  <2>3. S \in Party /\ R \in Party /\ \A q \in Party : q = S \/ q = R
    BY TwoParties
  <2>4. ASSUME NEW q \in Party, Waits(q)
        PROVE  pc[q] \in Sleeping \cup {"would_block"} /\ ~Pinged(q)
    BY <2>4 DEF Waits, Pinged
  <2>5. ASSUME NEW q \in Party, Waits(q)
        PROVE  ~mq_detached
    <3>1. SawAttached(q)
      BY <2>4, <2>5 DEF SawAttached
    <3> QED
      BY <2>2, <2>4, <2>5, <3>1 DEF WakeInv
  <2>6. ASSUME NEW q \in Party, Waits(q), pc[q] = "internal_sleep" \/ ~attached[q]
        PROVE  ~mq_proc[Other(q)] /\ ~WorkerDead(q)
    <3>1. pc[q] = "internal_sleep" \/ (pc[q] = "would_block" /\ ~attached[q])
      <4>1. pc[q] \notin {"send_sleep", "receive_sleep"} \/ attached[q]
        BY <2>2, <2>3 DEF ControlInv, LabelsOf, Internal, Joining, Leaving, Sending, Sent,
           Receiving
      <4> QED
        BY <2>4, <2>6, <4>1 DEF Sleeping
    <3>2. SawNobody(q) /\ SawAlive(q)
      BY <3>1 DEF SawNobody, SawAlive
    <3> QED
      BY <2>2, <2>4, <2>6, <3>2 DEF WakeInv
  <2>7. ASSUME Waits(S), attached[S]
        PROVE  mq_bytes_written + send_pending - mq_bytes_read = RingSize
    <3>1. pc[S] \in {"send_sleep", "would_block"}
      BY <2>2, <2>3, <2>4, <2>7 DEF ControlInv, Sleeping, LabelsOf, Internal, Joining, Leaving,
                                    Sending, Sent
    <3>2. SawFull
      BY <2>7, <3>1 DEF SawFull
    <3>3. End = mq_bytes_read + RingSize
      BY <2>2, <2>3, <2>4, <2>7, <3>2 DEF WakeInv
    <3>4. /\ mq_bytes_read \in Nat /\ mq_bytes_written \in Nat /\ send_pending \in Nat
          /\ RingSize \in Nat
      BY <2>1, Numbers
    <3> QED
      BY <3>3, <3>4 DEF End
  <2>8. ASSUME Waits(R), attached[R], ~missed
        PROVE  mq_bytes_written = written
    <3>1. pc[R] \in {"receive_sleep", "would_block"}
      BY <2>2, <2>3, <2>4, <2>8, TwoParties DEF ControlInv, Sleeping, LabelsOf, Internal,
         Joining,
                                                Leaving, Receiving
    <3>2. SawAll
      BY <2>8, <3>1 DEF SawAll
    <3> QED
      BY <2>2, <2>3, <2>4, <2>8, <3>2 DEF WakeInv
  <2> QED
    BY <2>5, <2>6, <2>7, <2>8 DEF NoLostWakeup
<1> QED
  BY InitInv, InvStep, <1>1, PTL DEF Spec
=============================================================================
