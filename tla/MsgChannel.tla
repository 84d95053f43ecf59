----------------------------- MODULE MsgChannel -----------------------------
(***************************************************************************)
(* What a shared memory message queue promises: a channel of messages from *)
(* one sender to one receiver.  Messages arrive whole and in order; a      *)
(* message that was returned stays as it is until the next one is asked    *)
(* for; and the receiver is told that the channel is closed only when it   *)
(* has received every message that was put into it.                        *)
(***************************************************************************)
EXTENDS Integers, Sequences

CONSTANT Nothing   \* no message

VARIABLES
  chan,    \* messages under way
  got,     \* the message the receiver was given last, until it asks again
  closed,  \* somebody has detached
  ended    \* the receiver has been told so

Init == chan = << >> /\ got = Nothing /\ closed = FALSE /\ ended = FALSE

(* One or more messages become visible at once.                            *)
Put ==
  /\ ~ended
  /\ Len(chan') > Len(chan) /\ SubSeq(chan', 1, Len(chan)) = chan
  /\ UNCHANGED <<got, closed, ended>>

Get ==
  /\ chan # << >> /\ got = Nothing
  /\ got' = Head(chan) /\ chan' = Tail(chan)
  /\ UNCHANGED <<closed, ended>>

Ask == got' = Nothing /\ UNCHANGED <<chan, closed, ended>>

Close == closed' = TRUE /\ UNCHANGED <<chan, got, ended>>

End == closed /\ chan = << >> /\ ended' = TRUE /\ UNCHANGED <<chan, got, closed>>

Next == Put \/ Get \/ Ask \/ Close \/ End

Spec == Init /\ [][Next]_<<chan, got, closed, ended>>
=============================================================================
