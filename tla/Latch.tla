------------------------------- MODULE Latch -------------------------------
(***************************************************************************)
(* A shared latch (backend/storage/ipc/latch.c): SetLatch, ResetLatch and  *)
(* WaitLatch, used in the loop that latch.h prescribes:                    *)
(*                                                                         *)
(*     for (;;) { ResetLatch(); if (work to do) Do Stuff(); WaitLatch(); } *)
(*                                                                         *)
(* The latch belongs to a PGPROC, which one process after another owns.    *)
(* Other processes, and signal handlers of the owner, make work and then   *)
(* call SetLatch.  A handler interrupts its process between any two steps. *)
(*                                                                         *)
(* The code relies on pg_memory_barrier, so memory is not sequentially     *)
(* consistent here: each process has a FIFO store buffer, as on x86.  A    *)
(* store goes into the buffer and reaches memory later; a load sees the    *)
(* process's own buffered stores first; a barrier waits until the buffer   *)
(* is empty.                                                               *)
(*                                                                         *)
(* selfPipe tells the two Unix builds apart: SIGURG is received by a       *)
(* signal handler that writes to a pipe (poll), or stays blocked and is    *)
(* read from a signalfd (epoll).  No step changes it.                      *)
(***************************************************************************)
EXTENDS Integers, Sequences, FiniteSets, FiniteSetsExt

CONSTANTS
  Owner,   \* processes that take over the PGPROC, each once
  Setter,  \* other processes
  MaxSets  \* bound: number of times somebody makes work

NoPid == "NoPid"

ASSUME ConstantsAssumption ==
  /\ Owner \cap Setter = {} /\ NoPid \notin Owner \cup Setter
  /\ MaxSets \in Nat

Process == Owner \cup Setter

(* Threads of control: a handler has its process's memory and buffer.      *)
Main(p)    == <<p, "main">>
Handler(p) == <<p, "handler">>
Context == {Main(p) : p \in Process} \cup {Handler(o) : o \in Owner}

Location == {"work", "is_set", "maybe_sleeping", "owner_pid"}

VARIABLES
  mem,      \* shared memory: the fields of the latch and the waiter's flag
  buf,      \* store buffer of each process
  sigurg,   \* SIGURG is pending for the process (or in its signalfd)
  pipe,     \* there is a byte in the process's self-pipe
  selfPipe, \* WAIT_USE_SELF_PIPE, otherwise WAIT_USE_SIGNALFD
  waiting,  \* static variable of latch.c in each process
  free,     \* the PGPROC is on the free list
  pc,       \* of each context
  target,   \* owner_pid as read by SetLatch
  sets      \* times somebody has made work

kernelVars == <<sigurg, pipe, selfPipe>>
vars == <<mem, buf, kernelVars, waiting, free, pc, target, sets>>

(* InitSharedLatch; nobody has the PGPROC.                                 *)
Init ==
  /\ mem = [x \in Location |-> IF x = "owner_pid" THEN NoPid ELSE FALSE]
  /\ buf = [p \in Process |-> << >>]
  /\ sigurg = [p \in Process |-> FALSE] /\ pipe = [p \in Process |-> FALSE]
  /\ selfPipe \in BOOLEAN
  /\ waiting = [p \in Process |-> FALSE]
  /\ free = TRUE
  /\ pc = [c \in Context |-> IF c[2] = "main" /\ c[1] \in Owner THEN "out" ELSE "idle"]
  /\ target = [c \in Context |-> NoPid]
  /\ sets = 0

(***************************************************************************)
(* Memory                                                                  *)
(***************************************************************************)
Load(p, x) ==
  LET mine == {i \in DOMAIN buf[p] : buf[p][i].loc = x}
  IN  IF mine = {} THEN mem[x] ELSE buf[p][Max(mine)].val

Store(p, x, v) == buf' = [buf EXCEPT ![p] = Append(@, [loc |-> x, val |-> v])]

Drained(p) == buf[p] = << >>

Flush(p) ==
  /\ ~Drained(p)
  /\ mem' = [mem EXCEPT ![Head(buf[p]).loc] = Head(buf[p]).val]
  /\ buf' = [buf EXCEPT ![p] = Tail(@)]
  /\ UNCHANGED <<kernelVars, waiting, free, pc, target, sets>>

(***************************************************************************)
(* Control                                                                 *)
(***************************************************************************)
Go(c, to) == pc' = [pc EXCEPT ![c] = to]

(* A context runs at a label; a handler suspends the process it interrupts. *)
At(c, label) ==
  /\ pc[c] = label
  /\ c[2] = "main" /\ c[1] \in Owner => pc[Handler(c[1])] = "idle"

(* The caller of SetLatch goes on: either pattern of latch.h enters the    *)
(* same cycle, at the reset or at the test for work.                       *)
Return(c) ==
  IF c[2] = "main" /\ c[1] \in Owner
  THEN \E to \in {"reset", "check"} : Go(c, to)
  ELSE Go(c, "idle")

(***************************************************************************)
(* SetLatch                                                                *)
(***************************************************************************)
SetBarrier(c) ==
  /\ At(c, "barrier")
  /\ Drained(c[1])
  /\ Go(c, "quick")
  /\ UNCHANGED <<mem, buf, kernelVars, waiting, free, target, sets>>

(* Quick exit if already set.                                              *)
QuickExit(c) ==
  /\ At(c, "quick")
  /\ IF Load(c[1], "is_set") THEN Return(c) ELSE Go(c, "set")
  /\ UNCHANGED <<mem, buf, kernelVars, waiting, free, target, sets>>

SetIsSet(c) ==
  /\ At(c, "set")
  /\ Store(c[1], "is_set", TRUE)
  /\ Go(c, "barrier2")
  /\ UNCHANGED <<mem, kernelVars, waiting, free, target, sets>>

SetBarrier2(c) ==
  /\ At(c, "barrier2")
  /\ Drained(c[1])
  /\ Go(c, "asleep")
  /\ UNCHANGED <<mem, buf, kernelVars, waiting, free, target, sets>>

TestMaybeSleeping(c) ==
  /\ At(c, "asleep")
  /\ IF Load(c[1], "maybe_sleeping") THEN Go(c, "owner") ELSE Return(c)
  /\ UNCHANGED <<mem, buf, kernelVars, waiting, free, target, sets>>

FetchOwner(c) ==
  /\ At(c, "owner")
  /\ target' = [target EXCEPT ![c] = Load(c[1], "owner_pid")]
  /\ IF target'[c] = NoPid THEN Return(c) ELSE Go(c, "kill")
  /\ UNCHANGED <<mem, buf, kernelVars, waiting, free, sets>>

(* Wake up another process with SIGURG; in a handler, wake up this process *)
(* if it is waiting.                                                       *)
Kill(c) ==
  LET p == c[1]
      t == target[c]
  IN  /\ At(c, "kill")
      /\ IF t = p /\ selfPipe
         THEN pipe' = [pipe EXCEPT ![p] = @ \/ waiting[p]] /\ UNCHANGED sigurg
         ELSE sigurg' = [sigurg EXCEPT ![t] = @ \/ t # p \/ waiting[p]] /\ UNCHANGED pipe
      /\ target' = [target EXCEPT ![c] = NoPid]
      /\ Return(c)
      /\ UNCHANGED <<mem, buf, selfPipe, waiting, free, sets>>

SetLatch(c) ==
  \/ SetBarrier(c) \/ QuickExit(c) \/ SetIsSet(c) \/ SetBarrier2(c)
  \/ TestMaybeSleeping(c) \/ FetchOwner(c) \/ Kill(c)

(* First set the flag that the wait loop tests, then call SetLatch.  A     *)
(* handler does so while MyLatch is the shared latch.                      *)
MakeWork(c) ==
  /\ pc[c] = "idle"
  /\ c[2] = "handler" => pc[Main(c[1])] \notin {"out", "own", "release", "gone"}
  /\ sets < MaxSets
  /\ sets' = sets + 1
  /\ Store(c[1], "work", TRUE)
  /\ Go(c, "barrier")
  /\ UNCHANGED <<mem, kernelVars, waiting, free, target>>

(***************************************************************************)
(* Ownership: InitProcess and ProcKill                                     *)
(***************************************************************************)
GetProc(o) ==
  /\ At(Main(o), "out")
  /\ free
  /\ free' = FALSE
  /\ Go(Main(o), "own")
  /\ UNCHANGED <<mem, buf, kernelVars, waiting, target, sets>>

(* OwnLatch, which ends in a PANIC if the latch has an owner, and          *)
(* SwitchToSharedLatch, which sets the latch.                              *)
OwnLatch(o) ==
  /\ At(Main(o), "own")
  /\ IF Load(o, "owner_pid") # NoPid
     THEN Go(Main(o), "panic") /\ UNCHANGED buf
     ELSE Store(o, "owner_pid", o) /\ Go(Main(o), "barrier")
  /\ UNCHANGED <<mem, kernelVars, waiting, free, target, sets>>

(* Somewhere in its loop the process exits.                                *)
DisownLatch(o) ==
  /\ At(Main(o), "check")
  /\ Store(o, "owner_pid", NoPid)
  /\ Go(Main(o), "release")
  /\ UNCHANGED <<mem, kernelVars, waiting, free, target, sets>>

(* The PGPROC goes to the free list under ProcStructLock.                  *)
ReleaseProc(o) ==
  /\ At(Main(o), "release")
  /\ Drained(o)
  /\ free' = TRUE
  /\ Go(Main(o), "gone")
  /\ UNCHANGED <<mem, buf, kernelVars, waiting, target, sets>>

(***************************************************************************)
(* The wait loop                                                           *)
(***************************************************************************)
ResetLatch(o) ==
  /\ At(Main(o), "reset")
  /\ Store(o, "is_set", FALSE)
  /\ Go(Main(o), "resetbarrier")
  /\ UNCHANGED <<mem, kernelVars, waiting, free, target, sets>>

ResetBarrier(o) ==
  /\ At(Main(o), "resetbarrier")
  /\ Drained(o)
  /\ Go(Main(o), "check")
  /\ UNCHANGED <<mem, buf, kernelVars, waiting, free, target, sets>>

CheckWork(o) ==
  /\ At(Main(o), "check")
  /\ Go(Main(o), IF Load(o, "work") THEN "do" ELSE "wait")
  /\ UNCHANGED <<mem, buf, kernelVars, waiting, free, target, sets>>

(* Do Stuff; the flag is cleared by an interlocked operation.              *)
DoWork(o) ==
  /\ At(Main(o), "do")
  /\ Drained(o)
  /\ mem' = [mem EXCEPT !["work"] = FALSE]
  /\ Go(Main(o), "wait")
  /\ UNCHANGED <<buf, kernelVars, waiting, free, target, sets>>

(***************************************************************************)
(* WaitLatch: WaitEventSetWait                                             *)
(***************************************************************************)
StartWaiting(o) ==
  /\ At(Main(o), "wait")
  /\ waiting' = [waiting EXCEPT ![o] = TRUE]
  /\ Go(Main(o), "announce")
  /\ UNCHANGED <<mem, buf, kernelVars, free, target, sets>>

(* About to sleep on the latch.                                            *)
Announce(o) ==
  /\ At(Main(o), "announce")
  /\ IF Load(o, "is_set")
     THEN Go(Main(o), "recheck") /\ UNCHANGED buf
     ELSE Store(o, "maybe_sleeping", TRUE) /\ Go(Main(o), "waitbarrier")
  /\ UNCHANGED <<mem, kernelVars, waiting, free, target, sets>>

(* Mutant of WaitBarrier: the announcement need not be visible before      *)
(* is_set is read again.                                                   *)
NoWaitBarrier(o) ==
  /\ At(Main(o), "waitbarrier")
  /\ Go(Main(o), "recheck")
  /\ UNCHANGED <<mem, buf, kernelVars, waiting, free, target, sets>>

WaitBarrier(o) ==
  /\ At(Main(o), "waitbarrier")
  /\ Drained(o)
  /\ Go(Main(o), "recheck")
  /\ UNCHANGED <<mem, buf, kernelVars, waiting, free, target, sets>>

(* Mutant of Recheck: maybe_sleeping stays set when there is no sleep.     *)
RecheckStaysAnnounced(o) ==
  /\ At(Main(o), "recheck")
  /\ Go(Main(o), IF Load(o, "is_set") THEN "waited" ELSE "block")
  /\ UNCHANGED <<mem, buf, kernelVars, waiting, free, target, sets>>

(* Mutant of Recheck: the set latch is not reported, the loop goes on.     *)
RecheckNotReported(o) ==
  /\ At(Main(o), "recheck")
  /\ IF Load(o, "is_set") /\ Load(o, "maybe_sleeping")
     THEN Store(o, "maybe_sleeping", FALSE) ELSE UNCHANGED buf
  /\ Go(Main(o), IF Load(o, "is_set") THEN "announce" ELSE "block")
  /\ UNCHANGED <<mem, kernelVars, waiting, free, target, sets>>

Recheck(o) ==
  /\ At(Main(o), "recheck")
  /\ IF Load(o, "is_set")
     THEN Store(o, "maybe_sleeping", FALSE) /\ Go(Main(o), "waited")
     ELSE Go(Main(o), "block") /\ UNCHANGED buf
  /\ UNCHANGED <<mem, kernelVars, waiting, free, target, sets>>

(* WaitEventSetWaitBlock: epoll_wait or poll reports the latch's           *)
(* descriptor ...                                                          *)
Readable(o) == IF selfPipe THEN pipe[o] ELSE sigurg[o]

Woken(o) ==
  /\ At(Main(o), "block")
  /\ Readable(o)
  /\ Go(Main(o), "drain")
  /\ UNCHANGED <<mem, buf, kernelVars, waiting, free, target, sets>>

(* ... is interrupted, which makes the loop start again ...                *)
Interrupted(o) ==
  /\ At(Main(o), "block")
  /\ Store(o, "maybe_sleeping", FALSE)
  /\ Go(Main(o), "announce")
  /\ UNCHANGED <<mem, kernelVars, waiting, free, target, sets>>

(* ... or returns because of the timeout or of a socket.                   *)
OtherEvent(o) ==
  /\ At(Main(o), "block")
  /\ Store(o, "maybe_sleeping", FALSE)
  /\ Go(Main(o), "waited")
  /\ UNCHANGED <<mem, kernelVars, waiting, free, target, sets>>

Drain(o) ==
  /\ At(Main(o), "drain")
  /\ IF selfPipe THEN pipe' = [pipe EXCEPT ![o] = FALSE] /\ UNCHANGED sigurg
                 ELSE sigurg' = [sigurg EXCEPT ![o] = FALSE] /\ UNCHANGED pipe
  /\ Go(Main(o), "report")
  /\ UNCHANGED <<mem, buf, selfPipe, waiting, free, target, sets>>

(* The latch is reported only if it is set; otherwise wait again.          *)
Report(o) ==
  /\ At(Main(o), "report")
  /\ Store(o, "maybe_sleeping", FALSE)
  /\ Go(Main(o), IF Load(o, "is_set") THEN "waited" ELSE "announce")
  /\ UNCHANGED <<mem, kernelVars, waiting, free, target, sets>>

StopWaiting(o) ==
  /\ At(Main(o), "waited")
  /\ waiting' = [waiting EXCEPT ![o] = FALSE]
  /\ Go(Main(o), "reset")
  /\ UNCHANGED <<mem, buf, kernelVars, free, target, sets>>

(* latch_sigurg_handler, in the build with a self-pipe.                    *)
SigurgHandler(o) ==
  /\ selfPipe
  /\ sigurg[o]
  /\ sigurg' = [sigurg EXCEPT ![o] = FALSE]
  /\ pipe' = [pipe EXCEPT ![o] = @ \/ waiting[o]]
  /\ UNCHANGED <<mem, buf, selfPipe, waiting, free, pc, target, sets>>

-----------------------------------------------------------------------------
(* What the owner does by itself.                                          *)
Loop(o) ==
  \/ GetProc(o) \/ OwnLatch(o) \/ ReleaseProc(o)
  \/ ResetLatch(o) \/ ResetBarrier(o) \/ CheckWork(o) \/ DoWork(o)
  \/ StartWaiting(o) \/ Announce(o) \/ WaitBarrier(o) \/ Recheck(o)
  \/ Woken(o) \/ Drain(o) \/ Report(o) \/ StopWaiting(o)

(* What may or may not happen to it.                                       *)
Event(o) == DisownLatch(o) \/ Interrupted(o) \/ OtherEvent(o)

Next ==
  \/ \E c \in Context : SetLatch(c) \/ MakeWork(c)
  \/ \E o \in Owner : Loop(o) \/ Event(o) \/ SigurgHandler(o)
  \/ \E p \in Process : Flush(p)

Spec == Init /\ [][Next]_vars

(* Every thread of control goes on, stores reach memory and signals are    *)
(* delivered; nobody has to time out, be interrupted or exit.              *)
Fairness ==
  /\ \A c \in Context : WF_vars(SetLatch(c))
  /\ \A o \in Owner : WF_vars(Loop(o)) /\ WF_vars(SigurgHandler(o))
  /\ \A p \in Process : WF_vars(Flush(p))

-----------------------------------------------------------------------------
(***************************************************************************)
(* Properties                                                              *)
(***************************************************************************)
SetLatchLabels == {"barrier", "quick", "set", "barrier2", "asleep", "owner", "kill"}
OwnerLabels == {"out", "own", "release", "gone", "panic", "reset", "resetbarrier", "check",
                "do", "wait", "announce", "waitbarrier", "recheck", "block", "drain",
                "report", "waited"}

ValueOf(x) == IF x = "owner_pid" THEN Owner \cup {NoPid} ELSE BOOLEAN

(* The type of every variable; a setter stores one thing at a time.        *)
TypeOK ==
  /\ DOMAIN mem = Location /\ \A x \in Location : mem[x] \in ValueOf(x)
  /\ \A p \in Process : \A i \in DOMAIN buf[p] :
       buf[p][i].loc \in Location /\ buf[p][i].val \in ValueOf(buf[p][i].loc)
  /\ \A p \in Setter : Len(buf[p]) <= 1
  /\ sigurg \in [Process -> BOOLEAN] /\ pipe \in [Process -> BOOLEAN]
  /\ selfPipe \in BOOLEAN /\ waiting \in [Process -> BOOLEAN] /\ free \in BOOLEAN
  /\ pc \in [Context -> {"idle"} \cup SetLatchLabels \cup OwnerLabels]
  /\ target \in [Context -> Owner \cup {NoPid}]
  /\ sets \in 0 .. MaxSets

(* Nothing is under way that could still wake the owner.                   *)
Quiet(o) ==
  /\ \A c \in Context : pc[c] \notin SetLatchLabels
  /\ \A p \in Process : Drained(p)
  /\ ~sigurg[o] /\ ~pipe[o]

(* No wakeup is lost: an owner that blocks when every call of SetLatch has *)
(* returned and no signal is on its way has no work, and its latch is not  *)
(* set.  ("If someone sets the latch between this and the                  *)
(* WaitEventSetWaitBlock() below, the setter will write a byte to the pipe *)
(* ... and the readiness routine will return immediately.")                *)
NoLostWakeup ==
  \A o \in Owner : pc[Main(o)] = "block" /\ Quiet(o) => ~mem["work"] /\ ~mem["is_set"]

(* The Asserts of ResetLatch and WaitEventSetWait hold and OwnLatch never  *)
(* finds the latch owned, whoever had the PGPROC before; every variable    *)
(* has its type.                                                           *)
AssertionsHold ==
  /\ TypeOK
  /\ \A o \in Owner :
       /\ pc[Main(o)] # "panic"
       /\ pc[Main(o)] = "reset" => Load(o, "owner_pid") = o /\ ~Load(o, "maybe_sleeping")
       /\ pc[Main(o)] \in {"block", "drain", "report"} => Load(o, "maybe_sleeping")

(* Work is done by the owner, or waits for the next one: the latch never   *)
(* leaves the owner asleep on it.                                          *)
WorkGetsDone ==
  mem["work"] ~> (~mem["work"] \/ \A o \in Owner : pc[Main(o)] \in {"out", "gone"})
=============================================================================
