----------------------------- MODULE ProcSignal -----------------------------
(***************************************************************************)
(* Process signals and the global barrier                                  *)
(* (backend/storage/ipc/procsignal.c).  A process joins with               *)
(* ProcSignalInit, leaves with CleanupProcSignalState, and its slot is     *)
(* then taken by another one.  A process that has changed shared state     *)
(* calls EmitProcSignalBarrier and waits, in WaitForProcSignalBarrier,     *)
(* until nobody works with what it cached of the old state any more.       *)
(* Nothing is locked: an action is one access to shared memory.            *)
(*                                                                         *)
(* The state that a barrier of a type is about is a version number; a      *)
(* process caches the version it finds, and absorbing the barrier drops    *)
(* what is cached (for SMGRRELEASE: files are open, and get closed).       *)
(* Memory is sequentially consistent.  A pid is never used twice.          *)
(***************************************************************************)
EXTENDS Integers, FiniteSets, FiniteSetsExt

CONSTANTS
  Process,   \* pids, each the pid of one process
  NumSlots,  \* NumProcSignalSlots
  Type,      \* ProcSignalBarrierType
  MaxEmits,  \* bound: calls of EmitProcSignalBarrier
  MaxSends,  \* bound: calls of SendProcSignal
  MaxFails   \* bound: times a barrier-processing function does not succeed

NoPid == 0

ASSUME ConstantsAssumption ==
  /\ Process \subseteq Nat \ {NoPid} /\ Type # {}
  /\ NumSlots \in Nat \ {0} /\ MaxEmits \in Nat /\ MaxSends \in Nat /\ MaxFails \in Nat

Slot == 1..NumSlots

(* PG_UINT64_MAX: no generation gets there.                                *)
GenerationMax == MaxEmits + 1
Generation == 0..GenerationMax
Version == 0..MaxEmits + 1
NothingCached == 0
NoBarrier == [type |-> CHOOSE t \in Type : TRUE, version |-> 0, gen |-> 0]

VARIABLES
  \* shared memory
  psh_barrierGeneration,
  pss_pid, pss_signalFlags, pss_barrierGeneration, pss_barrierCheckMask,
  shared,       \* version of the state each barrier type is about
  \* processes
  taken,        \* slots reserved by a BackendId or by an auxiliary process
  slot,         \* of each process, once it has one
  mySlotSet,    \* MyProcSignalSlot is not NULL
  pending,      \* ProcSignalBarrierPending
  cached,       \* version cached by each process of each type's state
  sigusr1,      \* SIGUSR1 is pending for the process
  inHandler,    \* the handler has seen the barrier flag
  pc,           \* of the process
  bpc,          \* of ProcessProcSignalBarrier in it
  i,            \* loop variable over the slots
  target,       \* pid read from a slot, or argument of SendProcSignal
  emitted,      \* type, version and generation of the barrier it emits
  generation,   \* barrier_generation of ProcSignalInit
  shared_gen, flags, success,  \* locals of ProcessProcSignalBarrier
  \* auxiliary
  emits, sends, fails,
  settled,      \* newest version of each type whose wait has returned
  overtaken     \* processes that an emission passed over while they joined

slotVars == <<psh_barrierGeneration, pss_pid, pss_signalFlags, pss_barrierGeneration, pss_barrierCheckMask>>
joinVars == <<taken, slot, generation>>
emitVars == <<i, target, emitted>>
absorbVars == <<bpc, shared_gen, flags, success>>
countVars == <<emits, sends, fails>>
selfVars == <<mySlotSet, pending, cached, sigusr1, inHandler>>
auxVars == <<countVars, settled, overtaken>>
vars == <<slotVars, shared, joinVars, selfVars, pc, emitVars, absorbVars, auxVars>>

NoSlot == 0

(* ProcSignalShmemInit.                                                    *)
Init ==
  /\ psh_barrierGeneration = 0
  /\ pss_pid = [s \in Slot |-> NoPid]
  /\ pss_signalFlags = [s \in Slot |-> FALSE]
  /\ pss_barrierGeneration = [s \in Slot |-> GenerationMax]
  /\ pss_barrierCheckMask = [s \in Slot |-> {}]
  /\ shared = [t \in Type |-> 1]
  /\ taken = {}
  /\ slot = [p \in Process |-> NoSlot]
  /\ generation = [p \in Process |-> 0]
  /\ mySlotSet = [p \in Process |-> FALSE]
  /\ pending = [p \in Process |-> FALSE]
  /\ cached = [p \in Process |-> [t \in Type |-> NothingCached]]
  /\ sigusr1 = [p \in Process |-> FALSE]
  /\ inHandler = [p \in Process |-> FALSE]
  /\ pc = [p \in Process |-> "out"]
  /\ i = [p \in Process |-> 0]
  /\ target = [p \in Process |-> NoPid]
  /\ emitted = [p \in Process |-> NoBarrier]
  /\ bpc = [p \in Process |-> "idle"]
  /\ shared_gen = [p \in Process |-> 0]
  /\ flags = [p \in Process |-> {}]
  /\ success = [p \in Process |-> TRUE]
  /\ emits = 0 /\ sends = 0 /\ fails = 0
  /\ settled = [t \in Type |-> 0]
  /\ overtaken = {}

-----------------------------------------------------------------------------
Go(p, to) == pc' = [pc EXCEPT ![p] = to]

(* The process runs at a label: neither its signal handler nor             *)
(* ProcessProcSignalBarrier, which it called there, is under way.          *)
At(p, label) == pc[p] = label /\ ~inHandler[p] /\ bpc[p] = "idle"

Alive(p) == pc[p] \notin {"out", "gone"}

(* The locals of the two functions are gone.                               *)
EndEmit(p) == i' = [i EXCEPT ![p] = 0] /\ emitted' = [emitted EXCEPT ![p] = NoBarrier]
EndAbsorb(p) ==
  /\ bpc' = [bpc EXCEPT ![p] = "idle"]
  /\ shared_gen' = [shared_gen EXCEPT ![p] = 0]
  /\ flags' = [flags EXCEPT ![p] = {}]
  /\ success' = [success EXCEPT ![p] = TRUE]

(* kill(pid, SIGUSR1); the process may have exited.                        *)
Kill(q) == sigusr1' = [sigusr1 EXCEPT ![q] = Alive(q)]

(***************************************************************************)
(* ProcSignalInit                                                          *)
(***************************************************************************)

(* A new process gets a BackendId, or is the only one of its auxiliary     *)
(* type: nobody else has the slot.                                         *)
Start(p) ==
  \E s \in Slot \ taken :
    /\ At(p, "out")
    /\ taken' = taken \cup {s}
    /\ slot' = [slot EXCEPT ![p] = s]
    /\ Go(p, "clearFlags")
    /\ UNCHANGED <<slotVars, shared, generation, selfVars, emitVars, absorbVars, auxVars>>

ClearFlags(p) ==
  /\ At(p, "clearFlags")
  /\ pss_signalFlags' = [pss_signalFlags EXCEPT ![slot[p]] = FALSE]
  /\ Go(p, "clearMask")
  /\ UNCHANGED <<psh_barrierGeneration, pss_pid, pss_barrierGeneration,
                 pss_barrierCheckMask, shared, joinVars, selfVars, emitVars, absorbVars, auxVars>>

ClearMask(p) ==
  /\ At(p, "clearMask")
  /\ pss_barrierCheckMask' = [pss_barrierCheckMask EXCEPT ![slot[p]] = {}]
  /\ Go(p, "readGeneration")
  /\ UNCHANGED <<psh_barrierGeneration, pss_pid, pss_signalFlags, pss_barrierGeneration,
                 shared, joinVars, selfVars, emitVars, absorbVars, auxVars>>

ReadGeneration(p) ==
  /\ At(p, "readGeneration")
  /\ generation' = [generation EXCEPT ![p] = psh_barrierGeneration]
  /\ Go(p, "writeGeneration")
  /\ UNCHANGED <<slotVars, shared, taken, slot, selfVars, emitVars, absorbVars, auxVars>>

WriteGeneration(p) ==
  /\ At(p, "writeGeneration")
  /\ pss_barrierGeneration' = [pss_barrierGeneration EXCEPT ![slot[p]] = generation[p]]
  /\ generation' = [generation EXCEPT ![p] = 0]
  /\ Go(p, "setPid")
  /\ UNCHANGED <<psh_barrierGeneration, pss_pid, pss_signalFlags, pss_barrierCheckMask,
                 shared, taken, slot, selfVars, emitVars, absorbVars, auxVars>>

SetPid(p) ==
  /\ At(p, "setPid")
  /\ pss_pid' = [pss_pid EXCEPT ![slot[p]] = p]
  /\ Go(p, "remember")
  /\ UNCHANGED <<psh_barrierGeneration, pss_signalFlags, pss_barrierGeneration,
                 pss_barrierCheckMask, shared, joinVars, selfVars, emitVars, absorbVars, auxVars>>

(* MyProcSignalSlot = slot; only now does the handler look at the flags.   *)
Remember(p) ==
  /\ At(p, "remember")
  /\ mySlotSet' = [mySlotSet EXCEPT ![p] = TRUE]
  /\ Go(p, "run")
  /\ UNCHANGED <<slotVars, shared, joinVars, pending, cached, sigusr1, inHandler, emitVars,
                 absorbVars, auxVars>>

(***************************************************************************)
(* CleanupProcSignalState; a process may be told to exit while it waits.   *)
(***************************************************************************)
Exit(p) ==
  /\ At(p, "run") \/ At(p, "wait")
  /\ mySlotSet' = [mySlotSet EXCEPT ![p] = FALSE]
  /\ cached' = [cached EXCEPT ![p] = [t \in Type |-> NothingCached]]
  /\ EndEmit(p)
  /\ Go(p, "maxGeneration")
  /\ UNCHANGED <<slotVars, shared, joinVars, pending, sigusr1, inHandler, target, absorbVars, auxVars>>

(* Mutant of MaxGeneration: the slot keeps the generation its process had. *)
KeepGeneration(p) ==
  /\ At(p, "maxGeneration")
  /\ Go(p, "clearPid")
  /\ UNCHANGED <<slotVars, shared, joinVars, selfVars, emitVars, absorbVars, auxVars>>

(* The slot looks as if it had absorbed every barrier.                     *)
MaxGeneration(p) ==
  /\ At(p, "maxGeneration")
  /\ pss_barrierGeneration' = [pss_barrierGeneration EXCEPT ![slot[p]] = GenerationMax]
  /\ Go(p, "clearPid")
  /\ UNCHANGED <<psh_barrierGeneration, pss_pid, pss_signalFlags, pss_barrierCheckMask,
                 shared, joinVars, selfVars, emitVars, absorbVars, auxVars>>

(* The slot is free, and somebody else can have the BackendId.             *)
ClearPid(p) ==
  /\ At(p, "clearPid")
  /\ pss_pid' = [pss_pid EXCEPT ![slot[p]] = NoPid]
  /\ taken' = taken \ {slot[p]}
  /\ sigusr1' = [sigusr1 EXCEPT ![p] = FALSE]
  /\ Go(p, "gone")
  /\ UNCHANGED <<psh_barrierGeneration, pss_signalFlags, pss_barrierGeneration,
                 pss_barrierCheckMask, shared, slot, generation, mySlotSet, pending, cached, inHandler, emitVars, absorbVars, auxVars>>

(***************************************************************************)
(* SendProcSignal, for a reason that is not the barrier                    *)
(***************************************************************************)

(* The pid is in the slot the caller names, or is found by a search, which *)
(* can only find it in that slot; otherwise ESRCH.  The flag of the other  *)
(* reason is a cell of its own that no barrier code reads: left out.       *)
SendLookup(p) ==
  \E q \in Process :
    /\ At(p, "run") /\ sends < MaxSends
    /\ slot[q] # NoSlot
    /\ sends' = sends + 1
    /\ IF pss_pid[slot[q]] = q
       THEN target' = [target EXCEPT ![p] = q] /\ Go(p, "send")
       ELSE UNCHANGED <<target, pc>>
    /\ UNCHANGED <<slotVars, shared, joinVars, selfVars, i, emitted, absorbVars, emits, fails,
                   settled, overtaken>>

SendKill(p) ==
  /\ At(p, "send")
  /\ Kill(target[p])
  /\ target' = [target EXCEPT ![p] = NoPid]
  /\ Go(p, "run")
  /\ UNCHANGED <<slotVars, shared, joinVars, mySlotSet, pending, cached, inHandler, i, emitted,
                 absorbVars, auxVars>>

(***************************************************************************)
(* EmitProcSignalBarrier                                                   *)
(***************************************************************************)

(* The caller has changed the state before it calls.                       *)
Publish(p) ==
  \E t \in Type :
    /\ At(p, "run") /\ emits < MaxEmits
    /\ emits' = emits + 1
    /\ shared' = [shared EXCEPT ![t] = @ + 1]
    /\ emitted' = [emitted EXCEPT ![p] = [type |-> t, version |-> shared'[t], gen |-> 0]]
    /\ i' = [i EXCEPT ![p] = 1]
    /\ Go(p, "setBit")
    /\ UNCHANGED <<slotVars, joinVars, selfVars, target, absorbVars, sends, fails, settled, overtaken>>

SetBit(p) ==
  /\ At(p, "setBit")
  /\ pss_barrierCheckMask' = [pss_barrierCheckMask EXCEPT ![i[p]] = @ \cup {emitted[p].type}]
  /\ i' = [i EXCEPT ![p] = @ + 1]
  /\ Go(p, IF i[p] = NumSlots THEN "increment" ELSE "setBit")
  /\ UNCHANGED <<psh_barrierGeneration, pss_pid, pss_signalFlags, pss_barrierGeneration, shared,
                 joinVars, selfVars, target, emitted, absorbVars, auxVars>>

Increment(p) ==
  /\ At(p, "increment")
  /\ psh_barrierGeneration' = psh_barrierGeneration + 1
  /\ emitted' = [emitted EXCEPT ![p].gen = psh_barrierGeneration + 1]
  /\ i' = [i EXCEPT ![p] = NumSlots]
  /\ Go(p, "readPid")
  /\ UNCHANGED <<pss_pid, pss_signalFlags, pss_barrierGeneration, pss_barrierCheckMask, shared,
                 joinVars, selfVars, target, absorbVars, auxVars>>

(* The loop that signals goes on with the next slot; after the last one    *)
(* the caller waits, from the last slot on.                                *)
NextSlot(p) ==
  IF i[p] = 1 THEN i' = [i EXCEPT ![p] = NumSlots] /\ Go(p, "wait")
              ELSE i' = [i EXCEPT ![p] = @ - 1] /\ Go(p, "readPid")

(* A process that is joining and has already read the generation is passed *)
(* over.                                                                   *)
ReadPid(p) ==
  LET q == pss_pid[i[p]]
  IN  /\ At(p, "readPid")
      /\ target' = [target EXCEPT ![p] = q]
      /\ IF q = NoPid THEN NextSlot(p) ELSE Go(p, "setFlag") /\ UNCHANGED i
      /\ overtaken' = overtaken \cup
           {r \in Process : slot[r] = i[p] /\ pc[r] \in {"writeGeneration", "setPid"}}
      /\ UNCHANGED <<slotVars, shared, joinVars, selfVars, emitted, absorbVars, countVars, settled>>

SetFlag(p) ==
  /\ At(p, "setFlag")
  /\ pss_signalFlags' = [pss_signalFlags EXCEPT ![i[p]] = TRUE]
  /\ Go(p, "kill")
  /\ UNCHANGED <<psh_barrierGeneration, pss_pid, pss_barrierGeneration, pss_barrierCheckMask, shared,
                 joinVars, selfVars, emitVars, absorbVars, auxVars>>

SendSigusr1(p) ==
  /\ At(p, "kill")
  /\ Kill(target[p])
  /\ target' = [target EXCEPT ![p] = NoPid]
  /\ NextSlot(p)
  /\ UNCHANGED <<slotVars, shared, joinVars, mySlotSet, pending, cached, inHandler, emitted,
                 absorbVars, auxVars>>

(***************************************************************************)
(* WaitForProcSignalBarrier                                                *)
(***************************************************************************)

SlotAbsorbed(p) == pss_barrierGeneration[i[p]] >= emitted[p].gen

(* The slot's condition variable is broadcast when the generation changes, *)
(* and the sleep ends after five seconds anyway: the loop keeps testing.   *)
(* CHECK_FOR_INTERRUPTS in the sleep lets the process absorb its own       *)
(* barrier (Absorb).                                                       *)
WaitSlot(p) ==
  /\ At(p, "wait")
  /\ SlotAbsorbed(p)
  /\ IF i[p] = 1
     THEN /\ settled' = [settled EXCEPT ![emitted[p].type] = Max({@, emitted[p].version})]
          /\ Go(p, "run")
          /\ EndEmit(p)
     ELSE i' = [i EXCEPT ![p] = @ - 1] /\ UNCHANGED <<settled, emitted, pc>>
  /\ UNCHANGED <<slotVars, shared, joinVars, selfVars, target, absorbVars, countVars, overtaken>>

(***************************************************************************)
(* The signal handler, which interrupts its process between any two steps: *)
(* procsignal_sigusr1_handler, CheckProcSignal and                         *)
(* HandleProcSignalBarrierInterrupt.  Backends join with signals enabled.  *)
(***************************************************************************)
HandleSigusr1(p) ==
  /\ sigusr1[p] /\ ~inHandler[p]
  /\ sigusr1' = [sigusr1 EXCEPT ![p] = FALSE]
  /\ IF mySlotSet[p]
     THEN inHandler' = [inHandler EXCEPT ![p] = pss_signalFlags[slot[p]]]
     ELSE UNCHANGED inHandler
  /\ overtaken' = IF pc[p] = "remember" THEN overtaken \cup {p} ELSE overtaken
  /\ UNCHANGED <<slotVars, shared, joinVars, mySlotSet, pending, cached, pc, emitVars, absorbVars,
                 countVars, settled>>

(* The flag was seen; it is cleared and the work is left to                *)
(* ProcessProcSignalBarrier.                                               *)
HandleBarrierInterrupt(p) ==
  /\ inHandler[p]
  /\ pss_signalFlags' = [pss_signalFlags EXCEPT ![slot[p]] = FALSE]
  /\ pending' = [pending EXCEPT ![p] = TRUE]
  /\ inHandler' = [inHandler EXCEPT ![p] = FALSE]
  /\ UNCHANGED <<psh_barrierGeneration, pss_pid, pss_barrierGeneration, pss_barrierCheckMask, shared,
                 joinVars, mySlotSet, cached, sigusr1, pc, emitVars, absorbVars, auxVars>>

(***************************************************************************)
(* ProcessProcSignalBarrier, called by CHECK_FOR_INTERRUPTS: where the     *)
(* process runs, and where it sleeps in WaitForProcSignalBarrier           *)
(***************************************************************************)
Absorb(p) ==
  /\ At(p, "run") \/ At(p, "wait")
  /\ pending[p]
  /\ pending' = [pending EXCEPT ![p] = FALSE]
  /\ bpc' = [bpc EXCEPT ![p] = "generations"]
  /\ UNCHANGED <<slotVars, shared, joinVars, mySlotSet, cached, sigusr1, inHandler, pc, emitVars,
                 shared_gen, flags, success, auxVars>>

Absorbing(p, label) == bpc[p] = label /\ ~inHandler[p]

ReadGenerations(p) ==
  /\ Absorbing(p, "generations")
  /\ IF pss_barrierGeneration[slot[p]] = psh_barrierGeneration
     THEN EndAbsorb(p)
     ELSE /\ shared_gen' = [shared_gen EXCEPT ![p] = psh_barrierGeneration]
          /\ bpc' = [bpc EXCEPT ![p] = "exchange"]
          /\ UNCHANGED <<flags, success>>
  /\ UNCHANGED <<slotVars, shared, joinVars, selfVars, pc, emitVars, auxVars>>

ExchangeMask(p) ==
  /\ Absorbing(p, "exchange")
  /\ flags' = [flags EXCEPT ![p] = pss_barrierCheckMask[slot[p]]]
  /\ pss_barrierCheckMask' = [pss_barrierCheckMask EXCEPT ![slot[p]] = {}]
  /\ bpc' = [bpc EXCEPT ![p] = "process"]
  /\ UNCHANGED <<psh_barrierGeneration, pss_pid, pss_signalFlags, pss_barrierGeneration, shared,
                 joinVars, selfVars, pc, emitVars, shared_gen, success, auxVars>>

(* Mutant of ResetBits: the bits are put back, but nothing makes the       *)
(* process look at them.                                                   *)
ResetBitsOnly(p, bits) ==
  /\ pss_barrierCheckMask' = [pss_barrierCheckMask EXCEPT ![slot[p]] = @ \cup bits]
  /\ UNCHANGED pending

(* ResetProcSignalBarrierBits.                                             *)
ResetBits(p, bits) ==
  /\ pss_barrierCheckMask' = [pss_barrierCheckMask EXCEPT ![slot[p]] = @ \cup bits]
  /\ pending' = [pending EXCEPT ![p] = TRUE]

(* The barrier-processing function of one type returns true ...            *)
ProcessType(p) ==
  \E t \in flags[p] :
    /\ Absorbing(p, "process")
    /\ cached' = [cached EXCEPT ![p][t] = NothingCached]
    /\ flags' = [flags EXCEPT ![p] = @ \ {t}]
    /\ UNCHANGED <<slotVars, shared, joinVars, mySlotSet, pending, sigusr1, inHandler, pc, emitVars,
                   bpc, shared_gen, success, auxVars>>

(* ... returns false ...                                                   *)
ProcessTypeLater(p) ==
  \E t \in flags[p] :
    /\ Absorbing(p, "process") /\ fails < MaxFails
    /\ fails' = fails + 1
    /\ flags' = [flags EXCEPT ![p] = @ \ {t}]
    /\ success' = [success EXCEPT ![p] = FALSE]
    /\ ResetBits(p, {t})
    /\ UNCHANGED <<psh_barrierGeneration, pss_pid, pss_signalFlags, pss_barrierGeneration, shared,
                   joinVars, mySlotSet, cached, sigusr1, inHandler, pc, emitVars, bpc, shared_gen,
                   emits, sends, settled, overtaken>>

(* ... or fails.  The error leaves ProcessProcSignalBarrier, and           *)
(* WaitForProcSignalBarrier if that was under way.                         *)
ProcessTypeError(p) ==
  /\ Absorbing(p, "process") /\ flags[p] # {} /\ fails < MaxFails
  /\ fails' = fails + 1
  /\ ResetBits(p, flags[p])
  /\ EndAbsorb(p)
  /\ EndEmit(p)
  /\ Go(p, "run")
  /\ UNCHANGED <<psh_barrierGeneration, pss_pid, pss_signalFlags, pss_barrierGeneration, shared,
                 joinVars, mySlotSet, cached, sigusr1, inHandler, target, emits, sends, settled,
                 overtaken>>

(* Mutant of ReportGeneration: the generation is reported although a type  *)
(* was not absorbed.                                                       *)
ReportAnyway(p) ==
  /\ Absorbing(p, "process") /\ flags[p] = {}
  /\ pss_barrierGeneration' = [pss_barrierGeneration EXCEPT ![slot[p]] = shared_gen[p]]
  /\ EndAbsorb(p)
  /\ UNCHANGED <<psh_barrierGeneration, pss_pid, pss_signalFlags, pss_barrierCheckMask, shared,
                 joinVars, selfVars, pc, emitVars, auxVars>>

(* Every type is dealt with.  If all were absorbed the generation that was *)
(* read before is reported.                                                *)
ReportGeneration(p) ==
  /\ Absorbing(p, "process") /\ flags[p] = {}
  /\ pss_barrierGeneration' = IF success[p]
       THEN [pss_barrierGeneration EXCEPT ![slot[p]] = shared_gen[p]]
       ELSE pss_barrierGeneration
  /\ EndAbsorb(p)
  /\ UNCHANGED <<psh_barrierGeneration, pss_pid, pss_signalFlags, pss_barrierCheckMask, shared,
                 joinVars, selfVars, pc, emitVars, auxVars>>

(* A running process uses the state, and keeps what it finds.              *)
UseState(p) ==
  \E t \in Type :
    /\ At(p, "run") /\ cached[p][t] = NothingCached
    /\ cached' = [cached EXCEPT ![p][t] = shared[t]]
    /\ UNCHANGED <<slotVars, shared, joinVars, mySlotSet, pending, sigusr1, inHandler, pc, emitVars,
                   absorbVars, auxVars>>

-----------------------------------------------------------------------------
ProcSignalInit(p) ==
  \/ ClearFlags(p) \/ ClearMask(p) \/ ReadGeneration(p) \/ WriteGeneration(p)
  \/ SetPid(p) \/ Remember(p)

CleanupProcSignalState(p) == MaxGeneration(p) \/ ClearPid(p)

EmitProcSignalBarrier(p) ==
  \/ SetBit(p) \/ Increment(p) \/ ReadPid(p) \/ SetFlag(p) \/ SendSigusr1(p)

procsignal_sigusr1_handler(p) == HandleSigusr1(p) \/ HandleBarrierInterrupt(p)

ProcessProcSignalBarrier(p) ==
  \/ Absorb(p) \/ ReadGenerations(p) \/ ExchangeMask(p)
  \/ ProcessType(p) \/ ProcessTypeLater(p) \/ ProcessTypeError(p) \/ ReportGeneration(p)

(* What a process that has started goes on with by itself.                 *)
Proceed(p) ==
  \/ ProcSignalInit(p) \/ CleanupProcSignalState(p) \/ SendKill(p)
  \/ EmitProcSignalBarrier(p) \/ WaitSlot(p)

Next ==
  \E p \in Process :
    \/ Start(p) \/ Exit(p) \/ SendLookup(p) \/ Publish(p) \/ UseState(p)
    \/ Proceed(p) \/ procsignal_sigusr1_handler(p) \/ ProcessProcSignalBarrier(p)

Spec == Init /\ [][Next]_vars

(* The scheduler runs every process, the kernel delivers signals, and a    *)
(* process gets to CHECK_FOR_INTERRUPTS now and then.  Nobody has to       *)
(* start, exit, use the state or call anything.                            *)
Fairness ==
  \A p \in Process :
    /\ WF_vars(Proceed(p))
    /\ WF_vars(procsignal_sigusr1_handler(p))
    /\ WF_vars(ProcessProcSignalBarrier(p))

FairSpec == Spec /\ Fairness

-----------------------------------------------------------------------------
Label == {"out", "clearFlags", "clearMask", "readGeneration", "writeGeneration", "setPid",
          "remember", "run", "maxGeneration", "clearPid", "gone", "send", "setBit", "increment",
          "readPid", "setFlag", "kill", "wait"}

Barrier == [type : Type, version : Version, gen : Generation]

(* Every variable has its type: the slots of ProcSignalHeader, the locals  *)
(* of the functions, and generations no larger than PG_UINT64_MAX.         *)
TypeOK ==
  /\ psh_barrierGeneration \in 0..MaxEmits
  /\ pss_pid \in [Slot -> Process \cup {NoPid}]
  /\ pss_signalFlags \in [Slot -> BOOLEAN]
  /\ pss_barrierGeneration \in [Slot -> Generation]
  /\ pss_barrierCheckMask \in [Slot -> SUBSET Type]
  /\ shared \in [Type -> Version] /\ settled \in [Type -> Version]
  /\ taken \subseteq Slot
  /\ slot \in [Process -> Slot \cup {NoSlot}]
  /\ generation \in [Process -> Generation] /\ shared_gen \in [Process -> Generation]
  /\ mySlotSet \in [Process -> BOOLEAN] /\ pending \in [Process -> BOOLEAN]
  /\ sigusr1 \in [Process -> BOOLEAN] /\ inHandler \in [Process -> BOOLEAN]
  /\ success \in [Process -> BOOLEAN] /\ flags \in [Process -> SUBSET Type]
  /\ cached \in [Process -> [Type -> Version]]
  /\ pc \in [Process -> Label]
  /\ bpc \in [Process -> {"idle", "generations", "exchange", "process"}]
  /\ i \in [Process -> 0..NumSlots + 1]
  /\ target \in [Process -> Process \cup {NoPid}]
  /\ emitted \in [Process -> Barrier]
  /\ emits \in 0..MaxEmits /\ sends \in 0..MaxSends /\ fails \in 0..MaxFails
  /\ overtaken \subseteq Process

(* WaitForProcSignalBarrier has returned: "it is guaranteed that all       *)
(* changes requested by a specific call to EmitProcSignalBarrier() have    *)
(* taken effect".  No process still works with a version that is older     *)
(* than the one the barrier was emitted for: not one whose handler failed, *)
(* not one that joined meanwhile, not one in a slot that changed hands.    *)
NoStaleState ==
  \A p \in Process, t \in Type :
    cached[p][t] # NothingCached => cached[p][t] >= settled[t]

Behind(p) == mySlotSet[p] /\ pss_barrierGeneration[slot[p]] < psh_barrierGeneration

(* An emission has yet to read the pid in the slot of p ...                *)
YetToVisit(e, p) ==
  \/ pc[e] = "readPid" /\ i[e] >= slot[p]
  \/ pc[e] \in {"setFlag", "kill"} /\ i[e] > slot[p]

(* ... or has read it and has yet to set the flag, or to send the signal.  *)
AboutToSignal(e, p) ==
  target[e] = p /\ (pc[e] = "setFlag" \/ (pc[e] = "kill" /\ pss_signalFlags[slot[p]]))

(* The process will get to know of the newest generation.                  *)
OnItsWay(p) ==
  \/ pending[p] \/ inHandler[p]
  \/ pss_signalFlags[slot[p]] /\ sigusr1[p]
  \/ bpc[p] = "generations"
  \/ bpc[p] \in {"exchange", "process"} /\ shared_gen[p] = psh_barrierGeneration
  \/ \E e \in Process : YetToVisit(e, p) \/ AboutToSignal(e, p)

(* A process whose generation is behind is about to be told, unless an     *)
(* emission passed over it while it joined: a signal is under way, or      *)
(* ProcSignalBarrierPending is set, also after a barrier-processing        *)
(* function failed or could not absorb its barrier yet.  And nobody is     *)
(* ahead: Assert(local_gen <= shared_gen) of ProcessProcSignalBarrier.     *)
(* Every variable has its type.                                            *)
BehindIsTold ==
  /\ TypeOK
  /\ \A p \in Process :
       bpc[p] = "generations" => pss_barrierGeneration[slot[p]] <= psh_barrierGeneration
  /\ \A p \in Process \ overtaken : Behind(p) => OnItsWay(p)

(* EmitProcSignalBarrier: "Concurrency is not a problem here. ... We still *)
(* have to wake them up", said of processes that joined meanwhile: each    *)
(* process that is behind is told.                                         *)
JoinerIsTold == \A p \in Process : Behind(p) => OnItsWay(p)

(* WaitForProcSignalBarrier returns, whoever exits or takes a slot while   *)
(* it waits, if no emission passed over a process that joined.  At most    *)
(* MaxEmits barriers are waited for, so nobody waits in the end.           *)
WaitReturns == <>[]((\A p \in Process : pc[p] # "wait") \/ overtaken # {})
=============================================================================
