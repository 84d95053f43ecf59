-------------------------- MODULE ProcSignalProofs --------------------------
(***************************************************************************)
(* Proofs about ProcSignal for any processes, slots, barrier types and     *)
(* numbers of barriers, signals and failures: when                         *)
(* WaitForProcSignalBarrier has returned nobody works with what the        *)
(* barrier made obsolete, and a process whose generation is behind is      *)
(* about to be told.                                                       *)
(***************************************************************************)
EXTENDS ProcSignal, FiniteSetTheorems, TLAPS

(* Where a process has MyProcSignalSlot, is to be found in its slot, and   *)
(* has reported a generation there.                                        *)
Running == {"run", "send", "setBit", "increment", "readPid", "setFlag", "kill", "wait"}
Listed  == Running \cup {"remember", "maxGeneration", "clearPid"}
HasGen  == Running \cup {"setPid", "remember", "maxGeneration"}

(* Where an emission has yet to increment the generation, and has done it. *)
Preparing == {"setBit", "increment"}
Emitting  == {"readPid", "setFlag", "kill", "wait"}

(* A process has its slot for itself.                                      *)
OwnInv ==
  /\ \A p \in Process : slot[p] # NoSlot <=> pc[p] # "out"
  /\ \A p \in Process : Alive(p) => slot[p] \in taken
  /\ \A p, q \in Process : Alive(p) /\ Alive(q) /\ slot[p] = slot[q] => p = q
  /\ \A p \in Process : mySlotSet[p] <=> pc[p] \in Running
  /\ \A p \in Process : inHandler[p] => pc[p] \in Running
  /\ \A p \in Process : bpc[p] # "idle" => pc[p] \in {"run", "wait"}
  /\ \A p \in Process : pc[p] \in Listed => pss_pid[slot[p]] = p
  /\ \A s \in Slot : pss_pid[s] # NoPid => slot[pss_pid[s]] = s

(* Every call of EmitProcSignalBarrier increments the generation once.     *)
InPreparation == {p \in Process : pc[p] \in Preparing}

CountInv ==
  /\ IsFiniteSet(InPreparation)
  /\ psh_barrierGeneration + Cardinality(InPreparation) = emits

(* No generation that was read or reported is ahead.                       *)
GenInv ==
  /\ \A p \in Process : pc[p] \in HasGen =>
       pss_barrierGeneration[slot[p]] <= psh_barrierGeneration
  /\ \A p \in Process : pc[p] = "writeGeneration" => generation[p] <= psh_barrierGeneration
  /\ \A p \in Process : bpc[p] \in {"exchange", "process"} =>
       /\ pss_barrierGeneration[slot[p]] <= shared_gen[p]
       /\ shared_gen[p] <= psh_barrierGeneration

(* The locals of EmitProcSignalBarrier and the versions.                   *)
EmitInv ==
  /\ \A e \in Process : pc[e] \in Emitting \cup {"setBit"} => i[e] \in Slot
  /\ \A e \in Process : pc[e] \in {"setFlag", "kill"} =>
       target[e] \in Process /\ slot[target[e]] = i[e]
  /\ \A e \in Process : pc[e] = "send" => target[e] \in Process
  /\ \A e \in Process : pc[e] \in Preparing \cup Emitting =>
       emitted[e].version <= shared[emitted[e].type]
  /\ \A t \in Type : settled[t] <= shared[t] /\ shared[t] <= emits + 1 /\ shared[t] >= 1

(* Only a running process has cached something; a failure to absorb is     *)
(* remembered.                                                             *)
LocalInv ==
  /\ \A p \in Process, t \in Type : cached[p][t] # NothingCached => pc[p] \in Running
  /\ \A p \in Process : ~success[p] => bpc[p] = "process" /\ pending[p]

(* p works with a version that the barrier e is emitting makes obsolete.   *)
Stale(p, e) ==
  /\ cached[p][emitted[e].type] # NothingCached
  /\ cached[p][emitted[e].type] < emitted[e].version

(* The bit of the barrier has come to the slot of p.                       *)
BitSet(e, p) ==
  \/ pc[e] \in Emitting \cup {"increment"}
  \/ pc[e] = "setBit" /\ slot[p] < i[e]

(* Then p has reported no generation as new as that of the barrier, and    *)
(* will not unless it absorbs the barrier.                                 *)
StaleAt(p, e) ==
  /\ pc[e] \in Emitting => pss_barrierGeneration[slot[p]] < emitted[e].gen
  /\ pc[e] = "wait" => slot[p] <= i[e]
  /\ BitSet(e, p) =>
       \/ emitted[e].type \in pss_barrierCheckMask[slot[p]]
       \/ bpc[p] = "process" /\ emitted[e].type \in flags[p]
  /\ pc[e] \in Emitting /\ bpc[p] = "process" /\ emitted[e].gen <= shared_gen[p] =>
       emitted[e].type \in flags[p] \/ ~success[p]

StaleInv == \A p, e \in Process : Stale(p, e) => StaleAt(p, e)

(* A process that joins is told as well, unless it was passed over.        *)
JoinerBehind(p) ==
  \/ pc[p] = "writeGeneration" /\ generation[p] < psh_barrierGeneration
  \/ pc[p] = "setPid" /\ pss_barrierGeneration[slot[p]] < psh_barrierGeneration

ListedBehind(p) ==
  pc[p] \in Running \cup {"remember"} /\ pss_barrierGeneration[slot[p]] < psh_barrierGeneration

ToldInv ==
  \A p \in Process \ overtaken :
    /\ JoinerBehind(p) => \E e \in Process : YetToVisit(e, p)
    /\ ListedBehind(p) => OnItsWay(p)

IInv ==
  /\ TypeOK /\ OwnInv /\ CountInv /\ GenInv /\ EmitInv /\ LocalInv
  /\ StaleInv /\ NoStaleState /\ ToldInv

-----------------------------------------------------------------------------
(* What a process can do, one disjunct per action.                         *)
ActionOf(p) ==
  \/ Start(p) \/ ClearFlags(p) \/ ClearMask(p) \/ ReadGeneration(p) \/ WriteGeneration(p)
  \/ SetPid(p) \/ Remember(p) \/ Exit(p) \/ MaxGeneration(p) \/ ClearPid(p)
  \/ SendLookup(p) \/ SendKill(p)
  \/ Publish(p) \/ SetBit(p) \/ Increment(p) \/ ReadPid(p) \/ SetFlag(p) \/ SendSigusr1(p)
  \/ WaitSlot(p) \/ HandleSigusr1(p) \/ HandleBarrierInterrupt(p)
  \/ Absorb(p) \/ ReadGenerations(p) \/ ExchangeMask(p) \/ ProcessType(p)
  \/ ProcessTypeLater(p) \/ ProcessTypeError(p) \/ ReportGeneration(p) \/ UseState(p)

(* They are the disjuncts of Next.                                         *)
LEMMA NextIsAction == Next <=> \E p \in Process : ActionOf(p)
BY DEF Next, ActionOf, Proceed, ProcSignalInit, CleanupProcSignalState, EmitProcSignalBarrier,
   procsignal_sigusr1_handler, ProcessProcSignalBarrier

(* A step leaves alone what is private to the other processes.             *)
LEMMA PrivateFrame ==
  ASSUME TypeOK, NEW p \in Process, ActionOf(p), NEW q \in Process, q # p
  PROVE  /\ pc'[q] = pc[q] /\ slot'[q] = slot[q] /\ bpc'[q] = bpc[q]
         /\ mySlotSet'[q] = mySlotSet[q] /\ pending'[q] = pending[q]
         /\ cached'[q] = cached[q] /\ inHandler'[q] = inHandler[q]
         /\ i'[q] = i[q] /\ target'[q] = target[q] /\ emitted'[q] = emitted[q]
         /\ generation'[q] = generation[q] /\ shared_gen'[q] = shared_gen[q]
         /\ flags'[q] = flags[q] /\ success'[q] = success[q]
<1>1. /\ pc \in [Process -> Label] /\ slot \in [Process -> Slot \cup {NoSlot}]
      /\ bpc \in [Process -> {"idle", "generations", "exchange", "process"}]
      /\ mySlotSet \in [Process -> BOOLEAN] /\ pending \in [Process -> BOOLEAN]
      /\ inHandler \in [Process -> BOOLEAN]
      /\ cached \in [Process -> [Type -> Version]]
      /\ i \in [Process -> 0..NumSlots + 1] /\ target \in [Process -> Process \cup {NoPid}]
      /\ emitted \in [Process -> Barrier]
      /\ generation \in [Process -> Generation] /\ shared_gen \in [Process -> Generation]
      /\ flags \in [Process -> SUBSET Type] /\ success \in [Process -> BOOLEAN]
  BY DEF TypeOK
<1>2. pc'[q] = pc[q] /\ slot'[q] = slot[q] /\ bpc'[q] = bpc[q]
  BY <1>1 DEF ActionOf, Start, ClearFlags, ClearMask, ReadGeneration, WriteGeneration, SetPid,
     Remember, Exit, MaxGeneration, ClearPid, SendLookup, SendKill, Publish, SetBit, Increment,
     ReadPid, SetFlag, SendSigusr1, WaitSlot, HandleSigusr1, HandleBarrierInterrupt, Absorb,
     ReadGenerations, ExchangeMask, ProcessType, ProcessTypeLater, ProcessTypeError,
     ReportGeneration, UseState, Go, At, Absorbing, EndEmit, EndAbsorb, NextSlot, Kill,
     ResetBits, slotVars, joinVars, emitVars, absorbVars, countVars, selfVars, auxVars
<1>3. mySlotSet'[q] = mySlotSet[q] /\ pending'[q] = pending[q]
  BY <1>1 DEF ActionOf, Start, ClearFlags, ClearMask, ReadGeneration, WriteGeneration, SetPid,
     Remember, Exit, MaxGeneration, ClearPid, SendLookup, SendKill, Publish, SetBit, Increment,
     ReadPid, SetFlag, SendSigusr1, WaitSlot, HandleSigusr1, HandleBarrierInterrupt, Absorb,
     ReadGenerations, ExchangeMask, ProcessType, ProcessTypeLater, ProcessTypeError,
     ReportGeneration, UseState, Go, At, Absorbing, EndEmit, EndAbsorb, NextSlot, Kill,
     ResetBits, slotVars, joinVars, emitVars, absorbVars, countVars, selfVars, auxVars
<1>4. cached'[q] = cached[q] /\ inHandler'[q] = inHandler[q]
  BY <1>1 DEF ActionOf, Start, ClearFlags, ClearMask, ReadGeneration, WriteGeneration, SetPid,
     Remember, Exit, MaxGeneration, ClearPid, SendLookup, SendKill, Publish, SetBit, Increment,
     ReadPid, SetFlag, SendSigusr1, WaitSlot, HandleSigusr1, HandleBarrierInterrupt, Absorb,
     ReadGenerations, ExchangeMask, ProcessType, ProcessTypeLater, ProcessTypeError,
     ReportGeneration, UseState, Go, At, Absorbing, EndEmit, EndAbsorb, NextSlot, Kill,
     ResetBits, slotVars, joinVars, emitVars, absorbVars, countVars, selfVars, auxVars
<1>5. i'[q] = i[q] /\ target'[q] = target[q] /\ emitted'[q] = emitted[q]
  BY <1>1 DEF ActionOf, Start, ClearFlags, ClearMask, ReadGeneration, WriteGeneration, SetPid,
     Remember, Exit, MaxGeneration, ClearPid, SendLookup, SendKill, Publish, SetBit, Increment,
     ReadPid, SetFlag, SendSigusr1, WaitSlot, HandleSigusr1, HandleBarrierInterrupt, Absorb,
     ReadGenerations, ExchangeMask, ProcessType, ProcessTypeLater, ProcessTypeError,
     ReportGeneration, UseState, Go, At, Absorbing, EndEmit, EndAbsorb, NextSlot, Kill,
     ResetBits, slotVars, joinVars, emitVars, absorbVars, countVars, selfVars, auxVars
<1>6. generation'[q] = generation[q] /\ shared_gen'[q] = shared_gen[q]
  BY <1>1 DEF ActionOf, Start, ClearFlags, ClearMask, ReadGeneration, WriteGeneration, SetPid,
     Remember, Exit, MaxGeneration, ClearPid, SendLookup, SendKill, Publish, SetBit, Increment,
     ReadPid, SetFlag, SendSigusr1, WaitSlot, HandleSigusr1, HandleBarrierInterrupt, Absorb,
     ReadGenerations, ExchangeMask, ProcessType, ProcessTypeLater, ProcessTypeError,
     ReportGeneration, UseState, Go, At, Absorbing, EndEmit, EndAbsorb, NextSlot, Kill,
     ResetBits, slotVars, joinVars, emitVars, absorbVars, countVars, selfVars, auxVars
<1>7. flags'[q] = flags[q] /\ success'[q] = success[q]
  BY <1>1 DEF ActionOf, Start, ClearFlags, ClearMask, ReadGeneration, WriteGeneration, SetPid,
     Remember, Exit, MaxGeneration, ClearPid, SendLookup, SendKill, Publish, SetBit, Increment,
     ReadPid, SetFlag, SendSigusr1, WaitSlot, HandleSigusr1, HandleBarrierInterrupt, Absorb,
     ReadGenerations, ExchangeMask, ProcessType, ProcessTypeLater, ProcessTypeError,
     ReportGeneration, UseState, Go, At, Absorbing, EndEmit, EndAbsorb, NextSlot, Kill,
     ResetBits, slotVars, joinVars, emitVars, absorbVars, countVars, selfVars, auxVars
<1> QED
  BY <1>2, <1>3, <1>4, <1>5, <1>6, <1>7

(* In the slots of others a step can only set a bit or the flag.           *)
LEMMA SlotFrame ==
  ASSUME TypeOK, NEW p \in Process, ActionOf(p), NEW s \in Slot, s # slot[p]
  PROVE  /\ pss_pid'[s] = pss_pid[s]
         /\ pss_barrierGeneration'[s] = pss_barrierGeneration[s]
         /\ pss_barrierCheckMask[s] \subseteq pss_barrierCheckMask'[s]
         /\ pss_signalFlags[s] => pss_signalFlags'[s]
<1>1. /\ pss_pid \in [Slot -> Process \cup {NoPid}]
      /\ pss_signalFlags \in [Slot -> BOOLEAN]
      /\ pss_barrierGeneration \in [Slot -> Generation]
      /\ pss_barrierCheckMask \in [Slot -> SUBSET Type]
  BY DEF TypeOK
<1>2. pss_pid'[s] = pss_pid[s] /\ pss_barrierGeneration'[s] = pss_barrierGeneration[s]
  BY <1>1 DEF ActionOf, Start, ClearFlags, ClearMask, ReadGeneration, WriteGeneration, SetPid,
     Remember, Exit, MaxGeneration, ClearPid, SendLookup, SendKill, Publish, SetBit, Increment,
     ReadPid, SetFlag, SendSigusr1, WaitSlot, HandleSigusr1, HandleBarrierInterrupt, Absorb,
     ReadGenerations, ExchangeMask, ProcessType, ProcessTypeLater, ProcessTypeError,
     ReportGeneration, UseState, Go, At, Absorbing, EndEmit, EndAbsorb, NextSlot, Kill,
     ResetBits, slotVars, joinVars, emitVars, absorbVars, countVars, selfVars, auxVars
<1>3. pss_barrierCheckMask[s] \subseteq pss_barrierCheckMask'[s]
  BY <1>1 DEF ActionOf, Start, ClearFlags, ClearMask, ReadGeneration, WriteGeneration, SetPid,
     Remember, Exit, MaxGeneration, ClearPid, SendLookup, SendKill, Publish, SetBit, Increment,
     ReadPid, SetFlag, SendSigusr1, WaitSlot, HandleSigusr1, HandleBarrierInterrupt, Absorb,
     ReadGenerations, ExchangeMask, ProcessType, ProcessTypeLater, ProcessTypeError,
     ReportGeneration, UseState, Go, At, Absorbing, EndEmit, EndAbsorb, NextSlot, Kill,
     ResetBits, slotVars, joinVars, emitVars, absorbVars, countVars, selfVars, auxVars
<1>4. pss_signalFlags[s] => pss_signalFlags'[s]
  BY <1>1 DEF ActionOf, Start, ClearFlags, ClearMask, ReadGeneration, WriteGeneration, SetPid,
     Remember, Exit, MaxGeneration, ClearPid, SendLookup, SendKill, Publish, SetBit, Increment,
     ReadPid, SetFlag, SendSigusr1, WaitSlot, HandleSigusr1, HandleBarrierInterrupt, Absorb,
     ReadGenerations, ExchangeMask, ProcessType, ProcessTypeLater, ProcessTypeError,
     ReportGeneration, UseState, Go, At, Absorbing, EndEmit, EndAbsorb, NextSlot, Kill,
     ResetBits, slotVars, joinVars, emitVars, absorbVars, countVars, selfVars, auxVars
<1> QED
  BY <1>2, <1>3, <1>4

(* A signal that is pending for a process stays so until it handles it.    *)
LEMMA SignalFrame ==
  ASSUME TypeOK, NEW p \in Process, ActionOf(p), NEW q \in Process, Alive(q), sigusr1[q],
         ~(q = p /\ (HandleSigusr1(p) \/ ClearPid(p)))
  PROVE  sigusr1'[q]
<1>1. sigusr1 \in [Process -> BOOLEAN]
  BY DEF TypeOK
<1> QED
  BY <1>1 DEF ActionOf, Start, ClearFlags, ClearMask, ReadGeneration, WriteGeneration, SetPid,
     Remember, Exit, MaxGeneration, ClearPid, SendLookup, SendKill, Publish, SetBit, Increment,
     ReadPid, SetFlag, SendSigusr1, WaitSlot, HandleSigusr1, HandleBarrierInterrupt, Absorb,
     ReadGenerations, ExchangeMask, ProcessType, ProcessTypeLater, ProcessTypeError,
     ReportGeneration, UseState, Go, At, Absorbing, EndEmit, EndAbsorb, NextSlot, Kill,
     ResetBits, slotVars, joinVars, emitVars, absorbVars, countVars, selfVars, auxVars

(* The generation counts the calls that have incremented it.               *)
LEMMA GenBound ==
  ASSUME TypeOK, CountInv
  PROVE  /\ psh_barrierGeneration \in Nat /\ emits \in Nat /\ psh_barrierGeneration <= emits
         /\ Cardinality(InPreparation) \in Nat
         /\ InPreparation # {} => psh_barrierGeneration + 1 <= emits
<1>1. psh_barrierGeneration \in Nat /\ emits \in Nat
  BY ConstantsAssumption DEF TypeOK
<1>2. Cardinality(InPreparation) \in Nat
  BY FS_CardinalityType DEF CountInv
<1>3. InPreparation # {} => Cardinality(InPreparation) # 0
  BY FS_EmptySet DEF CountInv
<1> QED
  BY <1>1, <1>2, <1>3 DEF CountInv

(* Types and bounds of the counters, and the constants.                    *)
LEMMA Bounds ==
  ASSUME IInv
  PROVE  /\ NoBarrier \in Barrier /\ 0 \in Generation /\ GenerationMax \in Generation
         /\ \A n \in 0..MaxEmits : n \in Generation /\ n + 1 \in Generation
         /\ NothingCached \in Version /\ \A t \in Type : shared[t] \in Version
         /\ \A p \in Process : target[p] \in Process \cup {NoPid}
<1>1. 0 \in Version /\ 0 \in Generation /\ GenerationMax \in Generation
  BY ConstantsAssumption DEF Version, Generation, GenerationMax
<1>2. NoBarrier \in Barrier
  <2>1. (CHOOSE t \in Type : TRUE) \in Type
    BY ConstantsAssumption
  <2> QED
    BY <1>1, <2>1 DEF NoBarrier, Barrier
<1>3. \A n \in 0..MaxEmits : n \in Generation /\ n + 1 \in Generation
  BY ConstantsAssumption DEF Generation, GenerationMax
<1> QED
  BY <1>1, <1>2, <1>3 DEF IInv, TypeOK, NothingCached

(* Every step keeps the types.                                             *)
LEMMA TypeStep ==
  ASSUME IInv, NEW p \in Process, ActionOf(p)
  PROVE  TypeOK'
<1>0. TypeOK /\ OwnInv /\ CountInv /\ EmitInv
  BY DEF IInv
<1>1. /\ psh_barrierGeneration \in 0..MaxEmits
      /\ pss_pid \in [Slot -> Process \cup {NoPid}]
      /\ pss_signalFlags \in [Slot -> BOOLEAN]
      /\ pss_barrierGeneration \in [Slot -> Generation]
      /\ pss_barrierCheckMask \in [Slot -> SUBSET Type]
      /\ shared \in [Type -> Version] /\ settled \in [Type -> Version]
      /\ taken \subseteq Slot
      /\ slot \in [Process -> Slot \cup {NoSlot}]
  BY <1>0 DEF TypeOK
<1>2. /\ generation \in [Process -> Generation] /\ shared_gen \in [Process -> Generation]
      /\ mySlotSet \in [Process -> BOOLEAN] /\ pending \in [Process -> BOOLEAN]
      /\ sigusr1 \in [Process -> BOOLEAN] /\ inHandler \in [Process -> BOOLEAN]
      /\ success \in [Process -> BOOLEAN] /\ flags \in [Process -> SUBSET Type]
      /\ cached \in [Process -> [Type -> Version]]
      /\ pc \in [Process -> Label]
      /\ bpc \in [Process -> {"idle", "generations", "exchange", "process"}]
      /\ target \in [Process -> Process \cup {NoPid}]
      /\ emitted \in [Process -> Barrier]
      /\ overtaken \subseteq Process
  BY <1>0 DEF TypeOK
<1>3. /\ NoBarrier \in Barrier /\ 0 \in Generation /\ GenerationMax \in Generation
      /\ psh_barrierGeneration \in Generation /\ psh_barrierGeneration + 1 \in Generation
      /\ NothingCached \in Version
  BY <1>1, Bounds
<1>4. i \in [Process -> 0..NumSlots + 1] /\ NumSlots \in Nat \ {0}
  BY <1>0, ConstantsAssumption DEF TypeOK
<1>5. psh_barrierGeneration' \in 0..MaxEmits
  <2>1. CASE Increment(p)
    <3>1. psh_barrierGeneration' = psh_barrierGeneration + 1 /\ pc[p] = "increment"
      BY <2>1 DEF Increment, At
    <3>2. InPreparation # {}
      BY <3>1 DEF InPreparation, Preparing
    <3>3. psh_barrierGeneration \in Nat /\ psh_barrierGeneration + 1 <= emits
      BY <1>0, <3>2, GenBound
    <3>4. emits \in 0..MaxEmits
      BY <1>0 DEF TypeOK
    <3> QED
      BY <3>1, <3>3, <3>4, ConstantsAssumption
  <2>2. CASE ~Increment(p)
    <3>1. psh_barrierGeneration' = psh_barrierGeneration
      BY <2>2 DEF ActionOf, Start, ClearFlags, ClearMask, ReadGeneration, WriteGeneration,
         SetPid, Remember, Exit, MaxGeneration, ClearPid, SendLookup, SendKill, Publish,
         SetBit, Increment, ReadPid, SetFlag, SendSigusr1, WaitSlot, HandleSigusr1,
         HandleBarrierInterrupt, Absorb, ReadGenerations, ExchangeMask, ProcessType,
         ProcessTypeLater, ProcessTypeError, ReportGeneration, UseState, Go, At, Absorbing,
         EndEmit, EndAbsorb, NextSlot, Kill, ResetBits, slotVars, joinVars, emitVars,
         absorbVars, countVars, selfVars, auxVars
    <3> QED
      BY <1>1, <3>1
  <2> QED
    BY <2>1, <2>2
<1>6. pss_pid' \in [Slot -> Process \cup {NoPid}]
  BY <1>1 DEF ActionOf, Start, ClearFlags, ClearMask, ReadGeneration, WriteGeneration, SetPid,
     Remember, Exit, MaxGeneration, ClearPid, SendLookup, SendKill, Publish, SetBit, Increment,
     ReadPid, SetFlag, SendSigusr1, WaitSlot, HandleSigusr1, HandleBarrierInterrupt, Absorb,
     ReadGenerations, ExchangeMask, ProcessType, ProcessTypeLater, ProcessTypeError,
     ReportGeneration, UseState, Go, At, Absorbing, EndEmit, EndAbsorb, NextSlot, Kill,
     ResetBits, slotVars, joinVars, emitVars, absorbVars, countVars, selfVars, auxVars
<1>7. pss_signalFlags' \in [Slot -> BOOLEAN]
  BY <1>1 DEF ActionOf, Start, ClearFlags, ClearMask, ReadGeneration, WriteGeneration, SetPid,
     Remember, Exit, MaxGeneration, ClearPid, SendLookup, SendKill, Publish, SetBit, Increment,
     ReadPid, SetFlag, SendSigusr1, WaitSlot, HandleSigusr1, HandleBarrierInterrupt, Absorb,
     ReadGenerations, ExchangeMask, ProcessType, ProcessTypeLater, ProcessTypeError,
     ReportGeneration, UseState, Go, At, Absorbing, EndEmit, EndAbsorb, NextSlot, Kill,
     ResetBits, slotVars, joinVars, emitVars, absorbVars, countVars, selfVars, auxVars
<1>8. pss_barrierGeneration' \in [Slot -> Generation]
  <2>1. \/ pss_barrierGeneration' = pss_barrierGeneration
        \/ \E g \in {generation[p], shared_gen[p], GenerationMax} :
             pss_barrierGeneration' = [pss_barrierGeneration EXCEPT ![slot[p]] = g]
    BY DEF ActionOf, Start, ClearFlags, ClearMask, ReadGeneration, WriteGeneration, SetPid,
       Remember, Exit, MaxGeneration, ClearPid, SendLookup, SendKill, Publish, SetBit,
       Increment, ReadPid, SetFlag, SendSigusr1, WaitSlot, HandleSigusr1,
       HandleBarrierInterrupt, Absorb, ReadGenerations, ExchangeMask, ProcessType,
       ProcessTypeLater, ProcessTypeError, ReportGeneration, UseState, Go, At, Absorbing,
       EndEmit, EndAbsorb, NextSlot, Kill, ResetBits, slotVars, joinVars, emitVars, absorbVars,
       countVars, selfVars, auxVars
  <2>2. {generation[p], shared_gen[p], GenerationMax} \subseteq Generation
    BY <1>2, <1>3
  <2> QED
    BY <1>1, <2>1, <2>2
<1>9. pss_barrierCheckMask' \in [Slot -> SUBSET Type]
  <2>1. emitted[p].type \in Type
    BY <1>2 DEF Barrier
  <2>2. flags[p] \in SUBSET Type
    BY <1>2
  <2>3. CASE SetBit(p)
    BY <1>1, <2>1, <2>3 DEF SetBit
  <2>4. CASE ProcessTypeLater(p) \/ ProcessTypeError(p)
    BY <1>1, <2>2, <2>4 DEF ProcessTypeLater, ProcessTypeError, ResetBits
  <2>5. CASE ~SetBit(p) /\ ~(ProcessTypeLater(p) \/ ProcessTypeError(p))
    BY <1>1, <2>5 DEF ActionOf, Start, ClearFlags, ClearMask, ReadGeneration, WriteGeneration,
       SetPid, Remember, Exit, MaxGeneration, ClearPid, SendLookup, SendKill, Publish, SetBit,
       Increment, ReadPid, SetFlag, SendSigusr1, WaitSlot, HandleSigusr1,
       HandleBarrierInterrupt, Absorb, ReadGenerations, ExchangeMask, ProcessType,
       ProcessTypeLater, ProcessTypeError, ReportGeneration, UseState, Go, At, Absorbing,
       EndEmit, EndAbsorb, NextSlot, Kill, ResetBits, slotVars, joinVars, emitVars, absorbVars,
       countVars, selfVars, auxVars
  <2> QED
    BY <2>3, <2>4, <2>5
<1>10. taken' \subseteq Slot /\ slot' \in [Process -> Slot \cup {NoSlot}]
  BY <1>1 DEF ActionOf, Start, ClearFlags, ClearMask, ReadGeneration, WriteGeneration, SetPid,
     Remember, Exit, MaxGeneration, ClearPid, SendLookup, SendKill, Publish, SetBit, Increment,
     ReadPid, SetFlag, SendSigusr1, WaitSlot, HandleSigusr1, HandleBarrierInterrupt, Absorb,
     ReadGenerations, ExchangeMask, ProcessType, ProcessTypeLater, ProcessTypeError,
     ReportGeneration, UseState, Go, At, Absorbing, EndEmit, EndAbsorb, NextSlot, Kill,
     ResetBits, slotVars, joinVars, emitVars, absorbVars, countVars, selfVars, auxVars
<1>11. generation' \in [Process -> Generation] /\ shared_gen' \in [Process -> Generation]
  <2>1. \/ generation' = generation
        \/ \E g \in {0, psh_barrierGeneration} : generation' = [generation EXCEPT ![p] = g]
    BY DEF ActionOf, Start, ClearFlags, ClearMask, ReadGeneration, WriteGeneration, SetPid,
       Remember, Exit, MaxGeneration, ClearPid, SendLookup, SendKill, Publish, SetBit,
       Increment, ReadPid, SetFlag, SendSigusr1, WaitSlot, HandleSigusr1,
       HandleBarrierInterrupt, Absorb, ReadGenerations, ExchangeMask, ProcessType,
       ProcessTypeLater, ProcessTypeError, ReportGeneration, UseState, Go, At, Absorbing,
       EndEmit, EndAbsorb, NextSlot, Kill, ResetBits, slotVars, joinVars, emitVars, absorbVars,
       countVars, selfVars, auxVars
  <2>2. \/ shared_gen' = shared_gen
        \/ \E g \in {0, psh_barrierGeneration} : shared_gen' = [shared_gen EXCEPT ![p] = g]
    BY DEF ActionOf, Start, ClearFlags, ClearMask, ReadGeneration, WriteGeneration, SetPid,
       Remember, Exit, MaxGeneration, ClearPid, SendLookup, SendKill, Publish, SetBit,
       Increment, ReadPid, SetFlag, SendSigusr1, WaitSlot, HandleSigusr1,
       HandleBarrierInterrupt, Absorb, ReadGenerations, ExchangeMask, ProcessType,
       ProcessTypeLater, ProcessTypeError, ReportGeneration, UseState, Go, At, Absorbing,
       EndEmit, EndAbsorb, NextSlot, Kill, ResetBits, slotVars, joinVars, emitVars, absorbVars,
       countVars, selfVars, auxVars
  <2>3. {0, psh_barrierGeneration} \subseteq Generation
    BY <1>3
  <2>4. generation' \in [Process -> Generation]
    BY <1>2, <2>1, <2>3
  <2>5. shared_gen' \in [Process -> Generation]
    BY <1>2, <2>2, <2>3
  <2> QED
    BY <2>4, <2>5
<1>12. mySlotSet' \in [Process -> BOOLEAN] /\ pending' \in [Process -> BOOLEAN]
  BY <1>2 DEF ActionOf, Start, ClearFlags, ClearMask, ReadGeneration, WriteGeneration, SetPid,
     Remember, Exit, MaxGeneration, ClearPid, SendLookup, SendKill, Publish, SetBit, Increment,
     ReadPid, SetFlag, SendSigusr1, WaitSlot, HandleSigusr1, HandleBarrierInterrupt, Absorb,
     ReadGenerations, ExchangeMask, ProcessType, ProcessTypeLater, ProcessTypeError,
     ReportGeneration, UseState, Go, At, Absorbing, EndEmit, EndAbsorb, NextSlot, Kill,
     ResetBits, slotVars, joinVars, emitVars, absorbVars, countVars, selfVars, auxVars
<1>13. sigusr1' \in [Process -> BOOLEAN]
  <2>1. \/ sigusr1' = sigusr1
        \/ \E q : sigusr1' = [sigusr1 EXCEPT ![q] = FALSE] \/ Kill(q)
    BY DEF ActionOf, Start, ClearFlags, ClearMask, ReadGeneration, WriteGeneration, SetPid,
       Remember, Exit, MaxGeneration, ClearPid, SendLookup, SendKill, Publish, SetBit,
       Increment, ReadPid, SetFlag, SendSigusr1, WaitSlot, HandleSigusr1,
       HandleBarrierInterrupt, Absorb, ReadGenerations, ExchangeMask, ProcessType,
       ProcessTypeLater, ProcessTypeError, ReportGeneration, UseState, Go, At, Absorbing,
       EndEmit, EndAbsorb, NextSlot, ResetBits, slotVars, joinVars, emitVars, absorbVars,
       countVars, selfVars, auxVars
  <2>2. ASSUME NEW q, Kill(q)
        PROVE  sigusr1' \in [Process -> BOOLEAN]
    <3>1. Alive(q) \in BOOLEAN
      BY DEF Alive
    <3> QED
      BY <1>2, <2>2, <3>1 DEF Kill
  <2> QED
    BY <1>2, <2>1, <2>2
<1>14. inHandler' \in [Process -> BOOLEAN]
  <2>1. CASE HandleSigusr1(p)
    <3>1. slot[p] \in Slot => pss_signalFlags[slot[p]] \in BOOLEAN
      BY <1>1
    <3>2. mySlotSet[p] => slot[p] \in Slot
      BY <1>0, <1>1 DEF OwnInv, Running
    <3> QED
      BY <1>2, <2>1, <3>1, <3>2 DEF HandleSigusr1
  <2>2. CASE ~HandleSigusr1(p)
    BY <1>2, <2>2 DEF ActionOf, Start, ClearFlags, ClearMask, ReadGeneration, WriteGeneration,
       SetPid, Remember, Exit, MaxGeneration, ClearPid, SendLookup, SendKill, Publish, SetBit,
       Increment, ReadPid, SetFlag, SendSigusr1, WaitSlot, HandleSigusr1,
       HandleBarrierInterrupt, Absorb, ReadGenerations, ExchangeMask, ProcessType,
       ProcessTypeLater, ProcessTypeError, ReportGeneration, UseState, Go, At, Absorbing,
       EndEmit, EndAbsorb, NextSlot, Kill, ResetBits, slotVars, joinVars, emitVars, absorbVars,
       countVars, selfVars, auxVars
  <2> QED
    BY <2>1, <2>2
<1>15. success' \in [Process -> BOOLEAN]
  BY <1>2 DEF ActionOf, Start, ClearFlags, ClearMask, ReadGeneration, WriteGeneration, SetPid,
     Remember, Exit, MaxGeneration, ClearPid, SendLookup, SendKill, Publish, SetBit, Increment,
     ReadPid, SetFlag, SendSigusr1, WaitSlot, HandleSigusr1, HandleBarrierInterrupt, Absorb,
     ReadGenerations, ExchangeMask, ProcessType, ProcessTypeLater, ProcessTypeError,
     ReportGeneration, UseState, Go, At, Absorbing, EndEmit, EndAbsorb, NextSlot, Kill,
     ResetBits, slotVars, joinVars, emitVars, absorbVars, countVars, selfVars, auxVars
<1>16. flags' \in [Process -> SUBSET Type]
  <2>1. CASE ExchangeMask(p)
    <3>1. bpc[p] # "idle"
      BY <2>1 DEF ExchangeMask, Absorbing
    <3>2. slot[p] \in Slot
      BY <1>0, <1>1, <3>1 DEF OwnInv
    <3> QED
      BY <1>1, <1>2, <2>1, <3>2 DEF ExchangeMask
  <2>2. CASE ~ExchangeMask(p)
    BY <1>2, <2>2 DEF ActionOf, Start, ClearFlags, ClearMask, ReadGeneration, WriteGeneration,
       SetPid, Remember, Exit, MaxGeneration, ClearPid, SendLookup, SendKill, Publish, SetBit,
       Increment, ReadPid, SetFlag, SendSigusr1, WaitSlot, HandleSigusr1,
       HandleBarrierInterrupt, Absorb, ReadGenerations, ExchangeMask, ProcessType,
       ProcessTypeLater, ProcessTypeError, ReportGeneration, UseState, Go, At, Absorbing,
       EndEmit, EndAbsorb, NextSlot, Kill, ResetBits, slotVars, joinVars, emitVars, absorbVars,
       countVars, selfVars, auxVars
  <2> QED
    BY <2>1, <2>2
<1>17. cached' \in [Process -> [Type -> Version]]
  <2>1. CASE Exit(p)
    BY <1>2, <1>3, <2>1 DEF Exit
  <2>2. CASE ProcessType(p)
    <3>1. PICK t \in flags[p] : cached' = [cached EXCEPT ![p][t] = NothingCached]
      BY <2>2 DEF ProcessType
    <3> QED
      BY <1>2, <1>3, <3>1
  <2>3. CASE UseState(p)
    <3>1. PICK t \in Type : cached' = [cached EXCEPT ![p][t] = shared[t]]
      BY <2>3 DEF UseState
    <3> QED
      BY <1>1, <1>2, <3>1
  <2>4. CASE ~Exit(p) /\ ~ProcessType(p) /\ ~UseState(p)
    <3>1. cached' = cached
      BY <2>4 DEF ActionOf, Start, ClearFlags, ClearMask, ReadGeneration, WriteGeneration,
         SetPid, Remember, Exit, MaxGeneration, ClearPid, SendLookup, SendKill, Publish,
         SetBit, Increment, ReadPid, SetFlag, SendSigusr1, WaitSlot, HandleSigusr1,
         HandleBarrierInterrupt, Absorb, ReadGenerations, ExchangeMask, ProcessType,
         ProcessTypeLater, ProcessTypeError, ReportGeneration, UseState, Go, At, Absorbing,
         EndEmit, EndAbsorb, NextSlot, Kill, ResetBits, slotVars, joinVars, emitVars,
         absorbVars, countVars, selfVars, auxVars
    <3> QED
      BY <1>2, <3>1
  <2> QED
    BY <2>1, <2>2, <2>3, <2>4
<1>18. pc' \in [Process -> Label]
  <2>1. pc' = pc \/ \E l \in Label : pc' = [pc EXCEPT ![p] = l]
    BY DEF Label, ActionOf, Start, ClearFlags, ClearMask, ReadGeneration, WriteGeneration,
       SetPid, Remember, Exit, MaxGeneration, ClearPid, SendLookup, SendKill, Publish, SetBit,
       Increment, ReadPid, SetFlag, SendSigusr1, WaitSlot, HandleSigusr1,
       HandleBarrierInterrupt, Absorb, ReadGenerations, ExchangeMask, ProcessType,
       ProcessTypeLater, ProcessTypeError, ReportGeneration, UseState, Go, At, Absorbing,
       EndEmit, EndAbsorb, NextSlot, Kill, ResetBits, slotVars, joinVars, emitVars, absorbVars,
       countVars, selfVars, auxVars
  <2> QED
    BY <1>2, <2>1
<1>19. bpc' \in [Process -> {"idle", "generations", "exchange", "process"}]
  BY <1>2 DEF ActionOf, Start, ClearFlags, ClearMask, ReadGeneration, WriteGeneration, SetPid,
     Remember, Exit, MaxGeneration, ClearPid, SendLookup, SendKill, Publish, SetBit, Increment,
     ReadPid, SetFlag, SendSigusr1, WaitSlot, HandleSigusr1, HandleBarrierInterrupt, Absorb,
     ReadGenerations, ExchangeMask, ProcessType, ProcessTypeLater, ProcessTypeError,
     ReportGeneration, UseState, Go, At, Absorbing, EndEmit, EndAbsorb, NextSlot, Kill,
     ResetBits, slotVars, joinVars, emitVars, absorbVars, countVars, selfVars, auxVars
<1>20. target' \in [Process -> Process \cup {NoPid}]
  <2>1. CASE ReadPid(p)
    <3>1. i[p] \in Slot
      BY <1>0, <2>1 DEF EmitInv, ReadPid, At, Emitting
    <3> QED
      BY <1>1, <1>2, <2>1, <3>1 DEF ReadPid
  <2>2. CASE ~ReadPid(p)
    BY <1>2, <2>2 DEF ActionOf, Start, ClearFlags, ClearMask, ReadGeneration, WriteGeneration,
       SetPid, Remember, Exit, MaxGeneration, ClearPid, SendLookup, SendKill, Publish, SetBit,
       Increment, ReadPid, SetFlag, SendSigusr1, WaitSlot, HandleSigusr1,
       HandleBarrierInterrupt, Absorb, ReadGenerations, ExchangeMask, ProcessType,
       ProcessTypeLater, ProcessTypeError, ReportGeneration, UseState, Go, At, Absorbing,
       EndEmit, EndAbsorb, NextSlot, Kill, ResetBits, slotVars, joinVars, emitVars, absorbVars,
       countVars, selfVars, auxVars
  <2> QED
    BY <2>1, <2>2
<1>21. shared' \in [Type -> Version] /\ emitted' \in [Process -> Barrier]
  <2>1. CASE Publish(p)
    <3>1. PICK t \in Type :
             /\ emits < MaxEmits /\ shared' = [shared EXCEPT ![t] = @ + 1]
             /\ emitted' = [emitted EXCEPT ![p] =
                              [type |-> t, version |-> shared'[t], gen |-> 0]]
      BY <2>1 DEF Publish
    <3>2. shared[t] \in Version /\ shared[t] <= emits + 1 /\ emits \in 0..MaxEmits
      BY <1>0, <1>1 DEF EmitInv, TypeOK
    <3>3. shared[t] + 1 \in Version
      BY <3>1, <3>2, ConstantsAssumption DEF Version
    <3>4. shared'[t] = shared[t] + 1 /\ shared' \in [Type -> Version]
      BY <1>1, <3>1, <3>3
    <3>5. [type |-> t, version |-> shared[t] + 1, gen |-> 0] \in Barrier
      BY <1>3, <3>3 DEF Barrier
    <3> QED
      BY <1>2, <3>1, <3>4, <3>5
  <2>2. CASE Increment(p)
    <3>1. /\ shared' = shared
          /\ emitted' = [emitted EXCEPT ![p].gen = psh_barrierGeneration + 1]
      BY <2>2 DEF Increment
    <3> QED
      BY <1>1, <1>2, <1>3, <3>1 DEF Barrier
  <2>3. CASE ~Publish(p) /\ ~Increment(p)
    <3>1. /\ shared' = shared
          /\ emitted' = emitted \/ emitted' = [emitted EXCEPT ![p] = NoBarrier]
      BY <2>3 DEF ActionOf, Start, ClearFlags, ClearMask, ReadGeneration, WriteGeneration,
         SetPid, Remember, Exit, MaxGeneration, ClearPid, SendLookup, SendKill, Publish,
         SetBit, Increment, ReadPid, SetFlag, SendSigusr1, WaitSlot, HandleSigusr1,
         HandleBarrierInterrupt, Absorb, ReadGenerations, ExchangeMask, ProcessType,
         ProcessTypeLater, ProcessTypeError, ReportGeneration, UseState, Go, At, Absorbing,
         EndEmit, EndAbsorb, NextSlot, Kill, ResetBits, slotVars, joinVars, emitVars,
         absorbVars, countVars, selfVars, auxVars
    <3> QED
      BY <1>1, <1>2, <1>3, <3>1
  <2> QED
    BY <2>1, <2>2, <2>3
<1>22. settled' \in [Type -> Version]
  <2>1. CASE WaitSlot(p)
    <3>1. emitted[p].type \in Type /\ emitted[p].version \in Version
      BY <1>2 DEF Barrier
    <3>2. settled[emitted[p].type] \in Version
      BY <1>1, <3>1
    <3>3. \A a, b \in Version : Max({a, b}) \in Version
      <4>1. \A a, b \in Version : a \in Int /\ b \in Int
        BY DEF Version
      <4>2. \A a, b \in Int : Max({a, b}) = a \/ Max({a, b}) = b
        BY DEF Max
      <4> QED
        BY <4>1, <4>2
    <3>4. Max({settled[emitted[p].type], emitted[p].version}) \in Version
      BY <3>1, <3>2, <3>3
    <3> QED
      BY <1>1, <2>1, <3>4 DEF WaitSlot
  <2>2. CASE ~WaitSlot(p)
    BY <1>1, <2>2 DEF ActionOf, Start, ClearFlags, ClearMask, ReadGeneration, WriteGeneration,
       SetPid, Remember, Exit, MaxGeneration, ClearPid, SendLookup, SendKill, Publish, SetBit,
       Increment, ReadPid, SetFlag, SendSigusr1, WaitSlot, HandleSigusr1,
       HandleBarrierInterrupt, Absorb, ReadGenerations, ExchangeMask, ProcessType,
       ProcessTypeLater, ProcessTypeError, ReportGeneration, UseState, Go, At, Absorbing,
       EndEmit, EndAbsorb, NextSlot, Kill, ResetBits, slotVars, joinVars, emitVars, absorbVars,
       countVars, selfVars, auxVars
  <2> QED
    BY <2>1, <2>2
<1>23. i' \in [Process -> 0..NumSlots + 1]
  <2>1. 0 \in 0..NumSlots + 1 /\ 1 \in 0..NumSlots + 1 /\ NumSlots \in 0..NumSlots + 1
    BY <1>4
  <2>2. CASE SetBit(p) \/ ReadPid(p) \/ SendSigusr1(p) \/ WaitSlot(p)
    <3>1. i[p] \in Slot
      BY <1>0, <2>2 DEF EmitInv, SetBit, ReadPid, SendSigusr1, WaitSlot, At, Emitting
    <3>2. i[p] + 1 \in 0..NumSlots + 1 /\ i[p] - 1 \in 0..NumSlots + 1
      BY <1>4, <3>1 DEF Slot
    <3>3. \E n \in {0, NumSlots, i[p] + 1, i[p] - 1, i[p]} : i' = [i EXCEPT ![p] = n]
      BY <1>4, <2>2 DEF SetBit, ReadPid, SendSigusr1, WaitSlot, NextSlot, EndEmit
    <3> QED
      BY <1>4, <2>1, <3>2, <3>3
  <2>3. CASE ~(SetBit(p) \/ ReadPid(p) \/ SendSigusr1(p) \/ WaitSlot(p))
    <3>1. i' = i \/ \E n \in {0, 1, NumSlots} : i' = [i EXCEPT ![p] = n]
      BY <2>3 DEF ActionOf, Start, ClearFlags, ClearMask, ReadGeneration, WriteGeneration,
         SetPid, Remember, Exit, MaxGeneration, ClearPid, SendLookup, SendKill, Publish,
         SetBit, Increment, ReadPid, SetFlag, SendSigusr1, WaitSlot, HandleSigusr1,
         HandleBarrierInterrupt, Absorb, ReadGenerations, ExchangeMask, ProcessType,
         ProcessTypeLater, ProcessTypeError, ReportGeneration, UseState, Go, At, Absorbing,
         EndEmit, EndAbsorb, NextSlot, Kill, ResetBits, slotVars, joinVars, emitVars,
         absorbVars, countVars, selfVars, auxVars
    <3> QED
      BY <1>4, <2>1, <3>1
  <2> QED
    BY <2>2, <2>3
<1>24. emits' \in 0..MaxEmits
  <2>1. emits \in 0..MaxEmits
    BY <1>0 DEF TypeOK
  <2>2. \/ emits' = emits
        \/ emits' = emits + 1 /\ emits < MaxEmits
    BY DEF ActionOf, Start, ClearFlags, ClearMask, ReadGeneration, WriteGeneration, SetPid,
       Remember, Exit, MaxGeneration, ClearPid, SendLookup, SendKill, Publish, SetBit,
       Increment, ReadPid, SetFlag, SendSigusr1, WaitSlot, HandleSigusr1,
       HandleBarrierInterrupt, Absorb, ReadGenerations, ExchangeMask, ProcessType,
       ProcessTypeLater, ProcessTypeError, ReportGeneration, UseState, Go, At, Absorbing,
       EndEmit, EndAbsorb, NextSlot, Kill, ResetBits, slotVars, joinVars, emitVars, absorbVars,
       countVars, selfVars, auxVars
  <2> QED
    BY <2>1, <2>2, ConstantsAssumption
<1>25. sends' \in 0..MaxSends
  <2>1. sends \in 0..MaxSends
    BY <1>0 DEF TypeOK
  <2>2. \/ sends' = sends
        \/ sends' = sends + 1 /\ sends < MaxSends
    BY DEF ActionOf, Start, ClearFlags, ClearMask, ReadGeneration, WriteGeneration, SetPid,
       Remember, Exit, MaxGeneration, ClearPid, SendLookup, SendKill, Publish, SetBit,
       Increment, ReadPid, SetFlag, SendSigusr1, WaitSlot, HandleSigusr1,
       HandleBarrierInterrupt, Absorb, ReadGenerations, ExchangeMask, ProcessType,
       ProcessTypeLater, ProcessTypeError, ReportGeneration, UseState, Go, At, Absorbing,
       EndEmit, EndAbsorb, NextSlot, Kill, ResetBits, slotVars, joinVars, emitVars, absorbVars,
       countVars, selfVars, auxVars
  <2> QED
    BY <2>1, <2>2, ConstantsAssumption
<1>26. fails' \in 0..MaxFails
  <2>1. fails \in 0..MaxFails
    BY <1>0 DEF TypeOK
  <2>2. \/ fails' = fails
        \/ fails' = fails + 1 /\ fails < MaxFails
    BY DEF ActionOf, Start, ClearFlags, ClearMask, ReadGeneration, WriteGeneration, SetPid,
       Remember, Exit, MaxGeneration, ClearPid, SendLookup, SendKill, Publish, SetBit,
       Increment, ReadPid, SetFlag, SendSigusr1, WaitSlot, HandleSigusr1,
       HandleBarrierInterrupt, Absorb, ReadGenerations, ExchangeMask, ProcessType,
       ProcessTypeLater, ProcessTypeError, ReportGeneration, UseState, Go, At, Absorbing,
       EndEmit, EndAbsorb, NextSlot, Kill, ResetBits, slotVars, joinVars, emitVars, absorbVars,
       countVars, selfVars, auxVars
  <2> QED
    BY <2>1, <2>2, ConstantsAssumption
<1>27. overtaken' \subseteq Process
  BY <1>2 DEF ActionOf, Start, ClearFlags, ClearMask, ReadGeneration, WriteGeneration, SetPid,
     Remember, Exit, MaxGeneration, ClearPid, SendLookup, SendKill, Publish, SetBit, Increment,
     ReadPid, SetFlag, SendSigusr1, WaitSlot, HandleSigusr1, HandleBarrierInterrupt, Absorb,
     ReadGenerations, ExchangeMask, ProcessType, ProcessTypeLater, ProcessTypeError,
     ReportGeneration, UseState, Go, At, Absorbing, EndEmit, EndAbsorb, NextSlot, Kill,
     ResetBits, slotVars, joinVars, emitVars, absorbVars, countVars, selfVars, auxVars
<1> QED
  BY <1>5, <1>6, <1>7, <1>8, <1>9, <1>10, <1>11, <1>12, <1>13, <1>14, <1>15, <1>16, <1>17,
     <1>18, <1>19, <1>20, <1>21, <1>22, <1>23, <1>24, <1>25, <1>26, <1>27 DEF TypeOK

(* In the slot of another process that is alive a step can only set a bit  *)
(* or the flag.                                                            *)
LEMMA OthersSlot ==
  ASSUME IInv, NEW p \in Process, ActionOf(p), NEW q \in Process, q # p, Alive(q)
  PROVE  /\ slot'[q] = slot[q] /\ slot[q] \in Slot
         /\ pss_pid'[slot[q]] = pss_pid[slot[q]]
         /\ pss_barrierGeneration'[slot[q]] = pss_barrierGeneration[slot[q]]
         /\ pss_barrierCheckMask[slot[q]] \subseteq pss_barrierCheckMask'[slot[q]]
         /\ pss_signalFlags[slot[q]] => pss_signalFlags'[slot[q]]
<1>1. TypeOK /\ OwnInv
  BY DEF IInv
<1>2. slot'[q] = slot[q]
  BY <1>1, PrivateFrame
<1>3. slot[q] \in Slot
  BY <1>1 DEF TypeOK, OwnInv, Alive
<1>4. CASE slot[q] # slot[p]
  BY <1>1, <1>2, <1>3, <1>4, SlotFrame
<1>5. CASE slot[q] = slot[p]
  <2>1. ~Alive(p) /\ slot[p] # NoSlot
    BY <1>1, <1>3, <1>5 DEF OwnInv, Slot, NoSlot
  <2>2. pc[p] = "gone" /\ ~inHandler[p] /\ bpc[p] = "idle"
    BY <1>1, <2>1 DEF OwnInv, Alive, Running
  <2>3. UNCHANGED slotVars
    BY <2>2 DEF ActionOf, Start, ClearFlags, ClearMask, ReadGeneration, WriteGeneration,
       SetPid, Remember, Exit, MaxGeneration, ClearPid, SendLookup, SendKill, Publish, SetBit,
       Increment, ReadPid, SetFlag, SendSigusr1, WaitSlot, HandleSigusr1,
       HandleBarrierInterrupt, Absorb, ReadGenerations, ExchangeMask, ProcessType,
       ProcessTypeLater, ProcessTypeError, ReportGeneration, UseState, Go, At, Absorbing,
       EndEmit, EndAbsorb, NextSlot, Kill, ResetBits, slotVars, joinVars, emitVars, absorbVars,
       countVars, selfVars, auxVars
  <2> QED
    BY <1>2, <1>3, <2>3 DEF slotVars
<1> QED
  BY <1>4, <1>5

(* Who has which slot.                                                     *)
LEMMA OwnStep ==
  ASSUME IInv, NEW p \in Process, ActionOf(p)
  PROVE  OwnInv'
<1>0. TypeOK /\ OwnInv
  BY DEF IInv
<1>1. /\ pc \in [Process -> Label] /\ slot \in [Process -> Slot \cup {NoSlot}]
      /\ bpc \in [Process -> {"idle", "generations", "exchange", "process"}]
      /\ mySlotSet \in [Process -> BOOLEAN] /\ inHandler \in [Process -> BOOLEAN]
      /\ pss_pid \in [Slot -> Process \cup {NoPid}] /\ taken \subseteq Slot
  BY <1>0 DEF TypeOK
<1>2. NoSlot \notin Slot /\ NoPid \notin Process
  <2>1. NoSlot \notin Slot
    BY DEF NoSlot, Slot
  <2>2. NoPid \notin Process
    BY ConstantsAssumption
  <2> QED
    BY <2>1, <2>2
<1>3. \A q \in Process : pc[q] \in Listed => Alive(q)
  BY DEF Listed, Running, Alive
<1>4. ASSUME NEW q \in Process
      PROVE  slot'[q] # NoSlot <=> pc'[q] # "out"
  <2>1. CASE q = p
    BY <1>0, <1>1, <1>2, <2>1 DEF OwnInv, ActionOf, Start, ClearFlags, ClearMask,
       ReadGeneration, WriteGeneration, SetPid, Remember, Exit, MaxGeneration, ClearPid,
       SendLookup, SendKill, Publish, SetBit, Increment, ReadPid, SetFlag, SendSigusr1,
       WaitSlot, HandleSigusr1, HandleBarrierInterrupt, Absorb, ReadGenerations, ExchangeMask,
       ProcessType, ProcessTypeLater, ProcessTypeError, ReportGeneration, UseState, Go, At,
       Absorbing, EndEmit, EndAbsorb, NextSlot, Kill, ResetBits, slotVars, joinVars, emitVars,
       absorbVars, countVars, selfVars, auxVars
  <2>2. CASE q # p
    BY <1>0, <2>2, PrivateFrame DEF OwnInv
  <2> QED
    BY <2>1, <2>2
<1>5. \/ Start(p)
      \/ slot' = slot /\ (ClearPid(p) \/ taken' = taken)
  BY DEF ActionOf, Start, ClearFlags, ClearMask, ReadGeneration, WriteGeneration, SetPid,
     Remember, Exit, MaxGeneration, ClearPid, SendLookup, SendKill, Publish, SetBit, Increment,
     ReadPid, SetFlag, SendSigusr1, WaitSlot, HandleSigusr1, HandleBarrierInterrupt, Absorb,
     ReadGenerations, ExchangeMask, ProcessType, ProcessTypeLater, ProcessTypeError,
     ReportGeneration, UseState, Go, At, Absorbing, EndEmit, EndAbsorb, NextSlot, Kill,
     ResetBits, slotVars, joinVars, emitVars, absorbVars, countVars, selfVars, auxVars
<1>6. ~Start(p) => (Alive(p)' => Alive(p))
  BY <1>0, <1>1 DEF Alive, OwnInv, Running, ActionOf, Start, ClearFlags, ClearMask,
     ReadGeneration, WriteGeneration, SetPid, Remember, Exit, MaxGeneration, ClearPid,
     SendLookup, SendKill, Publish, SetBit, Increment, ReadPid, SetFlag, SendSigusr1, WaitSlot,
     HandleSigusr1, HandleBarrierInterrupt, Absorb, ReadGenerations, ExchangeMask, ProcessType,
     ProcessTypeLater, ProcessTypeError, ReportGeneration, UseState, Go, At, Absorbing,
     EndEmit, EndAbsorb, NextSlot, Kill, ResetBits, slotVars, joinVars, emitVars, absorbVars,
     countVars, selfVars, auxVars
<1>7. ASSUME NEW q \in Process, Alive(q)'
      PROVE  slot'[q] \in taken'
  <2>1. CASE Start(p)
    <3>1. CASE q = p
      BY <1>1, <2>1, <3>1 DEF Start
    <3>2. CASE q # p
      <4>1. Alive(q) /\ slot'[q] = slot[q]
        BY <1>0, <1>7, <3>2, PrivateFrame DEF Alive
      <4> QED
        BY <1>0, <2>1, <4>1 DEF OwnInv, Start
    <3> QED
      BY <3>1, <3>2
  <2>2. CASE ClearPid(p)
    <3>1. q # p
      BY <1>1, <1>7, <2>2 DEF ClearPid, Go, Alive
    <3>2. Alive(q) /\ slot'[q] = slot[q] /\ Alive(p)
      BY <1>0, <1>7, <2>2, <3>1, PrivateFrame DEF Alive, ClearPid, At
    <3> QED
      BY <1>0, <2>2, <3>1, <3>2 DEF OwnInv, ClearPid
  <2>3. CASE ~Start(p) /\ ~ClearPid(p)
    <3>1. Alive(q)
      BY <1>0, <1>6, <1>7, <2>3, PrivateFrame DEF Alive
    <3> QED
      BY <1>0, <1>5, <2>3, <3>1 DEF OwnInv
  <2> QED
    BY <2>1, <2>2, <2>3
<1>8. ASSUME NEW q \in Process, NEW r \in Process, Alive(q)', Alive(r)', slot'[q] = slot'[r]
      PROVE  q = r
  <2>1. CASE Start(p)
    <3>1. slot'[p] \notin taken
      BY <1>1, <2>1 DEF Start
    <3>2. ASSUME NEW x \in Process, Alive(x)', x # p
          PROVE  Alive(x) /\ slot'[x] = slot[x] /\ slot[x] \in taken
      BY <1>0, <3>2, PrivateFrame DEF Alive, OwnInv
    <3> QED
      BY <1>0, <1>8, <3>1, <3>2 DEF OwnInv
  <2>2. CASE ~Start(p)
    <3>1. ASSUME NEW x \in Process, Alive(x)'
          PROVE  Alive(x) /\ slot'[x] = slot[x]
      BY <1>0, <1>5, <1>6, <2>2, <3>1, PrivateFrame DEF Alive
    <3> QED
      BY <1>0, <1>8, <3>1 DEF OwnInv
  <2> QED
    BY <2>1, <2>2
<1>9. ASSUME NEW q \in Process
      PROVE  /\ mySlotSet'[q] <=> pc'[q] \in Running
             /\ inHandler'[q] => pc'[q] \in Running
             /\ bpc'[q] # "idle" => pc'[q] \in {"run", "wait"}
  <2>1. CASE q = p
    <3>1. mySlotSet'[p] <=> pc'[p] \in Running
      BY <1>0, <1>1 DEF OwnInv, Running, ActionOf, Start, ClearFlags, ClearMask,
         ReadGeneration, WriteGeneration, SetPid, Remember, Exit, MaxGeneration, ClearPid,
         SendLookup, SendKill, Publish, SetBit, Increment, ReadPid, SetFlag, SendSigusr1,
         WaitSlot, HandleSigusr1, HandleBarrierInterrupt, Absorb, ReadGenerations,
         ExchangeMask, ProcessType, ProcessTypeLater, ProcessTypeError, ReportGeneration,
         UseState, Go, At, Absorbing, EndEmit, EndAbsorb, NextSlot, Kill, ResetBits, slotVars,
         joinVars, emitVars, absorbVars, countVars, selfVars, auxVars
    <3>2. inHandler'[p] => pc'[p] \in Running
      BY <1>0, <1>1 DEF OwnInv, Running, ActionOf, Start, ClearFlags, ClearMask,
         ReadGeneration, WriteGeneration, SetPid, Remember, Exit, MaxGeneration, ClearPid,
         SendLookup, SendKill, Publish, SetBit, Increment, ReadPid, SetFlag, SendSigusr1,
         WaitSlot, HandleSigusr1, HandleBarrierInterrupt, Absorb, ReadGenerations,
         ExchangeMask, ProcessType, ProcessTypeLater, ProcessTypeError, ReportGeneration,
         UseState, Go, At, Absorbing, EndEmit, EndAbsorb, NextSlot, Kill, ResetBits, slotVars,
         joinVars, emitVars, absorbVars, countVars, selfVars, auxVars
    <3>3. bpc'[p] # "idle" => pc'[p] \in {"run", "wait"}
      BY <1>0, <1>1 DEF OwnInv, ActionOf, Start, ClearFlags, ClearMask, ReadGeneration,
         WriteGeneration, SetPid, Remember, Exit, MaxGeneration, ClearPid, SendLookup,
         SendKill, Publish, SetBit, Increment, ReadPid, SetFlag, SendSigusr1, WaitSlot,
         HandleSigusr1, HandleBarrierInterrupt, Absorb, ReadGenerations, ExchangeMask,
         ProcessType, ProcessTypeLater, ProcessTypeError, ReportGeneration, UseState, Go, At,
         Absorbing, EndEmit, EndAbsorb, NextSlot, Kill, ResetBits, slotVars, joinVars,
         emitVars, absorbVars, countVars, selfVars, auxVars
    <3> QED
      BY <2>1, <3>1, <3>2, <3>3
  <2>2. CASE q # p
    <3>1. /\ pc'[q] = pc[q] /\ mySlotSet'[q] = mySlotSet[q] /\ inHandler'[q] = inHandler[q]
          /\ bpc'[q] = bpc[q]
      BY <1>0, <2>2, PrivateFrame
    <3> QED
      BY <1>0, <3>1 DEF OwnInv
  <2> QED
    BY <2>1, <2>2
<1>10. ASSUME NEW q \in Process, pc'[q] \in Listed
       PROVE  pss_pid'[slot'[q]] = q
  <2>1. CASE q = p
    <3>1. CASE SetPid(p)
      <4>1. slot[p] \in Slot /\ slot' = slot /\ pss_pid' = [pss_pid EXCEPT ![slot[p]] = p]
        BY <1>0, <1>1, <3>1 DEF SetPid, At, OwnInv, joinVars
      <4> QED
        BY <1>1, <2>1, <4>1
    <3>2. CASE ~SetPid(p)
      <4>1. pc[p] \in Listed /\ pss_pid' = pss_pid /\ slot' = slot
        BY <1>0, <1>1, <1>10, <2>1, <3>2 DEF OwnInv, Listed, Running, ActionOf, Start,
           ClearFlags, ClearMask, ReadGeneration, WriteGeneration, SetPid, Remember, Exit,
           MaxGeneration, ClearPid, SendLookup, SendKill, Publish, SetBit, Increment, ReadPid,
           SetFlag, SendSigusr1, WaitSlot, HandleSigusr1, HandleBarrierInterrupt, Absorb,
           ReadGenerations, ExchangeMask, ProcessType, ProcessTypeLater, ProcessTypeError,
           ReportGeneration, UseState, Go, At, Absorbing, EndEmit, EndAbsorb, NextSlot, Kill,
           ResetBits, slotVars, joinVars, emitVars, absorbVars, countVars, selfVars, auxVars
      <4> QED
        BY <1>0, <2>1, <4>1 DEF OwnInv
    <3> QED
      BY <3>1, <3>2
  <2>2. CASE q # p
    <3>1. pc[q] \in Listed
      BY <1>0, <1>10, <2>2, PrivateFrame
    <3>2. slot'[q] = slot[q] /\ pss_pid'[slot[q]] = pss_pid[slot[q]]
      BY <1>3, <2>2, <3>1, OthersSlot
    <3> QED
      BY <1>0, <3>1, <3>2 DEF OwnInv
  <2> QED
    BY <2>1, <2>2
<1>11. ASSUME NEW s \in Slot, pss_pid'[s] # NoPid
       PROVE  slot'[pss_pid'[s]] = s
  <2>1. CASE Start(p)
    <3>1. pss_pid' = pss_pid /\ slot[p] = NoSlot
      BY <1>0, <2>1 DEF Start, At, OwnInv, slotVars
    <3>2. slot[pss_pid[s]] = s
      BY <1>0, <1>11, <3>1 DEF OwnInv
    <3>3. pss_pid[s] \in Process /\ pss_pid[s] # p
      BY <1>1, <1>2, <1>11, <3>1, <3>2
    <3> QED
      BY <1>0, <3>1, <3>2, <3>3, PrivateFrame
  <2>2. CASE SetPid(p)
    <3>1. slot[p] \in Slot /\ slot' = slot /\ pss_pid' = [pss_pid EXCEPT ![slot[p]] = p]
      BY <1>0, <1>1, <2>2 DEF SetPid, At, OwnInv, joinVars
    <3> QED
      BY <1>0, <1>1, <1>11, <3>1 DEF OwnInv
  <2>3. CASE ClearPid(p)
    <3>1. slot' = slot /\ pss_pid' = [pss_pid EXCEPT ![slot[p]] = NoPid]
      BY <2>3 DEF ClearPid
    <3> QED
      BY <1>0, <1>1, <1>11, <3>1 DEF OwnInv
  <2>4. CASE ~Start(p) /\ ~SetPid(p) /\ ~ClearPid(p)
    <3>1. pss_pid' = pss_pid /\ slot' = slot
      BY <2>4 DEF ActionOf, Start, ClearFlags, ClearMask, ReadGeneration, WriteGeneration,
         SetPid, Remember, Exit, MaxGeneration, ClearPid, SendLookup, SendKill, Publish,
         SetBit, Increment, ReadPid, SetFlag, SendSigusr1, WaitSlot, HandleSigusr1,
         HandleBarrierInterrupt, Absorb, ReadGenerations, ExchangeMask, ProcessType,
         ProcessTypeLater, ProcessTypeError, ReportGeneration, UseState, Go, At, Absorbing,
         EndEmit, EndAbsorb, NextSlot, Kill, ResetBits, slotVars, joinVars, emitVars,
         absorbVars, countVars, selfVars, auxVars
    <3> QED
      BY <1>0, <1>11, <3>1 DEF OwnInv
  <2> QED
    BY <2>1, <2>2, <2>3, <2>4
<1> QED
  BY <1>4, <1>7, <1>8, <1>9, <1>10, <1>11 DEF OwnInv

(* Publish adds its process to those that prepare a barrier, Increment     *)
(* takes it away.                                                          *)
LEMMA CountStep ==
  ASSUME IInv, NEW p \in Process, ActionOf(p)
  PROVE  CountInv'
<1>0. TypeOK /\ CountInv
  BY DEF IInv
<1>1. pc \in [Process -> Label]
  BY <1>0 DEF TypeOK
<1>2. psh_barrierGeneration \in Nat /\ emits \in Nat /\ Cardinality(InPreparation) \in Nat
  BY <1>0, GenBound
<1>3. IsFiniteSet(InPreparation) /\ psh_barrierGeneration + Cardinality(InPreparation) = emits
  BY <1>0 DEF CountInv
<1>4. CASE Publish(p)
  <2>1. /\ pc[p] = "run" /\ pc' = [pc EXCEPT ![p] = "setBit"] /\ emits' = emits + 1
        /\ psh_barrierGeneration' = psh_barrierGeneration
    BY <1>4 DEF Publish, At, Go, slotVars
  <2>2. InPreparation' = InPreparation \cup {p} /\ p \notin InPreparation
    BY <1>1, <2>1 DEF InPreparation, Preparing
  <2>3. /\ IsFiniteSet(InPreparation \cup {p})
        /\ Cardinality(InPreparation \cup {p}) = Cardinality(InPreparation) + 1
    BY <1>3, <2>2, FS_AddElement
  <2> QED
    BY <1>2, <1>3, <2>1, <2>2, <2>3 DEF CountInv
<1>5. CASE Increment(p)
  <2>1. /\ pc[p] = "increment" /\ pc' = [pc EXCEPT ![p] = "readPid"] /\ emits' = emits
        /\ psh_barrierGeneration' = psh_barrierGeneration + 1
    BY <1>5 DEF Increment, At, Go, auxVars, countVars
  <2>2. InPreparation' = InPreparation \ {p} /\ p \in InPreparation
    BY <1>1, <2>1 DEF InPreparation, Preparing
  <2>3. /\ IsFiniteSet(InPreparation \ {p})
        /\ Cardinality(InPreparation \ {p}) = Cardinality(InPreparation) - 1
    BY <1>3, <2>2, FS_RemoveElement
  <2> QED
    BY <1>2, <1>3, <2>1, <2>2, <2>3 DEF CountInv
<1>6. CASE ~Publish(p) /\ ~Increment(p)
  <2>1. /\ emits' = emits /\ psh_barrierGeneration' = psh_barrierGeneration
        /\ pc'[p] \in Preparing <=> pc[p] \in Preparing
    <3>1. OwnInv
      BY DEF IInv
    <3> QED
      BY <1>1, <1>6, <3>1 DEF OwnInv, Running, Preparing, ActionOf, Start, ClearFlags,
         ClearMask, ReadGeneration, WriteGeneration, SetPid, Remember, Exit, MaxGeneration,
         ClearPid, SendLookup, SendKill, Publish, SetBit, Increment, ReadPid, SetFlag,
         SendSigusr1, WaitSlot, HandleSigusr1, HandleBarrierInterrupt, Absorb, ReadGenerations,
         ExchangeMask, ProcessType, ProcessTypeLater, ProcessTypeError, ReportGeneration,
         UseState, Go, At, Absorbing, EndEmit, EndAbsorb, NextSlot, Kill, ResetBits, slotVars,
         joinVars, emitVars, absorbVars, countVars, selfVars, auxVars
  <2>2. \A q \in Process : q # p => pc'[q] = pc[q]
    BY <1>0, PrivateFrame
  <2>3. InPreparation' = InPreparation
    BY <2>1, <2>2 DEF InPreparation
  <2> QED
    BY <1>3, <2>1, <2>3 DEF CountInv
<1> QED
  BY <1>4, <1>5, <1>6

(* The generation only grows, and no process is ahead of it.               *)
LEMMA GenStep ==
  ASSUME IInv, NEW p \in Process, ActionOf(p)
  PROVE  GenInv'
<1>0. TypeOK /\ OwnInv /\ GenInv /\ CountInv
  BY DEF IInv
<1>1. /\ pc \in [Process -> Label] /\ slot \in [Process -> Slot \cup {NoSlot}]
      /\ bpc \in [Process -> {"idle", "generations", "exchange", "process"}]
      /\ pss_barrierGeneration \in [Slot -> Generation]
      /\ generation \in [Process -> Generation] /\ shared_gen \in [Process -> Generation]
  BY <1>0 DEF TypeOK
<1>2. /\ psh_barrierGeneration \in Nat /\ psh_barrierGeneration' \in Nat
      /\ psh_barrierGeneration <= psh_barrierGeneration'
  <2>1. psh_barrierGeneration \in Nat
    BY <1>0, GenBound
  <2>2. \/ psh_barrierGeneration' = psh_barrierGeneration
        \/ psh_barrierGeneration' = psh_barrierGeneration + 1
    BY DEF ActionOf, Start, ClearFlags, ClearMask, ReadGeneration, WriteGeneration, SetPid,
       Remember, Exit, MaxGeneration, ClearPid, SendLookup, SendKill, Publish, SetBit,
       Increment, ReadPid, SetFlag, SendSigusr1, WaitSlot, HandleSigusr1,
       HandleBarrierInterrupt, Absorb, ReadGenerations, ExchangeMask, ProcessType,
       ProcessTypeLater, ProcessTypeError, ReportGeneration, UseState, Go, At, Absorbing,
       EndEmit, EndAbsorb, NextSlot, Kill, ResetBits, slotVars, joinVars, emitVars, absorbVars,
       countVars, selfVars, auxVars
  <2> QED
    BY <2>1, <2>2
<1>3. \A g \in Generation : g \in Nat
  BY DEF Generation
<1>4. \A q \in Process : pc[q] # "out" => slot[q] \in Slot
  BY <1>0, <1>1 DEF OwnInv
<1>5. \A q \in Process : pc[q] # "out" => pss_barrierGeneration[slot[q]] \in Nat
  BY <1>1, <1>3, <1>4
<1>6. \A q \in Process : generation[q] \in Nat /\ shared_gen[q] \in Nat
  BY <1>1, <1>3
<1>7. ASSUME NEW q \in Process, q # p
      PROVE  /\ pc'[q] \in HasGen =>
                  pss_barrierGeneration'[slot'[q]] <= psh_barrierGeneration'
             /\ pc'[q] = "writeGeneration" => generation'[q] <= psh_barrierGeneration'
             /\ bpc'[q] \in {"exchange", "process"} =>
                  /\ pss_barrierGeneration'[slot'[q]] <= shared_gen'[q]
                  /\ shared_gen'[q] <= psh_barrierGeneration'
  <2>1. /\ pc'[q] = pc[q] /\ bpc'[q] = bpc[q] /\ generation'[q] = generation[q]
        /\ shared_gen'[q] = shared_gen[q]
    BY <1>0, <1>7, PrivateFrame
  <2>2. pc[q] \in HasGen \/ bpc[q] # "idle" => Alive(q)
    BY <1>0 DEF HasGen, Running, Alive, OwnInv
  <2>3. Alive(q) => pss_barrierGeneration'[slot'[q]] = pss_barrierGeneration[slot[q]]
    BY <1>7, OthersSlot
  <2>4. Alive(q) => pss_barrierGeneration[slot[q]] \in Nat
    BY <1>5 DEF Alive
  <2>5. pc'[q] \in HasGen => pss_barrierGeneration'[slot'[q]] <= psh_barrierGeneration'
    <3>1. SUFFICES ASSUME pc[q] \in HasGen
                   PROVE  pss_barrierGeneration[slot[q]] <= psh_barrierGeneration'
      BY <2>1, <2>2, <2>3
    <3>2. pss_barrierGeneration[slot[q]] <= psh_barrierGeneration
      BY <1>0, <3>1 DEF GenInv
    <3> QED
      BY <1>2, <2>2, <2>4, <3>1, <3>2
  <2>6. pc'[q] = "writeGeneration" => generation'[q] <= psh_barrierGeneration'
    <3>1. pc[q] = "writeGeneration" => generation[q] <= psh_barrierGeneration
      BY <1>0 DEF GenInv
    <3> QED
      BY <1>2, <1>6, <2>1, <3>1
  <2>7. ASSUME bpc'[q] \in {"exchange", "process"}
        PROVE  /\ pss_barrierGeneration'[slot'[q]] <= shared_gen'[q]
               /\ shared_gen'[q] <= psh_barrierGeneration'
    <3>1. /\ pss_barrierGeneration[slot[q]] <= shared_gen[q]
          /\ shared_gen[q] <= psh_barrierGeneration
      BY <1>0, <2>1, <2>7 DEF GenInv
    <3>2. Alive(q)
      BY <2>1, <2>2, <2>7
    <3>3. pss_barrierGeneration'[slot'[q]] <= shared_gen'[q]
      BY <2>1, <2>3, <3>1, <3>2
    <3> QED
      BY <1>2, <1>6, <2>1, <3>1, <3>3
  <2> QED
    BY <2>5, <2>6, <2>7
<1>8. ASSUME pc'[p] \in HasGen
      PROVE  pss_barrierGeneration'[slot'[p]] <= psh_barrierGeneration'
  <2>1. CASE WriteGeneration(p)
    <3>1. /\ pc[p] = "writeGeneration" /\ slot' = slot
          /\ pss_barrierGeneration' = [pss_barrierGeneration EXCEPT ![slot[p]] = generation[p]]
          /\ psh_barrierGeneration' = psh_barrierGeneration
      BY <2>1 DEF WriteGeneration, At
    <3>2. pss_barrierGeneration'[slot'[p]] = generation[p]
      BY <1>1, <1>4, <3>1
    <3> QED
      BY <1>0, <3>1, <3>2 DEF GenInv
  <2>2. CASE ReportGeneration(p)
    <3>1. /\ bpc[p] = "process" /\ slot' = slot /\ pc' = pc
          /\ \/ pss_barrierGeneration' = pss_barrierGeneration
             \/ pss_barrierGeneration' = [pss_barrierGeneration EXCEPT ![slot[p]] = shared_gen[p]]
          /\ psh_barrierGeneration' = psh_barrierGeneration
      BY <2>2 DEF ReportGeneration, Absorbing, joinVars
    <3>2. pc[p] # "out" /\ pc[p] \in HasGen
      BY <1>0, <3>1 DEF OwnInv, HasGen, Running
    <3>3. \/ pss_barrierGeneration'[slot'[p]] = shared_gen[p]
          \/ pss_barrierGeneration'[slot'[p]] = pss_barrierGeneration[slot[p]]
      BY <1>1, <1>4, <3>1, <3>2
    <3> QED
      BY <1>0, <3>1, <3>2, <3>3 DEF GenInv
  <2>3. CASE ~WriteGeneration(p) /\ ~ReportGeneration(p)
    <3>1. pc[p] \in HasGen /\ pss_barrierGeneration' = pss_barrierGeneration /\ slot' = slot
      BY <1>0, <1>1, <1>8, <2>3 DEF OwnInv, HasGen, Running, ActionOf, Start, ClearFlags,
         ClearMask, ReadGeneration, WriteGeneration, SetPid, Remember, Exit, MaxGeneration,
         ClearPid, SendLookup, SendKill, Publish, SetBit, Increment, ReadPid, SetFlag,
         SendSigusr1, WaitSlot, HandleSigusr1, HandleBarrierInterrupt, Absorb, ReadGenerations,
         ExchangeMask, ProcessType, ProcessTypeLater, ProcessTypeError, ReportGeneration,
         UseState, Go, At, Absorbing, EndEmit, EndAbsorb, NextSlot, Kill, ResetBits, slotVars,
         joinVars, emitVars, absorbVars, countVars, selfVars, auxVars
    <3>2. pss_barrierGeneration[slot[p]] <= psh_barrierGeneration
      BY <1>0, <3>1 DEF GenInv
    <3>3. pss_barrierGeneration[slot[p]] \in Nat
      BY <1>5, <3>1 DEF HasGen, Running
    <3> QED
      BY <1>2, <3>1, <3>2, <3>3
  <2> QED
    BY <2>1, <2>2, <2>3
<1>9. ASSUME pc'[p] = "writeGeneration"
      PROVE  generation'[p] <= psh_barrierGeneration'
  <2>1. CASE ReadGeneration(p)
    <3>1. generation'[p] = psh_barrierGeneration
      BY <1>1, <2>1 DEF ReadGeneration
    <3> QED
      BY <1>2, <3>1
  <2>2. CASE ~ReadGeneration(p)
    <3>1. pc[p] = "writeGeneration" /\ generation'[p] = generation[p]
      BY <1>0, <1>1, <1>9, <2>2 DEF OwnInv, Running, ActionOf, Start, ClearFlags, ClearMask,
         ReadGeneration, WriteGeneration, SetPid, Remember, Exit, MaxGeneration, ClearPid,
         SendLookup, SendKill, Publish, SetBit, Increment, ReadPid, SetFlag, SendSigusr1,
         WaitSlot, HandleSigusr1, HandleBarrierInterrupt, Absorb, ReadGenerations,
         ExchangeMask, ProcessType, ProcessTypeLater, ProcessTypeError, ReportGeneration,
         UseState, Go, At, Absorbing, EndEmit, EndAbsorb, NextSlot, Kill, ResetBits, slotVars,
         joinVars, emitVars, absorbVars, countVars, selfVars, auxVars
    <3>2. generation[p] <= psh_barrierGeneration
      BY <1>0, <3>1 DEF GenInv
    <3> QED
      BY <1>2, <1>6, <3>1, <3>2
  <2> QED
    BY <2>1, <2>2
<1>10. ASSUME bpc'[p] \in {"exchange", "process"}
       PROVE  /\ pss_barrierGeneration'[slot'[p]] <= shared_gen'[p]
              /\ shared_gen'[p] <= psh_barrierGeneration'
  <2>1. CASE ReadGenerations(p)
    <3>1. /\ bpc[p] # "idle" /\ slot' = slot
          /\ pss_barrierGeneration' = pss_barrierGeneration
          /\ psh_barrierGeneration' = psh_barrierGeneration
      BY <2>1 DEF ReadGenerations, Absorbing, slotVars, joinVars
    <3>2. shared_gen' = [shared_gen EXCEPT ![p] = psh_barrierGeneration]
      BY <1>1, <1>10, <2>1 DEF ReadGenerations, EndAbsorb
    <3>3. shared_gen'[p] = psh_barrierGeneration
      BY <1>1, <3>2
    <3>4. pc[p] \in HasGen
      BY <1>0, <3>1 DEF OwnInv, HasGen, Running
    <3>5. pss_barrierGeneration[slot[p]] <= psh_barrierGeneration
      BY <1>0, <3>4 DEF GenInv
    <3> QED
      BY <1>2, <3>1, <3>3, <3>5
  <2>2. CASE ~ReadGenerations(p)
    <3>1. bpc[p] \in {"exchange", "process"} /\ shared_gen'[p] = shared_gen[p]
      BY <1>0, <1>1, <1>10, <2>2 DEF OwnInv, ActionOf, Start, ClearFlags, ClearMask,
         ReadGeneration, WriteGeneration, SetPid, Remember, Exit, MaxGeneration, ClearPid,
         SendLookup, SendKill, Publish, SetBit, Increment, ReadPid, SetFlag, SendSigusr1,
         WaitSlot, HandleSigusr1, HandleBarrierInterrupt, Absorb, ReadGenerations,
         ExchangeMask, ProcessType, ProcessTypeLater, ProcessTypeError, ReportGeneration,
         UseState, Go, At, Absorbing, EndEmit, EndAbsorb, NextSlot, Kill, ResetBits, slotVars,
         joinVars, emitVars, absorbVars, countVars, selfVars, auxVars
    <3>2. pss_barrierGeneration' = pss_barrierGeneration /\ slot' = slot
      BY <1>0, <1>1, <1>10, <2>2, <3>1 DEF OwnInv, ActionOf, Start, ClearFlags, ClearMask,
         ReadGeneration, WriteGeneration, SetPid, Remember, Exit, MaxGeneration, ClearPid,
         SendLookup, SendKill, Publish, SetBit, Increment, ReadPid, SetFlag, SendSigusr1,
         WaitSlot, HandleSigusr1, HandleBarrierInterrupt, Absorb, ReadGenerations,
         ExchangeMask, ProcessType, ProcessTypeLater, ProcessTypeError, ReportGeneration,
         UseState, Go, At, Absorbing, EndEmit, EndAbsorb, NextSlot, Kill, ResetBits, slotVars,
         joinVars, emitVars, absorbVars, countVars, selfVars, auxVars
    <3>3. /\ pss_barrierGeneration[slot[p]] <= shared_gen[p]
          /\ shared_gen[p] <= psh_barrierGeneration
      BY <1>0, <3>1 DEF GenInv
    <3>4. pss_barrierGeneration'[slot'[p]] <= shared_gen'[p]
      BY <3>1, <3>2, <3>3
    <3> QED
      BY <1>2, <1>6, <3>1, <3>3, <3>4
  <2> QED
    BY <2>1, <2>2
<1>11. \A q \in Process : pc'[q] \in HasGen =>
         pss_barrierGeneration'[slot'[q]] <= psh_barrierGeneration'
  BY <1>7, <1>8
<1>12. \A q \in Process : pc'[q] = "writeGeneration" =>
         generation'[q] <= psh_barrierGeneration'
  BY <1>7, <1>9
<1>13. \A q \in Process : bpc'[q] \in {"exchange", "process"} =>
         /\ pss_barrierGeneration'[slot'[q]] <= shared_gen'[q]
         /\ shared_gen'[q] <= psh_barrierGeneration'
  BY <1>7, <1>10
<1> QED
  BY <1>11, <1>12, <1>13 DEF GenInv, HasGen, Running

(* The newer of two versions.                                              *)
LEMMA MaxOfTwo ==
  ASSUME NEW a \in Int, NEW b \in Int
  PROVE  /\ Max({a, b}) = a \/ Max({a, b}) = b
         /\ Max({a, b}) >= a /\ Max({a, b}) >= b
<1>1. \E x \in {a, b} : \A y \in {a, b} : x >= y
  BY SMT
<1>2. /\ Max({a, b}) \in {a, b}
      /\ \A y \in {a, b} : Max({a, b}) >= y
  BY <1>1 DEF Max
<1> QED
  BY <1>2

(* A version only grows.                                                   *)
LEMMA SharedGrows ==
  ASSUME IInv, NEW p \in Process, ActionOf(p), NEW t \in Type
  PROVE  /\ shared[t] \in Nat /\ shared'[t] \in Nat
         /\ shared[t] <= shared'[t] /\ shared'[t] <= emits' + 1 /\ shared'[t] >= 1
<1>1. shared \in [Type -> Version] /\ emits \in Nat /\ shared[t] <= emits + 1 /\ shared[t] >= 1
  <2>1. TypeOK /\ EmitInv /\ CountInv
    BY DEF IInv
  <2> QED
    BY <2>1, GenBound DEF TypeOK, EmitInv
<1>2. shared[t] \in Nat
  BY <1>1 DEF Version
<1>3. CASE Publish(p)
  <2>1. PICK u \in Type : shared' = [shared EXCEPT ![u] = @ + 1] /\ emits' = emits + 1
    BY <1>3 DEF Publish
  <2>2. shared'[t] = shared[t] \/ shared'[t] = shared[t] + 1
    BY <1>1, <2>1
  <2> QED
    BY <1>1, <1>2, <2>1, <2>2
<1>4. CASE ~Publish(p)
  <2>1. shared' = shared /\ emits' = emits
    BY <1>4 DEF ActionOf, Start, ClearFlags, ClearMask, ReadGeneration, WriteGeneration,
       SetPid, Remember, Exit, MaxGeneration, ClearPid, SendLookup, SendKill, Publish, SetBit,
       Increment, ReadPid, SetFlag, SendSigusr1, WaitSlot, HandleSigusr1,
       HandleBarrierInterrupt, Absorb, ReadGenerations, ExchangeMask, ProcessType,
       ProcessTypeLater, ProcessTypeError, ReportGeneration, UseState, Go, At, Absorbing,
       EndEmit, EndAbsorb, NextSlot, Kill, ResetBits, slotVars, joinVars, emitVars, absorbVars,
       countVars, selfVars, auxVars
  <2> QED
    BY <1>1, <1>2, <2>1
<1> QED
  BY <1>3, <1>4

(* The barrier of an emission stays what it is until the emission ends.    *)
LEMMA EmitFrame ==
  ASSUME IInv, NEW p \in Process, ActionOf(p), NEW e \in Process,
         pc'[e] \in Preparing \cup Emitting, ~(e = p /\ Publish(p))
  PROVE  /\ pc[e] \in Preparing \cup Emitting
         /\ emitted'[e].version = emitted[e].version /\ emitted'[e].type = emitted[e].type
         /\ ~(e = p /\ Increment(p)) =>
              /\ emitted'[e].gen = emitted[e].gen
              /\ pc'[e] \in Emitting => pc[e] \in Emitting
<1>0. TypeOK /\ OwnInv
  BY DEF IInv
<1>1. pc \in [Process -> Label] /\ emitted \in [Process -> Barrier]
  BY <1>0 DEF TypeOK
<1>2. CASE e # p
  BY <1>0, <1>2, PrivateFrame
<1>3. CASE e = p /\ Increment(p)
  <2>1. /\ pc[p] = "increment"
        /\ emitted' = [emitted EXCEPT ![p].gen = psh_barrierGeneration + 1]
    BY <1>3 DEF Increment, At
  <2>2. emitted'[p].version = emitted[p].version /\ emitted'[p].type = emitted[p].type
    BY <1>1, <2>1 DEF Barrier
  <2> QED
    BY <1>3, <2>1, <2>2 DEF Preparing
<1>4. CASE e = p /\ ~Increment(p)
  <2>1. emitted'[p] = emitted[p] /\ pc[p] \in Preparing \cup Emitting
    BY <1>0, <1>1, <1>4 DEF OwnInv, Preparing, Emitting, ActionOf, Start, ClearFlags,
       ClearMask, ReadGeneration, WriteGeneration, SetPid, Remember, Exit, MaxGeneration,
       ClearPid, SendLookup, SendKill, Publish, SetBit, Increment, ReadPid, SetFlag,
       SendSigusr1, WaitSlot, HandleSigusr1, HandleBarrierInterrupt, Absorb, ReadGenerations,
       ExchangeMask, ProcessType, ProcessTypeLater, ProcessTypeError, ReportGeneration,
       UseState, Go, At, Absorbing, EndEmit, EndAbsorb, NextSlot, Kill, ResetBits, slotVars,
       joinVars, emitVars, absorbVars, countVars, selfVars, auxVars
  <2>2. pc'[p] \in Emitting => pc[p] \in Emitting
    BY <1>0, <1>1, <1>4 DEF OwnInv, Emitting, ActionOf, Start, ClearFlags, ClearMask,
       ReadGeneration, WriteGeneration, SetPid, Remember, Exit, MaxGeneration, ClearPid,
       SendLookup, SendKill, Publish, SetBit, Increment, ReadPid, SetFlag, SendSigusr1,
       WaitSlot, HandleSigusr1, HandleBarrierInterrupt, Absorb, ReadGenerations, ExchangeMask,
       ProcessType, ProcessTypeLater, ProcessTypeError, ReportGeneration, UseState, Go, At,
       Absorbing, EndEmit, EndAbsorb, NextSlot, Kill, ResetBits, slotVars, joinVars, emitVars,
       absorbVars, countVars, selfVars, auxVars
  <2> QED
    BY <1>4, <2>1, <2>2
<1> QED
  BY <1>2, <1>3, <1>4

(* The locals of EmitProcSignalBarrier.                                    *)
LEMMA EmitStep ==
  ASSUME IInv, NEW p \in Process, ActionOf(p)
  PROVE  EmitInv'
<1>0. TypeOK /\ OwnInv /\ EmitInv
  BY DEF IInv
<1>1. /\ pc \in [Process -> Label] /\ slot \in [Process -> Slot \cup {NoSlot}]
      /\ i \in [Process -> 0..NumSlots + 1] /\ NumSlots \in Nat \ {0}
      /\ target \in [Process -> Process \cup {NoPid}]
      /\ emitted \in [Process -> Barrier]
      /\ pss_pid \in [Slot -> Process \cup {NoPid}]
      /\ settled \in [Type -> Version]
  BY <1>0, ConstantsAssumption DEF TypeOK
<1>2. NoSlot \notin Slot /\ 1 \in Slot /\ NumSlots \in Slot
  BY <1>1 DEF NoSlot, Slot
<1>3. ASSUME NEW e \in Process, pc'[e] \in Emitting \cup {"setBit"}
      PROVE  i'[e] \in Slot
  <2>1. CASE e # p
    <3>1. i'[e] = i[e] /\ pc'[e] = pc[e]
      BY <1>0, <2>1, PrivateFrame
    <3> QED
      BY <1>0, <1>3, <3>1 DEF EmitInv
  <2>2. CASE e = p /\ (SetBit(p) \/ ReadPid(p) \/ SendSigusr1(p) \/ WaitSlot(p))
    <3>1. i[p] \in Slot
      BY <1>0, <2>2 DEF EmitInv, SetBit, ReadPid, SendSigusr1, WaitSlot, At, Emitting
    <3>2. \/ i' = [i EXCEPT ![p] = NumSlots] \/ i' = i
          \/ i' = [i EXCEPT ![p] = i[p] + 1] /\ i[p] # NumSlots
          \/ i' = [i EXCEPT ![p] = i[p] - 1] /\ i[p] # 1
      BY <1>1, <1>3, <2>2 DEF SetBit, ReadPid, SendSigusr1, WaitSlot, NextSlot, EndEmit, Go,
         Emitting
    <3>3. /\ i[p] # NumSlots => i[p] + 1 \in Slot
          /\ i[p] # 1 => i[p] - 1 \in Slot
      BY <1>1, <3>1 DEF Slot
    <3> QED
      BY <1>1, <1>2, <2>2, <3>1, <3>2, <3>3
  <2>3. CASE e = p /\ ~(SetBit(p) \/ ReadPid(p) \/ SendSigusr1(p) \/ WaitSlot(p))
    <3>1. \/ i' = [i EXCEPT ![p] = NumSlots]
          \/ i' = [i EXCEPT ![p] = 1]
          \/ i' = i /\ pc[p] \in Emitting \cup {"setBit"}
      BY <1>0, <1>1, <1>3, <2>3 DEF OwnInv, Emitting, ActionOf, Start, ClearFlags, ClearMask,
         ReadGeneration, WriteGeneration, SetPid, Remember, Exit, MaxGeneration, ClearPid,
         SendLookup, SendKill, Publish, SetBit, Increment, ReadPid, SetFlag, SendSigusr1,
         WaitSlot, HandleSigusr1, HandleBarrierInterrupt, Absorb, ReadGenerations,
         ExchangeMask, ProcessType, ProcessTypeLater, ProcessTypeError, ReportGeneration,
         UseState, Go, At, Absorbing, EndEmit, EndAbsorb, NextSlot, Kill, ResetBits, slotVars,
         joinVars, emitVars, absorbVars, countVars, selfVars, auxVars
    <3> QED
      BY <1>0, <1>1, <1>2, <2>3, <3>1 DEF EmitInv
  <2> QED
    BY <2>1, <2>2, <2>3
<1>4. ASSUME NEW e \in Process, pc'[e] \in {"setFlag", "kill"}
      PROVE  target'[e] \in Process /\ slot'[target'[e]] = i'[e]
  <2>1. CASE e = p /\ ReadPid(p)
    <3>1. /\ pc[p] = "readPid" /\ target' = [target EXCEPT ![p] = pss_pid[i[p]]]
          /\ slot' = slot /\ i' = i /\ pss_pid[i[p]] # NoPid
      BY <1>1, <1>4, <2>1 DEF ReadPid, At, NextSlot, Go, joinVars
    <3>2. i[p] \in Slot
      BY <1>0, <3>1 DEF EmitInv, Emitting
    <3>3. pss_pid[i[p]] \in Process /\ slot[pss_pid[i[p]]] = i[p]
      BY <1>0, <1>1, <3>1, <3>2 DEF OwnInv
    <3> QED
      BY <1>1, <2>1, <3>1, <3>3
  <2>2. CASE ~(e = p /\ ReadPid(p))
    <3>1. pc[e] \in {"setFlag", "kill"} /\ target'[e] = target[e] /\ i'[e] = i[e]
      <4>1. CASE e = p
        BY <1>0, <1>1, <1>4, <2>2, <4>1 DEF OwnInv, ActionOf, Start, ClearFlags, ClearMask,
           ReadGeneration, WriteGeneration, SetPid, Remember, Exit, MaxGeneration, ClearPid,
           SendLookup, SendKill, Publish, SetBit, Increment, ReadPid, SetFlag, SendSigusr1,
           WaitSlot, HandleSigusr1, HandleBarrierInterrupt, Absorb, ReadGenerations,
           ExchangeMask, ProcessType, ProcessTypeLater, ProcessTypeError, ReportGeneration,
           UseState, Go, At, Absorbing, EndEmit, EndAbsorb, NextSlot, Kill, ResetBits,
           slotVars, joinVars, emitVars, absorbVars, countVars, selfVars, auxVars
      <4>2. CASE e # p
        BY <1>0, <1>4, <4>2, PrivateFrame
      <4> QED
        BY <4>1, <4>2
    <3>2. target[e] \in Process /\ slot[target[e]] = i[e] /\ i[e] \in Slot
      BY <1>0, <3>1 DEF EmitInv, Emitting
    <3>3. slot'[target[e]] = slot[target[e]]
      <4>1. CASE target[e] # p
        BY <1>0, <3>2, <4>1, PrivateFrame
      <4>2. CASE target[e] = p
        <5>1. pc[p] # "out"
          BY <1>0, <1>2, <3>2, <4>2 DEF OwnInv
        <5>2. slot' = slot
          BY <5>1 DEF ActionOf, Start, ClearFlags, ClearMask, ReadGeneration, WriteGeneration,
             SetPid, Remember, Exit, MaxGeneration, ClearPid, SendLookup, SendKill, Publish,
             SetBit, Increment, ReadPid, SetFlag, SendSigusr1, WaitSlot, HandleSigusr1,
             HandleBarrierInterrupt, Absorb, ReadGenerations, ExchangeMask, ProcessType,
             ProcessTypeLater, ProcessTypeError, ReportGeneration, UseState, Go, At, Absorbing,
             EndEmit, EndAbsorb, NextSlot, Kill, ResetBits, slotVars, joinVars, emitVars,
             absorbVars, countVars, selfVars, auxVars
        <5> QED
          BY <5>2
      <4> QED
        BY <4>1, <4>2
    <3> QED
      BY <3>1, <3>2, <3>3
  <2> QED
    BY <2>1, <2>2
<1>5. ASSUME NEW e \in Process, pc'[e] = "send"
      PROVE  target'[e] \in Process
  <2>1. CASE e # p
    BY <1>0, <1>5, <2>1, PrivateFrame DEF EmitInv
  <2>2. CASE e = p /\ SendLookup(p)
    BY <1>0, <1>1, <1>5, <2>2 DEF SendLookup, At, Go
  <2>3. CASE e = p /\ ~SendLookup(p)
    <3>1. pc[p] = "send" /\ target'[p] = target[p]
      BY <1>0, <1>1, <1>5, <2>3 DEF OwnInv, ActionOf, Start, ClearFlags, ClearMask,
         ReadGeneration, WriteGeneration, SetPid, Remember, Exit, MaxGeneration, ClearPid,
         SendLookup, SendKill, Publish, SetBit, Increment, ReadPid, SetFlag, SendSigusr1,
         WaitSlot, HandleSigusr1, HandleBarrierInterrupt, Absorb, ReadGenerations,
         ExchangeMask, ProcessType, ProcessTypeLater, ProcessTypeError, ReportGeneration,
         UseState, Go, At, Absorbing, EndEmit, EndAbsorb, NextSlot, Kill, ResetBits, slotVars,
         joinVars, emitVars, absorbVars, countVars, selfVars, auxVars
    <3> QED
      BY <1>0, <2>3, <3>1 DEF EmitInv
  <2> QED
    BY <2>1, <2>2, <2>3
<1>6. ASSUME NEW e \in Process, pc'[e] \in Preparing \cup Emitting
      PROVE  emitted'[e].version <= shared'[emitted'[e].type]
  <2>1. CASE e = p /\ Publish(p)
    <3>1. PICK t \in Type : emitted' = [emitted EXCEPT ![p] =
                               [type |-> t, version |-> shared'[t], gen |-> 0]]
      BY <2>1 DEF Publish
    <3>2. emitted'[p] = [type |-> t, version |-> shared'[t], gen |-> 0]
      BY <1>1, <3>1
    <3>3. shared'[t] \in Nat
      BY SharedGrows
    <3> QED
      BY <2>1, <3>2, <3>3
  <2>2. CASE ~(e = p /\ Publish(p))
    <3>1. /\ pc[e] \in Preparing \cup Emitting
          /\ emitted'[e].version = emitted[e].version /\ emitted'[e].type = emitted[e].type
      BY <1>6, <2>2, EmitFrame
    <3>2. emitted[e].version <= shared[emitted[e].type]
      BY <1>0, <3>1 DEF EmitInv
    <3>3. emitted[e].type \in Type /\ emitted[e].version \in Nat
      BY <1>1 DEF Barrier, Version
    <3>4. PICK u \in Type : u = emitted[e].type
      BY <3>3
    <3>5. shared[u] \in Nat /\ shared'[u] \in Nat /\ shared[u] <= shared'[u]
      BY SharedGrows
    <3> QED
      BY <3>1, <3>2, <3>3, <3>4, <3>5
  <2> QED
    BY <2>1, <2>2
<1>7. ASSUME NEW t \in Type
      PROVE  settled'[t] <= shared'[t] /\ shared'[t] <= emits' + 1 /\ shared'[t] >= 1
  <2>1. /\ shared[t] \in Nat /\ shared'[t] \in Nat /\ shared[t] <= shared'[t]
        /\ shared'[t] <= emits' + 1 /\ shared'[t] >= 1
    BY SharedGrows
  <2>2. settled[t] <= shared[t] /\ settled[t] \in Nat
    BY <1>0, <1>1 DEF EmitInv, Version
  <2>3. \/ settled'[t] = settled[t]
        \/ settled'[t] <= shared[t] /\ settled'[t] \in Nat
    <3>1. CASE WaitSlot(p)
      <4>1. /\ pc[p] = "wait"
            /\ \/ settled' = settled
               \/ settled' = [settled EXCEPT ![emitted[p].type] =
                                Max({settled[emitted[p].type], emitted[p].version})]
        BY <3>1 DEF WaitSlot, At
      <4>2. CASE t = emitted[p].type
        <5>1. emitted[p].version <= shared[t] /\ emitted[p].version \in Nat
          BY <1>0, <1>1, <4>1, <4>2 DEF EmitInv, Emitting, Barrier, Version
        <5>2. PICK a, b \in Int : a = settled[t] /\ b = emitted[p].version
          BY <2>2, <5>1
        <5>3. Max({a, b}) = a \/ Max({a, b}) = b
          BY MaxOfTwo
        <5>4. settled'[t] = settled[t] \/ settled'[t] = Max({a, b})
          BY <1>1, <4>1, <4>2, <5>2
        <5> QED
          BY <2>2, <5>1, <5>2, <5>3, <5>4
      <4>3. CASE t # emitted[p].type
        BY <1>1, <4>1, <4>3
      <4> QED
        BY <4>2, <4>3
    <3>2. CASE ~WaitSlot(p)
      <4>1. settled' = settled
        BY <3>2 DEF ActionOf, Start, ClearFlags, ClearMask, ReadGeneration, WriteGeneration,
           SetPid, Remember, Exit, MaxGeneration, ClearPid, SendLookup, SendKill, Publish,
           SetBit, Increment, ReadPid, SetFlag, SendSigusr1, WaitSlot, HandleSigusr1,
           HandleBarrierInterrupt, Absorb, ReadGenerations, ExchangeMask, ProcessType,
           ProcessTypeLater, ProcessTypeError, ReportGeneration, UseState, Go, At, Absorbing,
           EndEmit, EndAbsorb, NextSlot, Kill, ResetBits, slotVars, joinVars, emitVars,
           absorbVars, countVars, selfVars, auxVars
      <4> QED
        BY <4>1
    <3> QED
      BY <3>1, <3>2
  <2> QED
    BY <2>1, <2>2, <2>3
<1> QED
  BY <1>3, <1>4, <1>5, <1>6, <1>7 DEF EmitInv

(* What is cached is dropped before the slot is given up.                  *)
LEMMA LocalStep ==
  ASSUME IInv, NEW p \in Process, ActionOf(p)
  PROVE  LocalInv'
<1>0. TypeOK /\ OwnInv /\ LocalInv
  BY DEF IInv
<1>1. /\ pc \in [Process -> Label] /\ cached \in [Process -> [Type -> Version]]
      /\ bpc \in [Process -> {"idle", "generations", "exchange", "process"}]
      /\ success \in [Process -> BOOLEAN] /\ pending \in [Process -> BOOLEAN]
  BY <1>0 DEF TypeOK
<1>2. ASSUME NEW q \in Process, NEW t \in Type, cached'[q][t] # NothingCached
      PROVE  pc'[q] \in Running
  <2>1. CASE q # p
    BY <1>0, <1>2, <2>1, PrivateFrame DEF LocalInv
  <2>2. CASE q = p /\ Exit(p)
    <3>1. cached'[p] = [u \in Type |-> NothingCached]
      BY <1>1, <2>2 DEF Exit
    <3> QED
      BY <1>2, <2>2, <3>1
  <2>3. CASE q = p /\ UseState(p)
    BY <1>1, <2>3 DEF UseState, At, Running
  <2>4. CASE q = p /\ ~Exit(p) /\ ~UseState(p)
    <3>1. cached'[p][t] = cached[p][t] \/ cached'[p][t] = NothingCached
      <4>1. CASE ProcessType(p)
        <5>1. PICK u \in flags[p] : cached' = [cached EXCEPT ![p][u] = NothingCached]
          BY <4>1 DEF ProcessType
        <5> QED
          BY <1>1, <5>1
      <4>2. CASE ~ProcessType(p)
        <5>1. cached' = cached
          BY <2>4, <4>2 DEF ActionOf, Start, ClearFlags, ClearMask, ReadGeneration,
             WriteGeneration, SetPid, Remember, Exit, MaxGeneration, ClearPid, SendLookup,
             SendKill, Publish, SetBit, Increment, ReadPid, SetFlag, SendSigusr1, WaitSlot,
             HandleSigusr1, HandleBarrierInterrupt, Absorb, ReadGenerations, ExchangeMask,
             ProcessType, ProcessTypeLater, ProcessTypeError, ReportGeneration, UseState, Go,
             At, Absorbing, EndEmit, EndAbsorb, NextSlot, Kill, ResetBits, slotVars, joinVars,
             emitVars, absorbVars, countVars, selfVars, auxVars
        <5> QED
          BY <5>1
      <4> QED
        BY <4>1, <4>2
    <3>2. pc[p] \in Running
      BY <1>0, <1>2, <2>4, <3>1 DEF LocalInv
    <3>3. pc'[p] \in Running
      BY <1>1, <2>4, <3>2 DEF Running, ActionOf, Start, ClearFlags, ClearMask, ReadGeneration,
         WriteGeneration, SetPid, Remember, Exit, MaxGeneration, ClearPid, SendLookup,
         SendKill, Publish, SetBit, Increment, ReadPid, SetFlag, SendSigusr1, WaitSlot,
         HandleSigusr1, HandleBarrierInterrupt, Absorb, ReadGenerations, ExchangeMask,
         ProcessType, ProcessTypeLater, ProcessTypeError, ReportGeneration, UseState, Go, At,
         Absorbing, EndEmit, EndAbsorb, NextSlot, Kill, ResetBits, slotVars, joinVars,
         emitVars, absorbVars, countVars, selfVars, auxVars
    <3> QED
      BY <2>4, <3>3
  <2> QED
    BY <2>1, <2>2, <2>3, <2>4
<1>3. ASSUME NEW q \in Process, ~success'[q]
      PROVE  bpc'[q] = "process" /\ pending'[q]
  <2>1. CASE q # p
    BY <1>0, <1>3, <2>1, PrivateFrame DEF LocalInv
  <2>2. CASE q = p
    BY <1>0, <1>1, <1>3, <2>2 DEF LocalInv, ActionOf, Start, ClearFlags, ClearMask,
       ReadGeneration, WriteGeneration, SetPid, Remember, Exit, MaxGeneration, ClearPid,
       SendLookup, SendKill, Publish, SetBit, Increment, ReadPid, SetFlag, SendSigusr1,
       WaitSlot, HandleSigusr1, HandleBarrierInterrupt, Absorb, ReadGenerations, ExchangeMask,
       ProcessType, ProcessTypeLater, ProcessTypeError, ReportGeneration, UseState, Go, At,
       Absorbing, EndEmit, EndAbsorb, NextSlot, Kill, ResetBits, slotVars, joinVars, emitVars,
       absorbVars, countVars, selfVars, auxVars
  <2> QED
    BY <2>1, <2>2
<1> QED
  BY <1>2, <1>3 DEF LocalInv

(* Nobody comes to work with an obsolete version: what is obsolete after a *)
(* step was so before, unless the step publishes the new version.          *)
LEMMA StaleFrame ==
  ASSUME IInv, NEW p \in Process, ActionOf(p), NEW q \in Process, NEW e \in Process, Stale(q,
                e)',
         pc'[e] \in Preparing \cup Emitting, ~(e = p /\ Publish(p))
  PROVE  /\ Stale(q, e) /\ pc[q] \in Running /\ slot'[q] = slot[q] /\ slot[q] \in Slot
         /\ ProcessType(p) /\ q = p /\ emitted[e].type \in flags[p] =>
              emitted[e].type \in flags'[p]
<1>0. TypeOK /\ OwnInv /\ EmitInv /\ LocalInv
  BY DEF IInv
<1>1. /\ cached \in [Process -> [Type -> Version]] /\ emitted \in [Process -> Barrier]
      /\ pc \in [Process -> Label] /\ slot \in [Process -> Slot \cup {NoSlot}]
      /\ flags \in [Process -> SUBSET Type] /\ shared \in [Type -> Version]
  BY <1>0 DEF TypeOK
<1>2. PICK t \in Type : t = emitted[e].type
  BY <1>1 DEF Barrier
<1>3. PICK v \in Version : v = emitted[e].version
  BY <1>1 DEF Barrier
<1>4. pc[e] \in Preparing \cup Emitting /\ emitted'[e].type = t /\ emitted'[e].version = v
  BY <1>2, <1>3, EmitFrame
<1>5. cached'[q][t] # NothingCached /\ cached'[q][t] < v
  BY <1>4 DEF Stale
<1>6. v <= shared[t] /\ v \in Nat /\ shared[t] \in Nat
  BY <1>0, <1>1, <1>2, <1>3, <1>4 DEF EmitInv, Version
<1>7. cached'[q][t] = cached[q][t]
  <2>1. CASE q # p
    BY <1>0, <2>1, PrivateFrame
  <2>2. CASE q = p /\ Exit(p)
    <3>1. cached'[p] = [u \in Type |-> NothingCached]
      BY <1>1, <2>2 DEF Exit
    <3> QED
      BY <1>5, <2>2, <3>1
  <2>3. CASE q = p /\ UseState(p)
    <3>1. PICK u \in Type : cached' = [cached EXCEPT ![p][u] = shared[u]]
      BY <2>3 DEF UseState
    <3>2. cached'[p][t] = IF t = u THEN shared[t] ELSE cached[p][t]
      BY <1>1, <3>1
    <3> QED
      BY <1>5, <1>6, <2>3, <3>2
  <2>4. CASE q = p /\ ProcessType(p)
    <3>1. PICK u \in flags[p] : cached' = [cached EXCEPT ![p][u] = NothingCached]
      BY <2>4 DEF ProcessType
    <3>2. u \in Type
      BY <1>1, <3>1
    <3>3. cached'[p][t] = IF t = u THEN NothingCached ELSE cached[p][t]
      BY <1>1, <3>1, <3>2
    <3> QED
      BY <1>5, <2>4, <3>3
  <2>5. CASE q = p /\ ~Exit(p) /\ ~UseState(p) /\ ~ProcessType(p)
    <3>1. cached' = cached
      BY <2>5 DEF ActionOf, Start, ClearFlags, ClearMask, ReadGeneration, WriteGeneration,
         SetPid, Remember, Exit, MaxGeneration, ClearPid, SendLookup, SendKill, Publish,
         SetBit, Increment, ReadPid, SetFlag, SendSigusr1, WaitSlot, HandleSigusr1,
         HandleBarrierInterrupt, Absorb, ReadGenerations, ExchangeMask, ProcessType,
         ProcessTypeLater, ProcessTypeError, ReportGeneration, UseState, Go, At, Absorbing,
         EndEmit, EndAbsorb, NextSlot, Kill, ResetBits, slotVars, joinVars, emitVars,
         absorbVars, countVars, selfVars, auxVars
    <3> QED
      BY <3>1
  <2> QED
    BY <2>1, <2>2, <2>3, <2>4, <2>5
<1>8. Stale(q, e)
  BY <1>2, <1>3, <1>5, <1>7 DEF Stale
<1>9. pc[q] \in Running
  BY <1>0, <1>5, <1>7 DEF LocalInv
<1>10. slot'[q] = slot[q] /\ slot[q] \in Slot
  <2>1. slot[q] \in Slot
    BY <1>0, <1>1, <1>9 DEF OwnInv, Running
  <2>2. CASE q # p
    BY <1>0, <2>1, <2>2, PrivateFrame
  <2>3. CASE q = p
    <3>1. ~Start(p)
      BY <1>9, <2>3 DEF Start, At, Running
    <3>2. slot' = slot
      BY <3>1 DEF ActionOf, Start, ClearFlags, ClearMask, ReadGeneration, WriteGeneration,
         SetPid, Remember, Exit, MaxGeneration, ClearPid, SendLookup, SendKill, Publish,
         SetBit, Increment, ReadPid, SetFlag, SendSigusr1, WaitSlot, HandleSigusr1,
         HandleBarrierInterrupt, Absorb, ReadGenerations, ExchangeMask, ProcessType,
         ProcessTypeLater, ProcessTypeError, ReportGeneration, UseState, Go, At, Absorbing,
         EndEmit, EndAbsorb, NextSlot, Kill, ResetBits, slotVars, joinVars, emitVars,
         absorbVars, countVars, selfVars, auxVars
    <3> QED
      BY <2>1, <3>2
  <2> QED
    BY <2>2, <2>3
<1>11. ASSUME ProcessType(p), q = p, t \in flags[p]
       PROVE  t \in flags'[p]
  <2>1. PICK u \in flags[p] : /\ cached' = [cached EXCEPT ![p][u] = NothingCached]
                              /\ flags' = [flags EXCEPT ![p] = @ \ {u}]
    BY <1>11 DEF ProcessType
  <2>2. t # u
    BY <1>1, <1>5, <1>11, <2>1
  <2> QED
    BY <1>1, <1>11, <2>1, <2>2
<1> QED
  BY <1>2, <1>8, <1>9, <1>10, <1>11

(* A process that works with an obsolete version has not reported the      *)
(* generation of the barrier, and the bit is where it will find it.        *)
LEMMA StaleStep ==
  ASSUME IInv, NEW p \in Process, ActionOf(p)
  PROVE  StaleInv'
<1>0. TypeOK /\ OwnInv /\ CountInv /\ GenInv /\ EmitInv /\ LocalInv /\ StaleInv
  BY DEF IInv
<1>1. /\ pc \in [Process -> Label] /\ slot \in [Process -> Slot \cup {NoSlot}]
      /\ bpc \in [Process -> {"idle", "generations", "exchange", "process"}]
      /\ success \in [Process -> BOOLEAN] /\ flags \in [Process -> SUBSET Type]
      /\ emitted \in [Process -> Barrier] /\ shared_gen \in [Process -> Generation]
      /\ pss_barrierGeneration \in [Slot -> Generation]
      /\ pss_barrierCheckMask \in [Slot -> SUBSET Type]
  BY <1>0 DEF TypeOK
<1>2. i \in [Process -> 0..NumSlots + 1] /\ NumSlots \in Nat \ {0}
  BY <1>0, ConstantsAssumption DEF TypeOK
<1>3. psh_barrierGeneration \in Nat
  BY <1>0, GenBound
<1> SUFFICES ASSUME NEW q \in Process, NEW e \in Process, Stale(q, e)'
             PROVE  StaleAt(q, e)'
  BY DEF StaleInv
<1>4. CASE pc'[e] \notin Preparing \cup Emitting
  BY <1>4 DEF StaleAt, BitSet, Preparing, Emitting
<1>5. CASE e = p /\ Publish(p)
  <2>1. pc'[e] = "setBit" /\ i'[e] = 1
    BY <1>1, <1>2, <1>5 DEF Publish, Go
  <2>2. pc'[q] \in Running
    <3>1. emitted'[e].type \in Type
      <4>1. emitted' \in [Process -> Barrier]
        BY TypeStep DEF TypeOK
      <4> QED
        BY <4>1 DEF Barrier
    <3> QED
      BY <3>1, LocalStep DEF LocalInv, Stale
  <2>3. slot'[q] \in Slot
    <3>1. slot' \in [Process -> Slot \cup {NoSlot}]
      BY TypeStep DEF TypeOK
    <3> QED
      BY <2>2, <3>1, OwnStep DEF OwnInv, Running
  <2>4. ~(slot'[q] < i'[e])
    BY <2>1, <2>3 DEF Slot
  <2> QED
    BY <2>1, <2>4 DEF StaleAt, BitSet, Emitting
<1>6. CASE pc'[e] \in Preparing \cup Emitting /\ ~(e = p /\ Publish(p))
  <2>1. /\ pc[e] \in Preparing \cup Emitting
        /\ emitted'[e].type = emitted[e].type
        /\ ~(e = p /\ Increment(p)) =>
             /\ emitted'[e].gen = emitted[e].gen
             /\ pc'[e] \in Emitting => pc[e] \in Emitting
    BY <1>6, EmitFrame
  <2>2. Stale(q, e) /\ pc[q] \in Running /\ slot'[q] = slot[q] /\ slot[q] \in Slot
    BY <1>6, StaleFrame
  <2>3. StaleAt(q, e)
    BY <1>0, <2>2 DEF StaleInv
  <2>4. PICK t \in Type : t = emitted[e].type
    BY <1>1 DEF Barrier
  <2>5. PICK n \in Slot : n = slot[q]
    BY <2>2
  <2>6. /\ emitted[e].gen \in Nat /\ pss_barrierGeneration[n] \in Nat /\ shared_gen[q] \in Nat
    BY <1>1 DEF Barrier, Generation
  <2>7. q # p => Alive(q)
    BY <2>2 DEF Running, Alive
  <2>8. pc[q] \in HasGen
    BY <2>2 DEF HasGen
  <2>9. pc'[e] \in Emitting => pss_barrierGeneration'[n] < emitted'[e].gen
    <3>1. CASE e = p /\ Increment(p)
      <4>1. /\ pss_barrierGeneration' = pss_barrierGeneration
            /\ emitted' = [emitted EXCEPT ![p].gen = psh_barrierGeneration + 1]
        BY <3>1 DEF Increment
      <4>2. emitted'[e].gen = psh_barrierGeneration + 1
        BY <1>1, <3>1, <4>1 DEF Barrier
      <4>3. pss_barrierGeneration[n] <= psh_barrierGeneration
        BY <1>0, <2>5, <2>8 DEF GenInv
      <4> QED
        BY <1>3, <2>6, <4>1, <4>2, <4>3
    <3>2. CASE ~(e = p /\ Increment(p)) /\ pc'[e] \in Emitting
      <4>1. pss_barrierGeneration[n] < emitted[e].gen /\ emitted'[e].gen = emitted[e].gen
        BY <2>1, <2>3, <2>5, <3>2 DEF StaleAt
      <4>2. CASE q = p /\ ReportGeneration(p)
        <5>1. /\ bpc[p] = "process" /\ flags[p] = {}
              /\ success[p] =>
                   pss_barrierGeneration' = [pss_barrierGeneration EXCEPT ![n] = shared_gen[p]]
              /\ ~success[p] => pss_barrierGeneration' = pss_barrierGeneration
          BY <2>5, <4>2 DEF ReportGeneration, Absorbing
        <5>2. CASE success[p]
          <6>1. pss_barrierGeneration'[n] = shared_gen[p]
            BY <1>1, <5>1, <5>2
          <6>2. ~(emitted[e].gen <= shared_gen[p])
            BY <2>1, <2>3, <3>2, <4>2, <5>1, <5>2 DEF StaleAt
          <6> QED
            BY <2>6, <4>1, <4>2, <6>1, <6>2
        <5>3. CASE ~success[p]
          BY <4>1, <5>1, <5>3
        <5> QED
          BY <5>2, <5>3
      <4>3. CASE q = p /\ ~ReportGeneration(p)
        <5>1. pss_barrierGeneration' = pss_barrierGeneration
          BY <2>2, <4>3 DEF Running, ActionOf, Start, ClearFlags, ClearMask, ReadGeneration,
             WriteGeneration, SetPid, Remember, Exit, MaxGeneration, ClearPid, SendLookup,
             SendKill, Publish, SetBit, Increment, ReadPid, SetFlag, SendSigusr1, WaitSlot,
             HandleSigusr1, HandleBarrierInterrupt, Absorb, ReadGenerations, ExchangeMask,
             ProcessType, ProcessTypeLater, ProcessTypeError, ReportGeneration, UseState, Go,
             At, Absorbing, EndEmit, EndAbsorb, NextSlot, Kill, ResetBits, slotVars, joinVars,
             emitVars, absorbVars, countVars, selfVars, auxVars
        <5> QED
          BY <4>1, <5>1
      <4>4. CASE q # p
        <5>1. pss_barrierGeneration'[n] = pss_barrierGeneration[n]
          BY <2>5, <2>7, <4>4, OthersSlot
        <5> QED
          BY <4>1, <5>1
      <4> QED
        BY <4>2, <4>3, <4>4
    <3> QED
      BY <3>1, <3>2
  <2>10. pc'[e] = "wait" => n <= i'[e]
    <3> SUFFICES ASSUME pc'[e] = "wait"
                 PROVE  n <= i'[e]
      OBVIOUS
    <3>1. n \in Nat /\ n <= NumSlots
      BY <1>2, <2>5 DEF Slot
    <3>2. CASE e = p /\ WaitSlot(p)
      <4>1. /\ pc[p] = "wait" /\ SlotAbsorbed(p) /\ i' = [i EXCEPT ![p] = i[p] - 1]
        BY <1>1, <3>2 DEF WaitSlot, At, Go
      <4>2. n <= i[p] /\ pss_barrierGeneration[n] < emitted[p].gen
        BY <2>3, <2>5, <3>2, <4>1 DEF StaleAt, Emitting
      <4>3. n # i[p]
        BY <2>6, <3>2, <4>1, <4>2 DEF SlotAbsorbed
      <4>4. i'[e] = i[p] - 1 /\ i[p] \in Int
        BY <1>2, <3>2, <4>1
      <4> QED
        BY <3>1, <4>2, <4>3, <4>4
    <3>3. CASE ~(e = p /\ WaitSlot(p))
      <4>1. i'[e] = NumSlots \/ (pc[e] = "wait" /\ i'[e] = i[e])
        <5>1. CASE e # p
          BY <1>0, <5>1, PrivateFrame
        <5>2. CASE e = p
          BY <1>0, <1>1, <1>2, <3>3, <5>2 DEF OwnInv, ActionOf, Start, ClearFlags, ClearMask,
             ReadGeneration, WriteGeneration, SetPid, Remember, Exit, MaxGeneration, ClearPid,
             SendLookup, SendKill, Publish, SetBit, Increment, ReadPid, SetFlag, SendSigusr1,
             WaitSlot, HandleSigusr1, HandleBarrierInterrupt, Absorb, ReadGenerations,
             ExchangeMask, ProcessType, ProcessTypeLater, ProcessTypeError, ReportGeneration,
             UseState, Go, At, Absorbing, EndEmit, EndAbsorb, NextSlot, Kill, ResetBits,
             slotVars, joinVars, emitVars, absorbVars, countVars, selfVars, auxVars
        <5> QED
          BY <5>1, <5>2
      <4>2. pc[e] = "wait" => n <= i[e]
        BY <2>3, <2>5 DEF StaleAt
      <4> QED
        BY <3>1, <4>1, <4>2
    <3> QED
      BY <3>2, <3>3
  <2>11. BitSet(e, q)' => \/ t \in pss_barrierCheckMask'[n]
                          \/ bpc'[q] = "process" /\ t \in flags'[q]
    <3> SUFFICES ASSUME BitSet(e, q)'
                 PROVE  \/ t \in pss_barrierCheckMask'[n]
                        \/ bpc'[q] = "process" /\ t \in flags'[q]
      OBVIOUS
    <3>1. CASE e = p /\ SetBit(p) /\ i[p] = n
      <4>1. pss_barrierCheckMask' = [pss_barrierCheckMask EXCEPT ![n] = @ \cup {t}]
        BY <2>4, <3>1 DEF SetBit
      <4> QED
        BY <1>1, <4>1
    <3>2. CASE ~(e = p /\ SetBit(p) /\ i[p] = n)
      <4>1. BitSet(e, q)
        <5>1. CASE e = p /\ SetBit(p)
          <6>1. /\ pc[p] = "setBit" /\ i'[p] = i[p] + 1
                /\ pc'[p] = IF i[p] = NumSlots THEN "increment" ELSE "setBit"
            BY <1>1, <1>2, <5>1 DEF SetBit, At, Go
          <6>2. i[p] \in Slot /\ i[p] # n
            BY <1>0, <3>2, <5>1, <6>1 DEF EmitInv
          <6>3. n < i[p] + 1 \/ i[p] = NumSlots
            BY <2>2, <2>5, <5>1, <6>1 DEF BitSet, Emitting
          <6>4. n < i[p]
            BY <1>2, <6>2, <6>3 DEF Slot
          <6> QED
            BY <2>5, <5>1, <6>1, <6>4 DEF BitSet
        <5>2. CASE e = p /\ ~SetBit(p)
          <6>1. \/ pc[p] \in Emitting \cup {"increment"}
                \/ pc[p] = "setBit" /\ pc'[p] = "setBit" /\ i'[p] = i[p]
            BY <1>1, <1>2, <1>6, <2>1, <5>2 DEF Preparing, Emitting, ActionOf, Start,
               ClearFlags, ClearMask, ReadGeneration, WriteGeneration, SetPid, Remember, Exit,
               MaxGeneration, ClearPid, SendLookup, SendKill, Publish, SetBit, Increment,
               ReadPid, SetFlag, SendSigusr1, WaitSlot, HandleSigusr1, HandleBarrierInterrupt,
               Absorb, ReadGenerations, ExchangeMask, ProcessType, ProcessTypeLater,
               ProcessTypeError, ReportGeneration, UseState, Go, At, Absorbing, EndEmit,
               EndAbsorb, NextSlot, Kill, ResetBits, slotVars, joinVars, emitVars, absorbVars,
               countVars, selfVars, auxVars
          <6> QED
            BY <2>2, <5>2, <6>1 DEF BitSet, Emitting
        <5>3. CASE e # p
          BY <1>0, <2>2, <5>3, PrivateFrame DEF BitSet
        <5> QED
          BY <5>1, <5>2, <5>3
      <4>2. t \in pss_barrierCheckMask[n] \/ (bpc[q] = "process" /\ t \in flags[q])
        BY <2>3, <2>4, <2>5, <4>1 DEF StaleAt
      <4>3. CASE q # p
        <5>1. pss_barrierCheckMask[n] \subseteq pss_barrierCheckMask'[n]
          BY <2>5, <2>7, <4>3, OthersSlot
        <5>2. bpc'[q] = bpc[q] /\ flags'[q] = flags[q]
          BY <1>0, <4>3, PrivateFrame
        <5> QED
          BY <4>2, <5>1, <5>2
      <4>4. CASE q = p /\ ExchangeMask(p)
        <5>1. bpc[p] = "exchange" /\ bpc'[p] = "process" /\ flags'[p] = pss_barrierCheckMask[n]
          BY <1>1, <2>5, <4>4 DEF ExchangeMask, Absorbing
        <5> QED
          BY <4>2, <4>4, <5>1
      <4>5. CASE q = p /\ ProcessType(p)
        <5>1. pss_barrierCheckMask' = pss_barrierCheckMask /\ bpc' = bpc
          BY <4>5 DEF ProcessType, slotVars
        <5>2. t \in flags[p] => t \in flags'[p]
          BY <1>6, <2>4, <4>5, StaleFrame
        <5> QED
          BY <4>2, <4>5, <5>1, <5>2
      <4>6. CASE q = p /\ ProcessTypeLater(p)
        <5>1. PICK u \in flags[p] :
                 /\ flags' = [flags EXCEPT ![p] = @ \ {u}] /\ bpc' = bpc
                 /\ pss_barrierCheckMask' = [pss_barrierCheckMask EXCEPT ![n] = @ \cup {u}]
          BY <2>5, <4>6 DEF ProcessTypeLater, ResetBits
        <5>2. flags'[p] = flags[p] \ {u} /\ pss_barrierCheckMask'[n] = pss_barrierCheckMask[n] \cup {u}
          BY <1>1, <5>1
        <5> QED
          BY <4>2, <4>6, <5>1, <5>2
      <4>7. CASE q = p /\ ProcessTypeError(p)
        <5>1. pss_barrierCheckMask' = [pss_barrierCheckMask EXCEPT ![n] = @ \cup flags[p]]
          BY <2>5, <4>7 DEF ProcessTypeError, ResetBits
        <5>2. pss_barrierCheckMask'[n] = pss_barrierCheckMask[n] \cup flags[p]
          BY <1>1, <5>1
        <5> QED
          BY <4>2, <4>7, <5>2
      <4>8. CASE q = p /\ ReportGeneration(p)
        <5>1. flags[p] = {} /\ pss_barrierCheckMask' = pss_barrierCheckMask
          BY <4>8 DEF ReportGeneration
        <5> QED
          BY <4>2, <4>8, <5>1
      <4>9. CASE q = p /\ SetBit(p)
        <5>1. /\ pss_barrierCheckMask[n] \subseteq pss_barrierCheckMask'[n]
              /\ bpc' = bpc /\ flags' = flags
          BY <1>1, <4>9 DEF SetBit, absorbVars
        <5> QED
          BY <4>2, <5>1
      <4>10. CASE /\ q = p /\ ~ExchangeMask(p) /\ ~ProcessType(p) /\ ~ProcessTypeLater(p)
                  /\ ~ProcessTypeError(p) /\ ~ReportGeneration(p) /\ ~SetBit(p)
        <5>1. pss_barrierCheckMask' = pss_barrierCheckMask
          BY <2>2, <4>10 DEF Running, ActionOf, Start, ClearFlags, ClearMask, ReadGeneration,
             WriteGeneration, SetPid, Remember, Exit, MaxGeneration, ClearPid, SendLookup,
             SendKill, Publish, SetBit, Increment, ReadPid, SetFlag, SendSigusr1, WaitSlot,
             HandleSigusr1, HandleBarrierInterrupt, Absorb, ReadGenerations, ExchangeMask,
             ProcessType, ProcessTypeLater, ProcessTypeError, ReportGeneration, UseState, Go,
             At, Absorbing, EndEmit, EndAbsorb, NextSlot, Kill, ResetBits, slotVars, joinVars,
             emitVars, absorbVars, countVars, selfVars, auxVars
        <5>2. bpc[p] = "process" => bpc'[p] = "process" /\ flags'[p] = flags[p]
          BY <1>0, <1>1, <2>2, <4>10 DEF OwnInv, Running, ActionOf, Start, ClearFlags,
             ClearMask, ReadGeneration, WriteGeneration, SetPid, Remember, Exit, MaxGeneration,
             ClearPid, SendLookup, SendKill, Publish, SetBit, Increment, ReadPid, SetFlag,
             SendSigusr1, WaitSlot, HandleSigusr1, HandleBarrierInterrupt, Absorb,
             ReadGenerations, ExchangeMask, ProcessType, ProcessTypeLater, ProcessTypeError,
             ReportGeneration, UseState, Go, At, Absorbing, EndEmit, EndAbsorb, NextSlot, Kill,
             ResetBits, slotVars, joinVars, emitVars, absorbVars, countVars, selfVars, auxVars
        <5> QED
          BY <4>2, <4>10, <5>1, <5>2
      <4> QED
        BY <4>3, <4>4, <4>5, <4>6, <4>7, <4>8, <4>9, <4>10
    <3> QED
      BY <3>1, <3>2
  <2>12. pc'[e] \in Emitting /\ bpc'[q] = "process" /\ emitted'[e].gen <= shared_gen'[q] =>
           t \in flags'[q] \/ ~success'[q]
    <3> SUFFICES ASSUME pc'[e] \in Emitting, bpc'[q] = "process",
                        emitted'[e].gen <= shared_gen'[q]
                 PROVE  t \in flags'[q] \/ ~success'[q]
      OBVIOUS
    <3>1. CASE e = p /\ Increment(p)
      <4>1. /\ bpc' = bpc /\ shared_gen' = shared_gen
            /\ emitted' = [emitted EXCEPT ![p].gen = psh_barrierGeneration + 1]
        BY <3>1 DEF Increment, absorbVars
      <4>2. emitted'[e].gen = psh_barrierGeneration + 1
        BY <1>1, <3>1, <4>1 DEF Barrier
      <4>3. shared_gen[q] <= psh_barrierGeneration
        BY <1>0, <4>1 DEF GenInv
      <4> QED
        BY <1>3, <2>6, <4>1, <4>2, <4>3
    <3>2. CASE ~(e = p /\ Increment(p))
      <4>1. pc[e] \in Emitting /\ emitted'[e].gen = emitted[e].gen
        BY <2>1, <3>2
      <4>2. bpc[q] = "process" /\ emitted[e].gen <= shared_gen[q] => t \in flags[q] \/ ~success[q]
        BY <2>3, <2>4, <4>1 DEF StaleAt
      <4>3. CASE q # p
        BY <1>0, <4>1, <4>2, <4>3, PrivateFrame
      <4>4. CASE q = p /\ ExchangeMask(p)
        <5>1. bpc[p] = "exchange" /\ flags'[p] = pss_barrierCheckMask[n]
          BY <1>1, <2>5, <4>4 DEF ExchangeMask, Absorbing
        <5>2. t \in pss_barrierCheckMask[n]
          BY <2>3, <2>4, <2>5, <4>1, <4>4, <5>1 DEF StaleAt, BitSet
        <5> QED
          BY <4>4, <5>1, <5>2
      <4>5. CASE q = p /\ ProcessType(p)
        <5>1. bpc' = bpc /\ shared_gen' = shared_gen /\ success' = success
          BY <4>5 DEF ProcessType
        <5>2. t \in flags[p] => t \in flags'[p]
          BY <1>6, <2>4, <4>5, StaleFrame
        <5> QED
          BY <4>1, <4>2, <4>5, <5>1, <5>2
      <4>6. CASE q = p /\ ProcessTypeLater(p)
        BY <1>1, <4>6 DEF ProcessTypeLater
      <4>7. CASE q = p /\ ~ExchangeMask(p) /\ ~ProcessType(p) /\ ~ProcessTypeLater(p)
        <5>1. /\ bpc[p] = "process" /\ flags'[p] = flags[p]
              /\ success'[p] = success[p] /\ shared_gen'[p] = shared_gen[p]
          BY <1>0, <1>1, <2>2, <4>7 DEF OwnInv, Running, ActionOf, Start, ClearFlags,
             ClearMask, ReadGeneration, WriteGeneration, SetPid, Remember, Exit, MaxGeneration,
             ClearPid, SendLookup, SendKill, Publish, SetBit, Increment, ReadPid, SetFlag,
             SendSigusr1, WaitSlot, HandleSigusr1, HandleBarrierInterrupt, Absorb,
             ReadGenerations, ExchangeMask, ProcessType, ProcessTypeLater, ProcessTypeError,
             ReportGeneration, UseState, Go, At, Absorbing, EndEmit, EndAbsorb, NextSlot, Kill,
             ResetBits, slotVars, joinVars, emitVars, absorbVars, countVars, selfVars, auxVars
        <5> QED
          BY <4>1, <4>2, <4>7, <5>1
      <4> QED
        BY <4>3, <4>4, <4>5, <4>6, <4>7
    <3> QED
      BY <3>1, <3>2
  <2> QED
    BY <2>1, <2>2, <2>4, <2>5, <2>9, <2>10, <2>11, <2>12 DEF StaleAt
<1> QED
  BY <1>4, <1>5, <1>6

(* A wait returns when everybody has reported the generation.              *)
LEMMA NoStaleStep ==
  ASSUME IInv, NEW p \in Process, ActionOf(p)
  PROVE  NoStaleState'
<1>0. TypeOK /\ OwnInv /\ EmitInv /\ LocalInv /\ StaleInv /\ NoStaleState
  BY DEF IInv
<1>1. /\ cached \in [Process -> [Type -> Version]] /\ emitted \in [Process -> Barrier]
      /\ settled \in [Type -> Version] /\ shared \in [Type -> Version]
      /\ slot \in [Process -> Slot \cup {NoSlot}]
      /\ pss_barrierGeneration \in [Slot -> Generation] /\ flags \in [Process -> SUBSET Type]
  BY <1>0 DEF TypeOK
<1> SUFFICES ASSUME NEW q \in Process, NEW t \in Type, cached'[q][t] # NothingCached
             PROVE  cached'[q][t] >= settled'[t]
  BY DEF NoStaleState
<1>2. cached[q][t] \in Nat /\ settled[t] \in Nat /\ shared[t] \in Nat /\ settled[t] <= shared[t]
  BY <1>0, <1>1 DEF Version, EmitInv
<1>3. cached[q][t] # NothingCached => cached[q][t] >= settled[t]
  BY <1>0 DEF NoStaleState
<1>4. CASE WaitSlot(p)
  <2>1. cached' = cached
    BY <1>4 DEF WaitSlot, selfVars
  <2>2. CASE settled'[t] = settled[t]
    BY <1>3, <2>1, <2>2
  <2>3. CASE settled'[t] # settled[t]
    <3>1. /\ pc[p] = "wait" /\ SlotAbsorbed(p) /\ i[p] = 1
          /\ settled' = [settled EXCEPT ![emitted[p].type] =
                           Max({settled[emitted[p].type], emitted[p].version})]
      BY <1>4, <2>3 DEF WaitSlot, At
    <3>2. t = emitted[p].type
      BY <1>1, <2>3, <3>1
    <3>3. PICK a, b \in Int : a = settled[t] /\ b = emitted[p].version
      BY <1>1, <1>2 DEF Barrier, Version
    <3>4. settled'[t] = Max({a, b})
      BY <1>1, <3>1, <3>2, <3>3
    <3>5. settled'[t] = b
      BY <2>3, <3>3, <3>4, MaxOfTwo
    <3>6. pc[q] \in Running
      BY <1>0, <2>1 DEF LocalInv
    <3>7. PICK n \in Slot : n = slot[q]
      BY <1>0, <1>1, <3>6 DEF OwnInv, Running
    <3>8. ~Stale(q, p)
      <4> SUFFICES ASSUME Stale(q, p)
                   PROVE  FALSE
        OBVIOUS
      <4>1. n <= 1 /\ pss_barrierGeneration[n] < emitted[p].gen
        BY <1>0, <3>1, <3>7 DEF StaleInv, StaleAt, Emitting
      <4>2. n = 1
        BY <4>1 DEF Slot
      <4>3. pss_barrierGeneration[n] \in Nat /\ emitted[p].gen \in Nat
        BY <1>1 DEF Barrier, Generation
      <4> QED
        BY <3>1, <4>1, <4>2, <4>3 DEF SlotAbsorbed
    <3>9. ~(cached[q][t] < b)
      BY <2>1, <3>2, <3>3, <3>8 DEF Stale
    <3> QED
      BY <1>2, <2>1, <3>3, <3>5, <3>9
  <2> QED
    BY <2>2, <2>3
<1>5. CASE ~WaitSlot(p)
  <2>1. settled' = settled
    BY <1>5 DEF ActionOf, Start, ClearFlags, ClearMask, ReadGeneration, WriteGeneration,
       SetPid, Remember, Exit, MaxGeneration, ClearPid, SendLookup, SendKill, Publish, SetBit,
       Increment, ReadPid, SetFlag, SendSigusr1, WaitSlot, HandleSigusr1,
       HandleBarrierInterrupt, Absorb, ReadGenerations, ExchangeMask, ProcessType,
       ProcessTypeLater, ProcessTypeError, ReportGeneration, UseState, Go, At, Absorbing,
       EndEmit, EndAbsorb, NextSlot, Kill, ResetBits, slotVars, joinVars, emitVars, absorbVars,
       countVars, selfVars, auxVars
  <2>2. CASE q # p
    BY <1>0, <1>3, <2>1, <2>2, PrivateFrame
  <2>3. CASE q = p /\ Exit(p)
    <3>1. cached'[p] = [u \in Type |-> NothingCached]
      BY <1>1, <2>3 DEF Exit
    <3> QED
      BY <2>3, <3>1
  <2>4. CASE q = p /\ UseState(p)
    <3>1. PICK u \in Type : cached' = [cached EXCEPT ![p][u] = shared[u]]
      BY <2>4 DEF UseState
    <3>2. cached'[p][t] = IF t = u THEN shared[t] ELSE cached[p][t]
      BY <1>1, <3>1
    <3> QED
      BY <1>2, <1>3, <2>1, <2>4, <3>2
  <2>5. CASE q = p /\ ProcessType(p)
    <3>1. PICK u \in flags[p] : cached' = [cached EXCEPT ![p][u] = NothingCached]
      BY <2>5 DEF ProcessType
    <3>2. u \in Type
      BY <1>1, <3>1
    <3>3. cached'[p][t] = IF t = u THEN NothingCached ELSE cached[p][t]
      BY <1>1, <3>1, <3>2
    <3> QED
      BY <1>3, <2>1, <2>5, <3>3
  <2>6. CASE q = p /\ ~Exit(p) /\ ~UseState(p) /\ ~ProcessType(p)
    <3>1. cached' = cached
      BY <1>5, <2>6 DEF ActionOf, Start, ClearFlags, ClearMask, ReadGeneration,
         WriteGeneration, SetPid, Remember, Exit, MaxGeneration, ClearPid, SendLookup,
         SendKill, Publish, SetBit, Increment, ReadPid, SetFlag, SendSigusr1, WaitSlot,
         HandleSigusr1, HandleBarrierInterrupt, Absorb, ReadGenerations, ExchangeMask,
         ProcessType, ProcessTypeLater, ProcessTypeError, ReportGeneration, UseState, Go, At,
         Absorbing, EndEmit, EndAbsorb, NextSlot, Kill, ResetBits, slotVars, joinVars,
         emitVars, absorbVars, countVars, selfVars, auxVars
    <3> QED
      BY <1>3, <2>1, <3>1
  <2> QED
    BY <2>2, <2>3, <2>4, <2>5, <2>6
<1> QED
  BY <1>4, <1>5

(* An emission that has yet to visit a slot will, until it reads the pid.  *)
LEMMA YetToVisitStep ==
  ASSUME IInv, NEW p \in Process, ActionOf(p), NEW e \in Process, NEW q \in Process,
         YetToVisit(e, q), slot[q] \in Slot, slot'[q] = slot[q],
         ~(e = p /\ ReadPid(p) /\ i[p] = slot[q])
  PROVE  YetToVisit(e, q)'
<1>0. TypeOK /\ OwnInv
  BY DEF IInv
<1>1. /\ pc \in [Process -> Label] /\ i \in [Process -> 0..NumSlots + 1]
      /\ NumSlots \in Nat \ {0}
  BY <1>0, ConstantsAssumption DEF TypeOK
<1>2. CASE e # p
  BY <1>0, <1>2, PrivateFrame DEF YetToVisit
<1>3. CASE e = p /\ ReadPid(p)
  <2>1. pc[p] = "readPid" /\ i[p] >= slot[q] /\ i[p] # slot[q]
    BY <1>3 DEF ReadPid, At, YetToVisit
  <2>2. i[p] # 1 /\ i[p] - 1 >= slot[q] /\ i[p] > slot[q]
    BY <1>1, <2>1 DEF Slot
  <2>3. \/ pc'[p] = "setFlag" /\ i'[p] = i[p]
        \/ pc'[p] = "readPid" /\ i'[p] = i[p] - 1
    BY <1>1, <1>3, <2>2 DEF ReadPid, NextSlot, Go
  <2> QED
    BY <1>3, <2>2, <2>3 DEF YetToVisit
<1>4. CASE e = p /\ SetFlag(p)
  <2>1. pc[p] = "setFlag" /\ pc'[p] = "kill" /\ i' = i
    BY <1>1, <1>4 DEF SetFlag, At, Go, emitVars
  <2> QED
    BY <1>4, <2>1 DEF YetToVisit
<1>5. CASE e = p /\ SendSigusr1(p)
  <2>1. pc[p] = "kill" /\ i[p] > slot[q]
    BY <1>5 DEF SendSigusr1, At, YetToVisit
  <2>2. i[p] # 1 /\ i[p] - 1 >= slot[q]
    BY <1>1, <2>1 DEF Slot
  <2>3. pc'[p] = "readPid" /\ i'[p] = i[p] - 1
    BY <1>1, <1>5, <2>2 DEF SendSigusr1, NextSlot, Go
  <2> QED
    BY <1>5, <2>2, <2>3 DEF YetToVisit
<1>6. CASE e = p /\ ~ReadPid(p) /\ ~SetFlag(p) /\ ~SendSigusr1(p)
  <2>1. pc[p] \in {"readPid", "setFlag", "kill"}
    BY <1>6 DEF YetToVisit
  <2>2. pc' = pc /\ i' = i
    BY <1>0, <1>6, <2>1 DEF OwnInv, ActionOf, Start, ClearFlags, ClearMask, ReadGeneration,
       WriteGeneration, SetPid, Remember, Exit, MaxGeneration, ClearPid, SendLookup, SendKill,
       Publish, SetBit, Increment, ReadPid, SetFlag, SendSigusr1, WaitSlot, HandleSigusr1,
       HandleBarrierInterrupt, Absorb, ReadGenerations, ExchangeMask, ProcessType,
       ProcessTypeLater, ProcessTypeError, ReportGeneration, UseState, Go, At, Absorbing,
       EndEmit, EndAbsorb, NextSlot, Kill, ResetBits, slotVars, joinVars, emitVars, absorbVars,
       countVars, selfVars, auxVars
  <2> QED
    BY <1>6, <2>2 DEF YetToVisit
<1> QED
  BY <1>2, <1>3, <1>4, <1>5, <1>6

(* Once the pid of a process is read, its flag gets set and a signal gets  *)
(* sent.                                                                   *)
LEMMA AboutToSignalStep ==
  ASSUME IInv, NEW p \in Process, ActionOf(p), NEW e \in Process, NEW q \in Process,
         pc[q] \in Listed, slot'[q] = slot[q],
         YetToVisit(e, q) \/ AboutToSignal(e, q),
         pss_signalFlags[slot[q]] => pss_signalFlags'[slot[q]]
  PROVE  \/ YetToVisit(e, q)' \/ AboutToSignal(e, q)'
         \/ pss_signalFlags'[slot[q]] /\ sigusr1'[q]
<1>0. TypeOK /\ OwnInv /\ EmitInv
  BY DEF IInv
<1>1. /\ pc \in [Process -> Label] /\ target \in [Process -> Process \cup {NoPid}]
      /\ sigusr1 \in [Process -> BOOLEAN] /\ pss_signalFlags \in [Slot -> BOOLEAN]
      /\ slot \in [Process -> Slot \cup {NoSlot}]
  BY <1>0 DEF TypeOK
<1>2. slot[q] \in Slot /\ Alive(q) /\ q # NoPid
  BY <1>0, <1>1, ConstantsAssumption DEF OwnInv, Listed, Running, Alive
<1>3. CASE YetToVisit(e, q)
  <2>1. CASE e = p /\ ReadPid(p) /\ i[p] = slot[q]
    <3>1. pss_pid[i[p]] = q
      BY <1>0, <2>1 DEF OwnInv
    <3>2. target'[p] = q /\ pc'[p] = "setFlag"
      BY <1>1, <1>2, <2>1, <3>1 DEF ReadPid, Go
    <3> QED
      BY <2>1, <3>2 DEF AboutToSignal
  <2>2. CASE ~(e = p /\ ReadPid(p) /\ i[p] = slot[q])
    BY <1>2, <1>3, <2>2, YetToVisitStep
  <2> QED
    BY <2>1, <2>2
<1>4. CASE AboutToSignal(e, q)
  <2>1. target[e] = q /\ pc[e] \in {"setFlag", "kill"}
    BY <1>4 DEF AboutToSignal
  <2>2. CASE e # p
    <3>1. target'[e] = target[e] /\ pc'[e] = pc[e]
      BY <1>0, <2>2, PrivateFrame
    <3> QED
      BY <1>4, <3>1 DEF AboutToSignal
  <2>3. CASE e = p /\ SetFlag(p)
    <3>1. i[p] = slot[q]
      BY <1>0, <2>1, <2>3 DEF EmitInv
    <3>2. pss_signalFlags'[slot[q]] /\ pc'[p] = "kill" /\ target' = target
      BY <1>1, <1>2, <2>3, <3>1 DEF SetFlag, Go, emitVars
    <3> QED
      BY <2>1, <2>3, <3>2 DEF AboutToSignal
  <2>4. CASE e = p /\ SendSigusr1(p)
    <3>1. pc[p] = "kill" /\ pss_signalFlags' = pss_signalFlags
          /\ sigusr1' = [sigusr1 EXCEPT ![q] = Alive(q)]
      BY <2>1, <2>4 DEF SendSigusr1, At, Kill, slotVars
    <3>2. sigusr1'[q]
      BY <1>1, <1>2, <3>1
    <3>3. pss_signalFlags[slot[q]]
      BY <1>4, <2>4, <3>1 DEF AboutToSignal
    <3> QED
      BY <3>1, <3>2, <3>3
  <2>5. CASE e = p /\ ~SetFlag(p) /\ ~SendSigusr1(p)
    <3>1. pc' = pc /\ target' = target
      BY <1>0, <2>1, <2>5 DEF OwnInv, ActionOf, Start, ClearFlags, ClearMask, ReadGeneration,
         WriteGeneration, SetPid, Remember, Exit, MaxGeneration, ClearPid, SendLookup,
         SendKill, Publish, SetBit, Increment, ReadPid, SetFlag, SendSigusr1, WaitSlot,
         HandleSigusr1, HandleBarrierInterrupt, Absorb, ReadGenerations, ExchangeMask,
         ProcessType, ProcessTypeLater, ProcessTypeError, ReportGeneration, UseState, Go, At,
         Absorbing, EndEmit, EndAbsorb, NextSlot, Kill, ResetBits, slotVars, joinVars,
         emitVars, absorbVars, countVars, selfVars, auxVars
    <3> QED
      BY <1>4, <3>1 DEF AboutToSignal
  <2> QED
    BY <2>2, <2>3, <2>4, <2>5
<1> QED
  BY <1>3, <1>4

(* A process that is behind gets told.                                     *)
LEMMA ToldStep ==
  ASSUME IInv, NEW p \in Process, ActionOf(p)
  PROVE  ToldInv'
<1>0. TypeOK /\ OwnInv /\ GenInv /\ EmitInv /\ LocalInv /\ ToldInv /\ CountInv
  BY DEF IInv
<1>1. /\ pc \in [Process -> Label] /\ slot \in [Process -> Slot \cup {NoSlot}]
      /\ bpc \in [Process -> {"idle", "generations", "exchange", "process"}]
      /\ shared_gen \in [Process -> Generation] /\ generation \in [Process -> Generation]
      /\ pss_barrierGeneration \in [Slot -> Generation]
      /\ pss_signalFlags \in [Slot -> BOOLEAN]
      /\ inHandler \in [Process -> BOOLEAN] /\ pending \in [Process -> BOOLEAN]
  BY <1>0 DEF TypeOK
<1>2. psh_barrierGeneration \in Nat
  BY <1>0, GenBound
<1> SUFFICES ASSUME NEW q \in Process, q \notin overtaken'
             PROVE  /\ JoinerBehind(q)' => \E e \in Process : YetToVisit(e, q)'
                    /\ ListedBehind(q)' => OnItsWay(q)'
  BY DEF ToldInv
<1>3. q \notin overtaken
  BY DEF ActionOf, Start, ClearFlags, ClearMask, ReadGeneration, WriteGeneration, SetPid,
     Remember, Exit, MaxGeneration, ClearPid, SendLookup, SendKill, Publish, SetBit, Increment,
     ReadPid, SetFlag, SendSigusr1, WaitSlot, HandleSigusr1, HandleBarrierInterrupt, Absorb,
     ReadGenerations, ExchangeMask, ProcessType, ProcessTypeLater, ProcessTypeError,
     ReportGeneration, UseState, Go, At, Absorbing, EndEmit, EndAbsorb, NextSlot, Kill,
     ResetBits, slotVars, joinVars, emitVars, absorbVars, countVars, selfVars, auxVars
<1>4. CASE Increment(p)
  <2>1. pc'[p] = "readPid" /\ i'[p] = NumSlots
    <3>1. i \in [Process -> 0..NumSlots + 1]
      BY <1>0 DEF TypeOK
    <3> QED
      BY <1>1, <1>4, <3>1 DEF Increment, Go
  <2>2. JoinerBehind(q)' \/ ListedBehind(q)' => pc'[q] # "out"
    BY DEF JoinerBehind, ListedBehind, Running
  <2>3. pc'[q] # "out" => slot'[q] \in Slot
    <3>1. slot' \in [Process -> Slot \cup {NoSlot}]
      BY TypeStep DEF TypeOK
    <3> QED
      BY <3>1, OwnStep DEF OwnInv
  <2>4. slot'[q] \in Slot => NumSlots >= slot'[q]
    BY ConstantsAssumption DEF Slot
  <2>5. pc'[q] # "out" => YetToVisit(p, q)'
    BY <2>1, <2>3, <2>4 DEF YetToVisit
  <2> QED
    BY <2>2, <2>5 DEF OnItsWay
<1>5. CASE ~Increment(p)
  <2>1. psh_barrierGeneration' = psh_barrierGeneration
    BY <1>5 DEF ActionOf, Start, ClearFlags, ClearMask, ReadGeneration, WriteGeneration,
       SetPid, Remember, Exit, MaxGeneration, ClearPid, SendLookup, SendKill, Publish, SetBit,
       Increment, ReadPid, SetFlag, SendSigusr1, WaitSlot, HandleSigusr1,
       HandleBarrierInterrupt, Absorb, ReadGenerations, ExchangeMask, ProcessType,
       ProcessTypeLater, ProcessTypeError, ReportGeneration, UseState, Go, At, Absorbing,
       EndEmit, EndAbsorb, NextSlot, Kill, ResetBits, slotVars, joinVars, emitVars, absorbVars,
       countVars, selfVars, auxVars
  <2>2. ASSUME JoinerBehind(q)'
        PROVE  \E e \in Process : YetToVisit(e, q)'
    <3>1. JoinerBehind(q) /\ slot'[q] = slot[q]
      <4>1. CASE q # p
        <5>1. Alive(q)
          BY <1>0, <2>2, <4>1, PrivateFrame DEF JoinerBehind, Alive
        <5>2. pc'[q] = pc[q] /\ generation'[q] = generation[q] /\ slot'[q] = slot[q]
          BY <1>0, <4>1, PrivateFrame
        <5>3. pss_barrierGeneration'[slot[q]] = pss_barrierGeneration[slot[q]]
          BY <4>1, <5>1, OthersSlot
        <5> QED
          BY <2>1, <2>2, <5>2, <5>3 DEF JoinerBehind
      <4>2. CASE q = p /\ ReadGeneration(p)
        <5>1. generation'[p] = psh_barrierGeneration /\ pc'[p] = "writeGeneration"
          BY <1>1, <4>2 DEF ReadGeneration, Go
        <5> QED
          BY <1>2, <2>1, <2>2, <4>2, <5>1 DEF JoinerBehind
      <4>3. CASE q = p /\ WriteGeneration(p)
        <5>1. /\ pc[p] = "writeGeneration" /\ pc'[p] = "setPid" /\ slot' = slot
              /\ pss_barrierGeneration' = [pss_barrierGeneration EXCEPT ![slot[p]] = generation[p]]
          BY <1>1, <4>3 DEF WriteGeneration, At, Go
        <5>2. slot[p] \in Slot
          BY <1>0, <1>1, <5>1 DEF OwnInv
        <5>3. pss_barrierGeneration'[slot[p]] = generation[p]
          BY <1>1, <5>1, <5>2
        <5> QED
          BY <2>1, <2>2, <4>3, <5>1, <5>3 DEF JoinerBehind
      <4>4. CASE q = p /\ ~ReadGeneration(p) /\ ~WriteGeneration(p)
        <5>1. pc'[p] \in {"writeGeneration", "setPid"}
          BY <2>2, <4>4 DEF JoinerBehind
        <5>2. /\ pc' = pc /\ generation' = generation /\ slot' = slot
              /\ pss_barrierGeneration' = pss_barrierGeneration
          BY <1>0, <1>1, <4>4, <5>1 DEF OwnInv, Running, ActionOf, Start, ClearFlags,
             ClearMask, ReadGeneration, WriteGeneration, SetPid, Remember, Exit, MaxGeneration,
             ClearPid, SendLookup, SendKill, Publish, SetBit, Increment, ReadPid, SetFlag,
             SendSigusr1, WaitSlot, HandleSigusr1, HandleBarrierInterrupt, Absorb,
             ReadGenerations, ExchangeMask, ProcessType, ProcessTypeLater, ProcessTypeError,
             ReportGeneration, UseState, Go, At, Absorbing, EndEmit, EndAbsorb, NextSlot, Kill,
             ResetBits, slotVars, joinVars, emitVars, absorbVars, countVars, selfVars, auxVars
        <5> QED
          BY <2>1, <2>2, <5>2 DEF JoinerBehind
      <4> QED
        BY <4>1, <4>2, <4>3, <4>4
    <3>2. PICK e \in Process : YetToVisit(e, q)
      BY <1>0, <1>3, <3>1 DEF ToldInv
    <3>3. pc[q] \in {"writeGeneration", "setPid"}
      BY <3>1 DEF JoinerBehind
    <3>4. slot[q] \in Slot
      BY <1>0, <1>1, <3>3 DEF OwnInv
    <3>5. ~(e = p /\ ReadPid(p) /\ i[p] = slot[q])
      BY <3>3 DEF ReadPid
    <3> QED
      BY <3>1, <3>2, <3>4, <3>5, YetToVisitStep
  <2>3. ASSUME ListedBehind(q)'
        PROVE  OnItsWay(q)'
    <3>1. CASE q = p /\ SetPid(p)
      <4>1. /\ pc[p] = "setPid" /\ slot' = slot /\ pss_barrierGeneration' = pss_barrierGeneration
        BY <3>1 DEF SetPid, At, joinVars
      <4>2. JoinerBehind(p)
        BY <2>1, <2>3, <3>1, <4>1 DEF JoinerBehind, ListedBehind
      <4>3. PICK e \in Process : YetToVisit(e, p)
        BY <1>0, <1>3, <3>1, <4>2 DEF ToldInv
      <4>4. slot[p] \in Slot /\ ~ReadPid(p)
        BY <1>0, <1>1, <4>1 DEF OwnInv, ReadPid, At
      <4>5. YetToVisit(e, p)'
        BY <4>1, <4>3, <4>4, YetToVisitStep
      <4> QED
        BY <3>1, <4>5 DEF OnItsWay
    <3>2. CASE ~(q = p /\ SetPid(p))
      <4>1. pc'[q] \in Running \cup {"remember"}
        BY <2>3 DEF ListedBehind
      <4>2. pc[q] \in Running \cup {"remember"} /\ slot'[q] = slot[q]
        <5>1. CASE q # p
          BY <1>0, <4>1, <5>1, PrivateFrame
        <5>2. CASE q = p
          BY <1>0, <1>1, <3>2, <4>1, <5>2 DEF OwnInv, Running, ActionOf, Start, ClearFlags,
             ClearMask, ReadGeneration, WriteGeneration, SetPid, Remember, Exit, MaxGeneration,
             ClearPid, SendLookup, SendKill, Publish, SetBit, Increment, ReadPid, SetFlag,
             SendSigusr1, WaitSlot, HandleSigusr1, HandleBarrierInterrupt, Absorb,
             ReadGenerations, ExchangeMask, ProcessType, ProcessTypeLater, ProcessTypeError,
             ReportGeneration, UseState, Go, At, Absorbing, EndEmit, EndAbsorb, NextSlot, Kill,
             ResetBits, slotVars, joinVars, emitVars, absorbVars, countVars, selfVars, auxVars
        <5> QED
          BY <5>1, <5>2
      <4>3. pc[q] \in Listed /\ Alive(q) /\ slot[q] \in Slot
        <5>1. pc[q] \in Listed /\ Alive(q) /\ pc[q] # "out"
          BY <4>2 DEF Listed, Running, Alive
        <5> QED
          BY <1>0, <1>1, <5>1 DEF OwnInv
      <4>4. PICK n \in Slot : n = slot[q]
        BY <4>3
      <4>5. pss_barrierGeneration[n] \in Nat /\ shared_gen[q] \in Nat
        BY <1>1 DEF Generation
      <4>6. pss_barrierGeneration'[n] < psh_barrierGeneration
        BY <2>1, <2>3, <4>2, <4>4 DEF ListedBehind
      <4>7. CASE q = p /\ ReportGeneration(p) /\ ~success[p]
        <5>1. pending[p] /\ pending' = pending
          BY <1>0, <4>7 DEF LocalInv, ReportGeneration, selfVars
        <5> QED
          BY <4>7, <5>1 DEF OnItsWay
      <4>8. CASE q = p /\ HandleBarrierInterrupt(p)
        BY <1>1, <4>8 DEF OnItsWay, HandleBarrierInterrupt
      <4>9. CASE ~(q = p /\ ReportGeneration(p) /\ ~success[p]) /\ ~(q = p /\ HandleBarrierInterrupt(p))
        <5>1. ListedBehind(q)
          <6>1. pss_barrierGeneration[n] < psh_barrierGeneration
            <7>1. CASE q # p
              BY <4>3, <4>4, <4>6, <7>1, OthersSlot
            <7>2. CASE q = p /\ ReportGeneration(p)
              <8>1. bpc[p] = "process" /\ pss_barrierGeneration' = [pss_barrierGeneration EXCEPT ![n] = shared_gen[p]]
                BY <4>4, <4>9, <7>2 DEF ReportGeneration, Absorbing
              <8>2. pss_barrierGeneration'[n] = shared_gen[p]
                BY <1>1, <8>1
              <8>3. pss_barrierGeneration[n] <= shared_gen[p]
                BY <1>0, <4>4, <7>2, <8>1 DEF GenInv
              <8> QED
                BY <1>2, <4>5, <4>6, <7>2, <8>2, <8>3
            <7>3. CASE q = p /\ ~ReportGeneration(p)
              <8>1. pss_barrierGeneration' = pss_barrierGeneration
                BY <1>1, <4>1, <4>2, <7>3 DEF Running, ActionOf, Start, ClearFlags, ClearMask,
                   ReadGeneration, WriteGeneration, SetPid, Remember, Exit, MaxGeneration,
                   ClearPid, SendLookup, SendKill, Publish, SetBit, Increment, ReadPid,
                   SetFlag, SendSigusr1, WaitSlot, HandleSigusr1, HandleBarrierInterrupt,
                   Absorb, ReadGenerations, ExchangeMask, ProcessType, ProcessTypeLater,
                   ProcessTypeError, ReportGeneration, UseState, Go, At, Absorbing, EndEmit,
                   EndAbsorb, NextSlot, Kill, ResetBits, slotVars, joinVars, emitVars,
                   absorbVars, countVars, selfVars, auxVars
              <8> QED
                BY <4>6, <8>1
            <7> QED
              BY <7>1, <7>2, <7>3
          <6> QED
            BY <4>2, <4>4, <6>1 DEF ListedBehind
        <5>2. OnItsWay(q)
          BY <1>0, <1>3, <5>1 DEF ToldInv
        <5>3. pss_signalFlags[n] => pss_signalFlags'[n]
          <6>1. CASE q # p
            BY <4>3, <4>4, <6>1, OthersSlot
          <6>2. CASE q = p
            BY <1>0, <1>1, <4>2, <4>9, <6>2 DEF OwnInv, Running, ActionOf, Start, ClearFlags,
               ClearMask, ReadGeneration, WriteGeneration, SetPid, Remember, Exit,
               MaxGeneration, ClearPid, SendLookup, SendKill, Publish, SetBit, Increment,
               ReadPid, SetFlag, SendSigusr1, WaitSlot, HandleSigusr1, HandleBarrierInterrupt,
               Absorb, ReadGenerations, ExchangeMask, ProcessType, ProcessTypeLater,
               ProcessTypeError, ReportGeneration, UseState, Go, At, Absorbing, EndEmit,
               EndAbsorb, NextSlot, Kill, ResetBits, slotVars, joinVars, emitVars, absorbVars,
               countVars, selfVars, auxVars
          <6> QED
            BY <6>1, <6>2
        <5>4. CASE \E e \in Process : YetToVisit(e, q) \/ AboutToSignal(e, q)
          <6>1. PICK e \in Process : YetToVisit(e, q) \/ AboutToSignal(e, q)
            BY <5>4
          <6>2. \/ YetToVisit(e, q)' \/ AboutToSignal(e, q)'
                \/ pss_signalFlags'[slot[q]] /\ sigusr1'[q]
            BY <4>2, <4>3, <4>4, <5>3, <6>1, AboutToSignalStep
          <6> QED
            BY <4>2, <6>2 DEF OnItsWay
        <5>5. CASE pending[q]
          <6>1. pending'[q] \/ (q = p /\ Absorb(p))
            <7>1. CASE q # p
              BY <1>0, <5>5, <7>1, PrivateFrame
            <7>2. CASE q = p
              BY <1>1, <5>5, <7>2 DEF ActionOf, Start, ClearFlags, ClearMask, ReadGeneration,
                 WriteGeneration, SetPid, Remember, Exit, MaxGeneration, ClearPid, SendLookup,
                 SendKill, Publish, SetBit, Increment, ReadPid, SetFlag, SendSigusr1, WaitSlot,
                 HandleSigusr1, HandleBarrierInterrupt, Absorb, ReadGenerations, ExchangeMask,
                 ProcessType, ProcessTypeLater, ProcessTypeError, ReportGeneration, UseState,
                 Go, At, Absorbing, EndEmit, EndAbsorb, NextSlot, Kill, ResetBits, slotVars,
                 joinVars, emitVars, absorbVars, countVars, selfVars, auxVars
            <7> QED
              BY <7>1, <7>2
          <6>2. q = p /\ Absorb(p) => bpc'[q] = "generations"
            BY <1>1 DEF Absorb
          <6> QED
            BY <6>1, <6>2 DEF OnItsWay
        <5>6. CASE inHandler[q]
          <6>1. inHandler'[q]
            <7>1. CASE q # p
              BY <1>0, <5>6, <7>1, PrivateFrame
            <7>2. CASE q = p
              BY <1>1, <4>9, <5>6, <7>2 DEF ActionOf, Start, ClearFlags, ClearMask,
                 ReadGeneration, WriteGeneration, SetPid, Remember, Exit, MaxGeneration,
                 ClearPid, SendLookup, SendKill, Publish, SetBit, Increment, ReadPid, SetFlag,
                 SendSigusr1, WaitSlot, HandleSigusr1, HandleBarrierInterrupt, Absorb,
                 ReadGenerations, ExchangeMask, ProcessType, ProcessTypeLater,
                 ProcessTypeError, ReportGeneration, UseState, Go, At, Absorbing, EndEmit,
                 EndAbsorb, NextSlot, Kill, ResetBits, slotVars, joinVars, emitVars,
                 absorbVars, countVars, selfVars, auxVars
            <7> QED
              BY <7>1, <7>2
          <6> QED
            BY <6>1 DEF OnItsWay
        <5>7. CASE pss_signalFlags[n] /\ sigusr1[q]
          <6>1. CASE q = p /\ HandleSigusr1(p)
            <7>1. pc[p] # "remember"
              BY <6>1 DEF HandleSigusr1
            <7>2. mySlotSet[p]
              BY <1>0, <4>2, <6>1, <7>1 DEF OwnInv
            <7>3. inHandler'[p]
              BY <1>1, <4>4, <5>7, <6>1, <7>2 DEF HandleSigusr1
            <7> QED
              BY <6>1, <7>3 DEF OnItsWay
          <6>2. CASE ~(q = p /\ HandleSigusr1(p))
            <7>1. ~(q = p /\ ClearPid(p))
              BY <4>2 DEF ClearPid, At, Running
            <7>2. sigusr1'[q]
              BY <1>0, <4>3, <5>7, <6>2, <7>1, SignalFrame
            <7> QED
              BY <4>2, <4>4, <5>3, <5>7, <7>2 DEF OnItsWay
          <6> QED
            BY <6>1, <6>2
        <5>8. CASE bpc[q] = "generations"
          <6>1. CASE q = p /\ ReadGenerations(p)
            <7>1. pss_barrierGeneration[slot[p]] # psh_barrierGeneration
              BY <1>2, <4>4, <4>5, <5>1, <6>1 DEF ListedBehind
            <7>2. bpc'[p] = "exchange" /\ shared_gen'[p] = psh_barrierGeneration
              BY <1>1, <6>1, <7>1 DEF ReadGenerations
            <7> QED
              BY <2>1, <6>1, <7>2 DEF OnItsWay
          <6>2. CASE ~(q = p /\ ReadGenerations(p))
            <7>1. bpc'[q] = "generations"
              <8>1. CASE q # p
                BY <1>0, <5>8, <8>1, PrivateFrame
              <8>2. CASE q = p
                BY <1>0, <1>1, <5>8, <6>2, <8>2 DEF OwnInv, ActionOf, Start, ClearFlags,
                   ClearMask, ReadGeneration, WriteGeneration, SetPid, Remember, Exit,
                   MaxGeneration, ClearPid, SendLookup, SendKill, Publish, SetBit, Increment,
                   ReadPid, SetFlag, SendSigusr1, WaitSlot, HandleSigusr1,
                   HandleBarrierInterrupt, Absorb, ReadGenerations, ExchangeMask, ProcessType,
                   ProcessTypeLater, ProcessTypeError, ReportGeneration, UseState, Go, At,
                   Absorbing, EndEmit, EndAbsorb, NextSlot, Kill, ResetBits, slotVars,
                   joinVars, emitVars, absorbVars, countVars, selfVars, auxVars
              <8> QED
                BY <8>1, <8>2
            <7> QED
              BY <7>1 DEF OnItsWay
          <6> QED
            BY <6>1, <6>2
        <5>9. CASE bpc[q] \in {"exchange", "process"} /\ shared_gen[q] = psh_barrierGeneration
          <6>1. CASE q = p /\ (ProcessTypeLater(p) \/ ProcessTypeError(p))
            BY <1>1, <6>1 DEF ProcessTypeLater, ProcessTypeError, ResetBits, OnItsWay
          <6>2. CASE q = p /\ ReportGeneration(p)
            <7>1. pss_barrierGeneration' = [pss_barrierGeneration EXCEPT ![n] = shared_gen[p]]
              BY <4>4, <4>9, <6>2 DEF ReportGeneration
            <7>2. pss_barrierGeneration'[n] = psh_barrierGeneration
              BY <1>1, <5>9, <6>2, <7>1
            <7> QED
              BY <1>2, <4>6, <7>2
          <6>3. CASE ~(q = p /\ (ProcessTypeLater(p) \/ ProcessTypeError(p) \/ ReportGeneration(p)))
            <7>1. bpc'[q] \in {"exchange", "process"} /\ shared_gen'[q] = shared_gen[q]
              <8>1. CASE q # p
                BY <1>0, <5>9, <8>1, PrivateFrame
              <8>2. CASE q = p
                BY <1>0, <1>1, <5>9, <6>3, <8>2 DEF OwnInv, ActionOf, Start, ClearFlags,
                   ClearMask, ReadGeneration, WriteGeneration, SetPid, Remember, Exit,
                   MaxGeneration, ClearPid, SendLookup, SendKill, Publish, SetBit, Increment,
                   ReadPid, SetFlag, SendSigusr1, WaitSlot, HandleSigusr1,
                   HandleBarrierInterrupt, Absorb, ReadGenerations, ExchangeMask, ProcessType,
                   ProcessTypeLater, ProcessTypeError, ReportGeneration, UseState, Go, At,
                   Absorbing, EndEmit, EndAbsorb, NextSlot, Kill, ResetBits, slotVars,
                   joinVars, emitVars, absorbVars, countVars, selfVars, auxVars
              <8> QED
                BY <8>1, <8>2
            <7> QED
              BY <2>1, <5>9, <7>1 DEF OnItsWay
          <6> QED
            BY <6>1, <6>2, <6>3
        <5> QED
          BY <4>4, <5>2, <5>4, <5>5, <5>6, <5>7, <5>8, <5>9 DEF OnItsWay
      <4> QED
        BY <4>7, <4>8, <4>9
    <3> QED
      BY <3>1, <3>2
  <2> QED
    BY <2>2, <2>3
<1> QED
  BY <1>4, <1>5

-----------------------------------------------------------------------------
(* Nobody has joined, and no barrier was emitted.                          *)
LEMMA InitInv == Init => IInv
<1> SUFFICES ASSUME Init
             PROVE  IInv
  OBVIOUS
<1>1. /\ pc = [p \in Process |-> "out"] /\ bpc = [p \in Process |-> "idle"]
      /\ slot = [p \in Process |-> NoSlot] /\ pss_pid = [s \in Slot |-> NoPid]
      /\ cached = [p \in Process |-> [t \in Type |-> NothingCached]]
  BY DEF Init
<1>2. TypeOK
  <2>1. NoBarrier \in Barrier
    <3>1. (CHOOSE t \in Type : TRUE) \in Type
      BY ConstantsAssumption
    <3>2. 0 \in Version /\ 0 \in Generation
      BY ConstantsAssumption DEF Version, Generation, GenerationMax
    <3> QED
      BY <3>1, <3>2 DEF NoBarrier, Barrier
  <2>2. /\ 0 \in Version /\ 1 \in Version /\ NothingCached \in Version
        /\ 0 \in Generation /\ GenerationMax \in Generation /\ 0 \in 0..MaxEmits
        /\ 0 \in 0..MaxSends /\ 0 \in 0..MaxFails /\ 0 \in 0..NumSlots + 1
    BY ConstantsAssumption DEF Version, Generation, GenerationMax, NothingCached
  <2>3. /\ psh_barrierGeneration \in 0..MaxEmits
        /\ pss_pid \in [Slot -> Process \cup {NoPid}]
        /\ pss_signalFlags \in [Slot -> BOOLEAN]
        /\ pss_barrierGeneration \in [Slot -> Generation]
        /\ pss_barrierCheckMask \in [Slot -> SUBSET Type]
        /\ shared \in [Type -> Version] /\ settled \in [Type -> Version]
        /\ taken \subseteq Slot
        /\ slot \in [Process -> Slot \cup {NoSlot}]
    BY <2>2 DEF Init
  <2>4. /\ generation \in [Process -> Generation] /\ shared_gen \in [Process -> Generation]
        /\ mySlotSet \in [Process -> BOOLEAN] /\ pending \in [Process -> BOOLEAN]
        /\ sigusr1 \in [Process -> BOOLEAN] /\ inHandler \in [Process -> BOOLEAN]
        /\ success \in [Process -> BOOLEAN] /\ flags \in [Process -> SUBSET Type]
        /\ cached \in [Process -> [Type -> Version]]
    BY <2>2 DEF Init
  <2>5. /\ pc \in [Process -> Label]
        /\ bpc \in [Process -> {"idle", "generations", "exchange", "process"}]
        /\ i \in [Process -> 0..NumSlots + 1]
        /\ target \in [Process -> Process \cup {NoPid}]
        /\ emitted \in [Process -> Barrier]
        /\ emits \in 0..MaxEmits /\ sends \in 0..MaxSends /\ fails \in 0..MaxFails
        /\ overtaken \subseteq Process
    BY <2>1, <2>2 DEF Init, Label
  <2> QED
    BY <2>3, <2>4, <2>5 DEF TypeOK
<1>3. OwnInv
  BY DEF Init, OwnInv, Alive, Running, Listed
<1>4. CountInv
  <2>1. InPreparation = {}
    BY <1>1 DEF InPreparation, Preparing
  <2>2. IsFiniteSet({}) /\ Cardinality({}) = 0
    BY FS_EmptySet
  <2> QED
    BY <2>1, <2>2 DEF CountInv, Init
<1>5. GenInv
  BY <1>1 DEF GenInv, HasGen, Running
<1>6. EmitInv
  <2>1. \A t \in Type : settled[t] <= shared[t] /\ shared[t] <= emits + 1 /\ shared[t] >= 1
    BY DEF Init
  <2> QED
    BY <1>1, <2>1 DEF EmitInv, Emitting, Preparing
<1>7. LocalInv
  BY DEF Init, LocalInv
<1>8. StaleInv
  BY <1>1 DEF StaleInv, StaleAt, BitSet, Emitting
<1>9. NoStaleState
  BY <1>1 DEF NoStaleState
<1>10. ToldInv
  BY <1>1 DEF ToldInv, JoinerBehind, ListedBehind, Running
<1> QED
  BY <1>2, <1>3, <1>4, <1>5, <1>6, <1>7, <1>8, <1>9, <1>10 DEF IInv

(* Every step keeps the invariant.                                         *)
LEMMA InvStep == IInv /\ [Next]_vars => IInv'
<1> SUFFICES ASSUME IInv, [Next]_vars
             PROVE  IInv'
  OBVIOUS
<1>1. CASE Next
  <2>1. PICK p \in Process : ActionOf(p)
    BY <1>1, NextIsAction
  <2>2. TypeOK' /\ OwnInv' /\ CountInv'
    BY <2>1, TypeStep, OwnStep, CountStep
  <2>3. GenInv' /\ EmitInv' /\ LocalInv'
    BY <2>1, GenStep, EmitStep, LocalStep
  <2>4. StaleInv' /\ NoStaleState' /\ ToldInv'
    BY <2>1, StaleStep, NoStaleStep, ToldStep
  <2> QED
    BY <2>2, <2>3, <2>4 DEF IInv
<1>2. CASE UNCHANGED vars
  <2> USE <1>2 DEF vars, slotVars, joinVars, emitVars, absorbVars, countVars, selfVars, auxVars
  <2>1. TypeOK'
    BY DEF IInv, TypeOK
  <2>2. OwnInv'
    BY DEF IInv, OwnInv, Alive
  <2>3. CountInv'
    <3>1. InPreparation' = InPreparation
      BY DEF InPreparation
    <3> QED
      BY <3>1 DEF IInv, CountInv
  <2>4. GenInv' /\ EmitInv' /\ LocalInv'
    BY DEF IInv, GenInv, EmitInv, LocalInv
  <2>5. StaleInv'
    BY DEF IInv, StaleInv, Stale, StaleAt, BitSet
  <2>6. NoStaleState'
    BY DEF IInv, NoStaleState
  <2>7. ToldInv'
    BY DEF IInv, ToldInv, JoinerBehind, ListedBehind, OnItsWay, YetToVisit, AboutToSignal
  <2> QED
    BY <2>1, <2>2, <2>3, <2>4, <2>5, <2>6, <2>7 DEF IInv
<1> QED
  BY <1>1, <1>2

(* The inductive invariant holds throughout.                               *)
LEMMA Inductive == Spec => []IInv
BY InitInv, InvStep, PTL DEF Spec

(* WaitForProcSignalBarrier has returned: nobody works with anything older *)
(* than what the barrier was emitted for, however many processes join,     *)
(* exit, take each other's slots, emit and fail.                           *)
THEOREM NobodyIsStale == Spec => []NoStaleState
<1>1. IInv => NoStaleState
  BY DEF IInv
<1> QED
  BY <1>1, Inductive, PTL

(* A process whose generation is behind is told of it, unless an emission  *)
(* passed over it while it joined; nobody is ahead, as                     *)
(* ProcessProcSignalBarrier asserts.                                       *)
THEOREM BehindGetsTold == Spec => []BehindIsTold
<1>1. IInv => BehindIsTold
  <2> SUFFICES ASSUME IInv
               PROVE  BehindIsTold
    OBVIOUS
  <2>1. TypeOK /\ OwnInv /\ GenInv /\ ToldInv
    BY DEF IInv
  <2>2. ASSUME NEW p \in Process, bpc[p] = "generations"
        PROVE  pss_barrierGeneration[slot[p]] <= psh_barrierGeneration
    BY <2>1, <2>2 DEF OwnInv, GenInv, HasGen, Running
  <2>3. ASSUME NEW p \in Process \ overtaken, Behind(p)
        PROVE  OnItsWay(p)
    BY <2>1, <2>3 DEF OwnInv, ToldInv, ListedBehind, Behind
  <2> QED
    BY <2>1, <2>2, <2>3 DEF BehindIsTold
<1> QED
  BY <1>1, Inductive, PTL
=============================================================================
