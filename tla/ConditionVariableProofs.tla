----------------------- MODULE ConditionVariableProofs -----------------------
(***************************************************************************)
(* Proofs about ConditionVariable for any number of processes, condition   *)
(* variables, nested handlers and spurious latch settings: a PGPROC's one  *)
(* cvWaitLink is in one list at most, no wakeup is lost, and a broadcast   *)
(* takes everybody off the list who was on it.                             *)
(*                                                                         *)
(* The invariant has four parts.  ControlInv ties the place of a process   *)
(* in the code to cv_sleep_target and to its broadcast's sentinel.  QueueInv*)
(* says who may be in a list.  WakeInv follows a process that has prepared *)
(* to sleep, from PrepareToSleep on, not only while it waits.  OwedInv     *)
(* keeps the order of the list: whoever a broadcast still has to reach is  *)
(* in front of its sentinel.                                               *)
(***************************************************************************)
EXTENDS ConditionVariable, SequenceTheorems, TLAPS

Broadcasting == {"setlatch", "lsetlatch", "bloop"}

ControlAt(p) ==
  /\ pc[p] = "interrupt" => frames[p] # << >>
  /\ have_sentinel[p] => pc[p] \in Broadcasting
  /\ pc[p] = "bloop" => have_sentinel[p]
  /\ proc[p] # NoProc => pc[p] \in {"setlatch", "lsetlatch"}
  /\ have_sentinel[p] \/ pc[p] \in {"push", "bfirst", "lsetlatch"} => cv_sleep_target[p] = NoCV
  /\ pc[p] \in {"wait", "reset", "check", "treset", "tcheck"} => cv_sleep_target[p] = cv[p]

ControlInv == \A p \in Proc : ControlAt(p)

QueueInv ==
  /\ \A c \in CVs : IsInjective(wakeup[c])
  /\ \A c \in CVs : \A p \in Proc :
       Contains(wakeup[c], p) =>
         \/ cv_sleep_target[p] = c
         \/ have_sentinel[p] /\ cv[p] = c

(* A process prepared to sleep is on the list, or its latch is set, or     *)
(* about to be, or it is about to look at the list.                        *)
WakeInv ==
  \A p \in Proc : cv_sleep_target[p] # NoCV =>
    \/ Contains(wakeup[cv_sleep_target[p]], p)
    \/ latch[p]
    \/ \E q \in Proc : proc[q] = p
    \/ pc[p] \in {"check", "tcheck"}

(* x is in front of y in the list s.                                       *)
Precedes(s, x, y) == \E i, j \in 1 .. Len(s) : i < j /\ s[i] = x /\ s[j] = y

OwedInv ==
  \A p \in Proc :
    /\ ~have_sentinel[p] => owed[p] = {}
    /\ \A x \in owed[p] : Precedes(wakeup[cv[p]], x, p)

IInv == TypeOK /\ ControlInv /\ QueueInv /\ WakeInv /\ OwedInv
-----------------------------------------------------------------------------
(* Contains and ToSet agree on sequences.                                  *)
LEMMA ContainsToSet ==
  ASSUME NEW S, NEW s \in Seq(S), NEW x
  PROVE  x \in ToSet(s) <=> Contains(s, x)
BY DEF ToSet, Contains

(* Who is in front of another is on the list, and so is the other.         *)
LEMMA PrecedesContains ==
  ASSUME NEW S, NEW s \in Seq(S), NEW x, NEW y, Precedes(s, x, y)
  PROVE  Contains(s, x) /\ Contains(s, y)
BY DEF Precedes, Contains

(* proclist_push_tail of a node that is not in the list: it comes last.    *)
LEMMA AppendList ==
  ASSUME NEW S, NEW s \in Seq(S), IsInjective(s), NEW x \in S, ~Contains(s, x)
  PROVE  /\ Append(s, x) \in Seq(S)
         /\ IsInjective(Append(s, x))
         /\ \A y : Contains(Append(s, x), y) <=> Contains(s, y) \/ y = x
         /\ \A y, z : Precedes(s, y, z) => Precedes(Append(s, x), y, z)
         /\ \A y : Contains(s, y) => Precedes(Append(s, x), y, x)
<1> DEFINE t == Append(s, x)
<1>1. /\ t \in Seq(S) /\ Len(t) = Len(s) + 1 /\ Len(s) \in Nat
      /\ \A i \in 1 .. Len(s) : t[i] = s[i]
      /\ t[Len(s) + 1] = x
      /\ DOMAIN t = 1 .. Len(s) + 1 /\ DOMAIN s = 1 .. Len(s)
  OBVIOUS
<1> HIDE DEF t
<1>2. \A i \in 1 .. Len(s) : s[i] # x
  BY DEF Contains
<1>3. IsInjective(t)
  BY <1>1, <1>2 DEF IsInjective
<1>4. \A y : Contains(t, y) <=> Contains(s, y) \/ y = x
  BY <1>1 DEF Contains
<1>5. \A y, z : Precedes(s, y, z) => Precedes(t, y, z)
  BY <1>1 DEF Precedes
<1>6. \A y : Contains(s, y) => Precedes(t, y, x)
  BY <1>1 DEF Precedes, Contains
<1> QED
  BY <1>1, <1>3, <1>4, <1>5, <1>6 DEF t

(* proclist_pop_head: the others stay, in the same order, and nobody was   *)
(* in front of the head.                                                   *)
LEMMA TailList ==
  ASSUME NEW S, NEW s \in Seq(S), IsInjective(s), s # << >>
  PROVE  /\ Tail(s) \in Seq(S) /\ Head(s) \in S /\ Contains(s, Head(s))
         /\ IsInjective(Tail(s))
         /\ \A y : Contains(Tail(s), y) <=> Contains(s, y) /\ y # Head(s)
         /\ \A y, z : Precedes(s, y, z) => z # Head(s)
         /\ \A y, z : Precedes(s, y, z) /\ y # Head(s) => Precedes(Tail(s), y, z)
<1> DEFINE t == Tail(s)
           h == Head(s)
<1>1. /\ t \in Seq(S) /\ Len(t) = Len(s) - 1 /\ Len(s) \in Nat /\ Len(s) >= 1
      /\ \A i \in 1 .. Len(t) : t[i] = s[i + 1]
      /\ h = s[1] /\ h \in S
      /\ DOMAIN t = 1 .. Len(t) /\ DOMAIN s = 1 .. Len(s)
  OBVIOUS
<1>2. \A i \in 1 .. Len(s) : \A j \in 1 .. Len(s) : s[i] = s[j] => i = j
  BY <1>1 DEF IsInjective
<1> HIDE DEF t, h
<1>3. Contains(s, h)
  BY <1>1 DEF Contains
<1>4. IsInjective(t)
  BY <1>1, <1>2 DEF IsInjective
<1>5. ASSUME NEW y, Contains(s, y), y # h
      PROVE  Contains(t, y)
  <2>1. PICK i \in 1 .. Len(s) : s[i] = y
    BY <1>5 DEF Contains
  <2>2. i - 1 \in 1 .. Len(t) /\ t[i - 1] = y
    BY <1>1, <1>5, <2>1
  <2> QED
    BY <2>2 DEF Contains
<1>6. ASSUME NEW y, Contains(t, y)
      PROVE  Contains(s, y) /\ y # h
  <2>1. PICK i \in 1 .. Len(t) : t[i] = y
    BY <1>6 DEF Contains
  <2>2. i + 1 \in 1 .. Len(s) /\ s[i + 1] = y
    BY <1>1, <2>1
  <2> QED
    BY <1>1, <1>2, <2>2 DEF Contains
<1>7. ASSUME NEW y, NEW z, Precedes(s, y, z)
      PROVE  z # h /\ (y # h => Precedes(t, y, z))
  <2>1. PICK i \in 1 .. Len(s), j \in 1 .. Len(s) : i < j /\ s[i] = y /\ s[j] = z
    BY <1>7 DEF Precedes
  <2>2. z # h
    BY <1>1, <1>2, <2>1
  <2>3. ASSUME y # h
        PROVE  Precedes(t, y, z)
    <3>1. i - 1 \in 1 .. Len(t) /\ t[i - 1] = y
      BY <1>1, <2>1, <2>3
    <3>2. j - 1 \in 1 .. Len(t) /\ t[j - 1] = z /\ i - 1 < j - 1
      BY <1>1, <2>1
    <3> QED
      BY <3>1, <3>2 DEF Precedes
  <2> QED
    BY <2>2, <2>3
<1> QED
  BY <1>1, <1>3, <1>4, <1>5, <1>6, <1>7 DEF t, h

(* proclist_delete of one node: the others stay, in the same order.        *)
LEMMA WithoutList ==
  ASSUME NEW S, NEW s \in Seq(S), IsInjective(s), NEW x
  PROVE  /\ Without(s, x) \in Seq(S)
         /\ IsInjective(Without(s, x))
         /\ \A y : Contains(Without(s, x), y) <=> Contains(s, y) /\ y # x
         /\ \A y, z : Precedes(s, y, z) /\ y # x /\ z # x => Precedes(Without(s, x), y, z)
<1>1. CASE ~Contains(s, x)
  BY <1>1 DEF Without, RemoveFirst, Contains
<1>2. CASE Contains(s, x)
  <2>1. PICK k \in 1 .. Len(s) : s[k] = x
    BY <1>2 DEF Contains
  <2>2. DOMAIN s = 1 .. Len(s) /\ Len(s) \in Nat
    OBVIOUS
  <2>3. \A i \in 1 .. Len(s) : \A j \in 1 .. Len(s) : s[i] = s[j] => i = j
    BY <2>2 DEF IsInjective
  <2>4. {i \in 1 .. Len(s) : s[i] = x} = {k}
    BY <2>1, <2>3
  <2>5. Min({k}) = k
    BY <2>1 DEF Min
  <2>6. Without(s, x) = RemoveAt(s, k)
    BY <1>2, <2>4, <2>5 DEF Without, RemoveFirst, SelectInSeq, Contains
  <2> DEFINE t == RemoveAt(s, k)
             a == SubSeq(s, 1, k - 1)
             b == SubSeq(s, k + 1, Len(s))
  <2>8. a \in Seq(S) /\ Len(a) = k - 1 /\ \A i \in 1 .. k - 1 : a[i] = s[i]
    BY <2>1, <2>2
  <2>9. b \in Seq(S) /\ Len(b) = Len(s) - k /\ \A i \in 1 .. Len(s) - k : b[i] = s[i + k]
    <3>1. k + 1 \in Int /\ Len(s) \in Int /\ \A i \in k + 1 .. Len(s) : s[i] \in S
      BY <2>1, <2>2
    <3>2. /\ b \in Seq(S) /\ Len(b) = IF k + 1 <= Len(s) THEN Len(s) - (k + 1) + 1 ELSE 0
          /\ \A i \in 1 .. Len(s) - (k + 1) + 1 : b[i] = s[k + 1 + i - 1]
      BY <3>1, SubSeqProperties
    <3> HIDE DEF b
    <3>3. Len(b) = Len(s) - k /\ Len(s) - (k + 1) + 1 = Len(s) - k
      <4>1. k \in Int /\ k <= Len(s) /\ Len(s) \in Int
        BY <2>1, <2>2
      <4>2. CASE k + 1 <= Len(s)
        BY <3>2, <4>1, <4>2
      <4>3. CASE ~(k + 1 <= Len(s))
        <5>1. k = Len(s) /\ Len(b) = 0
          BY <3>2, <4>1, <4>3
        <5> QED
          BY <4>1, <5>1
      <4> QED
        BY <4>2, <4>3
    <3>4. \A i \in 1 .. Len(s) - k : k + 1 + i - 1 = i + k
      BY <2>1, <2>2
    <3> QED
      BY <3>2, <3>3, <3>4
  <2>10. t = a \o b
    BY DEF RemoveAt
  <2> HIDE DEF a, b, t
  <2>11. /\ t \in Seq(S) /\ Len(t) = Len(s) - 1 /\ DOMAIN t = 1 .. Len(s) - 1
         /\ \A i \in 1 .. Len(s) - 1 : t[i] = IF i < k THEN s[i] ELSE s[i + 1]
    <3>1. t \in Seq(S) /\ Len(t) = Len(a) + Len(b)
      BY <2>8, <2>9, <2>10, ConcatProperties
    <3>2. ASSUME NEW i \in 1 .. Len(s) - 1
          PROVE  t[i] = IF i < k THEN s[i] ELSE s[i + 1]
      <4>1. t[i] = IF i <= Len(a) THEN a[i] ELSE b[i - Len(a)]
        <5>1. i \in 1 .. Len(a) + Len(b)
          BY <2>1, <2>2, <2>8, <2>9
        <5> QED
          BY <2>8, <2>9, <2>10, <5>1, ConcatProperties
      <4>2. CASE i < k
        BY <2>1, <2>2, <2>8, <4>1, <4>2
      <4>3. CASE ~(i < k)
        <5>1. i - (k - 1) \in 1 .. Len(s) - k /\ ~(i <= k - 1)
          BY <2>1, <2>2, <3>2, <4>3
        <5>2. b[i - (k - 1)] = s[i - (k - 1) + k]
          BY <2>9, <5>1
        <5>3. i - (k - 1) + k = i + 1
          BY <2>1, <2>2
        <5> QED
          BY <2>8, <4>1, <4>3, <5>1, <5>2, <5>3
      <4> QED
        BY <4>2, <4>3
    <3> QED
      BY <2>1, <2>2, <2>8, <2>9, <3>1, <3>2
  <2> HIDE DEF a, b, t
  <2>12. IsInjective(t)
    BY <2>2, <2>3, <2>11 DEF IsInjective
  <2>13. ASSUME NEW y, Contains(t, y)
         PROVE  Contains(s, y) /\ y # x
    <3>1. PICK i \in 1 .. Len(s) - 1 : t[i] = y
      BY <2>11, <2>13 DEF Contains
    <3>2. CASE i < k
      BY <2>1, <2>2, <2>3, <2>11, <3>1, <3>2 DEF Contains
    <3>3. CASE ~(i < k)
      <4>1. i + 1 \in 1 .. Len(s) /\ i + 1 # k /\ s[i + 1] = y
        BY <2>1, <2>2, <2>11, <3>1, <3>3
      <4> QED
        BY <2>1, <2>3, <4>1 DEF Contains
    <3> QED
      BY <3>2, <3>3
  <2>14. ASSUME NEW i \in 1 .. Len(s), s[i] # x
         PROVE  \/ i < k /\ i \in 1 .. Len(t) /\ t[i] = s[i]
                \/ i > k /\ i - 1 \in 1 .. Len(t) /\ t[i - 1] = s[i]
    <3>1. i # k
      BY <2>1, <2>14
    <3>2. CASE i < k
      BY <2>1, <2>2, <2>11, <3>2
    <3>3. CASE i > k
      <4>1. i - 1 \in 1 .. Len(s) - 1 /\ ~(i - 1 < k) /\ i - 1 + 1 = i
        BY <2>1, <2>2, <3>3
      <4> QED
        BY <2>11, <3>3, <4>1
    <3> QED
      BY <2>1, <2>2, <3>1, <3>2, <3>3
  <2>15. ASSUME NEW y, Contains(s, y), y # x
         PROVE  Contains(t, y)
    BY <2>14, <2>15 DEF Contains
  <2>16. ASSUME NEW y, NEW z, Precedes(s, y, z), y # x, z # x
         PROVE  Precedes(t, y, z)
    <3>1. PICK i \in 1 .. Len(s), j \in 1 .. Len(s) : i < j /\ s[i] = y /\ s[j] = z
      BY <2>16 DEF Precedes
    <3> DEFINE u == IF i < k THEN i ELSE i - 1
               v == IF j < k THEN j ELSE j - 1
    <3>2. u \in 1 .. Len(t) /\ t[u] = y
      BY <2>1, <2>2, <2>14, <2>16, <3>1
    <3>3. v \in 1 .. Len(t) /\ t[v] = z
      BY <2>1, <2>2, <2>14, <2>16, <3>1
    <3>4. u < v
      BY <2>1, <2>2, <2>16, <3>1
    <3> QED
      BY <3>2, <3>3, <3>4 DEF Precedes
  <2> QED
    BY <2>6, <2>11, <2>12, <2>13, <2>15, <2>16 DEF t
<1> QED
  BY <1>1, <1>2

(* CancelSleep takes the process off the list of its sleep target; the     *)
(* others stay as they were, and nobody is owed a wakeup any more or less. *)
LEMMA CancelEffect ==
  ASSUME TypeOK, QueueInv, NEW p \in Proc, CancelSleep(p)
  PROVE  /\ wakeup' \in [CVs -> Seq(Proc)] /\ owed' \in [Proc -> SUBSET Proc]
         /\ cv_sleep_target' = [cv_sleep_target EXCEPT ![p] = NoCV]
         /\ \A c \in CVs : IsInjective(wakeup'[c])
         /\ \A c \in CVs, q \in Proc :
              Contains(wakeup'[c], q) <=> Contains(wakeup[c],
                 q) /\ ~(q = p /\ c = cv_sleep_target[p])
         /\ \A b \in Proc : owed'[b] \subseteq owed[b]
         /\ \A b \in Proc : \A x \in owed'[b] :
              cv[b] \in CVs /\ b # p /\ Precedes(wakeup[cv[b]], x, b)
                => Precedes(wakeup'[cv[b]], x, b)
<1> DEFINE c == cv_sleep_target[p]
<1>1. CASE c = NoCV
  BY <1>1, ConstantsAssumption DEF TypeOK, QueueInv, CancelSleep
<1>2. CASE c # NoCV
  <2>1. c \in CVs /\ wakeup[c] \in Seq(Proc) /\ IsInjective(wakeup[c])
    BY <1>2 DEF TypeOK, QueueInv
  <2> DEFINE w == Without(wakeup[c], p)
  <2>2. wakeup' = [wakeup EXCEPT ![c] = w] /\ owed' = Owed(p, c)
    BY <1>2 DEF CancelSleep
  <2>3. /\ w \in Seq(Proc) /\ IsInjective(w)
        /\ \A y : Contains(w, y) <=> Contains(wakeup[c], y) /\ y # p
        /\ \A y, z : Precedes(wakeup[c], y, z) /\ y # p /\ z # p => Precedes(w, y, z)
    BY <2>1, WithoutList
  <2> HIDE DEF w
  <2>4. wakeup'[c] = w /\ \A d \in CVs : d # c => wakeup'[d] = wakeup[d]
    BY <2>1, <2>2 DEF TypeOK
  <2>5. wakeup' \in [CVs -> Seq(Proc)]
    BY <2>1, <2>2, <2>3 DEF TypeOK
  <2>6. \A b \in Proc : owed'[b] = IF cv[b] = c THEN owed[b] \ {p} ELSE owed[b]
    BY <2>2 DEF Owed
  <2>7. owed' \in [Proc -> SUBSET Proc]
    BY <2>2 DEF Owed, TypeOK
  <2>8. \A d \in CVs : IsInjective(wakeup'[d])
    BY <2>3, <2>4 DEF QueueInv
  <2>9. \A d \in CVs, q \in Proc :
          Contains(wakeup'[d], q) <=> Contains(wakeup[d], q) /\ ~(q = p /\ d = c)
    BY <2>3, <2>4
  <2>10. ASSUME NEW b \in Proc, NEW x \in owed'[b], cv[b] \in CVs, b # p,
                Precedes(wakeup[cv[b]], x, b)
         PROVE  Precedes(wakeup'[cv[b]], x, b)
    <3>1. CASE cv[b] = c
      BY <2>3, <2>4, <2>6, <2>10, <3>1
    <3>2. CASE cv[b] # c
      BY <2>4, <2>10, <3>2
    <3> QED
      BY <3>1, <3>2
  <2> QED
    BY <2>5, <2>6, <2>7, <2>8, <2>9, <2>10 DEF CancelSleep
<1> QED
  BY <1>1, <1>2

(* Taking the head off a list: whoever it was is now in proc[p], nobody is *)
(* owed it any more, and if it was a sentinel nobody was in front of it.   *)
LEMMA PopEffect ==
  ASSUME TypeOK, QueueInv, NEW p \in Proc, cv[p] \in CVs, PopHead(p)
  PROVE  /\ wakeup' \in [CVs -> Seq(Proc)] /\ owed' \in [Proc -> SUBSET Proc]
         /\ \A c \in CVs : IsInjective(wakeup'[c])
         /\ proc' \in [Proc -> Proc \cup {NoProc}]
         /\ \A q \in Proc : q # p => proc'[q] = proc[q]
         /\ \A c \in CVs, q \in Proc :
              Contains(wakeup'[c], q) <=> Contains(wakeup[c], q) /\ ~(c = cv[p] /\ q = proc'[p])
         /\ \A b \in Proc : owed'[b] \subseteq owed[b]
         /\ \A b \in Proc : \A x \in owed'[b] :
              cv[b] \in CVs /\ Precedes(wakeup[cv[b]], x, b) => Precedes(wakeup'[cv[b]], x, b)
<1> DEFINE c == cv[p]
           s == wakeup[c]
<1>1. s \in Seq(Proc) /\ IsInjective(s)
  BY DEF TypeOK, QueueInv
<1>2. CASE s = << >>
  <2>1. \A q \in Proc : ~Contains(s, q)
    BY <1>2 DEF Contains
  <2>2. proc'[p] = NoProc /\ UNCHANGED <<wakeup, owed>>
    BY <1>2 DEF PopHead, TypeOK
  <2> QED
    BY <1>2, <2>1, <2>2 DEF PopHead, TypeOK, QueueInv
<1>3. CASE s # << >>
  <2> DEFINE h == Head(s)
             t == Tail(s)
  <2>1. /\ t \in Seq(Proc) /\ h \in Proc /\ IsInjective(t)
        /\ \A y : Contains(t, y) <=> Contains(s, y) /\ y # h
        /\ \A y, z : Precedes(s, y, z) => z # h
        /\ \A y, z : Precedes(s, y, z) /\ y # h => Precedes(t, y, z)
    BY <1>1, <1>3, TailList
  <2>2. /\ proc' = [proc EXCEPT ![p] = h] /\ wakeup' = [wakeup EXCEPT ![c] = t]
        /\ owed' = Owed(h, c)
    BY <1>3 DEF PopHead
  <2> HIDE DEF h, t
  <2>3. wakeup'[c] = t /\ \A d \in CVs : d # c => wakeup'[d] = wakeup[d]
    BY <2>2 DEF TypeOK
  <2>4. wakeup' \in [CVs -> Seq(Proc)] /\ owed' \in [Proc -> SUBSET Proc]
    BY <2>1, <2>2 DEF TypeOK, Owed
  <2>5. \A b \in Proc : owed'[b] = IF cv[b] = c THEN owed[b] \ {h} ELSE owed[b]
    BY <2>2 DEF Owed
  <2>6. \A d \in CVs : IsInjective(wakeup'[d])
    BY <2>1, <2>3 DEF QueueInv
  <2>7. /\ proc' \in [Proc -> Proc \cup {NoProc}] /\ proc'[p] = h
        /\ \A q \in Proc : q # p => proc'[q] = proc[q]
    BY <2>1, <2>2 DEF TypeOK
  <2>8. \A d \in CVs, q \in Proc :
          Contains(wakeup'[d], q) <=> Contains(wakeup[d], q) /\ ~(d = c /\ q = proc'[p])
    BY <2>1, <2>3, <2>7
  <2>9. ASSUME NEW b \in Proc, NEW x \in owed'[b], cv[b] \in CVs, Precedes(wakeup[cv[b]], x, b)
        PROVE  Precedes(wakeup'[cv[b]], x, b)
    <3>1. CASE cv[b] = c
      BY <2>1, <2>3, <2>5, <2>9, <3>1
    <3>2. CASE cv[b] # c
      BY <2>3, <2>9, <3>2
    <3> QED
      BY <3>1, <3>2
  <2> QED
    BY <2>4, <2>5, <2>6, <2>7, <2>8, <2>9
<1> QED
  BY <1>2, <1>3

(* A list to which something was added is not empty.                       *)
LEMMA AppendNotEmpty ==
  ASSUME NEW S, NEW s \in Seq(S), NEW e
  PROVE  Append(s, e) # << >>
<1>1. s \in Seq(S \cup {e})
  BY SeqMonotonic
<1>2. Append(s, e) \in Seq(S \cup {e}) /\ Len(Append(s, e)) = Len(s) + 1 /\ Len(s) \in Nat
  BY <1>1
<1> QED
  BY <1>2

(* What a process can do, one disjunct per action.                        *)
ActionOf(p) ==
  \/ CallWait(p) \/ CallSignal(p) \/ CallBroadcast(p)
  \/ Cancel(p) \/ PrepareCancel(p) \/ PreparePush(p)
  \/ TestCondition(p) \/ WaitLatch(p) \/ ResetLatch(p, "reset", "check")
  \/ CheckList(p, "check", "cfi") \/ ResetLatch(p, "treset", "tcheck") \/ CheckList(p,
                "tcheck", "tcfi")
  \/ EndInterrupt(p) \/ AfterInterrupts(p) \/ AfterTimeout(p)
  \/ Signal(p) \/ BroadcastCancel(p) \/ BroadcastFirst(p)
  \/ BroadcastLoop(p) \/ SetLatch(p) \/ WaitTimeout(p)
  \/ Interrupt(p, "cfi", "cfi") \/ Interrupt(p, "tcfi", "tcfi") \/ Abort(p)
  \/ SpuriousSetLatch(p)

(* They are the disjuncts of Next.                                        *)
LEMMA NextIsAction == Next <=> \E p \in Proc : ActionOf(p)
BY DEF Next, Call, Step, Event, AfterWait, ActionOf

(* The first round of a broadcast: r is what is left of the list without   *)
(* its head; the sentinel goes behind it, and it is what is owed.          *)
FirstEffect(p, r) ==
  /\ IsInjective(r)
  /\ ~Contains(r, p) /\ IsInjective(Append(r, p)) /\ Append(r, p) \in Seq(Proc)
  /\ wakeup' = [wakeup EXCEPT ![cv[p]] = IF r = << >> THEN << >> ELSE Append(r, p)]
  /\ have_sentinel' = [have_sentinel EXCEPT ![p] = r # << >>]
  /\ proc'[p] \in Proc \cup {NoProc}
  /\ proc' = [proc EXCEPT ![p] = proc'[p]]
  /\ \A q \in Proc : Contains(r, q) <=> Contains(wakeup[cv[p]], q) /\ q # proc'[p]
  /\ \A y, z : Precedes(wakeup[cv[p]], y, z) => z # proc'[p]
  /\ \A y, z : Precedes(wakeup[cv[p]], y, z) /\ y # proc'[p] => Precedes(r, y, z)
  /\ owed' \in [Proc -> SUBSET Proc]
  /\ owed'[p] = ToSet(r)
  /\ \A b \in Proc \ {p} :
       owed'[b] = IF cv[b] = cv[p] THEN owed[b] \ {proc'[p]} ELSE owed[b]

(* BroadcastFirst does that.                                               *)
LEMMA FirstHolds ==
  ASSUME TypeOK, ControlInv, QueueInv, NEW p \in Proc, BroadcastFirst(p)
  PROVE  \E r \in Seq(Proc) : FirstEffect(p, r)
<1> DEFINE c == cv[p]
           s == wakeup[c]
           r == IF s = << >> THEN << >> ELSE Tail(s)
<1>1. c \in CVs /\ s \in Seq(Proc) /\ IsInjective(s)
  BY DEF TypeOK, QueueInv, BroadcastFirst
<1>2. ~Contains(s, p)
  BY <1>1, ConstantsAssumption
  DEF QueueInv, ControlInv, ControlAt, BroadcastFirst, Broadcasting
<1>3. /\ wakeup' = [wakeup EXCEPT ![c] = IF r = << >> THEN << >> ELSE Append(r, p)]
      /\ have_sentinel' = [have_sentinel EXCEPT ![p] = r # << >>]
      /\ owed' = [(IF s = << >> THEN owed ELSE Owed(Head(s), c)) EXCEPT ![p] = ToSet(r)]
      /\ proc' = [proc EXCEPT ![p] = IF s = << >> THEN NoProc ELSE Head(s)]
  BY DEF BroadcastFirst
<1>4. CASE s = << >>
  <2>1. r = << >> /\ proc'[p] = NoProc /\ r \in Seq(Proc)
    BY <1>3, <1>4 DEF TypeOK
  <2>2. IsInjective(r) /\ \A y : ~Contains(r, y)
    <3> HIDE DEF r
    <3>1. Len(r) = 0 /\ DOMAIN r = {}
      BY <2>1
    <3> QED
      BY <3>1 DEF IsInjective, Contains
  <2>3. \A y, z : ~Precedes(s, y, z)
    BY <1>4 DEF Precedes
  <2>4. Append(r, p) \in Seq(Proc) /\ IsInjective(Append(r, p))
    BY <2>1, <2>2, AppendList
  <2>5. ToSet(r) = {}
    BY <2>1 DEF ToSet
  <2>6. \A b \in Proc \ {p} : Contains(s, proc'[p]) \/ owed'[b] = owed[b]
    BY <1>3, <1>4 DEF TypeOK
  <2>7. owed' \in [Proc -> SUBSET Proc] /\ owed'[p] = ToSet(r)
    BY <1>3, <1>4, <2>5 DEF TypeOK
  <2>8. \A b \in Proc \ {p} : owed'[b] = owed[b] /\ owed[b] \ {NoProc} = owed[b]
    BY <1>3, <1>4, ConstantsAssumption DEF TypeOK
  <2> HIDE DEF r
  <2>9. FirstEffect(p, r)
    BY <1>3, <1>4, <2>1, <2>2, <2>3, <2>4, <2>7, <2>8 DEF FirstEffect, TypeOK
  <2> QED
    BY <2>1, <2>9
<1>5. CASE s # << >>
  <2> DEFINE h == Head(s)
  <2>1. r = Tail(s) /\ proc'[p] = h
    BY <1>3, <1>5 DEF TypeOK
  <2>2. /\ r \in Seq(Proc) /\ h \in Proc /\ IsInjective(r)
        /\ \A y : Contains(r, y) <=> Contains(s, y) /\ y # h
        /\ \A y, z : Precedes(s, y, z) => z # h
        /\ \A y, z : Precedes(s, y, z) /\ y # h => Precedes(r, y, z)
    BY <1>1, <1>5, <2>1, TailList
  <2>3. ~Contains(r, p)
    BY <1>2, <2>2
  <2>4. Append(r, p) \in Seq(Proc) /\ IsInjective(Append(r, p))
    BY <2>2, <2>3, AppendList
  <2>5. ToSet(r) \in SUBSET Proc
    BY <2>2 DEF ToSet
  <2>6. owed' = [Owed(h, c) EXCEPT ![p] = ToSet(r)]
    BY <1>3, <1>5
  <2> HIDE DEF r, h
  <2>7. /\ owed' \in [Proc -> SUBSET Proc] /\ owed'[p] = ToSet(r)
        /\ \A b \in Proc \ {p} : owed'[b] = IF cv[b] = c THEN owed[b] \ {h} ELSE owed[b]
    BY <2>5, <2>6 DEF TypeOK, Owed
  <2>8. proc' = [proc EXCEPT ![p] = h]
    BY <1>3, <1>5 DEF h
  <2>9. FirstEffect(p, r)
    BY <1>3, <2>1, <2>2, <2>3, <2>4, <2>7, <2>8 DEF FirstEffect
  <2> QED
    BY <2>2, <2>9
<1> QED
  BY <1>4, <1>5

(* Every action keeps the types.                                           *)
LEMMA TypeStep ==
  ASSUME TypeOK, ControlInv, QueueInv, NEW p \in Proc, ActionOf(p)
  PROVE  TypeOK'
<1> USE ConstantsAssumption
<1>1. CASE CallWait(p)
  BY <1>1 DEF TypeOK, Pcs, CallWait, Begin, Callable, wakeVars, Go
<1>2. CASE CallSignal(p)
  BY <1>2 DEF TypeOK, Pcs, CallSignal, Begin, Callable, wakeVars, Go
<1>3. CASE CallBroadcast(p)
  BY <1>3 DEF TypeOK, Pcs, CallBroadcast, Begin, Callable, wakeVars, Go
<1>4. CASE Cancel(p)
  <2>1. CancelSleep(p)
    BY <1>4 DEF Cancel
  <2>2. /\ wakeup' \in [CVs -> Seq(Proc)] /\ owed' \in [Proc -> SUBSET Proc]
        /\ cv_sleep_target' = [cv_sleep_target EXCEPT ![p] = NoCV]
    BY <2>1, CancelEffect
  <2> QED
    BY <1>4, <2>2 DEF TypeOK, Pcs, Cancel, Return, wakeVars, Go
<1>5. CASE PrepareCancel(p)
  <2>1. CancelSleep(p)
    BY <1>5 DEF PrepareCancel
  <2>2. /\ wakeup' \in [CVs -> Seq(Proc)] /\ owed' \in [Proc -> SUBSET Proc]
        /\ cv_sleep_target' = [cv_sleep_target EXCEPT ![p] = NoCV]
    BY <2>1, CancelEffect
  <2> QED
    BY <1>5, <2>2 DEF TypeOK, Pcs, PrepareCancel, callVars, wakeVars, Go
<1>6. CASE PreparePush(p)
  <2>1. cv[p] \in CVs /\ Append(wakeup[cv[p]], p) \in Seq(Proc)
    BY <1>6 DEF TypeOK, PreparePush
  <2> QED
    BY <1>6, <2>1 DEF TypeOK, Pcs, PreparePush, callVars, wakeVars, Go
<1>7. CASE TestCondition(p)
  BY <1>7 DEF TypeOK, Pcs, TestCondition, wakeVars, Go
<1>8. CASE WaitLatch(p)
  BY <1>8 DEF TypeOK, Pcs, WaitLatch, callVars, wakeVars, Go
<1>9. CASE ResetLatch(p, "reset", "check")
  BY <1>9 DEF TypeOK, Pcs, ResetLatch, callVars, wakeVars, Go
<1>10. CASE CheckList(p, "check", "cfi")
  <2>1. cv[p] \in CVs
    BY <1>10 DEF TypeOK, CheckList
  <2>2. wakeup[cv[p]] \in Seq(Proc) /\ Append(wakeup[cv[p]], p) \in Seq(Proc)
    BY <2>1 DEF TypeOK
  <2>3. wakeup' \in [CVs -> Seq(Proc)]
    BY <1>10, <2>1, <2>2 DEF TypeOK, CheckList
  <2>4. done' \in [Proc -> BOOLEAN]
    BY <1>10 DEF TypeOK, CheckList
  <2> QED
    BY <1>10, <2>3, <2>4 DEF TypeOK, Pcs, CheckList, wakeVars, Go
<1>11. CASE ResetLatch(p, "treset", "tcheck")
  BY <1>11 DEF TypeOK, Pcs, ResetLatch, callVars, wakeVars, Go
<1>12. CASE CheckList(p, "tcheck", "tcfi")
  <2>1. cv[p] \in CVs
    BY <1>12 DEF TypeOK, CheckList
  <2>2. wakeup[cv[p]] \in Seq(Proc) /\ Append(wakeup[cv[p]], p) \in Seq(Proc)
    BY <2>1 DEF TypeOK
  <2>3. wakeup' \in [CVs -> Seq(Proc)]
    BY <1>12, <2>1, <2>2 DEF TypeOK, CheckList
  <2>4. done' \in [Proc -> BOOLEAN]
    BY <1>12 DEF TypeOK, CheckList
  <2> QED
    BY <1>12, <2>3, <2>4 DEF TypeOK, Pcs, CheckList, wakeVars, Go
<1>13. CASE EndInterrupt(p)
  <2> DEFINE f == Last(frames[p])
  <2>1. frames[p] \in Seq(Frame) /\ frames[p] # << >>
    BY <1>13 DEF TypeOK, ControlInv, ControlAt, EndInterrupt
  <2>2. Len(frames[p]) \in Nat \ {0} /\ Len(frames[p]) - 1 \in 0 .. Len(frames[p])
    BY <2>1
  <2>3. f \in Frame
    BY <2>1, <2>2 DEF Last
  <2>4. Front(frames[p]) \in Seq(Frame)
    BY <2>1, <2>2 DEF Front
  <2> HIDE DEF f
  <2>5. f.cv \in CVs /\ f.done \in BOOLEAN /\ f.to \in {"cfi", "tcfi"}
    BY <2>3, Zenon DEF Frame
  <2>6. /\ cv' = [cv EXCEPT ![p] = f.cv] /\ done' = [done EXCEPT ![p] = f.done]
        /\ frames' = [frames EXCEPT ![p] = Front(@)] /\ pc' = [pc EXCEPT ![p] = f.to]
    BY <1>13 DEF EndInterrupt, f, Go
  <2>7. frames' \in [Proc -> Seq(Frame)]
    BY <2>4, <2>6 DEF TypeOK
  <2> QED
    BY <1>13, <2>5, <2>6, <2>7, ConstantsAssumption DEF TypeOK, Pcs, EndInterrupt, wakeVars
<1>14. CASE AfterInterrupts(p)
  BY <1>14 DEF TypeOK, Pcs, AfterInterrupts, Signaled, callVars, wakeVars, Go
<1>15. CASE AfterTimeout(p)
  <2>1. \E to \in {"test", "cancel", "wait"} : pc' = [pc EXCEPT ![p] = to]
    BY <1>15 DEF AfterTimeout, Go
  <2> QED
    BY <1>15, <2>1 DEF TypeOK, Pcs, AfterTimeout, callVars, wakeVars
<1>16. CASE Signal(p)
  <2>1. PopHead(p) /\ cv[p] \in CVs
    BY <1>16 DEF Signal, TypeOK
  <2>2. /\ wakeup' \in [CVs -> Seq(Proc)] /\ owed' \in [Proc -> SUBSET Proc]
        /\ proc' \in [Proc -> Proc \cup {NoProc}]
    BY <2>1, PopEffect
  <2>3. have_sentinel' \in [Proc -> BOOLEAN]
    BY <1>16 DEF TypeOK, Signal
  <2> QED
    BY <1>16, <2>2, <2>3 DEF TypeOK, Pcs, Signal, callVars, Go
<1>17. CASE BroadcastCancel(p)
  <2>1. CancelSleep(p)
    BY <1>17 DEF BroadcastCancel
  <2>2. /\ wakeup' \in [CVs -> Seq(Proc)] /\ owed' \in [Proc -> SUBSET Proc]
        /\ cv_sleep_target' = [cv_sleep_target EXCEPT ![p] = NoCV]
    BY <2>1, CancelEffect
  <2> QED
    BY <1>17, <2>2 DEF TypeOK, Pcs, BroadcastCancel, callVars, wakeVars, Go
<1>18. CASE BroadcastFirst(p)
  <2>1. PICK r \in Seq(Proc) : FirstEffect(p, r)
    BY <1>18, FirstHolds
  <2>2. have_sentinel' \in [Proc -> BOOLEAN]
    BY <2>1 DEF TypeOK, FirstEffect
  <2>3. wakeup' \in [CVs -> Seq(Proc)] /\ proc' \in [Proc -> Proc \cup {NoProc}]
    <3>1. wakeup \in [CVs -> Seq(Proc)] /\ proc \in [Proc -> Proc \cup {NoProc}]
      BY DEF TypeOK
    <3>2. wakeup' \in [CVs -> Seq(Proc)]
      BY <2>1, <3>1 DEF FirstEffect
    <3>3. proc' \in [Proc -> Proc \cup {NoProc}]
      BY <2>1, <3>1 DEF FirstEffect
    <3> QED
      BY <3>2, <3>3
  <2>4. owed' \in [Proc -> SUBSET Proc]
    BY <2>1 DEF FirstEffect
  <2> QED
    BY <1>18, <2>2, <2>3, <2>4 DEF TypeOK, Pcs, BroadcastFirst, callVars, Go
<1>19. CASE BroadcastLoop(p)
  <2>1. PopHead(p) /\ cv[p] \in CVs
    BY <1>19 DEF BroadcastLoop, TypeOK
  <2>2. /\ wakeup' \in [CVs -> Seq(Proc)] /\ owed' \in [Proc -> SUBSET Proc]
        /\ proc' \in [Proc -> Proc \cup {NoProc}]
    BY <2>1, PopEffect
  <2>3. have_sentinel' \in [Proc -> BOOLEAN]
    BY <1>19 DEF TypeOK, BroadcastLoop
  <2> QED
    BY <1>19, <2>2, <2>3 DEF TypeOK, Pcs, BroadcastLoop, callVars, Go
<1>20. CASE SetLatch(p)
  <2>1. latch' \in [Proc -> BOOLEAN] /\ proc' \in [Proc -> Proc \cup {NoProc}]
    BY <1>20 DEF TypeOK, SetLatch
  <2>2. /\ pc[p] \in {"setlatch", "lsetlatch"}
        /\ UNCHANGED <<wakeup, cond, cv_sleep_target, done, frames, have_sentinel, owed,
                       spurious>>
    BY <1>20 DEF SetLatch
  <2>3. CASE have_sentinel[p]
    <3>1. pc' = [pc EXCEPT ![p] = "bloop"] /\ cv' = cv
      BY <1>20, <2>3 DEF SetLatch, Go
    <3> QED
      BY <2>1, <2>2, <3>1 DEF TypeOK, Pcs
  <2>4. CASE ~have_sentinel[p]
    <3>1. /\ pc' = [pc EXCEPT ![p] = IF frames[p] = << >> THEN "idle" ELSE "interrupt"]
          /\ cv' = [cv EXCEPT ![p] = NoCV]
      BY <1>20, <2>4 DEF SetLatch, Return, Go
    <3> QED
      BY <2>1, <2>2, <3>1 DEF TypeOK, Pcs
  <2> QED
    BY <2>3, <2>4
<1>21. CASE WaitTimeout(p)
  BY <1>21 DEF TypeOK, Pcs, WaitTimeout, callVars, wakeVars, Go
<1>22. CASE Interrupt(p, "cfi", "cfi")
  <2>1. cv[p] \in CVs
    BY <1>22 DEF TypeOK, Interrupt
  <2> DEFINE f == [cv |-> cv[p], done |-> done[p], to |-> "cfi"]
  <2>2. f \in Frame
    <3>1. done[p] \in BOOLEAN
      BY DEF TypeOK
    <3>2. \A c \in CVs, d \in BOOLEAN : [cv |-> c, done |-> d, to |-> "cfi"] \in Frame
      BY DEF Frame
    <3> QED
      BY <2>1, <3>1, <3>2, Zenon
  <2> HIDE DEF f
  <2>3. frames' \in [Proc -> Seq(Frame)]
    <3>1. frames' = [frames EXCEPT ![p] = Append(@, f)]
      BY <1>22 DEF Interrupt, f
    <3> QED
      BY <2>2, <3>1 DEF TypeOK
  <2> QED
    BY <1>22, <2>1, <2>3 DEF TypeOK, Pcs, Interrupt, wakeVars, Go
<1>23. CASE Interrupt(p, "tcfi", "tcfi")
  <2>1. cv[p] \in CVs
    BY <1>23 DEF TypeOK, Interrupt
  <2> DEFINE f == [cv |-> cv[p], done |-> done[p], to |-> "tcfi"]
  <2>2. f \in Frame
    <3>1. done[p] \in BOOLEAN
      BY DEF TypeOK
    <3>2. \A c \in CVs, d \in BOOLEAN : [cv |-> c, done |-> d, to |-> "tcfi"] \in Frame
      BY DEF Frame
    <3> QED
      BY <2>1, <3>1, <3>2, Zenon
  <2> HIDE DEF f
  <2>3. frames' \in [Proc -> Seq(Frame)]
    <3>1. frames' = [frames EXCEPT ![p] = Append(@, f)]
      BY <1>23 DEF Interrupt, f
    <3> QED
      BY <2>2, <3>1 DEF TypeOK
  <2> QED
    BY <1>23, <2>1, <2>3 DEF TypeOK, Pcs, Interrupt, wakeVars, Go
<1>24. CASE Abort(p)
  <2>1. CancelSleep(p)
    BY <1>24 DEF Abort
  <2>2. /\ wakeup' \in [CVs -> Seq(Proc)] /\ owed' \in [Proc -> SUBSET Proc]
        /\ cv_sleep_target' = [cv_sleep_target EXCEPT ![p] = NoCV]
    BY <2>1, CancelEffect
  <2> QED
    BY <1>24, <2>2 DEF TypeOK, Pcs, Abort, wakeVars, Go
<1>25. CASE SpuriousSetLatch(p)
  BY <1>25 DEF TypeOK, Pcs, SpuriousSetLatch, callVars, wakeVars
<1> QED
  BY <1>1, <1>2, <1>3, <1>4, <1>5, <1>6, <1>7, <1>8, <1>9, <1>10, <1>11, <1>12, <1>13, <1>14,
     <1>15, <1>16, <1>17, <1>18, <1>19, <1>20, <1>21, <1>22, <1>23, <1>24, <1>25 DEF ActionOf

(* Every action keeps what the place of a process tells.                   *)
LEMMA ControlStep ==
  ASSUME TypeOK, ControlInv, QueueInv, NEW p \in Proc, ActionOf(p)
  PROVE  ControlInv'
<1> USE ConstantsAssumption DEF TypeOK, ControlInv, ControlAt, Broadcasting
<1>1. CASE CallWait(p)
  BY <1>1 DEF CallWait, Begin, Callable, wakeVars, Go
<1>2. CASE CallSignal(p)
  BY <1>2 DEF CallSignal, Begin, Callable, wakeVars, Go
<1>3. CASE CallBroadcast(p)
  BY <1>3 DEF CallBroadcast, Begin, Callable, wakeVars, Go
<1>4. CASE Cancel(p)
  <2>1. cv_sleep_target' = [cv_sleep_target EXCEPT ![p] = NoCV]
    BY <1>4 DEF CancelSleep, Cancel
  <2> QED
    BY <1>4, <2>1 DEF Cancel, Return, wakeVars, Go
<1>5. CASE PrepareCancel(p)
  <2>1. cv_sleep_target' = [cv_sleep_target EXCEPT ![p] = NoCV]
    BY <1>5 DEF CancelSleep, PrepareCancel
  <2> QED
    BY <1>5, <2>1 DEF PrepareCancel, callVars, wakeVars, Go
<1>6. CASE PreparePush(p)
  BY <1>6 DEF PreparePush, callVars, wakeVars, Go
<1>7. CASE TestCondition(p)
  BY <1>7 DEF TestCondition, wakeVars, Go
<1>8. CASE WaitLatch(p)
  BY <1>8 DEF WaitLatch, callVars, wakeVars, Go
<1>9. CASE ResetLatch(p, "reset", "check")
  BY <1>9 DEF ResetLatch, callVars, wakeVars, Go
<1>10. CASE CheckList(p, "check", "cfi")
  BY <1>10 DEF CheckList, wakeVars, Go
<1>11. CASE ResetLatch(p, "treset", "tcheck")
  BY <1>11 DEF ResetLatch, callVars, wakeVars, Go
<1>12. CASE CheckList(p, "tcheck", "tcfi")
  BY <1>12 DEF CheckList, wakeVars, Go
<1>13. CASE EndInterrupt(p)
  <2>1. /\ pc'[p] \in {"cfi", "tcfi"}
        /\ \A q \in Proc : q # p => pc'[q] = pc[q] /\ cv'[q] = cv[q] /\ frames'[q] = frames[q]
    <3>1. frames[p] \in Seq(Frame) /\ frames[p] # << >>
      BY <1>13 DEF EndInterrupt
    <3>2. Last(frames[p]) \in Frame
      BY <3>1 DEF Last
    <3>3. Last(frames[p]).to \in {"cfi", "tcfi"}
      BY <3>2, Zenon DEF Frame
    <3> QED
      BY <1>13, <3>3 DEF EndInterrupt, Go
  <2> QED
    BY <1>13, <2>1 DEF EndInterrupt, wakeVars
<1>14. CASE AfterInterrupts(p)
  BY <1>14 DEF AfterInterrupts, Signaled, callVars, wakeVars, Go
<1>15. CASE AfterTimeout(p)
  BY <1>15 DEF AfterTimeout, Signaled, callVars, wakeVars, Go
<1>16. CASE Signal(p)
  <2>1. PopHead(p) /\ cv[p] \in CVs
    BY <1>16 DEF Signal, TypeOK
  <2>2. \A q \in Proc : q # p => proc'[q] = proc[q]
    BY <2>1, PopEffect
  <2> QED
    BY <1>16, <2>2 DEF Signal, callVars, Go
<1>17. CASE BroadcastCancel(p)
  <2>1. cv_sleep_target' = [cv_sleep_target EXCEPT ![p] = NoCV]
    BY <1>17 DEF CancelSleep, BroadcastCancel
  <2> QED
    BY <1>17, <2>1 DEF BroadcastCancel, callVars, wakeVars, Go
<1>18. CASE BroadcastFirst(p)
  <2>1. \A q \in Proc : q # p => proc'[q] = proc[q] /\ have_sentinel'[q] = have_sentinel[q]
    BY <1>18 DEF BroadcastFirst, TypeOK
  <2> QED
    BY <1>18, <2>1 DEF BroadcastFirst, callVars, Go
<1>19. CASE BroadcastLoop(p)
  <2>1. PopHead(p) /\ cv[p] \in CVs
    BY <1>19 DEF BroadcastLoop, TypeOK
  <2>2. \A q \in Proc : q # p => proc'[q] = proc[q]
    BY <2>1, PopEffect
  <2> QED
    BY <1>19, <2>2 DEF BroadcastLoop, callVars, Go
<1>20. CASE SetLatch(p)
  <2>1. /\ pc[p] \in {"setlatch", "lsetlatch"} /\ UNCHANGED <<cv_sleep_target, frames,
                                                              have_sentinel>>
        /\ proc' = [proc EXCEPT ![p] = NoProc]
    BY <1>20 DEF SetLatch
  <2>2. CASE have_sentinel[p]
    <3>1. pc' = [pc EXCEPT ![p] = "bloop"] /\ cv' = cv
      BY <1>20, <2>2 DEF SetLatch, Go
    <3> QED
      BY <2>1, <2>2, <3>1
  <2>3. CASE ~have_sentinel[p]
    <3>1. /\ pc' = [pc EXCEPT ![p] = IF frames[p] = << >> THEN "idle" ELSE "interrupt"]
          /\ cv' = [cv EXCEPT ![p] = NoCV]
      BY <1>20, <2>3 DEF SetLatch, Return, Go
    <3> QED
      BY <2>1, <2>3, <3>1
  <2> QED
    BY <2>2, <2>3
<1>21. CASE WaitTimeout(p)
  BY <1>21 DEF WaitTimeout, callVars, wakeVars, Go
<1>22. CASE Interrupt(p, "cfi", "cfi")
  <2>1. frames'[p] # << >>
    <3>1. frames[p] \in Seq(Frame)
      OBVIOUS
    <3> QED
      BY <1>22, <3>1, AppendNotEmpty DEF Interrupt
  <2>2. \A q \in Proc : q # p => frames'[q] = frames[q]
    BY <1>22 DEF Interrupt
  <2> QED
    BY <1>22, <2>1, <2>2 DEF Interrupt, wakeVars, Go
<1>23. CASE Interrupt(p, "tcfi", "tcfi")
  <2>1. frames'[p] # << >>
    <3>1. frames[p] \in Seq(Frame)
      OBVIOUS
    <3> QED
      BY <1>23, <3>1, AppendNotEmpty DEF Interrupt
  <2>2. \A q \in Proc : q # p => frames'[q] = frames[q]
    BY <1>23 DEF Interrupt
  <2> QED
    BY <1>23, <2>1, <2>2 DEF Interrupt, wakeVars, Go
<1>24. CASE Abort(p)
  <2>1. cv_sleep_target' = [cv_sleep_target EXCEPT ![p] = NoCV]
    BY <1>24 DEF CancelSleep, Abort
  <2> QED
    BY <1>24, <2>1 DEF Abort, wakeVars, Go
<1>25. CASE SpuriousSetLatch(p)
  BY <1>25 DEF SpuriousSetLatch, callVars, wakeVars
<1> QED
  BY <1>1, <1>2, <1>3, <1>4, <1>5, <1>6, <1>7, <1>8, <1>9, <1>10, <1>11, <1>12, <1>13, <1>14,
     <1>15, <1>16, <1>17, <1>18, <1>19, <1>20, <1>21, <1>22, <1>23, <1>24, <1>25 DEF ActionOf

-----------------------------------------------------------------------------
(* What the actions do to the lists: nothing ...                           *)
Quiet(p) ==
  /\ UNCHANGED <<wakeup, owed, have_sentinel, cv_sleep_target>>
  /\ \A q \in Proc : q # p \/ have_sentinel[q] => cv'[q] = cv[q]

(* ... a sleep is cancelled ...                                            *)
Cancels(p) ==
  /\ CancelSleep(p)
  /\ ~have_sentinel[p]
  /\ UNCHANGED <<have_sentinel, proc, latch>>
  /\ \A q \in Proc : q # p => cv'[q] = cv[q] /\ pc'[q] = pc[q]

(* ... the process puts itself on the list, unless it is there ...         *)
Enqueues(p) ==
  /\ cv[p] \in CVs
  /\ ~have_sentinel[p]
  /\ UNCHANGED <<cv, have_sentinel, proc, latch, owed>>
  /\ cv_sleep_target[p] \in {NoCV, cv[p]}
  /\ cv_sleep_target' = [cv_sleep_target EXCEPT ![p] = cv[p]]
  /\ \A q \in Proc : q # p => pc'[q] = pc[q]
  /\ wakeup' = [wakeup EXCEPT ![cv[p]] = IF Contains(@, p) THEN @ ELSE Append(@, p)]

(* ... or a signal, or a broadcast, takes the first process off the list.  *)
Pops(p) ==
  /\ PopHead(p)
  /\ cv[p] \in CVs
  /\ proc[p] = NoProc
  /\ UNCHANGED <<cv, latch, cv_sleep_target>>
  /\ \A q \in Proc : q # p => pc'[q] = pc[q]
  /\ \A q \in Proc : q # p => have_sentinel'[q] = have_sentinel[q]
  /\ \/ ~have_sentinel[p] /\ ~have_sentinel'[p]
     \/ have_sentinel[p] /\ have_sentinel'[p] = ~SentinelGone(p)

(* Every action does one of these.                                         *)
LEMMA ListEffects ==
  ASSUME TypeOK, ControlInv, QueueInv, NEW p \in Proc, ActionOf(p)
  PROVE  Quiet(p) \/ Cancels(p) \/ Enqueues(p) \/ Pops(p) \/ BroadcastFirst(p)
<1> USE ConstantsAssumption DEF TypeOK, ControlInv, ControlAt, Broadcasting
<1>1. CASE CallWait(p)
  BY <1>1 DEF Quiet, CallWait, Begin, Callable, wakeVars, Go
<1>2. CASE CallSignal(p)
  BY <1>2 DEF Quiet, CallSignal, Begin, Callable, wakeVars, Go
<1>3. CASE CallBroadcast(p)
  <2>1. /\ UNCHANGED <<wakeup, owed, have_sentinel, cv_sleep_target>>
        /\ (\E c \in CVs : cv' = [cv EXCEPT ![p] = c]) /\ Callable(p)
    BY <1>3 DEF CallBroadcast, Begin, wakeVars
  <2>2. ~have_sentinel[p]
    BY <2>1 DEF Callable
  <2> QED
    BY <2>1, <2>2 DEF Quiet
<1>4. CASE Cancel(p)
  BY <1>4 DEF Cancels, Cancel, Return, wakeVars, Go
<1>5. CASE PrepareCancel(p)
  BY <1>5 DEF Cancels, PrepareCancel, callVars, wakeVars, Go
<1>6. CASE PreparePush(p)
  <2>1. ~Contains(wakeup[cv[p]], p)
    BY <1>6 DEF PreparePush, QueueInv
  <2> QED
    BY <1>6, <2>1 DEF Enqueues, PreparePush, callVars, wakeVars, Go
<1>7. CASE TestCondition(p)
  BY <1>7 DEF Quiet, TestCondition, wakeVars, Go
<1>8. CASE WaitLatch(p)
  BY <1>8 DEF Quiet, WaitLatch, callVars, wakeVars, Go
<1>9. CASE ResetLatch(p, "reset", "check")
  BY <1>9 DEF Quiet, ResetLatch, callVars, wakeVars, Go
<1>10. CASE CheckList(p, "check", "cfi")
  BY <1>10 DEF Enqueues, CheckList, wakeVars, Go
<1>11. CASE ResetLatch(p, "treset", "tcheck")
  BY <1>11 DEF Quiet, ResetLatch, callVars, wakeVars, Go
<1>12. CASE CheckList(p, "tcheck", "tcfi")
  BY <1>12 DEF Enqueues, CheckList, wakeVars, Go
<1>13. CASE EndInterrupt(p)
  BY <1>13 DEF Quiet, EndInterrupt, wakeVars, Go
<1>14. CASE AfterInterrupts(p)
  BY <1>14 DEF Quiet, AfterInterrupts, Signaled, callVars, wakeVars, Go
<1>15. CASE AfterTimeout(p)
  BY <1>15 DEF Quiet, AfterTimeout, Signaled, callVars, wakeVars, Go
<1>16. CASE Signal(p)
  BY <1>16 DEF Pops, Signal, callVars, Go
<1>17. CASE BroadcastCancel(p)
  BY <1>17 DEF Cancels, BroadcastCancel, callVars, wakeVars, Go
<1>18. CASE BroadcastFirst(p)
  BY <1>18
<1>19. CASE BroadcastLoop(p)
  BY <1>19 DEF Pops, BroadcastLoop, callVars, Go
<1>20. CASE SetLatch(p)
  <2>1. /\ pc[p] \in {"setlatch", "lsetlatch"}
        /\ UNCHANGED <<wakeup, cv_sleep_target, have_sentinel, owed>>
        /\ have_sentinel[p] => cv' = cv
        /\ \A q \in Proc : q # p => cv'[q] = cv[q]
    BY <1>20 DEF SetLatch, Return
  <2> QED
    BY <2>1 DEF Quiet
<1>21. CASE WaitTimeout(p)
  BY <1>21 DEF Quiet, WaitTimeout, callVars, wakeVars, Go
<1>22. CASE Interrupt(p, "cfi", "cfi")
  BY <1>22 DEF Quiet, Interrupt, wakeVars, Go
<1>23. CASE Interrupt(p, "tcfi", "tcfi")
  BY <1>23 DEF Quiet, Interrupt, wakeVars, Go
<1>24. CASE Abort(p)
  BY <1>24 DEF Cancels, Abort, wakeVars, Go
<1>25. CASE SpuriousSetLatch(p)
  BY <1>25 DEF Quiet, SpuriousSetLatch, callVars, wakeVars
<1> QED
  BY <1>1, <1>2, <1>3, <1>4, <1>5, <1>6, <1>7, <1>8, <1>9, <1>10, <1>11, <1>12, <1>13, <1>14,
     <1>15, <1>16, <1>17, <1>18, <1>19, <1>20, <1>21, <1>22, <1>23, <1>24, <1>25 DEF ActionOf

(* Putting oneself on a list: one is on it afterwards, the others are      *)
(* where they were, in the same order.                                     *)
LEMMA EnqueueEffect ==
  ASSUME TypeOK, QueueInv, NEW p \in Proc, Enqueues(p)
  PROVE  /\ \A c \in CVs : IsInjective(wakeup'[c])
         /\ \A c \in CVs, q \in Proc :
              Contains(wakeup'[c], q) <=> Contains(wakeup[c], q) \/ (q = p /\ c = cv[p])
         /\ \A c \in CVs : \A y, z : Precedes(wakeup[c], y, z) => Precedes(wakeup'[c], y, z)
<1> DEFINE s == wakeup[cv[p]]
<1>1. s \in Seq(Proc) /\ IsInjective(s)
  BY DEF TypeOK, QueueInv, Enqueues
<1>2. /\ wakeup'[cv[p]] = IF Contains(s, p) THEN s ELSE Append(s, p)
      /\ \A c \in CVs : c # cv[p] => wakeup'[c] = wakeup[c]
  BY DEF TypeOK, Enqueues
<1>3. CASE Contains(s, p)
  BY <1>2, <1>3 DEF QueueInv
<1>4. CASE ~Contains(s, p)
  <2> DEFINE t == Append(s, p)
  <2>1. /\ IsInjective(t)
        /\ \A y : Contains(t, y) <=> Contains(s, y) \/ y = p
        /\ \A y, z : Precedes(s, y, z) => Precedes(t, y, z)
    BY <1>1, <1>4, AppendList DEF Enqueues
  <2> HIDE DEF t
  <2>2. wakeup'[cv[p]] = t
    BY <1>2, <1>4 DEF t
  <2> QED
    BY <1>2, <2>1, <2>2 DEF QueueInv
<1> QED
  BY <1>3, <1>4

(* A broadcast that misses its sentinel in the rest of the list is not on  *)
(* the list any more, and nobody it has to reach is.                       *)
LEMMA SentinelTaken ==
  ASSUME TypeOK, QueueInv, NEW p \in Proc, Pops(p), have_sentinel[p], ~have_sentinel'[p]
  PROVE  /\ ~Contains(wakeup'[cv[p]], p)
         /\ \A x : Precedes(wakeup[cv[p]], x, p) => FALSE
<1> DEFINE s == wakeup[cv[p]]
<1>1. s \in Seq(Proc) /\ IsInjective(s) /\ cv[p] \in CVs /\ SentinelGone(p)
  BY DEF TypeOK, QueueInv, Pops
<1>2. CASE s = << >>
  <2>1. wakeup' = wakeup
    BY <1>2 DEF Pops, PopHead
  <2> QED
    BY <1>2, <2>1 DEF Contains, Precedes
<1>3. CASE s # << >>
  <2>1. wakeup'[cv[p]] = Tail(s)
    BY <1>1, <1>3 DEF Pops, PopHead, TypeOK
  <2>2. ~Contains(Tail(s), p)
    BY <1>1, <1>3 DEF SentinelGone
  <2>3. ASSUME NEW x, Precedes(s, x, p)
        PROVE  FALSE
    <3>1. p # Head(s)
      BY <1>1, <1>3, <2>3, TailList
    <3>2. Contains(s, p)
      BY <1>1, <2>3, PrecedesContains
    <3>3. Contains(Tail(s), p)
      BY <1>1, <1>3, <3>1, <3>2, TailList
    <3> QED
      BY <2>2, <3>3
  <2> QED
    BY <2>1, <2>2, <2>3
<1> QED
  BY <1>2, <1>3

(* The lists stay well formed.                                             *)
LEMMA QueueStep ==
  ASSUME TypeOK, ControlInv, QueueInv, NEW p \in Proc, ActionOf(p)
  PROVE  QueueInv'
<1>1. CASE Quiet(p)
  BY <1>1 DEF QueueInv, Quiet
<1>2. CASE Cancels(p)
  <2>1. /\ cv_sleep_target' = [cv_sleep_target EXCEPT ![p] = NoCV]
        /\ \A c \in CVs : IsInjective(wakeup'[c])
        /\ \A c \in CVs, q \in Proc :
             Contains(wakeup'[c], q) <=> Contains(wakeup[c],
                           q) /\ ~(q = p /\ c = cv_sleep_target[p])
    BY <1>2, CancelEffect DEF Cancels
  <2> QED
    BY <1>2, <2>1 DEF QueueInv, Cancels, TypeOK
<1>3. CASE Enqueues(p)
  <2>1. /\ \A c \in CVs : IsInjective(wakeup'[c])
        /\ \A c \in CVs, q \in Proc :
             Contains(wakeup'[c], q) <=> Contains(wakeup[c], q) \/ (q = p /\ c = cv[p])
    BY <1>3, EnqueueEffect
  <2>2. \A c \in CVs : Contains(wakeup[c], p) => c = cv_sleep_target[p]
    BY <1>3 DEF QueueInv, Enqueues
  <2>3. cv_sleep_target[p] \in {NoCV, cv[p]}
    BY <1>3 DEF Enqueues
  <2> QED
    BY <1>3, <2>1, <2>2, <2>3, ConstantsAssumption DEF QueueInv, Enqueues, TypeOK
<1>4. CASE Pops(p)
  <2>1. /\ \A c \in CVs : IsInjective(wakeup'[c])
        /\ \A c \in CVs, q \in Proc :
             Contains(wakeup'[c], q) <=> Contains(wakeup[c], q) /\ ~(c = cv[p] /\ q = proc'[p])
    BY <1>4, PopEffect DEF Pops
  <2>2. ASSUME have_sentinel[p], ~have_sentinel'[p]
        PROVE  ~Contains(wakeup'[cv[p]], p)
    BY <1>4, <2>2, SentinelTaken
  <2>3. \A q \in Proc : q # p \/ have_sentinel'[p] \/ ~have_sentinel[p] =>
          have_sentinel'[q] \/ ~have_sentinel[q]
    BY <1>4 DEF Pops
  <2> QED
    BY <1>4, <2>1, <2>2, <2>3 DEF QueueInv, Pops
<1>5. CASE BroadcastFirst(p)
  <2>1. PICK r \in Seq(Proc) : FirstEffect(p, r)
    BY <1>5, FirstHolds
  <2>2. cv[p] \in CVs /\ UNCHANGED <<cv, cv_sleep_target>> /\ ~have_sentinel[p]
    BY <1>5 DEF BroadcastFirst, callVars, TypeOK, ControlInv, ControlAt, Broadcasting
  <2>3. /\ wakeup'[cv[p]] = IF r = << >> THEN << >> ELSE Append(r, p)
        /\ \A c \in CVs : c # cv[p] => wakeup'[c] = wakeup[c]
        /\ have_sentinel'[p] = (r # << >>)
        /\ \A q \in Proc : q # p => have_sentinel'[q] = have_sentinel[q]
    BY <2>1, <2>2 DEF FirstEffect, TypeOK
  <2>4. \A y : Contains(Append(r, p), y) <=> Contains(r, y) \/ y = p
    BY <2>1, AppendList DEF FirstEffect
  <2>5. \A y : ~Contains(<< >>, y)
    BY DEF Contains
  <2>6. IsInjective(wakeup'[cv[p]])
    BY <2>1, <2>3 DEF FirstEffect
  <2>7. \A q \in Proc : Contains(wakeup'[cv[p]], q) => Contains(wakeup[cv[p]],
                q) \/ (q = p /\ have_sentinel'[p])
    <3>1. \A q \in Proc : Contains(r, q) => Contains(wakeup[cv[p]], q)
      BY <2>1 DEF FirstEffect
    <3>2. CASE r = << >>
      BY <2>3, <2>5, <3>2
    <3>3. CASE r # << >>
      BY <2>3, <2>4, <3>1, <3>3
    <3> QED
      BY <3>2, <3>3
  <2> QED
    BY <2>2, <2>3, <2>6, <2>7 DEF QueueInv
<1> QED
  BY <1>1, <1>2, <1>3, <1>4, <1>5, ListEffects

-----------------------------------------------------------------------------
(* A process that is off the list will notice.                             *)
Tells(q) ==
  \/ latch[q]
  \/ \E x \in Proc : proc[x] = q
  \/ pc[q] \in {"check", "tcheck"}

(* Whatever happens but the look at the list, it will still notice: the    *)
(* latch is reset only before that look, and whoever took the process off  *)
(* the list sets its latch.                                                *)
LEMMA TellsStep ==
  ASSUME TypeOK, ControlInv, QueueInv, NEW p \in Proc, ActionOf(p),
         NEW q \in Proc, cv_sleep_target[q] # NoCV, Tells(q)
  PROVE  Tells(q)' \/ (q = p /\ Enqueues(p))
<1> USE ConstantsAssumption DEF TypeOK, ControlInv, ControlAt, Broadcasting, Tells
<1>1. CASE CallWait(p)
  BY <1>1 DEF CallWait, Begin, Callable, wakeVars, Go
<1>2. CASE CallSignal(p)
  BY <1>2 DEF CallSignal, Begin, Callable, wakeVars, Go
<1>3. CASE CallBroadcast(p)
  BY <1>3 DEF CallBroadcast, Begin, Callable, wakeVars, Go
<1>4. CASE Cancel(p)
  <2>1. latch' = latch /\ proc' = proc /\ \A x \in Proc : x # p => pc'[x] = pc[x]
    BY <1>4 DEF Cancel, Return, wakeVars, Go
  <2>2. pc[p] \notin {"check", "tcheck"}
    BY <1>4 DEF Cancel
  <2> QED
    BY <2>1, <2>2
<1>5. CASE PrepareCancel(p)
  <2>1. latch' = latch /\ proc' = proc /\ \A x \in Proc : x # p => pc'[x] = pc[x]
    BY <1>5 DEF PrepareCancel, callVars, wakeVars, Go
  <2>2. pc[p] \notin {"check", "tcheck"}
    BY <1>5 DEF PrepareCancel
  <2> QED
    BY <2>1, <2>2
<1>6. CASE PreparePush(p)
  BY <1>6 DEF PreparePush, callVars, wakeVars, Go
<1>7. CASE TestCondition(p)
  BY <1>7 DEF TestCondition, wakeVars, Go
<1>8. CASE WaitLatch(p)
  BY <1>8 DEF WaitLatch, callVars, wakeVars, Go
<1>9. CASE ResetLatch(p, "reset", "check")
  BY <1>9 DEF ResetLatch, callVars, wakeVars, Go
<1>10. CASE CheckList(p, "check", "cfi")
  <2>1. CASE q = p
    BY <1>10, <2>1 DEF Enqueues, CheckList, wakeVars, Go
  <2>2. CASE q # p
    BY <1>10, <2>2 DEF CheckList, wakeVars, Go
  <2> QED
    BY <2>1, <2>2
<1>11. CASE ResetLatch(p, "treset", "tcheck")
  BY <1>11 DEF ResetLatch, callVars, wakeVars, Go
<1>12. CASE CheckList(p, "tcheck", "tcfi")
  <2>1. CASE q = p
    BY <1>12, <2>1 DEF Enqueues, CheckList, wakeVars, Go
  <2>2. CASE q # p
    BY <1>12, <2>2 DEF CheckList, wakeVars, Go
  <2> QED
    BY <2>1, <2>2
<1>13. CASE EndInterrupt(p)
  BY <1>13 DEF EndInterrupt, wakeVars, Go
<1>14. CASE AfterInterrupts(p)
  BY <1>14 DEF AfterInterrupts, Signaled, callVars, wakeVars, Go
<1>15. CASE AfterTimeout(p)
  BY <1>15 DEF AfterTimeout, Signaled, callVars, wakeVars, Go
<1>16. CASE Signal(p)
  <2>1. latch' = latch /\ proc[p] = NoProc /\ \A x \in Proc : x # p => pc'[x] = pc[x]
    BY <1>16 DEF Signal, Go
  <2>2. \A x \in Proc : x # p => proc'[x] = proc[x]
    BY <1>16 DEF Signal, PopHead
  <2>3. pc[p] \notin {"check", "tcheck"}
    BY <1>16 DEF Signal
  <2>4. ASSUME NEW x \in Proc, proc[x] = q
        PROVE  proc'[x] = q
    BY <2>1, <2>2, <2>4
  <2>5. pc[q] \in {"check", "tcheck"} => pc'[q] = pc[q]
    BY <2>1, <2>3
  <2> QED
    BY <2>1, <2>4, <2>5
<1>17. CASE BroadcastCancel(p)
  <2>1. latch' = latch /\ proc' = proc /\ \A x \in Proc : x # p => pc'[x] = pc[x]
    BY <1>17 DEF BroadcastCancel, callVars, wakeVars, Go
  <2>2. pc[p] \notin {"check", "tcheck"}
    BY <1>17 DEF BroadcastCancel
  <2> QED
    BY <2>1, <2>2
<1>18. CASE BroadcastFirst(p)
  <2>1. latch' = latch /\ proc[p] = NoProc /\ \A x \in Proc : x # p => pc'[x] = pc[x]
    BY <1>18 DEF BroadcastFirst, Go
  <2>2. \A x \in Proc : x # p => proc'[x] = proc[x]
    BY <1>18 DEF BroadcastFirst
  <2>3. pc[p] \notin {"check", "tcheck"}
    BY <1>18 DEF BroadcastFirst
  <2>4. ASSUME NEW x \in Proc, proc[x] = q
        PROVE  proc'[x] = q
    BY <2>1, <2>2, <2>4
  <2>5. pc[q] \in {"check", "tcheck"} => pc'[q] = pc[q]
    BY <2>1, <2>3
  <2> QED
    BY <2>1, <2>4, <2>5
<1>19. CASE BroadcastLoop(p)
  <2>1. latch' = latch /\ proc[p] = NoProc /\ \A x \in Proc : x # p => pc'[x] = pc[x]
    BY <1>19 DEF BroadcastLoop, Go
  <2>2. \A x \in Proc : x # p => proc'[x] = proc[x]
    BY <1>19 DEF BroadcastLoop, PopHead
  <2>3. pc[p] \notin {"check", "tcheck"}
    BY <1>19 DEF BroadcastLoop
  <2>4. ASSUME NEW x \in Proc, proc[x] = q
        PROVE  proc'[x] = q
    BY <2>1, <2>2, <2>4
  <2>5. pc[q] \in {"check", "tcheck"} => pc'[q] = pc[q]
    BY <2>1, <2>3
  <2> QED
    BY <2>1, <2>4, <2>5
<1>20. CASE SetLatch(p)
  <2>1. /\ pc[p] \in {"setlatch", "lsetlatch"}
        /\ proc' = [proc EXCEPT ![p] = NoProc]
        /\ \A x \in Proc : latch[x] => latch'[x]
        /\ \A x \in Proc : x # p => pc'[x] = pc[x]
    BY <1>20 DEF SetLatch, Return, Go
  <2>2. CASE proc[p] = q
    <3>1. pc[p] = "lsetlatch" => q # p
      BY <2>2
    <3>2. latch'[q]
      BY <1>20, <2>2, <3>1 DEF SetLatch
    <3> QED
      BY <3>2
  <2>3. CASE proc[p] # q
    BY <2>1, <2>3
  <2> QED
    BY <2>2, <2>3
<1>21. CASE WaitTimeout(p)
  BY <1>21 DEF WaitTimeout, callVars, wakeVars, Go
<1>22. CASE Interrupt(p, "cfi", "cfi")
  BY <1>22 DEF Interrupt, wakeVars, Go
<1>23. CASE Interrupt(p, "tcfi", "tcfi")
  BY <1>23 DEF Interrupt, wakeVars, Go
<1>24. CASE Abort(p)
  <2>1. latch' = latch /\ proc' = proc /\ \A x \in Proc : x # p => pc'[x] = pc[x]
    BY <1>24 DEF Abort, wakeVars, Go
  <2>2. pc[p] \notin {"check", "tcheck"}
    BY <1>24 DEF Abort
  <2> QED
    BY <2>1, <2>2
<1>25. CASE SpuriousSetLatch(p)
  BY <1>25 DEF SpuriousSetLatch, callVars, wakeVars
<1> QED
  BY <1>1, <1>2, <1>3, <1>4, <1>5, <1>6, <1>7, <1>8, <1>9, <1>10, <1>11, <1>12, <1>13, <1>14,
     <1>15, <1>16, <1>17, <1>18, <1>19, <1>20, <1>21, <1>22, <1>23, <1>24, <1>25 DEF ActionOf

(* No wakeup is lost on the way.                                           *)
LEMMA WakeStep ==
  ASSUME TypeOK, ControlInv, QueueInv, WakeInv, NEW p \in Proc, ActionOf(p)
  PROVE  WakeInv'
<1> SUFFICES ASSUME NEW q \in Proc, cv_sleep_target'[q] # NoCV, ~Tells(q)'
             PROVE  Contains(wakeup'[cv_sleep_target'[q]], q)
  BY DEF WakeInv, Tells
<1>1. CASE q = p /\ Enqueues(p)
  <2>1. cv_sleep_target'[q] = cv[p] /\ cv[p] \in CVs
    BY <1>1 DEF Enqueues, TypeOK
  <2> QED
    BY <1>1, <2>1, EnqueueEffect
<1>2. CASE ~(q = p /\ Enqueues(p))
  <2>1. ASSUME cv_sleep_target[q] # NoCV
        PROVE  Contains(wakeup[cv_sleep_target[q]], q) /\ cv_sleep_target[q] \in CVs
    <3>1. ~Tells(q)
      BY <1>2, <2>1, TellsStep
    <3>2. Contains(wakeup[cv_sleep_target[q]], q)
      BY <2>1, <3>1, Zenon DEF WakeInv, Tells
    <3>3. cv_sleep_target[q] \in CVs
      BY <2>1 DEF TypeOK
    <3> QED
      BY <3>2, <3>3
  <2>2. CASE Quiet(p)
    BY <2>1, <2>2 DEF Quiet
  <2>3. CASE Cancels(p)
    <3>1. cv_sleep_target' = [cv_sleep_target EXCEPT ![p] = NoCV]
      BY <2>3 DEF Cancels, CancelSleep
    <3>2. q # p /\ cv_sleep_target'[q] = cv_sleep_target[q]
      BY <3>1 DEF TypeOK
    <3> QED
      BY <2>1, <2>3, <3>2, CancelEffect DEF Cancels
  <2>4. CASE Enqueues(p)
    <3>1. cv_sleep_target'[q] = cv_sleep_target[q]
      BY <1>2, <2>4 DEF Enqueues, TypeOK
    <3> QED
      BY <2>1, <2>4, <3>1, EnqueueEffect
  <2>5. CASE Pops(p)
    <3>1. cv_sleep_target' = cv_sleep_target /\ proc'[p] # q
      BY <2>5 DEF Pops, Tells
    <3> QED
      BY <2>1, <2>5, <3>1, PopEffect DEF Pops
  <2>6. CASE BroadcastFirst(p)
    <3>1. PICK r \in Seq(Proc) : FirstEffect(p, r)
      BY <2>6, FirstHolds
    <3>2. cv[p] \in CVs /\ cv_sleep_target' = cv_sleep_target /\ proc'[p] # q
      BY <2>6 DEF BroadcastFirst, TypeOK, Tells
    <3>3. CASE cv_sleep_target[q] = cv[p]
      <4>1. Contains(r, q)
        BY <2>1, <3>1, <3>2, <3>3 DEF FirstEffect
      <4>2. r # << >>
        BY <4>1 DEF Contains
      <4>3. wakeup'[cv[p]] = Append(r, p)
        BY <3>1, <3>2, <4>2 DEF FirstEffect, TypeOK
      <4>4. Contains(Append(r, p), q)
        BY <3>1, <4>1, AppendList DEF FirstEffect
      <4> QED
        BY <3>2, <3>3, <4>3, <4>4
    <3>4. CASE cv_sleep_target[q] # cv[p]
      <4>1. \A c \in CVs : c # cv[p] => wakeup'[c] = wakeup[c]
        BY <3>1, <3>2 DEF FirstEffect, TypeOK
      <4> QED
        BY <2>1, <3>2, <3>4, <4>1
    <3> QED
      BY <3>3, <3>4
  <2> QED
    BY <2>2, <2>3, <2>4, <2>5, <2>6, ListEffects
<1> QED
  BY <1>1, <1>2

(* Whoever a broadcast still has to reach stays in front of its sentinel.  *)
LEMMA OwedStep ==
  ASSUME TypeOK, ControlInv, QueueInv, OwedInv, NEW p \in Proc, ActionOf(p)
  PROVE  OwedInv'
<1>1. \A b \in Proc : have_sentinel[b] => cv[b] \in CVs
  BY DEF TypeOK, ControlInv, ControlAt, Broadcasting
<1>2. CASE Quiet(p)
  BY <1>2 DEF Quiet, OwedInv
<1>3. CASE Cancels(p)
  <2>1. /\ \A b \in Proc : owed'[b] \subseteq owed[b]
        /\ \A b \in Proc : \A x \in owed'[b] :
             cv[b] \in CVs /\ b # p /\ Precedes(wakeup[cv[b]], x, b)
               => Precedes(wakeup'[cv[b]], x, b)
    BY <1>3, CancelEffect DEF Cancels
  <2>2. \A b \in Proc : b # p => cv'[b] = cv[b]
    BY <1>3 DEF Cancels
  <2> QED
    BY <1>1, <1>3, <2>1, <2>2 DEF Cancels, OwedInv
<1>4. CASE Enqueues(p)
  <2>1. \A c \in CVs : \A y, z : Precedes(wakeup[c], y, z) => Precedes(wakeup'[c], y, z)
    BY <1>4, EnqueueEffect
  <2> QED
    BY <1>1, <1>4, <2>1 DEF Enqueues, OwedInv
<1>5. CASE Pops(p)
  <2>1. /\ \A b \in Proc : owed'[b] \subseteq owed[b]
        /\ \A b \in Proc : \A x \in owed'[b] :
             cv[b] \in CVs /\ Precedes(wakeup[cv[b]], x, b) => Precedes(wakeup'[cv[b]], x, b)
    BY <1>5, PopEffect DEF Pops
  <2>2. have_sentinel[p] /\ ~have_sentinel'[p] => owed[p] = {}
    BY <1>5, SentinelTaken DEF OwedInv
  <2>3. \A b \in Proc : ~have_sentinel'[b] => owed'[b] = {}
    BY <1>5, <2>1, <2>2 DEF Pops, OwedInv
  <2>4. \A b \in Proc : cv'[b] = cv[b]
    BY <1>5 DEF Pops
  <2>5. \A b \in Proc : \A x \in owed'[b] : Precedes(wakeup'[cv'[b]], x, b)
    BY <1>1, <2>1, <2>4 DEF OwedInv
  <2> QED
    BY <2>3, <2>5 DEF OwedInv
<1>6. CASE BroadcastFirst(p)
  <2>1. PICK r \in Seq(Proc) : FirstEffect(p, r)
    BY <1>6, FirstHolds
  <2>2. cv[p] \in CVs /\ cv' = cv
    BY <1>6 DEF BroadcastFirst, TypeOK, callVars
  <2>3. /\ \A y, z : Precedes(r, y, z) => Precedes(Append(r, p), y, z)
        /\ \A y : Contains(r, y) => Precedes(Append(r, p), y, p)
    BY <2>1, AppendList DEF FirstEffect
  <2>4. /\ wakeup'[cv[p]] = IF r = << >> THEN << >> ELSE Append(r, p)
        /\ \A c \in CVs : c # cv[p] => wakeup'[c] = wakeup[c]
        /\ have_sentinel'[p] = (r # << >>)
        /\ \A b \in Proc : b # p => have_sentinel'[b] = have_sentinel[b]
    BY <2>1, <2>2 DEF FirstEffect, TypeOK
  <2>5. ASSUME NEW x, Contains(r, x) \/ \E z : Precedes(r, x, z)
        PROVE  r # << >>
    BY <2>5 DEF Contains, Precedes
  <2>6. ASSUME NEW x \in owed'[p]
        PROVE  have_sentinel'[p] /\ Precedes(wakeup'[cv[p]], x, p)
    <3>1. Contains(r, x)
      BY <2>1, <2>6, ContainsToSet DEF FirstEffect
    <3>2. r # << >>
      BY <2>5, <3>1
    <3> QED
      BY <2>3, <2>4, <3>1, <3>2
  <2>7. ASSUME NEW b \in Proc, b # p, NEW x \in owed'[b]
        PROVE  have_sentinel'[b] /\ Precedes(wakeup'[cv[b]], x, b)
    <3>1. x \in owed[b] /\ (cv[b] = cv[p] => x # proc'[p])
      BY <2>1, <2>7 DEF FirstEffect
    <3>2. have_sentinel[b] /\ Precedes(wakeup[cv[b]], x, b) /\ cv[b] \in CVs
      BY <1>1, <2>7, <3>1 DEF OwedInv
    <3>3. CASE cv[b] = cv[p]
      <4>1. Precedes(r, x, b)
        BY <2>1, <3>1, <3>2, <3>3 DEF FirstEffect
      <4>2. r # << >>
        BY <2>5, <4>1
      <4>3. wakeup'[cv[b]] = Append(r, p)
        BY <2>4, <3>3, <4>2
      <4> QED
        BY <2>3, <2>4, <2>7, <3>2, <4>1, <4>3
    <3>4. CASE cv[b] # cv[p]
      BY <2>4, <2>7, <3>2, <3>4
    <3> QED
      BY <3>3, <3>4
  <2> QED
    BY <2>2, <2>6, <2>7 DEF OwedInv
<1> QED
  BY <1>2, <1>3, <1>4, <1>5, <1>6, ListEffects

-----------------------------------------------------------------------------
(* The invariant holds initially and every step keeps it.                  *)
LEMMA InvariantHolds == Spec => []IInv
<1>1. Init => IInv
  <2> SUFFICES ASSUME Init
               PROVE  IInv
    OBVIOUS
  <2>1. TypeOK
    BY ConstantsAssumption DEF Init, TypeOK, Pcs
  <2>2. ControlInv
    BY DEF Init, ControlInv, ControlAt, Broadcasting
  <2>3. \A c \in CVs : wakeup[c] = << >>
    BY DEF Init
  <2>4. IsInjective(<< >>) /\ \A x : ~Contains(<< >>, x)
    <3>1. ASSUME NEW s, s = << >>
          PROVE  IsInjective(s) /\ \A x : ~Contains(s, x)
      <4>1. Len(s) = 0 /\ DOMAIN s = {}
        BY <3>1
      <4> QED
        BY <4>1 DEF IsInjective, Contains
    <3> QED
      BY <3>1
  <2>5. QueueInv
    BY <2>3, <2>4 DEF QueueInv
  <2>6. WakeInv /\ OwedInv
    BY DEF Init, WakeInv, OwedInv
  <2> QED
    BY <2>1, <2>2, <2>5, <2>6 DEF IInv
<1>2. IInv /\ [Next]_vars => IInv'
  <2> SUFFICES ASSUME IInv, [Next]_vars
               PROVE  IInv'
    OBVIOUS
  <2>1. CASE Next
    <3>1. PICK p \in Proc : ActionOf(p)
      BY <2>1, NextIsAction
    <3> QED
      BY <3>1, TypeStep, ControlStep, QueueStep, WakeStep, OwedStep DEF IInv
  <2>2. CASE UNCHANGED vars
    BY <2>2 DEF vars, callVars, wakeVars, IInv, TypeOK, ControlInv, ControlAt, QueueInv,
       WakeInv, OwedInv
  <2> QED
    BY <2>1, <2>2
<1> QED
  BY <1>1, <1>2, PTL DEF Spec

(* A PGPROC's cvWaitLink is in one list at most, once, and only in that of *)
(* its sleep target or as the sentinel of its broadcast: whatever handlers *)
(* run inside a sleep, wait, broadcast or fail, and in whatever order      *)
(* processes signal, cancel and queue themselves, a process that queues    *)
(* itself is on no list.                                                   *)
THEOREM WaitLinkHolds == Spec => []WaitLinkUsedOnce
<1>1. IInv => WaitLinkUsedOnce
  <2> SUFFICES ASSUME IInv
               PROVE  WaitLinkUsedOnce
    OBVIOUS
  <2> USE DEF IInv
  <2>1. \A c \in CVs : IsInjective(wakeup[c])
    BY DEF QueueInv
  <2>2. ASSUME NEW c \in CVs, NEW p \in ToSet(wakeup[c])
        PROVE  MayBeQueued(p, c)
    <3>1. wakeup[c] \in Seq(Proc)
      BY DEF TypeOK
    <3>2. p \in Proc /\ Contains(wakeup[c], p)
      BY <2>2, <3>1, ContainsToSet DEF ToSet
    <3> QED
      BY <3>2 DEF QueueInv, ControlInv, ControlAt, Broadcasting, MayBeQueued
  <2>3. ASSUME NEW p \in Proc, pc[p] \in {"push", "bfirst"}, NEW c \in CVs
        PROVE  ~Contains(wakeup[c], p)
    BY <2>3, ConstantsAssumption DEF QueueInv, ControlInv, ControlAt, Broadcasting
  <2>4. \A p \in Proc : have_sentinel[p] => cv_sleep_target[p] = NoCV
    BY DEF ControlInv, ControlAt
  <2> QED
    BY <2>1, <2>2, <2>3, <2>4 DEF WaitLinkUsedOnce
<1> QED
  BY <1>1, InvariantHolds, PTL

(* No wakeup is lost: between PrepareToSleep and CancelSleep a process is  *)
(* on its list, or its latch is or will be set, or it will look at the     *)
(* list before it waits again, also when timeouts, spurious latch settings *)
(* and interrupt handlers that wait themselves come between.               *)
THEOREM NoWakeupLost == Spec => []SleeperCanBeWoken
<1>1. IInv => SleeperCanBeWoken
  <2> SUFFICES ASSUME IInv, NEW p \in Proc, pc[p] = "wait", ~latch[p]
               PROVE  Contains(wakeup[cv[p]], p) \/ \E q \in Proc : proc[q] = p
    BY DEF SleeperCanBeWoken
  <2>1. cv_sleep_target[p] = cv[p] /\ cv[p] # NoCV
    BY DEF IInv, TypeOK, ControlInv, ControlAt
  <2> QED
    BY <2>1 DEF IInv, WakeInv
<1> QED
  BY <1>1, InvariantHolds, PTL

(* A broadcast ends only when everybody who was on the list at its first   *)
(* look has been taken off it: the sentinel can be taken by others, but    *)
(* only after all that were queued in front of it.                         *)
THEOREM BroadcastComplete == Spec => []BroadcastReachesAll
<1>1. IInv => BroadcastReachesAll
  BY DEF IInv, OwedInv, BroadcastReachesAll
<1> QED
  BY <1>1, InvariantHolds, PTL
=============================================================================
