---------------------------- MODULE LatchProofs ----------------------------
(***************************************************************************)
(* Proofs about Latch: with store buffers, handlers that interrupt their   *)
(* process anywhere and a latch that changes hands, no wakeup is lost, the *)
(* Asserts of latch.c hold and OwnLatch finds the latch free.              *)
(***************************************************************************)
EXTENDS Latch, TLAPS

Calling == {"idle"} \cup SetLatchLabels

(* The PGPROC is that of o.                                                *)
Running(o) == pc[Main(o)] \notin {"out", "gone"}

(* Inside WaitEventSetWait.                                                *)
InWait == {"announce", "waitbarrier", "recheck", "block", "drain", "report", "waited"}

(* Who is where; the PGPROC has one owner at a time.                       *)
ControlInv ==
  /\ \A s \in Setter : pc[Main(s)] \in Calling
  /\ \A o \in Owner :
       /\ pc[Handler(o)] \in Calling
       /\ pc[Main(o)] \in (SetLatchLabels \cup OwnerLabels) \ {"panic"}
       /\ pc[Handler(o)] # "idle" => pc[Main(o)] \notin {"out", "own", "release", "gone"}
       /\ pc[Main(o)] \in InWait => waiting[o]
       /\ free => ~Running(o)
  /\ \A o1, o2 \in Owner : Running(o1) /\ Running(o2) => o1 = o2

-----------------------------------------------------------------------------
Entry(x, v) == [loc |-> x, val |-> v]

Entries == [loc : Location, val : Owner \cup {NoPid} \cup BOOLEAN]

(* What a process's stores in flight tell about where it is.               *)
SetterStored(s, e) ==
  \/ pc[Main(s)] = "barrier"  /\ e = Entry("work", TRUE)
  \/ pc[Main(s)] = "barrier2" /\ e = Entry("is_set", TRUE)

MainStored(o, e) ==
  LET l == pc[Main(o)]
  IN  \/ l = "barrier"      /\ e = Entry("owner_pid", o)
      \/ l = "barrier2"     /\ e = Entry("is_set", TRUE)
      \/ l = "release"      /\ e = Entry("owner_pid", NoPid)
      \/ l = "resetbarrier" /\ e = Entry("is_set", FALSE)
      \/ l = "waitbarrier"  /\ e = Entry("maybe_sleeping", TRUE)
      \/ /\ l \in {"announce", "waitbarrier", "recheck", "waited", "reset", "resetbarrier"}
         /\ e = Entry("maybe_sleeping", FALSE)

OwnerStored(o, e) ==
  \/ pc[Handler(o)] = "barrier"  /\ e = Entry("work", TRUE)
  \/ pc[Handler(o)] = "barrier2" /\ e = Entry("is_set", TRUE)
  \/ pc[Handler(o)] \in {"idle", "barrier"} /\ MainStored(o, e)

Stored(p, e) == IF p \in Owner THEN OwnerStored(p, e) ELSE SetterStored(p, e)

BufferInv ==
  /\ buf \in [Process -> Seq(Entries)]
  /\ \A p \in Process : \A i \in 1 .. Len(buf[p]) : Stored(p, buf[p][i])
  /\ \A s \in Setter : Len(buf[s]) <= 1

-----------------------------------------------------------------------------
(* No store to x is in flight in the buffer b.                             *)
NoStore(b, x) == \A i \in 1 .. Len(b) : b[i].loc # x

(* Somebody with the buffer b on the memory m reads v from x.              *)
Sees(m, b, x, v) ==
  \/ NoStore(b, x) /\ m[x] = v
  \/ \E i \in 1 .. Len(b) :
       /\ b[i].loc = x /\ b[i].val = v
       /\ \A j \in 1 .. Len(b) : j > i => b[j].loc # x

(* The announcement of o can be seen by everybody.                         *)
Announced(o) == NoStore(buf[o], "maybe_sleeping") /\ mem["maybe_sleeping"] = TRUE

OwnerSees(o, x, v) == Sees(mem, buf[o], x, v)

SeesInv ==
  /\ free => mem["maybe_sleeping"] = FALSE /\ mem["owner_pid"] = NoPid
  /\ \A o \in Owner :
       /\ pc[Main(o)] = "waitbarrier" => OwnerSees(o, "maybe_sleeping", TRUE)
       /\ pc[Main(o)] = "recheck" => Announced(o) \/ mem["is_set"] = TRUE
       /\ pc[Main(o)] \in {"block", "drain", "report"} => Announced(o)
       /\ Running(o) /\ pc[Main(o)] \notin {"waitbarrier", "recheck", "block", "drain", "report"}
            => OwnerSees(o, "maybe_sleeping", FALSE)
       /\ pc[Main(o)] \in {"own", "release"} => OwnerSees(o, "owner_pid", NoPid)
       /\ Running(o) /\ pc[Main(o)] \notin {"own", "release"} => OwnerSees(o, "owner_pid", o)

-----------------------------------------------------------------------------
(* The owner has looked for work and goes to sleep.                        *)
LookedForWork == {"wait", "announce", "waitbarrier", "recheck", "block", "drain", "report"}

(* c is going to see that is_set is TRUE, or to set it.                    *)
Sets(c) ==
  \/ pc[c] \in {"barrier", "quick", "set"}
  \/ pc[c] = "barrier2" /\ ~NoStore(buf[c[1]], "is_set")

WorkInv ==
  \A o \in Owner : mem["work"] = TRUE /\ pc[Main(o)] \in LookedForWork =>
    mem["is_set"] = TRUE \/ \E c \in Context : Sets(c)

(* c is going to send o a signal if o sleeps.                              *)
Wakes(c, o) == pc[c] \in {"barrier2", "asleep", "owner"} \/ (pc[c] = "kill" /\ target[c] = o)

WakeInv ==
  \A o \in Owner : mem["is_set"] = TRUE /\ pc[Main(o)] = "block" =>
    sigurg[o] = TRUE \/ pipe[o] = TRUE \/ \E c \in Context : Wakes(c, o)

(* The types; SetLatch signals nobody unless it has read a pid.            *)
TypeInv ==
  /\ DOMAIN mem = Location /\ \A x \in Location : mem[x] \in ValueOf(x)
  /\ sigurg \in [Process -> BOOLEAN] /\ pipe \in [Process -> BOOLEAN]
  /\ selfPipe \in BOOLEAN /\ waiting \in [Process -> BOOLEAN] /\ free \in BOOLEAN
  /\ pc \in [Context -> {"idle"} \cup SetLatchLabels \cup OwnerLabels]
  /\ target \in [Context -> Owner \cup {NoPid}]
  /\ \A c \in Context : pc[c] = "kill" => target[c] # NoPid
  /\ sets \in 0 .. MaxSets

IInv == TypeInv /\ ControlInv /\ BufferInv /\ SeesInv /\ WorkInv /\ WakeInv

-----------------------------------------------------------------------------
(* Threads of control.                                                     *)
LEMMA Contexts ==
  /\ \A p \in Process : Main(p) \in Context /\ Main(p)[1] = p /\ Main(p)[2] = "main"
  /\ \A o \in Owner : Handler(o) \in Context /\ Handler(o)[1] = o /\ Handler(o)[2] = "handler"
  /\ \A c \in Context : (\E p \in Process : c = Main(p)) \/ (\E o \in Owner : c = Handler(o))
  /\ \A o \in Owner : o \in Process /\ o \notin Setter
  /\ \A s \in Setter : s \in Process /\ s \notin Owner
  /\ \A p \in Process : p # NoPid /\ (p \in Owner \/ p \in Setter)
BY ConstantsAssumption DEF Main, Handler, Context, Process

(* A context is one of three kinds.                                        *)
LEMMA Kinds ==
  ASSUME NEW c \in Context
  PROVE  /\ c[1] \in Process
         /\ \/ \E s \in Setter : c = Main(s)
            \/ \E o \in Owner : c = Handler(o)
            \/ \E o \in Owner : c = Main(o)
BY Contexts

-----------------------------------------------------------------------------
(* Memory                                                                  *)

(* Sees is what Load reads.                                                *)
LEMMA SeesLoad ==
  ASSUME NEW p \in Process, buf[p] \in Seq(Entries), NEW x, NEW v, Sees(mem, buf[p], x, v)
  PROVE  Load(p, x) = v
<1> DEFINE mine == {i \in DOMAIN buf[p] : buf[p][i].loc = x}
<1>1. DOMAIN buf[p] = 1 .. Len(buf[p]) /\ Len(buf[p]) \in Nat
  OBVIOUS
<1>2. CASE NoStore(buf[p], x) /\ mem[x] = v
  <2>1. mine = {}
    BY <1>1, <1>2 DEF NoStore
  <2> QED
    BY <1>2, <2>1 DEF Load
<1>3. ASSUME NEW i \in 1 .. Len(buf[p]), buf[p][i].loc = x, buf[p][i].val = v,
             \A j \in 1 .. Len(buf[p]) : j > i => buf[p][j].loc # x
      PROVE  Load(p, x) = v
  <2>1. i \in mine /\ \A j \in mine : j \in Int /\ i >= j
    BY <1>1, <1>3
  <2>2. Max(mine) = i
    <3> HIDE DEF mine
    <3>1. \A j \in mine : (\A k \in mine : j >= k) => j = i
      BY <2>1
    <3> QED
      BY <2>1, <3>1 DEF Max
  <2> QED
    BY <1>3, <2>1, <2>2 DEF Load
<1> QED
  BY <1>2, <1>3 DEF Sees

(* Without a store in flight one reads the memory.                         *)
LEMMA LoadMemory ==
  ASSUME NEW p \in Process, buf[p] \in Seq(Entries), NEW x, NoStore(buf[p], x)
  PROVE  Load(p, x) = mem[x]
<1>1. PICK v : v = mem[x]
  OBVIOUS
<1>2. Sees(mem, buf[p], x, v)
  BY <1>1 DEF Sees
<1> QED
  BY <1>1, <1>2, SeesLoad

LEMMA SeesEmpty ==
  ASSUME NEW m, NEW x, NEW v
  PROVE  NoStore(<< >>, x) /\ (Sees(m, << >>, x, v) <=> m[x] = v)
BY DEF Sees, NoStore

(* A store.                                                                *)
LEMMA SeesAppend ==
  ASSUME NEW b \in Seq(Entries), NEW e \in Entries, NEW m, NEW x, NEW v
  PROVE  /\ e.loc = x => Sees(m, Append(b, e), x, e.val)
         /\ e.loc # x /\ Sees(m, b, x, v) => Sees(m, Append(b, e), x, v)
         /\ NoStore(Append(b, e), x) <=> (NoStore(b, x) /\ e.loc # x)
<1> DEFINE c == Append(b, e)
<1>1. /\ Len(b) \in Nat /\ Len(c) = Len(b) + 1 /\ c[Len(b) + 1] = e
      /\ \A i \in 1 .. Len(b) : c[i] = b[i]
  OBVIOUS
<1> HIDE DEF c
<1>2. e.loc = x => Sees(m, c, x, e.val)
  BY <1>1 DEF Sees
<1>3. NoStore(c, x) <=> (NoStore(b, x) /\ e.loc # x)
  BY <1>1 DEF NoStore
<1>4. ASSUME e.loc # x, Sees(m, b, x, v)
      PROVE  Sees(m, c, x, v)
  <2>1. CASE NoStore(b, x) /\ m[x] = v
    BY <1>3, <1>4, <2>1 DEF Sees
  <2>2. ASSUME NEW i \in 1 .. Len(b), b[i].loc = x, b[i].val = v,
               \A j \in 1 .. Len(b) : j > i => b[j].loc # x
        PROVE  Sees(m, c, x, v)
    <3>1. i \in 1 .. Len(c) /\ c[i].loc = x /\ c[i].val = v
      BY <1>1, <2>2
    <3>2. \A j \in 1 .. Len(c) : j > i => c[j].loc # x
      BY <1>1, <1>4, <2>2
    <3> QED
      BY <3>1, <3>2 DEF Sees
  <2> QED
    BY <1>4, <2>1, <2>2 DEF Sees
<1> QED
  BY <1>2, <1>3, <1>4 DEF c

(* The oldest store reaches memory.                                        *)
LEMMA SeesTail ==
  ASSUME NEW b \in Seq(Entries), b # << >>, NEW m, DOMAIN m = Location, NEW x, NEW v
  PROVE  /\ Sees(m, b, x, v) => Sees([m EXCEPT ![Head(b).loc] = Head(b).val], Tail(b), x, v)
         /\ NoStore(b, x) => NoStore(Tail(b), x) /\ Head(b).loc # x
         /\ Head(b).loc # x => (NoStore(b, x) <=> NoStore(Tail(b), x))
<1> DEFINE c == Tail(b)
           n == [m EXCEPT ![Head(b).loc] = Head(b).val]
<1>1. /\ Len(b) \in Nat /\ Len(b) > 0 /\ Len(c) = Len(b) - 1 /\ Head(b) = b[1]
      /\ \A i \in 1 .. Len(c) : c[i] = b[i + 1]
  OBVIOUS
<1>2. b[1] \in Entries
  BY <1>1
<1>3. n[b[1].loc] = b[1].val /\ (b[1].loc # x => n[x] = m[x])
  BY <1>1, <1>2 DEF Entries
<1> HIDE DEF c, n
<1>4. NoStore(b, x) => NoStore(c, x) /\ b[1].loc # x
  BY <1>1 DEF NoStore
<1>5. ASSUME b[1].loc # x
      PROVE  NoStore(b, x) <=> NoStore(c, x)
  <2>1. ASSUME NoStore(c, x), NEW i \in 1 .. Len(b)
        PROVE  b[i].loc # x
    <3>1. CASE i = 1
      BY <1>5, <3>1
    <3>2. CASE i > 1
      <4>1. i - 1 \in 1 .. Len(c) /\ (i - 1) + 1 = i
        BY <1>1, <3>2
      <4> QED
        BY <1>1, <2>1, <4>1 DEF NoStore
    <3> QED
      BY <1>1, <3>1, <3>2
  <2> QED
    BY <1>4, <2>1 DEF NoStore
<1>6. ASSUME Sees(m, b, x, v)
      PROVE  Sees(n, c, x, v)
  <2>1. CASE NoStore(b, x) /\ m[x] = v
    BY <1>3, <1>4, <2>1 DEF Sees
  <2>2. ASSUME NEW i \in 1 .. Len(b), b[i].loc = x, b[i].val = v,
               \A j \in 1 .. Len(b) : j > i => b[j].loc # x
        PROVE  Sees(n, c, x, v)
    <3>1. \A j \in 1 .. Len(c) : j + 1 > i => c[j].loc # x
      BY <1>1, <2>2
    <3>2. CASE i = 1
      <4>1. NoStore(c, x)
        BY <1>1, <3>1, <3>2 DEF NoStore
      <4> QED
        BY <1>3, <2>2, <3>2, <4>1 DEF Sees
    <3>3. CASE i > 1
      <4>1. PICK k \in 1 .. Len(c) : i = k + 1
        <5>1. i - 1 \in 1 .. Len(c) /\ (i - 1) + 1 = i
          BY <1>1, <3>3
        <5> QED
          BY <5>1
      <4>2. c[k].loc = x /\ c[k].val = v
        BY <1>1, <2>2, <4>1
      <4>3. \A j \in 1 .. Len(c) : j > k => c[j].loc # x
        BY <1>1, <3>1, <4>1
      <4> QED
        BY <4>2, <4>3 DEF Sees
    <3> QED
      BY <1>1, <3>2, <3>3
  <2> QED
    BY <1>6, <2>1, <2>2 DEF Sees
<1> QED
  BY <1>1, <1>4, <1>5, <1>6 DEF c, n

(* A store of another process.                                             *)
LEMMA SeesOther ==
  ASSUME NEW m, NEW n, NEW b, NEW x, NEW v, n[x] = m[x], Sees(m, b, x, v)
  PROVE  Sees(n, b, x, v)
BY DEF Sees

-----------------------------------------------------------------------------
Value == Owner \cup {NoPid} \cup BOOLEAN

(* A step that stores v in x: what the owners see, and who has stored.     *)
Stores(p, x, v) == mem' = mem /\ buf' = [buf EXCEPT ![p] = Append(@, Entry(x, v))]

LEMMA StoreEffect ==
  ASSUME BufferInv, NEW p \in Process, NEW x \in Location, NEW v \in Value, Stores(p, x, v)
  PROVE  /\ Sees(mem', buf'[p], x, v)
         /\ \A q \in Process, y \in Location, w \in Value :
              (q # p \/ y # x) /\ Sees(mem, buf[q], y, w) => Sees(mem', buf'[q], y, w)
         /\ \A q \in Process, y \in Location :
              NoStore(buf'[q], y) <=> NoStore(buf[q], y) /\ (q # p \/ y # x)
<1>1. PICK m, b, c, e : /\ m = mem /\ b = buf[p] /\ e = Entry(x, v) /\ c = Append(b, e)
  OBVIOUS
<1>2. b \in Seq(Entries) /\ e \in Entries /\ e.loc = x /\ e.val = v
  BY <1>1 DEF BufferInv, Entries, Entry, Value
<1>3. mem' = m /\ buf'[p] = c /\ \A q \in Process : q # p => buf'[q] = buf[q]
  BY <1>1 DEF Stores, BufferInv
<1>4. Sees(m, c, x, v)
  BY <1>1, <1>2, SeesAppend
<1>5. \A y \in Location, w \in Value : y # x /\ Sees(m, b, y, w) => Sees(m, c, y, w)
  BY <1>1, <1>2, SeesAppend
<1>6. \A y \in Location : NoStore(c, y) <=> NoStore(b, y) /\ y # x
  BY <1>1, <1>2, SeesAppend
<1> QED
  BY <1>1, <1>3, <1>4, <1>5, <1>6

(* A store of p that reaches memory.                                       *)
LEMMA FlushEffect ==
  ASSUME TypeInv, BufferInv, NEW p \in Process, Flush(p),
         NEW x \in Location, NEW v \in Value, Head(buf[p]) = Entry(x, v)
  PROVE  /\ DOMAIN mem' = Location /\ mem'[x] = v
         /\ \A y \in Location : y # x => mem'[y] = mem[y]
         /\ \A y \in Location, w \in Value :
              Sees(mem, buf[p], y, w) => Sees(mem', buf'[p], y, w)
         /\ \A y \in Location : NoStore(buf[p], y) => NoStore(buf'[p], y)
         /\ \A y \in Location : y # x => (NoStore(buf'[p], y) <=> NoStore(buf[p], y))
         /\ \A q \in Process, y \in Location, w \in Value :
              q # p /\ y # x /\ Sees(mem, buf[q], y, w) => Sees(mem', buf'[q], y, w)
         /\ \A q \in Process : q # p => buf'[q] = buf[q]
<1>1. PICK m, b, n, c : m = mem /\ b = buf[p] /\ n = mem' /\ c = buf'[p]
  OBVIOUS
<1>2. /\ b \in Seq(Entries) /\ b # << >> /\ Head(b).loc = x /\ Head(b).val = v
      /\ DOMAIN m = Location
  BY <1>1 DEF BufferInv, TypeInv, Flush, Drained, Entry
<1>3. n = [m EXCEPT ![Head(b).loc] = Head(b).val] /\ c = Tail(b)
  BY <1>1 DEF Flush, BufferInv
<1>4. \A q \in Process : q # p => buf'[q] = buf[q]
  BY DEF Flush, BufferInv
<1>5. DOMAIN n = Location /\ n[x] = v /\ \A y \in Location : y # x => n[y] = m[y]
  BY <1>2, <1>3
<1>6. \A y \in Location, w \in Value : Sees(m, b, y, w) => Sees(n, c, y, w)
  BY <1>2, <1>3, SeesTail
<1>7. \A y \in Location : NoStore(b, y) => NoStore(c, y)
  BY <1>2, <1>3, SeesTail
<1>8. \A y \in Location : y # x => (NoStore(c, y) <=> NoStore(b, y))
  BY <1>2, <1>3, SeesTail
<1>9. ASSUME NEW q \in Process, NEW y \in Location, NEW w \in Value,
             q # p, y # x, Sees(mem, buf[q], y, w)
      PROVE  Sees(mem', buf'[q], y, w)
  <2>1. PICK d : d = buf[q]
    OBVIOUS
  <2>2. Sees(n, d, y, w)
    BY <1>1, <1>5, <1>9, <2>1, SeesOther
  <2> QED
    BY <1>1, <1>4, <1>9, <2>1, <2>2
<1> QED
  BY <1>1, <1>4, <1>5, <1>6, <1>7, <1>8, <1>9

-----------------------------------------------------------------------------
(* Threads of control are different when their processes or kinds are.     *)
LEMMA Different ==
  /\ \A p, q \in Process : Main(p) = Main(q) => p = q
  /\ \A p, q \in Owner : Handler(p) = Handler(q) => p = q
  /\ \A p \in Process, q \in Owner : Main(p) # Handler(q)
BY DEF Main, Handler

(* Where nothing is in flight.                                             *)
LEMMA Empty ==
  ASSUME BufferInv
  PROVE  /\ \A s \in Setter : pc[Main(s)] \notin {"barrier", "barrier2"} => buf[s] = << >>
         /\ \A o \in Owner :
              pc[Handler(o)] \notin {"idle", "barrier", "barrier2"} => buf[o] = << >>
         /\ \A o \in Owner :
              /\ pc[Handler(o)] = "idle"
              /\ pc[Main(o)] \notin {"barrier", "barrier2", "release", "resetbarrier",
                                    "waitbarrier", "announce", "recheck", "waited", "reset"}
              => buf[o] = << >>
         /\ \A o \in Owner :
              /\ pc[Handler(o)] = "idle"
              /\ pc[Main(o)] \in {"waitbarrier", "announce", "recheck", "waited", "reset"}
              => \A x \in Location \ {"maybe_sleeping"} : NoStore(buf[o], x)
<1>1. \A p \in Process : buf[p] \in Seq(Entries) /\ Len(buf[p]) \in Nat
  BY DEF BufferInv
<1>2. \A p \in Process : (\A i \in 1 .. Len(buf[p]) : ~Stored(p, buf[p][i])) => buf[p] = << >>
  <2>1. SUFFICES ASSUME NEW p \in Process, \A i \in 1 .. Len(buf[p]) : ~Stored(p, buf[p][i])
                 PROVE  buf[p] = << >>
    OBVIOUS
  <2>2. 1 \notin 1 .. Len(buf[p])
    BY <2>1 DEF BufferInv
  <2>3. Len(buf[p]) = 0
    BY <1>1, <2>2
  <2> QED
    BY <1>1, <2>3
<1>3. ASSUME NEW s \in Setter, pc[Main(s)] \notin {"barrier", "barrier2"}
      PROVE  buf[s] = << >>
  BY <1>2, <1>3, Contexts DEF Stored, SetterStored
<1>4. ASSUME NEW o \in Owner, pc[Handler(o)] \notin {"idle", "barrier", "barrier2"}
      PROVE  buf[o] = << >>
  BY <1>2, <1>4, Contexts DEF Stored, OwnerStored
<1>5. ASSUME NEW o \in Owner, pc[Handler(o)] = "idle",
             pc[Main(o)] \notin {"barrier", "barrier2", "release", "resetbarrier",
                                 "waitbarrier", "announce", "recheck", "waited", "reset"}
      PROVE  buf[o] = << >>
  BY <1>2, <1>5, Contexts DEF Stored, OwnerStored, MainStored
<1>6. ASSUME NEW o \in Owner, pc[Handler(o)] = "idle",
             pc[Main(o)] \in {"waitbarrier", "announce", "recheck", "waited", "reset"},
             NEW x \in Location, x # "maybe_sleeping"
      PROVE  NoStore(buf[o], x)
  <2>1. SUFFICES ASSUME NEW i \in 1 .. Len(buf[o])
                 PROVE  buf[o][i].loc # x
    BY DEF NoStore
  <2>2. OwnerStored(o, buf[o][i])
    BY Contexts DEF BufferInv, Stored
  <2> QED
    BY <1>6, <2>2 DEF OwnerStored, MainStored, Entry
<1> QED
  BY <1>3, <1>4, <1>5, <1>6

(* A call of SetLatch that runs between its barriers has nothing in flight. *)
LEMMA CallEmpty ==
  ASSUME TypeInv, ControlInv, BufferInv, NEW c \in Context, NEW l,
         At(c, l), l \in {"quick", "set", "asleep", "owner", "kill"}
  PROVE  buf[c[1]] = << >> /\ \A x \in Location : Load(c[1], x) = mem[x]
<1>1. buf[c[1]] = << >>
  <2>1. CASE \E s \in Setter : c = Main(s)
    BY <2>1, Empty, Contexts DEF At
  <2>2. CASE \E o \in Owner : c = Handler(o)
    BY <2>2, Empty, Contexts DEF At
  <2>3. CASE \E o \in Owner : c = Main(o)
    BY <2>3, Empty, Contexts DEF At
  <2> QED
    BY <2>1, <2>2, <2>3, Kinds
<1>2. c[1] \in Process /\ buf[c[1]] \in Seq(Entries)
  BY Kinds DEF BufferInv
<1>3. ASSUME NEW x \in Location
      PROVE  Load(c[1], x) = mem[x]
  <2>1. NoStore(buf[c[1]], x)
    BY <1>1 DEF NoStore
  <2> QED
    BY <1>2, <2>1, LoadMemory
<1> QED
  BY <1>1, <1>3

(* While it waits, an owner reads all but maybe_sleeping from memory.      *)
LEMMA OwnerLoads ==
  ASSUME TypeInv, ControlInv, BufferInv, NEW o \in Owner, pc[Handler(o)] = "idle",
         pc[Main(o)] \in {"check", "own", "announce", "recheck", "report"},
         NEW x \in Location \ {"maybe_sleeping"}
  PROVE  Load(o, x) = mem[x]
<1>1. NoStore(buf[o], x)
  <2>1. CASE pc[Main(o)] \in {"check", "own", "report"}
    <3>1. buf[o] = << >>
      BY <2>1, Empty
    <3> QED
      BY <3>1 DEF NoStore
  <2>2. CASE pc[Main(o)] \in {"announce", "recheck"}
    BY <2>2, Empty
  <2> QED
    BY <2>1, <2>2
<1>2. o \in Process /\ buf[o] \in Seq(Entries)
  BY Contexts DEF BufferInv
<1> QED
  BY <1>1, <1>2, LoadMemory

-----------------------------------------------------------------------------
(* ControlInv                                                              *)

MainLabels == (SetLatchLabels \cup OwnerLabels) \ {"panic"}

(* The owner, inside or outside SetLatch, goes on.                         *)
MainGoes(o, to) ==
  /\ pc[Handler(o)] = "idle"
  /\ pc' = [pc EXCEPT ![Main(o)] = to]

LEMMA MainControl ==
  ASSUME TypeInv, ControlInv, NEW o \in Owner, NEW to \in MainLabels, MainGoes(o, to),
         \A q \in Owner \ {o} : waiting'[q] = waiting[q],
         to \in InWait => waiting'[o],
         \/ Running(o) /\ to \notin {"out", "gone"} /\ free' = free
         \/ Running(o) /\ to = "gone"
         \/ free /\ to \notin {"out", "gone"} /\ ~free'
  PROVE  ControlInv'
<1>1. /\ pc'[Main(o)] = to
      /\ \A p \in Process \ {o} : pc'[Main(p)] = pc[Main(p)]
      /\ \A q \in Owner : pc'[Handler(q)] = pc[Handler(q)]
  BY Contexts, Different DEF MainGoes, TypeInv
<1>2. \A s \in Setter : pc'[Main(s)] \in Calling
  BY <1>1, Contexts DEF ControlInv
<1>3. ASSUME NEW q \in Owner
      PROVE  /\ pc'[Handler(q)] \in Calling
             /\ pc'[Main(q)] \in MainLabels
             /\ pc'[Handler(q)] # "idle" => pc'[Main(q)] \notin {"out", "own", "release", "gone"}
             /\ pc'[Main(q)] \in InWait => waiting'[q]
  BY <1>1, Contexts DEF ControlInv, MainGoes, MainLabels
<1>4. \A q \in Owner \ {o} : Running(q)' <=> Running(q)
  BY <1>1, Contexts DEF Running
<1>5. ASSUME NEW q \in Owner, free'
      PROVE  ~Running(q)'
  BY <1>1, <1>4, <1>5 DEF ControlInv, Running
<1>6. ASSUME NEW q \in Owner, NEW r \in Owner, Running(q)', Running(r)'
      PROVE  q = r
  BY <1>1, <1>4, <1>6 DEF ControlInv, Running
<1> QED
  BY <1>2, <1>3, <1>5, <1>6 DEF ControlInv, MainLabels

(* Somebody else goes on.                                                  *)
LEMMA CallerControl ==
  ASSUME TypeInv, ControlInv, NEW c \in Context, NEW to \in Calling,
         ~\E o \in Owner : c = Main(o),
         pc' = [pc EXCEPT ![c] = to], UNCHANGED <<waiting, free>>,
         \A o \in Owner : c = Handler(o) => pc[Main(o)] \notin {"out", "own", "release", "gone"}
  PROVE  ControlInv'
<1>1. /\ pc'[c] = to
      /\ \A d \in Context : d # c => pc'[d] = pc[d]
  BY DEF TypeInv
<1>2. \A o \in Owner : pc'[Main(o)] = pc[Main(o)] /\ (Running(o)' <=> Running(o))
  BY <1>1, Contexts DEF Running
<1>3. \A s \in Setter : pc'[Main(s)] \in Calling
  BY <1>1, Contexts DEF ControlInv
<1>4. \A o \in Owner : pc'[Handler(o)] \in Calling
  BY <1>1, Contexts DEF ControlInv
<1>5. ASSUME NEW o \in Owner, pc'[Handler(o)] # "idle"
      PROVE  pc'[Main(o)] \notin {"out", "own", "release", "gone"}
  BY <1>1, <1>2, <1>5, Contexts DEF ControlInv
<1> QED
  BY <1>2, <1>3, <1>4, <1>5 DEF ControlInv

(* What a step of SetLatch does to where its caller is.                    *)
LEMMA CallGoes ==
  ASSUME TypeInv, ControlInv, NEW c \in Context, SetLatch(c)
  PROVE  /\ pc[c] \in SetLatchLabels
         /\ \A o \in Owner : c = Main(o) => pc[Handler(o)] = "idle"
         /\ \E to \in Calling \cup {"reset", "check"} :
              /\ pc' = [pc EXCEPT ![c] = to]
              /\ IF \E o \in Owner : c = Main(o) THEN to # "idle" ELSE to \in Calling
         /\ UNCHANGED <<mem, waiting, free, selfPipe, sets>>
<1>1. c[2] = "main" /\ c[1] \in Owner <=> \E o \in Owner : c = Main(o)
  <2>1. CASE \E s \in Setter : c = Main(s)
    BY <2>1, Contexts, Different
  <2>2. CASE \E o \in Owner : c = Handler(o)
    BY <2>2, Contexts, Different
  <2>3. CASE \E o \in Owner : c = Main(o)
    BY <2>3, Contexts, Different
  <2> QED
    BY <2>1, <2>2, <2>3, Kinds
<1>2. \A o \in Owner : c = Main(o) => c[1] = o
  BY Contexts
<1>3. pc[c] \in SetLatchLabels /\ \A o \in Owner : c = Main(o) => pc[Handler(o)] = "idle"
  BY <1>1, <1>2 DEF SetLatch, SetBarrier, QuickExit, SetIsSet, SetBarrier2, TestMaybeSleeping,
     FetchOwner, Kill, At, SetLatchLabels
<1>4. UNCHANGED <<mem, waiting, free, selfPipe, sets>>
  BY DEF SetLatch, SetBarrier, QuickExit, SetIsSet, SetBarrier2, TestMaybeSleeping,
     FetchOwner, Kill, kernelVars
<1>5. \/ Return(c)
      \/ \E to \in SetLatchLabels : pc' = [pc EXCEPT ![c] = to]
  BY DEF SetLatch, SetBarrier, QuickExit, SetIsSet, SetBarrier2, TestMaybeSleeping,
     FetchOwner, Kill, Go, SetLatchLabels
<1>6. \E to \in Calling \cup {"reset", "check"} :
        /\ pc' = [pc EXCEPT ![c] = to]
        /\ IF \E o \in Owner : c = Main(o) THEN to # "idle" ELSE to \in Calling
  <2>1. CASE Return(c)
    BY <1>1, <2>1 DEF Return, Go, Calling
  <2>2. CASE \E to \in SetLatchLabels : pc' = [pc EXCEPT ![c] = to]
    BY <2>2 DEF Calling, SetLatchLabels
  <2> QED
    BY <1>5, <2>1, <2>2
<1> QED
  BY <1>3, <1>4, <1>6

LEMMA CallControl ==
  ASSUME TypeInv, ControlInv, NEW c \in Context, SetLatch(c)
  PROVE  ControlInv'
<1>1. PICK to \in Calling \cup {"reset", "check"} :
        /\ pc' = [pc EXCEPT ![c] = to]
        /\ IF \E o \in Owner : c = Main(o) THEN to # "idle" ELSE to \in Calling
  BY CallGoes
<1>2. CASE \E o \in Owner : c = Main(o)
  <2>1. PICK o \in Owner : c = Main(o)
    BY <1>2
  <2>2. to \in MainLabels /\ to \notin InWait \cup {"out", "gone"}
    BY <1>1, <2>1 DEF Calling, MainLabels, SetLatchLabels, OwnerLabels, InWait
  <2>3. MainGoes(o, to) /\ Running(o) /\ UNCHANGED <<waiting, free>>
    BY <1>1, <2>1, CallGoes DEF MainGoes, Running, SetLatchLabels
  <2> QED
    BY <2>2, <2>3, MainControl
<1>3. CASE ~\E o \in Owner : c = Main(o)
  <2>1. UNCHANGED <<waiting, free>> /\ pc[c] \in SetLatchLabels
    BY CallGoes
  <2>2. \A o \in Owner : c = Handler(o) => pc[Main(o)] \notin {"out", "own", "release", "gone"}
    BY <2>1 DEF ControlInv, SetLatchLabels
  <2> QED
    BY <1>1, <1>3, <2>1, <2>2, CallerControl
<1> QED
  BY <1>2, <1>3

-----------------------------------------------------------------------------
(* What the owner does, one line per edge of its wait loop.                *)
Silent == UNCHANGED <<mem, buf>>

Moves(o, from, to) == pc[Main(o)] = from /\ MainGoes(o, to)

MovesSilently(o) ==
  /\ Silent
  /\ UNCHANGED free
  /\ \/ Moves(o, "resetbarrier", "check") /\ buf[o] = << >>
     \/ Moves(o, "check", "do")
     \/ Moves(o, "check", "wait") /\ mem["work"] = FALSE
     \/ Moves(o, "wait", "announce")
     \/ Moves(o, "announce", "recheck") /\ mem["is_set"] = TRUE
     \/ Moves(o, "waitbarrier", "recheck") /\ buf[o] = << >>
     \/ Moves(o, "recheck", "block") /\ mem["is_set"] = FALSE
     \/ Moves(o, "block", "drain")
     \/ Moves(o, "drain", "report")
     \/ Moves(o, "waited", "reset")

MovesAndStores(o, x, v) ==
  /\ Stores(o, x, v)
  /\ UNCHANGED free
  /\ \/ Moves(o, "own", "barrier") /\ x = "owner_pid" /\ v = o
     \/ Moves(o, "check", "release") /\ x = "owner_pid" /\ v = NoPid
     \/ Moves(o, "reset", "resetbarrier") /\ x = "is_set" /\ v = FALSE
     \/ Moves(o, "announce", "waitbarrier") /\ x = "maybe_sleeping" /\ v = TRUE
     \/ Moves(o, "recheck", "waited") /\ x = "maybe_sleeping" /\ v = FALSE
     \/ \E from \in {"block", "report"}, to \in {"announce", "waited"} :
          Moves(o, from, to) /\ x = "maybe_sleeping" /\ v = FALSE

OwnerMoves(o) ==
  \/ MovesSilently(o)
  \/ \E x \in Location, v \in Value : MovesAndStores(o, x, v)
  \/ Moves(o, "do", "wait") /\ mem' = [mem EXCEPT !["work"] = FALSE] /\ UNCHANGED <<buf, free>>
  \/ Moves(o, "out", "own") /\ Silent /\ free /\ ~free'
  \/ Moves(o, "release", "gone") /\ Silent /\ buf[o] = << >> /\ free'

LEMMA OwnerStep ==
  ASSUME TypeInv, ControlInv, BufferInv, SeesInv, NEW o \in Owner, Loop(o) \/ Event(o)
  PROVE  OwnerMoves(o)
<1>1. Main(o)[1] = o /\ Main(o)[2] = "main" /\ o \in Process
  BY Contexts
<1>2. \A l : At(Main(o), l) => pc[Main(o)] = l /\ pc[Handler(o)] = "idle"
  BY <1>1 DEF At
<1>3. ASSUME NEW x \in Location, NEW v \in Value, Store(o, x, v), mem' = mem
      PROVE  Stores(o, x, v)
  BY <1>3 DEF Store, Stores, Entry
<1>4. NoPid \in Value /\ o \in Value /\ TRUE \in Value /\ FALSE \in Value
  BY DEF Value
<1>5. \A x \in {"work", "is_set"} : mem[x] \in BOOLEAN
  BY DEF TypeInv, ValueOf, Location
<1>6. /\ "work" \in Location \ {"maybe_sleeping"} /\ "is_set" \in Location \ {"maybe_sleeping"}
      /\ "owner_pid" \in Location \ {"maybe_sleeping"} /\ "maybe_sleeping" \in Location
  BY DEF Location
<1>10. CASE GetProc(o)
  BY <1>2, <1>10 DEF GetProc, OwnerMoves, Moves, MainGoes, Silent, Go
<1>11. CASE OwnLatch(o)
  <2>1. pc[Main(o)] = "own" /\ pc[Handler(o)] = "idle" /\ Load(o, "owner_pid") = mem["owner_pid"]
    BY <1>2, <1>6, <1>11, OwnerLoads DEF OwnLatch
  <2>2. buf[o] = << >>
    BY <2>1, Empty
  <2>3. mem["owner_pid"] = NoPid
    BY <2>1, <2>2, SeesEmpty DEF SeesInv, OwnerSees, Sees
  <2>4. /\ Store(o, "owner_pid", o) /\ mem' = mem /\ free' = free
        /\ pc' = [pc EXCEPT ![Main(o)] = "barrier"]
    BY <1>11, <2>1, <2>3 DEF OwnLatch, Go
  <2>5. MovesAndStores(o, "owner_pid", o)
    BY <1>3, <1>4, <1>6, <2>1, <2>4 DEF MovesAndStores, Moves, MainGoes
  <2> QED
    BY <1>4, <1>6, <2>5 DEF OwnerMoves
<1>12. CASE ReleaseProc(o)
  BY <1>2, <1>12 DEF ReleaseProc, OwnerMoves, Moves, MainGoes, Silent, Go, Drained
<1>13. CASE ResetLatch(o)
  <2>1. MovesAndStores(o, "is_set", FALSE)
    BY <1>2, <1>3, <1>4, <1>6, <1>13 DEF ResetLatch, MovesAndStores, Moves, MainGoes, Go
  <2> QED
    BY <1>4, <1>6, <2>1 DEF OwnerMoves
<1>14. CASE ResetBarrier(o)
  BY <1>2, <1>14 DEF ResetBarrier, OwnerMoves, MovesSilently, Moves, MainGoes, Silent, Go, Drained
<1>15. CASE CheckWork(o)
  <2>1. pc[Main(o)] = "check" /\ pc[Handler(o)] = "idle" /\ Load(o, "work") = mem["work"]
    BY <1>2, <1>6, <1>15, OwnerLoads DEF CheckWork
  <2>2. CASE mem["work"] = TRUE
    BY <1>15, <2>1, <2>2 DEF CheckWork, OwnerMoves, MovesSilently, Moves, MainGoes, Silent, Go
  <2>3. CASE mem["work"] = FALSE
    BY <1>15, <2>1, <2>3 DEF CheckWork, OwnerMoves, MovesSilently, Moves, MainGoes, Silent, Go
  <2> QED
    BY <1>5, <2>2, <2>3
<1>16. CASE DoWork(o)
  BY <1>2, <1>16 DEF DoWork, OwnerMoves, Moves, MainGoes, Go
<1>17. CASE StartWaiting(o)
  BY <1>2, <1>17 DEF StartWaiting, OwnerMoves, MovesSilently, Moves, MainGoes, Silent, Go
<1>18. CASE Announce(o)
  <2>1. pc[Main(o)] = "announce" /\ pc[Handler(o)] = "idle" /\ Load(o, "is_set") = mem["is_set"]
    BY <1>2, <1>6, <1>18, OwnerLoads DEF Announce
  <2>2. CASE mem["is_set"] = TRUE
    BY <1>18, <2>1, <2>2 DEF Announce, OwnerMoves, MovesSilently, Moves, MainGoes, Silent, Go
  <2>3. CASE mem["is_set"] = FALSE
    <3>1. MovesAndStores(o, "maybe_sleeping", TRUE)
      BY <1>3, <1>4, <1>6, <1>18, <2>1, <2>3 DEF Announce, MovesAndStores, Moves, MainGoes, Go
    <3> QED
      BY <1>4, <1>6, <3>1 DEF OwnerMoves
  <2> QED
    BY <1>5, <2>2, <2>3
<1>19. CASE WaitBarrier(o)
  BY <1>2, <1>19 DEF WaitBarrier, OwnerMoves, MovesSilently, Moves, MainGoes, Silent, Go, Drained
<1>20. CASE Recheck(o)
  <2>1. pc[Main(o)] = "recheck" /\ pc[Handler(o)] = "idle" /\ Load(o, "is_set") = mem["is_set"]
    BY <1>2, <1>6, <1>20, OwnerLoads DEF Recheck
  <2>2. CASE mem["is_set"] = FALSE
    BY <1>20, <2>1, <2>2 DEF Recheck, OwnerMoves, MovesSilently, Moves, MainGoes, Silent, Go
  <2>3. CASE mem["is_set"] = TRUE
    <3>1. MovesAndStores(o, "maybe_sleeping", FALSE)
      BY <1>3, <1>4, <1>6, <1>20, <2>1, <2>3 DEF Recheck, MovesAndStores, Moves, MainGoes, Go
    <3> QED
      BY <1>4, <1>6, <3>1 DEF OwnerMoves
  <2> QED
    BY <1>5, <2>2, <2>3
<1>21. CASE Woken(o)
  BY <1>2, <1>21 DEF Woken, OwnerMoves, MovesSilently, Moves, MainGoes, Silent, Go
<1>22. CASE Drain(o)
  BY <1>2, <1>22 DEF Drain, OwnerMoves, MovesSilently, Moves, MainGoes, Silent, Go
<1>23. CASE Report(o)
  <2>1. MovesAndStores(o, "maybe_sleeping", FALSE)
    BY <1>2, <1>3, <1>4, <1>6, <1>23 DEF Report, MovesAndStores, Moves, MainGoes, Go
  <2> QED
    BY <1>4, <1>6, <2>1 DEF OwnerMoves
<1>24. CASE StopWaiting(o)
  BY <1>2, <1>24 DEF StopWaiting, OwnerMoves, MovesSilently, Moves, MainGoes, Silent, Go
<1>25. CASE DisownLatch(o)
  <2>1. MovesAndStores(o, "owner_pid", NoPid)
    BY <1>2, <1>3, <1>4, <1>6, <1>25 DEF DisownLatch, MovesAndStores, Moves, MainGoes, Go
  <2> QED
    BY <1>4, <1>6, <2>1 DEF OwnerMoves
<1>26. CASE Interrupted(o) \/ OtherEvent(o)
  <2>1. MovesAndStores(o, "maybe_sleeping", FALSE)
    BY <1>2, <1>3, <1>4, <1>6, <1>26 DEF Interrupted, OtherEvent, MovesAndStores, Moves,
       MainGoes, Go
  <2> QED
    BY <1>4, <1>6, <2>1 DEF OwnerMoves
<1> QED
  BY <1>10, <1>11, <1>12, <1>13, <1>14, <1>15, <1>16, <1>17, <1>18, <1>19, <1>20, <1>21, <1>22,
     <1>23, <1>24, <1>25, <1>26 DEF Loop, Event

LEMMA OwnerGoes ==
  ASSUME ControlInv, NEW o \in Owner, OwnerMoves(o)
  PROVE  \E to \in MainLabels \ {"kill"} :
           /\ MainGoes(o, to)
           /\ to \in InWait => pc[Main(o)] \in InWait \cup {"wait"}
           /\ \/ Running(o) /\ to \notin {"out", "gone"} /\ free' = free
              \/ Running(o) /\ to = "gone"
              \/ free /\ to \notin {"out", "gone"} /\ ~free'
<1>1. CASE MovesSilently(o)
  BY <1>1 DEF MovesSilently, Moves, MainLabels, OwnerLabels, SetLatchLabels, InWait, Running
<1>2. CASE \E x \in Location, v \in Value : MovesAndStores(o, x, v)
  BY <1>2 DEF MovesAndStores, Moves, MainLabels, OwnerLabels, SetLatchLabels, InWait, Running
<1>3. CASE \/ Moves(o, "do", "wait") /\ free' = free
           \/ Moves(o, "out", "own") /\ free /\ ~free'
           \/ Moves(o, "release", "gone")
  BY <1>3 DEF Moves, MainLabels, OwnerLabels, SetLatchLabels, InWait, Running
<1> QED
  BY <1>1, <1>2, <1>3 DEF OwnerMoves

(* The owner leaves the others alone.                                      *)
LEMMA OwnerFrame ==
  ASSUME TypeInv, ControlInv, NEW o \in Owner, Loop(o) \/ Event(o)
  PROVE  /\ UNCHANGED <<selfPipe, target, sets>>
         /\ \/ waiting' = waiting /\ pc[Main(o)] # "wait"
            \/ waiting' = [waiting EXCEPT ![o] = TRUE]
            \/ waiting' = [waiting EXCEPT ![o] = FALSE] /\ pc'[Main(o)] = "reset"
         /\ \/ UNCHANGED <<sigurg, pipe>>
            \/ /\ pc[Main(o)] = "drain"
               /\ sigurg' = sigurg \/ sigurg' = [sigurg EXCEPT ![o] = FALSE]
               /\ pipe' = pipe \/ pipe' = [pipe EXCEPT ![o] = FALSE]
         /\ free' \in BOOLEAN
<1>1. Main(o) \in DOMAIN pc
  BY Contexts DEF TypeInv
<1>2. UNCHANGED <<selfPipe, target, sets>>
  BY DEF Loop, Event, GetProc, OwnLatch, ReleaseProc, ResetLatch, ResetBarrier, CheckWork,
     DoWork, StartWaiting, Announce, WaitBarrier, Recheck, Woken, Drain, Report, StopWaiting,
     DisownLatch, Interrupted, OtherEvent, kernelVars
<1>3. \/ waiting' = waiting /\ pc[Main(o)] # "wait"
      \/ waiting' = [waiting EXCEPT ![o] = TRUE]
      \/ waiting' = [waiting EXCEPT ![o] = FALSE] /\ pc'[Main(o)] = "reset"
  BY <1>1 DEF Loop, Event, GetProc, OwnLatch, ReleaseProc, ResetLatch, ResetBarrier, CheckWork,
     DoWork, StartWaiting, Announce, WaitBarrier, Recheck, Woken, Drain, Report, StopWaiting,
     DisownLatch, Interrupted, OtherEvent, At, Go
<1>4. \/ UNCHANGED <<sigurg, pipe>>
      \/ /\ pc[Main(o)] = "drain"
         /\ sigurg' = sigurg \/ sigurg' = [sigurg EXCEPT ![o] = FALSE]
         /\ pipe' = pipe \/ pipe' = [pipe EXCEPT ![o] = FALSE]
  BY DEF Loop, Event, GetProc, OwnLatch, ReleaseProc, ResetLatch, ResetBarrier, CheckWork,
     DoWork, StartWaiting, Announce, WaitBarrier, Recheck, Woken, Drain, Report, StopWaiting,
     DisownLatch, Interrupted, OtherEvent, kernelVars, At
<1>5. free' \in BOOLEAN
  BY DEF Loop, Event, GetProc, OwnLatch, ReleaseProc, ResetLatch, ResetBarrier, CheckWork,
     DoWork, StartWaiting, Announce, WaitBarrier, Recheck, Woken, Drain, Report, StopWaiting,
     DisownLatch, Interrupted, OtherEvent, TypeInv
<1> QED
  BY <1>2, <1>3, <1>4, <1>5

LEMMA OwnerControl ==
  ASSUME TypeInv, ControlInv, BufferInv, SeesInv, NEW o \in Owner, Loop(o) \/ Event(o)
  PROVE  ControlInv'
<1>1. PICK to \in MainLabels \ {"kill"} :
        /\ MainGoes(o, to)
        /\ to \in InWait => pc[Main(o)] \in InWait \cup {"wait"}
        /\ \/ Running(o) /\ to \notin {"out", "gone"} /\ free' = free
           \/ Running(o) /\ to = "gone"
           \/ free /\ to \notin {"out", "gone"} /\ ~free'
  BY OwnerStep, OwnerGoes
<1>2. \A q \in Owner : q \in Process /\ Main(q) \in Context
  BY Contexts
<1>3. \A q \in Owner \ {o} : waiting'[q] = waiting[q]
  BY <1>2, OwnerFrame DEF TypeInv
<1>4. pc'[Main(o)] = to
  BY <1>1, <1>2 DEF MainGoes, TypeInv
<1>5. ASSUME to \in InWait
      PROVE  waiting'[o]
  <2>1. pc[Main(o)] \in InWait => waiting[o]
    BY DEF ControlInv
  <2>2. to # "reset"
    BY <1>5 DEF InWait
  <2>3. waiting' = waiting \/ waiting' = [waiting EXCEPT ![o] = TRUE]
    BY <1>4, <2>2, OwnerFrame
  <2>4. CASE waiting' = waiting /\ pc[Main(o)] # "wait"
    BY <1>1, <1>5, <2>1, <2>4
  <2>5. CASE waiting' = [waiting EXCEPT ![o] = TRUE]
    BY <1>2, <2>5 DEF TypeInv
  <2> QED
    BY <1>4, <2>2, <2>4, <2>5, OwnerFrame
<1> QED
  BY <1>1, <1>3, <1>5, MainControl

LEMMA ControlStep ==
  ASSUME IInv, Next
  PROVE  ControlInv'
<1>0. TypeInv /\ ControlInv /\ BufferInv /\ SeesInv
  BY DEF IInv
<1>1. ASSUME NEW c \in Context, SetLatch(c)
      PROVE  ControlInv'
  BY <1>0, <1>1, CallControl
<1>2. ASSUME NEW c \in Context, MakeWork(c)
      PROVE  ControlInv'
  <2>1. /\ pc' = [pc EXCEPT ![c] = "barrier"] /\ UNCHANGED <<waiting, free>> /\ pc[c] = "idle"
        /\ c[2] = "handler" => pc[Main(c[1])] \notin {"out", "own", "release", "gone"}
    BY <1>2 DEF MakeWork, Go
  <2>2. ~\E o \in Owner : c = Main(o)
    BY <1>0, <2>1 DEF ControlInv, SetLatchLabels, OwnerLabels
  <2>3. \A o \in Owner : c = Handler(o) => pc[Main(o)] \notin {"out", "own", "release", "gone"}
    BY <2>1, Contexts
  <2>4. "barrier" \in Calling
    BY DEF Calling, SetLatchLabels
  <2> QED
    BY <1>0, <2>1, <2>2, <2>3, <2>4, CallerControl
<1>3. ASSUME NEW o \in Owner, Loop(o) \/ Event(o)
      PROVE  ControlInv'
  BY <1>0, <1>3, OwnerControl
<1>4. ASSUME UNCHANGED <<pc, waiting, free>>
      PROVE  ControlInv'
  BY <1>0, <1>4 DEF ControlInv, Running
<1>5. ASSUME NEW o \in Owner, SigurgHandler(o)
      PROVE  ControlInv'
  BY <1>4, <1>5 DEF SigurgHandler
<1>6. ASSUME NEW p \in Process, Flush(p)
      PROVE  ControlInv'
  BY <1>4, <1>6 DEF Flush
<1> QED
  BY <1>1, <1>2, <1>3, <1>5, <1>6 DEF Next

-----------------------------------------------------------------------------
(* TypeInv                                                                 *)

(* What the stores in flight are, and where their processes are.           *)
LEMMA WhoStored ==
  ASSUME ControlInv, NEW p \in Process, NEW e, Stored(p, e)
  PROVE  /\ \E x \in Location, v \in Value : e = Entry(x, v) /\ v \in ValueOf(x)
         /\ e.loc = "work" => e.val = TRUE /\ \E c \in Context : pc[c] = "barrier"
         /\ e = Entry("is_set", TRUE) => \E c \in Context : pc[c] = "barrier2"
         /\ e.loc = "is_set" => e.val = TRUE \/ (p \in Owner /\ pc[Main(p)] = "resetbarrier")
         /\ e.loc \in {"maybe_sleeping", "owner_pid"} => p \in Owner /\ Running(p)
<1> DEFINE Kind ==
      \/ e = Entry("work", TRUE) /\ \E c \in Context : pc[c] = "barrier"
      \/ e = Entry("is_set", TRUE) /\ \E c \in Context : pc[c] = "barrier2"
      \/ e = Entry("is_set", FALSE) /\ p \in Owner /\ pc[Main(p)] = "resetbarrier"
      \/ \E v \in Owner \cup {NoPid} : e = Entry("owner_pid", v) /\ p \in Owner /\ Running(p)
      \/ \E v \in BOOLEAN : e = Entry("maybe_sleeping", v) /\ p \in Owner /\ Running(p)
<1>1. Kind
  <2>1. CASE p \in Setter
    <3>1. SetterStored(p, e) /\ Main(p) \in Context
      BY <2>1, Contexts DEF Stored
    <3> QED
      BY <3>1 DEF SetterStored
  <2>2. CASE p \in Owner
    <3>1. OwnerStored(p, e) /\ Main(p) \in Context /\ Handler(p) \in Context
      BY <2>2, Contexts DEF Stored
    <3>2. CASE MainStored(p, e)
      BY <2>2, <3>1, <3>2 DEF MainStored, Running
    <3>3. CASE ~MainStored(p, e)
      BY <3>1, <3>3 DEF OwnerStored
    <3> QED
      BY <3>2, <3>3
  <2> QED
    BY <2>1, <2>2, Contexts
<1>2. \A x, v : Entry(x, v).loc = x /\ Entry(x, v).val = v
  BY DEF Entry
<1>3. /\ "work" \in Location /\ "is_set" \in Location /\ "owner_pid" \in Location
      /\ "maybe_sleeping" \in Location
      /\ BOOLEAN \subseteq Value /\ Owner \cup {NoPid} \subseteq Value
      /\ ValueOf("owner_pid") = Owner \cup {NoPid}
      /\ \A x \in {"work", "is_set", "maybe_sleeping"} : ValueOf(x) = BOOLEAN
  BY DEF Location, Value, ValueOf
<1>4. \E x \in Location, v \in Value : e = Entry(x, v) /\ v \in ValueOf(x)
  BY <1>1, <1>3
<1>5. \/ e.loc = "work" /\ e.val = TRUE /\ \E c \in Context : pc[c] = "barrier"
      \/ e.loc = "is_set" /\ e.val = TRUE /\ \E c \in Context : pc[c] = "barrier2"
      \/ e.loc = "is_set" /\ e.val = FALSE /\ p \in Owner /\ pc[Main(p)] = "resetbarrier"
      \/ e.loc \in {"owner_pid", "maybe_sleeping"} /\ p \in Owner /\ Running(p)
  <2>1. CASE e = Entry("work", TRUE) /\ \E c \in Context : pc[c] = "barrier"
    BY <1>2, <2>1
  <2>2. CASE e = Entry("is_set", TRUE) /\ \E c \in Context : pc[c] = "barrier2"
    BY <1>2, <2>2
  <2>3. CASE e = Entry("is_set", FALSE) /\ p \in Owner /\ pc[Main(p)] = "resetbarrier"
    BY <1>2, <2>3
  <2>4. CASE \E v \in Owner \cup {NoPid} : e = Entry("owner_pid", v) /\ p \in Owner /\ Running(p)
    BY <1>2, <2>4
  <2>5. CASE \E v \in BOOLEAN : e = Entry("maybe_sleeping", v) /\ p \in Owner /\ Running(p)
    BY <1>2, <2>5
  <2> QED
    BY <1>1, <2>1, <2>2, <2>3, <2>4, <2>5
<1> HIDE DEF Kind
<1>6. e = Entry("is_set", TRUE) => e.loc = "is_set" /\ e.val # FALSE
  BY <1>2
<1> QED
  BY <1>4, <1>5, <1>6

(* The store that Flush writes to memory.                                  *)
LEMMA Flushed ==
  ASSUME TypeInv, ControlInv, BufferInv, NEW p \in Process, Flush(p)
  PROVE  \E x \in Location, v \in Value :
           Head(buf[p]) = Entry(x, v) /\ Stored(p, Entry(x, v)) /\ v \in ValueOf(x)
<1>1. buf[p] \in Seq(Entries) /\ buf[p] # << >>
  BY DEF BufferInv, Flush, Drained
<1>2. 1 \in 1 .. Len(buf[p]) /\ Head(buf[p]) = buf[p][1]
  BY <1>1
<1>3. PICK e : e = Head(buf[p])
  OBVIOUS
<1>4. Stored(p, e)
  BY <1>2, <1>3 DEF BufferInv
<1> QED
  BY <1>3, <1>4, WhoStored

LEMMA TypeStep ==
  ASSUME IInv, Next
  PROVE  TypeInv'
<1>0. TypeInv /\ ControlInv /\ BufferInv /\ SeesInv
  BY DEF IInv
<1>1. ASSUME NEW c \in Context, SetLatch(c)
      PROVE  TypeInv'
  <2>1. UNCHANGED <<mem, selfPipe, waiting, free, sets>>
    BY <1>0, <1>1, CallGoes
  <2>2. pc' \in [Context -> {"idle"} \cup SetLatchLabels \cup OwnerLabels]
    BY <1>0, <1>1, CallGoes DEF TypeInv, Calling, SetLatchLabels, OwnerLabels
  <2>3. CASE FetchOwner(c)
    <3>1. Load(c[1], "owner_pid") = mem["owner_pid"]
      BY <1>0, <2>3, CallEmpty DEF FetchOwner, Location
    <3>2. mem["owner_pid"] \in Owner \cup {NoPid}
      BY <1>0 DEF TypeInv, ValueOf, Location
    <3>3. target' = [target EXCEPT ![c] = mem["owner_pid"]] /\ UNCHANGED <<sigurg, pipe>>
      BY <2>3, <3>1 DEF FetchOwner, kernelVars
    <3>4. target' \in [Context -> Owner \cup {NoPid}]
      BY <1>0, <3>2, <3>3 DEF TypeInv
    <3>5. target'[c] = NoPid => pc'[c] # "kill"
      BY <1>0, <2>3 DEF FetchOwner, Return, Go, TypeInv
    <3>6. \A d \in Context : pc'[d] = "kill" => target'[d] # NoPid
      BY <1>0, <1>1, <3>3, <3>5, CallGoes DEF TypeInv
    <3> QED
      BY <1>0, <2>1, <2>2, <3>3, <3>4, <3>6 DEF TypeInv
  <2>4. CASE Kill(c)
    <3>1. target' = [target EXCEPT ![c] = NoPid] /\ pc[c] = "kill"
      BY <2>4 DEF Kill, At
    <3>2. pc'[c] # "kill"
      BY <1>0, <2>4 DEF Kill, Return, Go, TypeInv
    <3>3. target' \in [Context -> Owner \cup {NoPid}]
      BY <1>0, <3>1 DEF TypeInv
    <3>4. \A d \in Context : pc'[d] = "kill" => target'[d] # NoPid
      BY <1>0, <1>1, <3>1, <3>2, CallGoes DEF TypeInv
    <3>5. sigurg' \in [Process -> BOOLEAN] /\ pipe' \in [Process -> BOOLEAN]
      BY <1>0, <2>4 DEF Kill, TypeInv
    <3> QED
      BY <1>0, <2>1, <2>2, <3>3, <3>4, <3>5 DEF TypeInv
  <2>5. CASE ~FetchOwner(c) /\ ~Kill(c)
    <3>1. UNCHANGED <<target, sigurg, pipe>>
      BY <1>1, <2>5 DEF SetLatch, SetBarrier, QuickExit, SetIsSet, SetBarrier2,
         TestMaybeSleeping, kernelVars
    <3>2. pc'[c] # "kill"
      BY <1>0, <1>1, <2>5 DEF SetLatch, SetBarrier, QuickExit, SetIsSet, SetBarrier2,
         TestMaybeSleeping, Return, Go, TypeInv
    <3>3. \A d \in Context : pc'[d] = "kill" => target'[d] # NoPid
      BY <1>0, <1>1, <3>1, <3>2, CallGoes DEF TypeInv
    <3> QED
      BY <1>0, <2>1, <2>2, <3>1, <3>3 DEF TypeInv
  <2> QED
    BY <2>3, <2>4, <2>5
<1>2. ASSUME NEW c \in Context, MakeWork(c)
      PROVE  TypeInv'
  <2>1. /\ UNCHANGED <<mem, sigurg, pipe, selfPipe, waiting, free, target>>
        /\ sets < MaxSets /\ sets' = sets + 1 /\ pc' = [pc EXCEPT ![c] = "barrier"]
    BY <1>2 DEF MakeWork, kernelVars, Go
  <2>2. sets' \in 0 .. MaxSets
    BY <1>0, <2>1, ConstantsAssumption DEF TypeInv
  <2>3. /\ pc' \in [Context -> {"idle"} \cup SetLatchLabels \cup OwnerLabels]
        /\ \A d \in Context : pc'[d] = "kill" => target'[d] # NoPid
    BY <1>0, <2>1 DEF TypeInv, SetLatchLabels
  <2> QED
    BY <1>0, <2>1, <2>2, <2>3 DEF TypeInv
<1>3. ASSUME NEW o \in Owner, Loop(o) \/ Event(o)
      PROVE  TypeInv'
  <2>1. PICK to \in MainLabels \ {"kill"} : MainGoes(o, to)
    BY <1>0, <1>3, OwnerStep, OwnerGoes
  <2>2. Main(o) \in Context /\ o \in Process
    BY Contexts
  <2>3. /\ pc' \in [Context -> {"idle"} \cup SetLatchLabels \cup OwnerLabels]
        /\ \A d \in Context : pc'[d] = "kill" => target'[d] # NoPid
    BY <1>0, <1>3, <2>1, <2>2, OwnerFrame DEF TypeInv, MainGoes, MainLabels
  <2>4. UNCHANGED <<selfPipe, target, sets>> /\ free' \in BOOLEAN
    BY <1>0, <1>3, OwnerFrame
  <2>5. waiting' \in [Process -> BOOLEAN]
    BY <1>0, <1>3, <2>2, OwnerFrame DEF TypeInv
  <2>6. sigurg' \in [Process -> BOOLEAN] /\ pipe' \in [Process -> BOOLEAN]
    BY <1>0, <1>3, <2>2, OwnerFrame DEF TypeInv
  <2>7. mem' = mem \/ mem' = [mem EXCEPT !["work"] = FALSE]
    BY <1>0, <1>3, OwnerStep DEF OwnerMoves, MovesSilently, MovesAndStores, Stores, Silent
  <2>8. DOMAIN mem' = Location /\ \A x \in Location : mem'[x] \in ValueOf(x)
    BY <1>0, <2>7 DEF TypeInv, ValueOf
  <2> QED
    BY <1>0, <2>3, <2>4, <2>5, <2>6, <2>8 DEF TypeInv
<1>4. ASSUME NEW o \in Owner, SigurgHandler(o)
      PROVE  TypeInv'
  <2>1. /\ UNCHANGED <<mem, selfPipe, waiting, free, pc, target, sets>>
        /\ sigurg' = [sigurg EXCEPT ![o] = FALSE]
        /\ pipe' = [pipe EXCEPT ![o] = pipe[o] \/ waiting[o]]
    BY <1>4 DEF SigurgHandler
  <2>2. sigurg' \in [Process -> BOOLEAN] /\ pipe' \in [Process -> BOOLEAN]
    BY <1>0, <2>1 DEF TypeInv
  <2> QED
    BY <1>0, <2>1, <2>2 DEF TypeInv
<1>5. ASSUME NEW p \in Process, Flush(p)
      PROVE  TypeInv'
  <2>1. PICK x \in Location, v \in Value :
          Head(buf[p]) = Entry(x, v) /\ Stored(p, Entry(x, v)) /\ v \in ValueOf(x)
    BY <1>0, <1>5, Flushed
  <2>2. DOMAIN mem' = Location /\ \A y \in Location : mem'[y] \in ValueOf(y)
    BY <1>0, <1>5, <2>1, FlushEffect DEF TypeInv
  <2>3. UNCHANGED <<sigurg, pipe, selfPipe, waiting, free, pc, target, sets>>
    BY <1>5 DEF Flush, kernelVars
  <2> QED
    BY <1>0, <2>2, <2>3 DEF TypeInv
<1> QED
  BY <1>1, <1>2, <1>3, <1>4, <1>5 DEF Next

-----------------------------------------------------------------------------
(* BufferInv                                                               *)

InFlight(p, e) == \E i \in 1 .. Len(buf[p]) : buf[p][i] = e

(* The threads of control of other processes than p stay where they are.   *)
OthersStay(p) ==
  \A q \in Process : q # p =>
    pc'[Main(q)] = pc[Main(q)] /\ (q \in Owner => pc'[Handler(q)] = pc[Handler(q)])

LEMMA Staying ==
  ASSUME TypeInv, NEW c \in Context, NEW to, pc' = [pc EXCEPT ![c] = to]
  PROVE  OthersStay(c[1]) /\ pc'[c] = to /\ \A d \in Context : d # c => pc'[d] = pc[d]
<1>1. pc'[c] = to /\ \A d \in Context : d # c => pc'[d] = pc[d]
  BY DEF TypeInv
<1>2. \A q \in Process : q # c[1] => Main(q) # c /\ (q \in Owner => Handler(q) # c)
  BY Contexts
<1> QED
  BY <1>1, <1>2, Contexts DEF OthersStay

LEMMA BufferMove ==
  ASSUME BufferInv, NEW p \in Process, OthersStay(p),
         \A e \in Entries : InFlight(p, e) => Stored(p, e)',
         p \in Setter => Len(buf'[p]) <= 1,
         \/ buf' = buf
         \/ \E e \in Entries : Stored(p, e)' /\ buf' = [buf EXCEPT ![p] = Append(@, e)]
  PROVE  BufferInv'
<1>1. buf \in [Process -> Seq(Entries)]
  BY DEF BufferInv
<1>2. buf' \in [Process -> Seq(Entries)] /\ \A q \in Process : q # p => buf'[q] = buf[q]
  <2>1. \A e \in Entries : Append(buf[p], e) \in Seq(Entries)
    BY <1>1
  <2>2. CASE \E e \in Entries : buf' = [buf EXCEPT ![p] = Append(@, e)]
    BY <1>1, <2>1, <2>2
  <2> QED
    BY <1>1, <2>2
<1>3. \A q \in Process : \A e : q # p /\ Stored(q, e) => Stored(q, e)'
  BY DEF OthersStay, Stored, SetterStored, OwnerStored, MainStored
<1>4. ASSUME NEW q \in Process, q # p, NEW i \in 1 .. Len(buf'[q])
      PROVE  Stored(q, buf[q][i])'
  <2>1. PICK e : e = buf[q][i]
    OBVIOUS
  <2>2. Stored(q, e) /\ buf'[q][i] = e
    BY <1>2, <1>4, <2>1 DEF BufferInv
  <2>3. Stored(q, e)'
    BY <1>3, <1>4, <2>2
  <2> QED
    BY <2>2, <2>3
<1>5. ASSUME NEW i \in 1 .. Len(buf'[p])
      PROVE  Stored(p, buf[p][i])'
  <2>1. PICK e \in Entries : e = buf'[p][i]
    BY <1>2
  <2>2. Stored(p, e)'
    <3>1. CASE InFlight(p, e)
      BY <2>1, <3>1
    <3>2. CASE ~InFlight(p, e)
      <4>1. PICK f \in Entries : Stored(p, f)' /\ buf' = [buf EXCEPT ![p] = Append(@, f)]
        BY <1>5, <2>1, <3>2 DEF InFlight
      <4>2. buf'[p] = Append(buf[p], f)
        BY <1>1, <4>1
      <4>3. buf[p] \in Seq(Entries)
        BY <1>1
      <4>4. i \in 1 .. Len(buf[p]) => buf'[p][i] = buf[p][i]
        BY <4>2, <4>3
      <4>5. i \notin 1 .. Len(buf[p])
        BY <2>1, <3>2, <4>4 DEF InFlight
      <4>6. e = f
        BY <1>5, <2>1, <4>2, <4>3, <4>5
      <4> QED
        BY <4>1, <4>6
    <3> QED
      BY <3>1, <3>2
  <2> QED
    BY <2>1, <2>2
<1>6. \A s \in Setter : Len(buf'[s]) <= 1
  BY <1>2, Contexts DEF BufferInv
<1> QED
  BY <1>2, <1>4, <1>5, <1>6 DEF BufferInv

(* SetLatch goes on with nothing in flight: at a barrier or after it.      *)
LEMMA CallDrained ==
  ASSUME TypeInv, ControlInv, BufferInv, NEW c \in Context, SetLatch(c)
  PROVE  buf[c[1]] = << >>
<1>1. CASE SetBarrier(c) \/ SetBarrier2(c)
  BY <1>1 DEF SetBarrier, SetBarrier2, Drained
<1>2. CASE \E l \in {"quick", "set", "asleep", "owner", "kill"} : At(c, l)
  BY <1>2, CallEmpty
<1> QED
  BY <1>1, <1>2 DEF SetLatch, QuickExit, SetIsSet, TestMaybeSleeping, FetchOwner, Kill

(* Only the store of is_set goes into the buffer.                          *)
LEMMA CallStores ==
  ASSUME TypeInv, ControlInv, NEW c \in Context, SetLatch(c)
  PROVE  \/ Silent
         \/ SetIsSet(c) /\ Stores(c[1], "is_set", TRUE) /\ pc'[c] = "barrier2"
<1>1. CASE SetIsSet(c)
  BY <1>1 DEF SetIsSet, Stores, Store, Entry, Go, TypeInv
<1>2. CASE ~SetIsSet(c)
  BY <1>2 DEF SetLatch, SetBarrier, QuickExit, SetBarrier2, TestMaybeSleeping, FetchOwner,
     Kill, Silent
<1> QED
  BY <1>1, <1>2

LEMMA EntryType ==
  ASSUME NEW x \in Location, NEW v \in Value
  PROVE  Entry(x, v) \in Entries
BY DEF Entry, Entries, Value

LEMMA CallBuffer ==
  ASSUME TypeInv, ControlInv, BufferInv, NEW c \in Context, SetLatch(c)
  PROVE  BufferInv'
<1>1. buf[c[1]] = << >> /\ c[1] \in Process
  BY CallDrained, Kinds
<1>2. OthersStay(c[1])
  BY CallGoes, Staying
<1>3. \A e \in Entries : ~InFlight(c[1], e)
  BY <1>1 DEF InFlight
<1>4. CASE buf' = buf
  BY <1>1, <1>2, <1>3, <1>4, BufferMove
<1>5. CASE Stores(c[1], "is_set", TRUE) /\ pc'[c] = "barrier2"
  <2>1. "is_set" \in Location /\ TRUE \in Value
    BY DEF Location, Value
  <2>2. PICK e \in Entries : e = Entry("is_set", TRUE)
    BY <2>1, EntryType
  <2>3. buf' = [buf EXCEPT ![c[1]] = Append(@, e)]
    BY <1>5, <2>2 DEF Stores
  <2>4. buf'[c[1]] = Append(<< >>, e)
    BY <1>1, <2>3 DEF BufferInv
  <2>5. Len(buf'[c[1]]) <= 1
    BY <2>4
  <2>6. Stored(c[1], e)'
    <3>1. ASSUME NEW s \in Setter, c = Main(s)
          PROVE  Stored(c[1], e)'
      <4>1. c[1] = s /\ s \notin Owner
        BY <3>1, Contexts
      <4> QED
        BY <1>5, <2>2, <3>1, <4>1 DEF Stored, SetterStored
    <3>2. ASSUME NEW o \in Owner, c = Handler(o)
          PROVE  Stored(c[1], e)'
      <4>1. c[1] = o
        BY <3>2, Contexts
      <4> QED
        BY <1>5, <2>2, <3>2, <4>1 DEF Stored, OwnerStored
    <3>3. ASSUME NEW o \in Owner, c = Main(o)
          PROVE  Stored(c[1], e)'
      <4>1. pc'[Handler(o)] = "idle"
        BY <3>3, CallGoes, Contexts, Different DEF TypeInv
      <4> QED
        BY <1>5, <2>2, <3>3, <4>1, Contexts DEF Stored, OwnerStored, MainStored
    <3> QED
      BY <3>1, <3>2, <3>3, Kinds
  <2> QED
    BY <1>1, <1>2, <1>3, <2>3, <2>5, <2>6, BufferMove
<1> QED
  BY <1>4, <1>5, CallStores DEF Silent

LEMMA WorkBuffer ==
  ASSUME TypeInv, ControlInv, BufferInv, NEW c \in Context, MakeWork(c)
  PROVE  BufferInv'
<1>1. /\ pc[c] = "idle" /\ pc' = [pc EXCEPT ![c] = "barrier"] /\ Stores(c[1], "work", TRUE)
      /\ pc'[c] = "barrier" /\ c[1] \in Process
  BY Kinds DEF MakeWork, Go, Store, Stores, Entry, TypeInv
<1>2. OthersStay(c[1]) /\ \A d \in Context : d # c => pc'[d] = pc[d]
  BY <1>1, Staying
<1>3. PICK e \in Entries : e = Entry("work", TRUE)
  BY EntryType DEF Location, Value
<1>4. buf' = [buf EXCEPT ![c[1]] = Append(@, e)]
  BY <1>1, <1>3 DEF Stores
<1>5. ASSUME NEW s \in Setter, c = Main(s)
      PROVE  BufferInv'
  <2>1. buf[s] = << >> /\ c[1] = s
    BY <1>1, <1>5, Empty, Contexts
  <2>2. buf'[s] = Append(<< >>, e)
    BY <1>1, <1>4, <2>1 DEF BufferInv
  <2>3. Len(buf'[s]) <= 1
    BY <2>2
  <2>4. \A f \in Entries : ~InFlight(s, f)
    BY <2>1 DEF InFlight
  <2>5. Stored(s, e)'
    BY <1>1, <1>3, <1>5, Contexts DEF Stored, SetterStored
  <2> QED
    BY <1>1, <1>2, <1>4, <2>1, <2>3, <2>4, <2>5, BufferMove
<1>6. ASSUME NEW o \in Owner, c = Handler(o)
      PROVE  BufferInv'
  <2>1. c[1] = o /\ o \notin Setter /\ pc'[Main(o)] = pc[Main(o)]
    BY <1>2, <1>6, Contexts, Different
  <2>2. ASSUME NEW f \in Entries, InFlight(o, f)
        PROVE  Stored(o, f)'
    <3>1. OwnerStored(o, f)
      BY <2>2, Contexts DEF BufferInv, InFlight, Stored
    <3>2. MainStored(o, f)
      BY <1>1, <1>6, <3>1 DEF OwnerStored
    <3>3. MainStored(o, f)'
      BY <2>1, <3>2 DEF MainStored
    <3> QED
      BY <1>1, <1>6, <3>3 DEF Stored, OwnerStored
  <2>3. Stored(o, e)'
    BY <1>1, <1>3, <1>6 DEF Stored, OwnerStored
  <2> QED
    BY <1>1, <1>2, <1>4, <2>1, <2>2, <2>3, BufferMove
<1>7. ~\E o \in Owner : c = Main(o)
  BY <1>1 DEF ControlInv, SetLatchLabels, OwnerLabels
<1> QED
  BY <1>5, <1>6, <1>7, Kinds

LEMMA OwnerBuffer ==
  ASSUME TypeInv, ControlInv, BufferInv, SeesInv, NEW o \in Owner, OwnerMoves(o)
  PROVE  BufferInv'
<1>1. PICK to \in MainLabels \ {"kill"} : MainGoes(o, to)
  BY OwnerGoes
<1>2. Main(o) \in Context /\ Main(o)[1] = o /\ o \in Process /\ o \notin Setter
  BY Contexts
<1>3. /\ OthersStay(o) /\ pc'[Main(o)] = to /\ pc[Handler(o)] = "idle"
      /\ pc'[Handler(o)] = pc[Handler(o)]
  <2>1. PICK c \in Context : c = Main(o)
    BY <1>2
  <2>2. pc' = [pc EXCEPT ![c] = to] /\ pc[Handler(o)] = "idle"
    BY <1>1, <2>1 DEF MainGoes
  <2>3. OthersStay(c[1]) /\ pc'[c] = to /\ \A d \in Context : d # c => pc'[d] = pc[d]
    BY <2>2, Staying
  <2>4. Handler(o) \in Context /\ Handler(o) # c
    BY <1>2, <2>1, Contexts, Different
  <2> QED
    BY <1>2, <2>1, <2>2, <2>3, <2>4
<1>4. \A e : Stored(o, e) <=> MainStored(o, e)
  BY <1>3 DEF Stored, OwnerStored
<1>5. \A e : Stored(o, e)' <=> MainStored(o, e)'
  BY <1>3 DEF Stored, OwnerStored
<1>6. \A e \in Entries : InFlight(o, e) => MainStored(o, e)
  BY <1>2, <1>4 DEF BufferInv, InFlight
<1>7. buf[o] = << >> => \A e \in Entries : ~InFlight(o, e)
  BY DEF InFlight
<1>8. ASSUME NEW e \in Entries, InFlight(o, e)
      PROVE  Stored(o, e)'
  <2>1. MainStored(o, e) /\ buf[o] # << >>
    BY <1>6, <1>7, <1>8
  <2>2. pc[Main(o)] \notin {"check", "wait", "block", "drain", "report", "do", "own", "out"}
    BY <1>3, <2>1, Empty
  <2>3. pc[Main(o)] = "recheck" /\ mem["is_set"] = FALSE => FALSE
    <3>1. SUFFICES ASSUME pc[Main(o)] = "recheck", mem["is_set"] = FALSE
                   PROVE  FALSE
      OBVIOUS
    <3>2. NoStore(buf[o], "maybe_sleeping")
      BY <3>1 DEF SeesInv, Announced
    <3>3. e.loc = "maybe_sleeping"
      BY <2>1, <3>1 DEF MainStored, Entry
    <3> QED
      BY <1>8, <3>2, <3>3 DEF NoStore, InFlight
  <2>4. \/ Moves(o, "announce", "recheck") \/ Moves(o, "waited", "reset")
        \/ Moves(o, "reset", "resetbarrier") \/ Moves(o, "announce", "waitbarrier")
        \/ Moves(o, "recheck", "waited")
    <3>1. CASE MovesSilently(o)
      BY <2>1, <2>2, <2>3, <3>1 DEF MovesSilently, Moves
    <3>2. CASE \E x \in Location, v \in Value : MovesAndStores(o, x, v)
      BY <2>2, <3>2 DEF MovesAndStores, Moves
    <3> QED
      BY <2>1, <2>2, <3>1, <3>2 DEF OwnerMoves, Moves
  <2>5. MainStored(o, e)'
    <3>1. pc'[Main(o)] = to /\ pc' = [pc EXCEPT ![Main(o)] = to]
      BY <1>1, <1>3 DEF MainGoes
    <3>2. /\ pc[Main(o)] \in {"announce", "waited", "reset", "recheck"}
          /\ pc'[Main(o)] \in {"recheck", "reset", "resetbarrier", "waitbarrier", "waited"}
      BY <1>2, <2>4 DEF Moves, MainGoes, TypeInv
    <3>3. e = Entry("maybe_sleeping", FALSE)
      BY <2>1, <3>2 DEF MainStored
    <3> QED
      BY <3>2, <3>3 DEF MainStored
  <2> QED
    BY <1>5, <2>5
<1>9. CASE buf' = buf
  BY <1>2, <1>3, <1>8, <1>9, BufferMove
<1>10. ASSUME NEW x \in Location, NEW v \in Value, MovesAndStores(o, x, v)
       PROVE  BufferInv'
  <2>1. PICK e \in Entries : e = Entry(x, v)
    BY EntryType
  <2>2. buf' = [buf EXCEPT ![o] = Append(@, e)]
    BY <1>10, <2>1 DEF MovesAndStores, Stores
  <2>3. MainStored(o, e)'
    BY <1>2, <1>10, <2>1 DEF MovesAndStores, Moves, MainGoes, MainStored, TypeInv
  <2> QED
    BY <1>2, <1>3, <1>5, <1>8, <2>2, <2>3, BufferMove
<1> QED
  BY <1>9, <1>10 DEF OwnerMoves, MovesSilently, Silent

LEMMA FlushBuffer ==
  ASSUME TypeInv, BufferInv, NEW p \in Process, Flush(p)
  PROVE  BufferInv'
<1>1. /\ buf \in [Process -> Seq(Entries)] /\ buf[p] # << >> /\ pc' = pc
      /\ buf' = [buf EXCEPT ![p] = Tail(buf[p])]
  BY DEF BufferInv, Flush, Drained
<1>2. PICK b \in Seq(Entries) : b = buf[p]
  BY <1>1
<1>3. /\ Tail(b) \in Seq(Entries) /\ Len(b) \in Nat /\ Len(Tail(b)) = Len(b) - 1
      /\ \A i \in 1 .. Len(Tail(b)) : Tail(b)[i] = b[i + 1] /\ i + 1 \in 1 .. Len(b)
  BY <1>1, <1>2
<1>4. buf' \in [Process -> Seq(Entries)] /\ buf'[p] = Tail(b)
      /\ \A q \in Process : q # p => buf'[q] = buf[q]
  BY <1>1, <1>2, <1>3
<1>5. \A q \in Process : \A e : Stored(q, e)' <=> Stored(q, e)
  BY <1>1 DEF Stored, SetterStored, OwnerStored, MainStored
<1>6. ASSUME NEW q \in Process, NEW i \in 1 .. Len(buf'[q])
      PROVE  Stored(q, buf[q][i])'
  <2>1. PICK e : e = buf'[q][i]
    OBVIOUS
  <2>2. Stored(q, e)
    <3>1. CASE q = p
      <4>1. i \in 1 .. Len(Tail(b)) /\ e = b[i + 1] /\ i + 1 \in 1 .. Len(b)
        BY <1>3, <1>4, <1>6, <2>1, <3>1
      <4> QED
        BY <1>2, <3>1, <4>1 DEF BufferInv
    <3>2. CASE q # p
      BY <1>4, <1>6, <2>1, <3>2 DEF BufferInv
    <3> QED
      BY <3>1, <3>2
  <2>3. Stored(q, e)'
    BY <1>5, <2>2
  <2> QED
    BY <2>1, <2>3
<1>7. ASSUME NEW s \in Setter
      PROVE  Len(buf'[s]) <= 1
  <2>1. s \in Process /\ Len(buf[s]) <= 1
    BY Contexts DEF BufferInv
  <2> QED
    BY <1>2, <1>3, <1>4, <2>1
<1> QED
  BY <1>4, <1>6, <1>7 DEF BufferInv

LEMMA BufferStep ==
  ASSUME IInv, Next
  PROVE  BufferInv'
<1>0. TypeInv /\ ControlInv /\ BufferInv /\ SeesInv
  BY DEF IInv
<1>1. ASSUME NEW o \in Owner, SigurgHandler(o)
      PROVE  BufferInv'
  <2>1. UNCHANGED <<buf, pc>> /\ o \in Process /\ o \notin Setter
    BY <1>1, Contexts DEF SigurgHandler
  <2>2. OthersStay(o)
    BY <2>1 DEF OthersStay
  <2>3. \A e \in Entries : InFlight(o, e) => Stored(o, e)
    BY <1>0, <2>1 DEF BufferInv, InFlight
  <2>4. \A e \in Entries : Stored(o, e)' <=> Stored(o, e)
    BY <2>1 DEF Stored, OwnerStored, MainStored
  <2> QED
    BY <1>0, <2>1, <2>2, <2>3, <2>4, BufferMove
<1>2. ASSUME NEW c \in Context, SetLatch(c)
      PROVE  BufferInv'
  BY <1>0, <1>2, CallBuffer
<1>3. ASSUME NEW c \in Context, MakeWork(c)
      PROVE  BufferInv'
  BY <1>0, <1>3, WorkBuffer
<1>4. ASSUME NEW o \in Owner, Loop(o) \/ Event(o)
      PROVE  BufferInv'
  BY <1>0, <1>4, OwnerStep, OwnerBuffer
<1>5. ASSUME NEW p \in Process, Flush(p)
      PROVE  BufferInv'
  BY <1>0, <1>5, FlushBuffer
<1> QED
  BY <1>1, <1>2, <1>3, <1>4, <1>5 DEF Next

-----------------------------------------------------------------------------
(* SeesInv                                                                 *)

(* Steps that keep the owners where they are and store nothing of theirs.  *)
LEMMA SeesFrame ==
  ASSUME TypeInv, SeesInv, UNCHANGED free,
         \A o \in Owner : pc'[Main(o)] = pc[Main(o)],
         mem'["maybe_sleeping"] = mem["maybe_sleeping"], mem'["owner_pid"] = mem["owner_pid"],
         mem["is_set"] = TRUE => mem'["is_set"] = TRUE,
         \A o \in Owner, x \in {"maybe_sleeping", "owner_pid"}, v \in Value :
           Sees(mem, buf[o], x, v) => Sees(mem', buf'[o], x, v),
         \A o \in Owner : NoStore(buf[o], "maybe_sleeping") => NoStore(buf'[o], "maybe_sleeping")
  PROVE  SeesInv'
<1>1. TRUE \in Value /\ FALSE \in Value /\ NoPid \in Value /\ \A o \in Owner : o \in Value
  BY DEF Value
<1>2. ASSUME NEW o \in Owner, NEW x \in {"maybe_sleeping", "owner_pid"}, NEW v \in Value
      PROVE  OwnerSees(o, x, v) => OwnerSees(o, x, v)'
  BY DEF OwnerSees
<1>3. ASSUME NEW o \in Owner
      PROVE  (Announced(o) => Announced(o)') /\ (Running(o)' <=> Running(o))
  BY DEF Announced, Running
<1>4. free' => mem'["maybe_sleeping"] = FALSE /\ mem'["owner_pid"] = NoPid
  BY DEF SeesInv
<1>5. ASSUME NEW o \in Owner
      PROVE  /\ pc'[Main(o)] = "waitbarrier" => OwnerSees(o, "maybe_sleeping", TRUE)'
             /\ pc'[Main(o)] = "recheck" => Announced(o)' \/ mem'["is_set"] = TRUE
             /\ pc'[Main(o)] \in {"block", "drain", "report"} => Announced(o)'
             /\ /\ Running(o)'
                /\ pc'[Main(o)] \notin {"waitbarrier", "recheck", "block", "drain", "report"}
                => OwnerSees(o, "maybe_sleeping", FALSE)'
             /\ pc'[Main(o)] \in {"own", "release"} => OwnerSees(o, "owner_pid", NoPid)'
             /\ Running(o)' /\ pc'[Main(o)] \notin {"own", "release"}
                => OwnerSees(o, "owner_pid", o)'
  BY <1>1, <1>2, <1>3 DEF SeesInv
<1> QED
  BY <1>4, <1>5 DEF SeesInv

(* A store of somebody other than the owner, or of a handler.              *)
LEMMA StoreSees ==
  ASSUME TypeInv, BufferInv, SeesInv, UNCHANGED free,
         \A o \in Owner : pc'[Main(o)] = pc[Main(o)],
         NEW p \in Process, NEW x \in {"work", "is_set"}, NEW v \in Value, Stores(p, x, v)
  PROVE  SeesInv'
<1>1. mem' = mem /\ x \in Location /\ "maybe_sleeping" \in Location /\ "owner_pid" \in Location
  BY DEF Stores, Location
<1>2. \A q \in Process, y \in Location, w \in Value :
        (q # p \/ y # x) /\ Sees(mem, buf[q], y, w) => Sees(mem', buf'[q], y, w)
  BY <1>1, StoreEffect
<1>3. \A q \in Process, y \in Location :
        NoStore(buf'[q], y) <=> NoStore(buf[q], y) /\ (q # p \/ y # x)
  BY <1>1, StoreEffect
<1>4. \A o \in Owner, y \in {"maybe_sleeping", "owner_pid"}, w \in Value :
        Sees(mem, buf[o], y, w) => Sees(mem', buf'[o], y, w)
  BY <1>1, <1>2, Contexts
<1>5. \A o \in Owner : NoStore(buf[o], "maybe_sleeping") => NoStore(buf'[o], "maybe_sleeping")
  BY <1>1, <1>3, Contexts
<1> QED
  BY <1>1, <1>4, <1>5, SeesFrame

LEMMA SilentSees ==
  ASSUME TypeInv, SeesInv, UNCHANGED free, \A o \in Owner : pc'[Main(o)] = pc[Main(o)], Silent
  PROVE  SeesInv'
<1>1. /\ \A o \in Owner, x \in {"maybe_sleeping", "owner_pid"}, v \in Value :
           Sees(mem, buf[o], x, v) => Sees(mem', buf'[o], x, v)
      /\ \A o \in Owner : NoStore(buf[o], "maybe_sleeping") => NoStore(buf'[o], "maybe_sleeping")
  BY DEF Silent
<1> QED
  BY <1>1, SeesFrame DEF Silent

(* Inside SetLatch the owner keeps what it sees.                           *)
LEMMA CallSees ==
  ASSUME TypeInv, ControlInv, BufferInv, SeesInv, NEW c \in Context, SetLatch(c)
  PROVE  SeesInv'
<1>1. free' = free /\ mem' = mem /\ c[1] \in Process
  BY CallGoes, Kinds
<1>2. ASSUME ~\E o \in Owner : c = Main(o)
      PROVE  SeesInv'
  <2>1. \A o \in Owner : pc'[Main(o)] = pc[Main(o)]
    BY <1>2, CallGoes, Contexts DEF TypeInv
  <2>2. CASE Silent
    BY <1>1, <2>1, <2>2, SilentSees
  <2>3. CASE Stores(c[1], "is_set", TRUE)
    BY <1>1, <2>1, <2>3, StoreSees DEF Value
  <2> QED
    BY <2>2, <2>3, CallStores
<1>3. ASSUME NEW o \in Owner, c = Main(o)
      PROVE  SeesInv'
  <2>1. PICK to \in Calling \cup {"reset", "check"} :
          pc' = [pc EXCEPT ![c] = to] /\ to # "idle"
    BY <1>3, CallGoes
  <2>2. /\ pc'[Main(o)] = to /\ pc[Main(o)] \in SetLatchLabels
        /\ \A q \in Owner : q # o => pc'[Main(q)] = pc[Main(q)]
    BY <1>3, <2>1, CallGoes, Contexts, Different DEF TypeInv
  <2>3. Running(o) /\ Running(o)' /\ o \in Process
    BY <2>1, <2>2, Contexts DEF Running, SetLatchLabels, Calling
  <2>4. \A q \in Owner : q # o => ~Running(q) /\ ~Running(q)'
    BY <2>2, <2>3 DEF ControlInv, Running
  <2>5. OwnerSees(o, "maybe_sleeping", FALSE) /\ OwnerSees(o, "owner_pid", o)
    BY <2>2, <2>3 DEF SeesInv, SetLatchLabels
  <2>6. OwnerSees(o, "maybe_sleeping", FALSE)' /\ OwnerSees(o, "owner_pid", o)'
    <3>1. CASE Silent
      BY <2>5, <3>1 DEF Silent, OwnerSees
    <3>2. CASE Stores(o, "is_set", TRUE)
      <4>1. /\ "is_set" \in Location /\ "maybe_sleeping" \in Location /\ "owner_pid" \in Location
            /\ TRUE \in Value /\ FALSE \in Value /\ o \in Value
        BY DEF Location, Value
      <4>2. \A q \in Process, y \in Location, w \in Value :
              (q # o \/ y # "is_set") /\ Sees(mem, buf[q], y, w) => Sees(mem', buf'[q], y, w)
        BY <2>3, <3>2, <4>1, StoreEffect
      <4> QED
        BY <2>3, <2>5, <4>1, <4>2 DEF OwnerSees
    <3>3. c[1] = o
      BY <1>3, <2>3, Contexts
    <3>4. Silent \/ Stores(o, "is_set", TRUE)
      <4>1. Silent \/ Stores(c[1], "is_set", TRUE)
        BY CallStores
      <4> QED
        BY <3>3, <4>1
    <3> QED
      BY <3>1, <3>2, <3>4
  <2>7. pc'[Main(o)] \notin {"waitbarrier", "recheck", "block", "drain", "report", "own", "release"}
    BY <2>1, <2>2 DEF Calling, SetLatchLabels
  <2>8. ~free'
    BY <1>1, <2>3 DEF ControlInv
  <2>9. \A q \in Owner : q # o => pc'[Main(q)] \in {"out", "gone"}
    BY <2>4 DEF Running
  <2> QED
    BY <2>4, <2>6, <2>7, <2>8, <2>9 DEF SeesInv
<1> QED
  BY <1>2, <1>3

(* The owner moves: nobody else has the PGPROC.                            *)
LEMMA OwnerAlone ==
  ASSUME TypeInv, ControlInv, NEW o \in Owner, OwnerMoves(o)
  PROVE  /\ \A q \in Owner : q # o => ~Running(q) /\ pc'[Main(q)] \in {"out", "gone"}
         /\ \A c \in Context : c # Main(o) => pc'[c] = pc[c]
<1>1. PICK to \in MainLabels \ {"kill"} :
        MainGoes(o, to) /\ (Running(o) \/ free)
  BY OwnerGoes
<1>2. \A c \in Context : c # Main(o) => pc'[c] = pc[c]
  BY <1>1 DEF MainGoes, TypeInv
<1>3. \A q \in Owner : q # o => ~Running(q)
  BY <1>1 DEF ControlInv
<1>4. \A q \in Owner : q # o => Main(q) \in Context /\ Main(q) # Main(o)
  BY Contexts, Different
<1> QED
  BY <1>2, <1>3, <1>4 DEF Running

LEMMA OwnerSeesStep ==
  ASSUME TypeInv, ControlInv, BufferInv, SeesInv, NEW o \in Owner, OwnerMoves(o)
  PROVE  SeesInv'
<1> DEFINE S(x, v) == OwnerSees(o, x, v)
           Ms == {"waitbarrier", "recheck", "block", "drain", "report"}
           l == pc[Main(o)]
           k == pc'[Main(o)]
<1>1. /\ Main(o) \in Context /\ o \in Process
      /\ "maybe_sleeping" \in Location /\ "owner_pid" \in Location /\ "is_set" \in Location
      /\ TRUE \in Value /\ FALSE \in Value /\ NoPid \in Value /\ o \in Value
  BY Contexts DEF Location, Value
<1>2. \A from, to : Moves(o, from, to) => l = from /\ k = to /\ pc[Handler(o)] = "idle"
  BY <1>1 DEF Moves, MainGoes, TypeInv
<1>3. /\ l = "waitbarrier" => S("maybe_sleeping", TRUE)
      /\ l = "recheck" => Announced(o) \/ mem["is_set"] = TRUE
      /\ l \in {"block", "drain", "report"} => Announced(o)
      /\ l \notin {"out", "gone"} /\ l \notin Ms => S("maybe_sleeping", FALSE)
      /\ l \in {"own", "release"} => S("owner_pid", NoPid)
      /\ l \notin {"out", "gone", "own", "release"} => S("owner_pid", o)
      /\ free => mem["maybe_sleeping"] = FALSE /\ mem["owner_pid"] = NoPid
  BY DEF SeesInv, Running
<1>4. SUFFICES /\ k = "waitbarrier" => S("maybe_sleeping", TRUE)'
               /\ k = "recheck" => Announced(o)' \/ mem'["is_set"] = TRUE
               /\ k \in {"block", "drain", "report"} => Announced(o)'
               /\ k \notin {"out", "gone"} /\ k \notin Ms => S("maybe_sleeping", FALSE)'
               /\ k \in {"own", "release"} => S("owner_pid", NoPid)'
               /\ k \notin {"out", "gone", "own", "release"} => S("owner_pid", o)'
               /\ free' => mem'["maybe_sleeping"] = FALSE /\ mem'["owner_pid"] = NoPid
  <2>1. \A q \in Owner : q # o => pc'[Main(q)] \in {"out", "gone"} /\ ~Running(q)'
    BY OwnerAlone DEF Running
  <2>2. Running(o)' <=> k \notin {"out", "gone"}
    BY DEF Running
  <2> QED
    BY <2>1, <2>2 DEF SeesInv
<1>5. buf[o] = << >> =>
        /\ \A x \in Location, v \in Value : S(x, v) <=> mem[x] = v
        /\ NoStore(buf[o], "maybe_sleeping")
  BY SeesEmpty DEF OwnerSees, Sees, NoStore
<1>6. CASE MovesSilently(o)
  <2>1. /\ \A x, v : S(x, v)' <=> S(x, v)
        /\ Announced(o)' <=> Announced(o)
        /\ mem' = mem /\ free' = free
    BY <1>6 DEF MovesSilently, Silent, OwnerSees, Announced
  <2>2. ~free
    BY <1>2, <1>6 DEF MovesSilently, ControlInv, Running
  <2>3. \/ l = "resetbarrier" /\ k = "check"
        \/ l = "check" /\ k \in {"do", "wait"}
        \/ l = "wait" /\ k = "announce"
        \/ l = "announce" /\ k = "recheck" /\ mem["is_set"] = TRUE
        \/ l = "waitbarrier" /\ k = "recheck" /\ buf[o] = << >>
        \/ l = "recheck" /\ k = "block" /\ mem["is_set"] = FALSE
        \/ l = "block" /\ k = "drain"
        \/ l = "drain" /\ k = "report"
        \/ l = "waited" /\ k = "reset"
    BY <1>2, <1>6 DEF MovesSilently
  <2>4. ASSUME l = "waitbarrier", buf[o] = << >>
        PROVE  Announced(o)
    BY <1>1, <1>3, <1>5, <2>4 DEF Announced
  <2> HIDE DEF S, l, k
  <2>5. CASE l = "waitbarrier" /\ k = "recheck" /\ buf[o] = << >>
    BY <1>3, <2>1, <2>2, <2>4, <2>5
  <2>6. CASE ~(l = "waitbarrier" /\ k = "recheck" /\ buf[o] = << >>)
    BY <1>3, <2>1, <2>2, <2>3, <2>6
  <2> QED
    BY <2>5, <2>6
<1>7. ASSUME NEW x \in Location, NEW v \in Value, MovesAndStores(o, x, v)
      PROVE  /\ k = "waitbarrier" => S("maybe_sleeping", TRUE)'
             /\ k = "recheck" => Announced(o)' \/ mem'["is_set"] = TRUE
             /\ k \in {"block", "drain", "report"} => Announced(o)'
             /\ k \notin {"out", "gone"} /\ k \notin Ms => S("maybe_sleeping", FALSE)'
             /\ k \in {"own", "release"} => S("owner_pid", NoPid)'
             /\ k \notin {"out", "gone", "own", "release"} => S("owner_pid", o)'
             /\ free' => mem'["maybe_sleeping"] = FALSE /\ mem'["owner_pid"] = NoPid
  <2>1. Stores(o, x, v) /\ free' = free
    BY <1>7 DEF MovesAndStores
  <2>2. S(x, v)' /\ \A y \in Location, w \in Value : y # x /\ S(y, w) => S(y, w)'
    BY <1>1, <2>1, StoreEffect DEF OwnerSees
  <2>3. ~free
    BY <1>2, <1>7 DEF MovesAndStores, ControlInv, Running
  <2>4. \/ l = "own" /\ k = "barrier" /\ x = "owner_pid" /\ v = o
        \/ l = "check" /\ k = "release" /\ x = "owner_pid" /\ v = NoPid
        \/ l = "reset" /\ k = "resetbarrier" /\ x = "is_set"
        \/ l = "announce" /\ k = "waitbarrier" /\ x = "maybe_sleeping" /\ v = TRUE
        \/ /\ l \in {"recheck", "block", "report"} /\ k \in {"announce", "waited"}
           /\ x = "maybe_sleeping" /\ v = FALSE
    BY <1>2, <1>7 DEF MovesAndStores
  <2> HIDE DEF S, l, k
  <2> QED
    BY <1>1, <1>3, <2>1, <2>2, <2>3, <2>4
<1>8. CASE Moves(o, "do", "wait") /\ mem' = [mem EXCEPT !["work"] = FALSE] /\ UNCHANGED <<buf, free>>
  <2>1. /\ mem'["maybe_sleeping"] = mem["maybe_sleeping"]
        /\ mem'["owner_pid"] = mem["owner_pid"] /\ buf'[o] = buf[o]
    BY <1>8 DEF TypeInv
  <2>2. l = "do" /\ k = "wait"
    BY <1>2, <1>8
  <2>3. ~free /\ ~free'
    BY <1>8, <2>2 DEF ControlInv, Running
  <2>4. S("maybe_sleeping", FALSE)' /\ S("owner_pid", o)'
    BY <1>3, <2>1, <2>2 DEF OwnerSees, Sees
  <2> QED
    BY <2>2, <2>3, <2>4
<1>9. CASE Moves(o, "out", "own") /\ Silent /\ free /\ ~free'
  <2>1. l = "out" /\ k = "own" /\ pc[Handler(o)] = "idle"
    BY <1>2, <1>9
  <2>2. buf[o] = << >> /\ UNCHANGED <<mem, buf>>
    BY <1>9, <2>1, Empty DEF Silent
  <2>3. S("maybe_sleeping", FALSE) /\ S("owner_pid", NoPid)
    BY <1>1, <1>3, <1>5, <1>9, <2>2
  <2>4. S("maybe_sleeping", FALSE)' /\ S("owner_pid", NoPid)'
    BY <2>2, <2>3 DEF OwnerSees
  <2> QED
    BY <1>9, <2>1, <2>4
<1>10. CASE Moves(o, "release", "gone") /\ Silent /\ buf[o] = << >> /\ free'
  <2>1. l = "release" /\ k = "gone" /\ UNCHANGED mem
    BY <1>2, <1>10 DEF Silent
  <2>2. mem["maybe_sleeping"] = FALSE /\ mem["owner_pid"] = NoPid
    BY <1>1, <1>3, <1>5, <1>10, <2>1
  <2> QED
    BY <2>1, <2>2
<1> QED
  BY <1>6, <1>7, <1>8, <1>9, <1>10 DEF OwnerMoves

LEMMA FlushSees ==
  ASSUME TypeInv, ControlInv, BufferInv, SeesInv, NEW p \in Process, Flush(p)
  PROVE  SeesInv'
<1>1. PICK x \in Location, v \in Value :
        Head(buf[p]) = Entry(x, v) /\ Stored(p, Entry(x, v)) /\ v \in ValueOf(x)
  BY Flushed
<1>2. PICK e : e = Entry(x, v)
  OBVIOUS
<1>3. e.loc = x /\ e.val = v
  BY <1>2 DEF Entry
<1>4. /\ x \in {"maybe_sleeping", "owner_pid"} => p \in Owner /\ Running(p)
      /\ x = "is_set" => v = TRUE \/ (p \in Owner /\ pc[Main(p)] = "resetbarrier")
  BY <1>1, <1>2, <1>3, WhoStored
<1>5. free' = free /\ pc' = pc
  BY DEF Flush
<1>6. /\ "maybe_sleeping" \in Location /\ "owner_pid" \in Location /\ "is_set" \in Location
      /\ \A o \in Owner : o \in Process
  BY Contexts DEF Location
<1>7. /\ mem'[x] = v
      /\ \A y \in Location : y # x => mem'[y] = mem[y]
      /\ \A y \in Location, w \in Value : Sees(mem, buf[p], y, w) => Sees(mem', buf'[p], y, w)
      /\ \A y \in Location : NoStore(buf[p], y) => NoStore(buf'[p], y)
      /\ \A q \in Process, y \in Location, w \in Value :
           q # p /\ y # x /\ Sees(mem, buf[q], y, w) => Sees(mem', buf'[q], y, w)
      /\ \A q \in Process : q # p => buf'[q] = buf[q]
  BY <1>1, FlushEffect
<1>8. CASE x \notin {"maybe_sleeping", "owner_pid"} /\ ~(x = "is_set" /\ v = FALSE)
  <2>1. x = "is_set" => v = TRUE
    BY <1>1, <1>8 DEF ValueOf
  <2>2. /\ mem'["maybe_sleeping"] = mem["maybe_sleeping"] /\ mem'["owner_pid"] = mem["owner_pid"]
        /\ mem["is_set"] = TRUE => mem'["is_set"] = TRUE
    BY <1>6, <1>7, <1>8, <2>1
  <2>3. \A o \in Owner, y \in {"maybe_sleeping", "owner_pid"}, w \in Value :
          Sees(mem, buf[o], y, w) => Sees(mem', buf'[o], y, w)
    BY <1>6, <1>7, <1>8
  <2>4. \A o \in Owner : NoStore(buf[o], "maybe_sleeping") => NoStore(buf'[o], "maybe_sleeping")
    BY <1>6, <1>7
  <2> QED
    BY <1>5, <2>2, <2>3, <2>4, SeesFrame
<1>9. CASE x \in {"maybe_sleeping", "owner_pid"} \/ (x = "is_set" /\ v = FALSE)
  <2>1. p \in Owner /\ Running(p) /\ (x = "is_set" => pc[Main(p)] = "resetbarrier")
    BY <1>4, <1>9 DEF Running
  <2>2. ~free /\ ~free' /\ Running(p)' /\ \A o \in Owner : o # p => ~Running(o)'
    BY <1>5, <2>1 DEF ControlInv, Running
  <2>3. \A y \in {"maybe_sleeping", "owner_pid"}, w \in Value :
          OwnerSees(p, y, w) => OwnerSees(p, y, w)'
    BY <1>6, <1>7 DEF OwnerSees
  <2>4. Announced(p) => Announced(p)'
    <3>1. SUFFICES ASSUME Announced(p) PROVE Announced(p)'
      OBVIOUS
    <3>2. NoStore(buf[p], "maybe_sleeping") /\ mem["maybe_sleeping"] = TRUE
      BY <3>1 DEF Announced
    <3>3. x # "maybe_sleeping"
      <4>1. buf[p] \in Seq(Entries) /\ buf[p] # << >>
        BY DEF BufferInv, Flush, Drained
      <4>2. 1 \in 1 .. Len(buf[p]) /\ buf[p][1] = e
        BY <1>1, <1>2, <4>1
      <4> QED
        BY <1>3, <3>2, <4>2 DEF NoStore
    <3> QED
      BY <1>6, <1>7, <3>2, <3>3 DEF Announced
  <2>5. pc[Main(p)] = "recheck" => mem'["is_set"] = mem["is_set"]
    BY <1>6, <1>7, <1>9, <2>1
  <2>6. \A o \in Owner : o # p => pc'[Main(o)] \in {"out", "gone"}
    BY <2>2 DEF Running
  <2>7. TRUE \in Value /\ FALSE \in Value /\ NoPid \in Value /\ p \in Value
    BY <2>1 DEF Value
  <2>8. /\ pc'[Main(p)] = "waitbarrier" => OwnerSees(p, "maybe_sleeping", TRUE)'
        /\ pc'[Main(p)] = "recheck" => Announced(p)' \/ mem'["is_set"] = TRUE
        /\ pc'[Main(p)] \in {"block", "drain", "report"} => Announced(p)'
        /\ pc'[Main(p)] \notin {"waitbarrier", "recheck", "block", "drain", "report"}
             => OwnerSees(p, "maybe_sleeping", FALSE)'
        /\ pc'[Main(p)] \in {"own", "release"} => OwnerSees(p, "owner_pid", NoPid)'
        /\ pc'[Main(p)] \notin {"own", "release"} => OwnerSees(p, "owner_pid", p)'
    BY <1>5, <2>1, <2>3, <2>4, <2>5, <2>7 DEF SeesInv
  <2> QED
    BY <2>1, <2>2, <2>6, <2>8 DEF SeesInv
<1> QED
  BY <1>1, <1>8, <1>9 DEF ValueOf

LEMMA SeesStep ==
  ASSUME IInv, Next
  PROVE  SeesInv'
<1>0. TypeInv /\ ControlInv /\ BufferInv /\ SeesInv
  BY DEF IInv
<1>1. ASSUME NEW c \in Context, SetLatch(c)
      PROVE  SeesInv'
  BY <1>0, <1>1, CallSees
<1>2. ASSUME NEW c \in Context, MakeWork(c)
      PROVE  SeesInv'
  <2>1. /\ pc[c] = "idle" /\ pc' = [pc EXCEPT ![c] = "barrier"] /\ Stores(c[1], "work", TRUE)
        /\ free' = free /\ c[1] \in Process
    BY <1>2, Kinds DEF MakeWork, Go, Store, Stores, Entry
  <2>2. \A o \in Owner : c # Main(o)
    BY <1>0, <2>1 DEF ControlInv, SetLatchLabels, OwnerLabels
  <2>3. \A o \in Owner : pc'[Main(o)] = pc[Main(o)]
    BY <1>0, <2>1, <2>2, Contexts DEF TypeInv
  <2>4. "work" \in {"work", "is_set"} /\ TRUE \in Value
    BY DEF Value
  <2> QED
    BY <1>0, <2>1, <2>3, <2>4, StoreSees
<1>3. ASSUME NEW o \in Owner, Loop(o) \/ Event(o)
      PROVE  SeesInv'
  BY <1>0, <1>3, OwnerStep, OwnerSeesStep
<1>4. ASSUME NEW o \in Owner, SigurgHandler(o)
      PROVE  SeesInv'
  <2>1. UNCHANGED <<mem, buf, pc, free>>
    BY <1>4 DEF SigurgHandler
  <2> QED
    BY <1>0, <2>1, SilentSees DEF Silent
<1>5. ASSUME NEW p \in Process, Flush(p)
      PROVE  SeesInv'
  BY <1>0, <1>5, FlushSees
<1> QED
  BY <1>1, <1>2, <1>3, <1>4, <1>5 DEF Next

-----------------------------------------------------------------------------
(* WorkInv                                                                 *)

(* Whoever is going to set the latch has not done so yet.                  *)
LEMMA WorkFrame ==
  ASSUME WorkInv,
         \A o \in Owner : pc'[Main(o)] \in LookedForWork => pc[Main(o)] \in LookedForWork,
         mem'["work"] = TRUE => mem["work"] = TRUE,
         mem["is_set"] = TRUE => mem'["is_set"] = TRUE,
         \A c \in Context : Sets(c) => mem'["is_set"] = TRUE \/ Sets(c)'
  PROVE  WorkInv'
BY DEF WorkInv

LEMMA SetsStays ==
  ASSUME NEW d \in Context, Sets(d), pc'[d] = pc[d],
         ~NoStore(buf[d[1]], "is_set") => ~NoStore(buf'[d[1]], "is_set")
  PROVE  Sets(d)'
BY DEF Sets

(* Stores in flight stay there, except in Flush.                           *)
LEMMA StaysInFlight ==
  ASSUME BufferInv,
         \/ buf' = buf
         \/ \E p \in Process, x \in Location, v \in Value : Stores(p, x, v)
  PROVE  \A q \in Process : ~NoStore(buf[q], "is_set") => ~NoStore(buf'[q], "is_set")
<1>1. CASE buf' = buf
  BY <1>1
<1>2. ASSUME NEW p \in Process, NEW x \in Location, NEW v \in Value, Stores(p, x, v)
      PROVE  \A q \in Process : ~NoStore(buf[q], "is_set") => ~NoStore(buf'[q], "is_set")
  <2>1. \A q \in Process, y \in Location :
          NoStore(buf'[q], y) <=> NoStore(buf[q], y) /\ (q # p \/ y # x)
    BY <1>2, StoreEffect
  <2>2. "is_set" \in Location
    BY DEF Location
  <2> QED
    BY <2>1, <2>2
<1> QED
  BY <1>1, <1>2

(* While the owner itself is in SetLatch nobody sleeps on the latch.       *)
LEMMA CallAwake ==
  ASSUME TypeInv, ControlInv, NEW c \in Context, SetLatch(c), NEW o \in Owner,
         pc'[Main(o)] \in LookedForWork
  PROVE  /\ pc'[Main(o)] = pc[Main(o)] /\ \A q \in Owner : c # Main(q)
<1>1. PICK to \in Calling \cup {"reset", "check"} : pc' = [pc EXCEPT ![c] = to]
  BY CallGoes
<1>2. /\ Main(o) \in Context /\ pc'[c] = to
      /\ \A d \in Context : d # c => pc'[d] = pc[d]
  BY <1>1, Contexts, Staying
<1>3. c # Main(o)
  BY <1>2 DEF Calling, SetLatchLabels, LookedForWork
<1>4. Running(o) /\ pc[Main(o)] = pc'[Main(o)]
  BY <1>2, <1>3 DEF Running, LookedForWork
<1>5. ASSUME NEW q \in Owner, c = Main(q)
      PROVE  FALSE
  <2>1. Running(q)
    BY <1>5, CallGoes DEF Running, SetLatchLabels
  <2>2. q = o
    BY <1>4, <2>1 DEF ControlInv
  <2> QED
    BY <1>3, <1>5, <2>2
<1> QED
  BY <1>4, <1>5

LEMMA CallWork ==
  ASSUME TypeInv, ControlInv, BufferInv, WorkInv, NEW c \in Context, SetLatch(c)
  PROVE  WorkInv'
<1>1. mem' = mem /\ c[1] \in Process
  BY CallGoes, Kinds
<1>2. \A o \in Owner : pc'[Main(o)] \in LookedForWork => pc[Main(o)] \in LookedForWork
  BY CallAwake
<1>3. \A d \in Context : d # c => pc'[d] = pc[d]
  BY CallGoes, Staying
<1>4. \A q \in Process : ~NoStore(buf[q], "is_set") => ~NoStore(buf'[q], "is_set")
  <2>1. buf' = buf \/ Stores(c[1], "is_set", TRUE)
    BY CallStores DEF Silent
  <2>2. "is_set" \in Location /\ TRUE \in Value
    BY DEF Location, Value
  <2> QED
    BY <1>1, <2>1, <2>2, StaysInFlight
<1>5. \A d \in Context : d # c /\ Sets(d) => Sets(d)'
  BY <1>3, <1>4, Kinds, SetsStays
<1>6. ASSUME Sets(c)
      PROVE  mem'["is_set"] = TRUE \/ Sets(c)'
  <2>1. c \in DOMAIN pc
    BY DEF TypeInv
  <2>2. buf[c[1]] = << >>
    BY CallDrained
  <2>3. pc[c] \in {"barrier", "quick", "set"}
    BY <1>6, <2>2, SeesEmpty DEF Sets
  <2>4. CASE SetBarrier(c)
    BY <2>1, <2>4 DEF SetBarrier, Go, Sets
  <2>5. CASE QuickExit(c)
    <3>1. At(c, "quick") /\ "is_set" \in Location
      BY <2>5 DEF QuickExit, Location
    <3>2. Load(c[1], "is_set") = mem["is_set"]
      BY <3>1, CallEmpty
    <3>3. mem["is_set"] \in BOOLEAN
      BY <3>1 DEF TypeInv, ValueOf
    <3>4. CASE mem["is_set"] = TRUE
      BY <1>1, <3>4
    <3>5. CASE mem["is_set"] = FALSE
      BY <2>1, <2>5, <3>2, <3>5 DEF QuickExit, Go, Sets
    <3> QED
      BY <3>3, <3>4, <3>5
  <2>6. CASE SetIsSet(c)
    <3>1. Stores(c[1], "is_set", TRUE) /\ pc'[c] = "barrier2"
      BY <2>1, <2>6 DEF SetIsSet, Store, Stores, Entry, Go
    <3>2. "is_set" \in Location /\ TRUE \in Value
      BY DEF Location, Value
    <3>3. ~NoStore(buf'[c[1]], "is_set")
      BY <1>1, <3>1, <3>2, StoreEffect
    <3> QED
      BY <3>1, <3>3 DEF Sets
  <2>7. CASE SetBarrier2(c) \/ TestMaybeSleeping(c) \/ FetchOwner(c) \/ Kill(c)
    BY <2>3, <2>7 DEF SetBarrier2, TestMaybeSleeping, FetchOwner, Kill, At
  <2> QED
    BY <2>4, <2>5, <2>6, <2>7 DEF SetLatch
<1> QED
  BY <1>1, <1>2, <1>5, <1>6, WorkFrame

LEMMA OwnerWork ==
  ASSUME TypeInv, ControlInv, BufferInv, WorkInv, NEW o \in Owner, OwnerMoves(o)
  PROVE  WorkInv'
<1>1. /\ \A q \in Owner : q # o => pc'[Main(q)] \in {"out", "gone"}
      /\ \A c \in Context : c # Main(o) => pc'[c] = pc[c]
  BY OwnerAlone
<1>2. SUFFICES ASSUME mem'["work"] = TRUE, pc'[Main(o)] \in LookedForWork
               PROVE  mem'["is_set"] = TRUE \/ \E c \in Context : Sets(c)'
  BY <1>1 DEF WorkInv, LookedForWork
<1>3. Main(o) \in Context /\ o \in Process /\ Main(o) \in DOMAIN pc
  BY Contexts DEF TypeInv
<1>4. \A from, to : Moves(o, from, to) => pc[Main(o)] = from /\ pc'[Main(o)] = to
  BY <1>3 DEF Moves, MainGoes
<1>5. /\ mem' = mem /\ pc[Main(o)] \in LookedForWork
      /\ \/ buf' = buf
         \/ \E x \in Location, v \in Value : Stores(o, x, v)
  <2>1. CASE MovesSilently(o)
    BY <1>2, <1>4, <2>1 DEF MovesSilently, Silent, LookedForWork
  <2>2. ASSUME NEW x \in Location, NEW v \in Value, MovesAndStores(o, x, v)
        PROVE  mem' = mem /\ pc[Main(o)] \in LookedForWork /\ Stores(o, x, v)
    BY <1>2, <1>4, <2>2 DEF MovesAndStores, Stores, LookedForWork
  <2>3. CASE Moves(o, "do", "wait") /\ mem' = [mem EXCEPT !["work"] = FALSE]
    <3>1. mem'["work"] = FALSE
      BY <2>3 DEF TypeInv, Location
    <3> QED
      BY <1>2, <3>1
  <2>4. CASE Moves(o, "out", "own") \/ Moves(o, "release", "gone")
    BY <1>2, <1>4, <2>4 DEF LookedForWork
  <2> QED
    BY <2>1, <2>2, <2>3, <2>4 DEF OwnerMoves
<1>6. \A q \in Process : ~NoStore(buf[q], "is_set") => ~NoStore(buf'[q], "is_set")
  BY <1>3, <1>5, StaysInFlight
<1>7. \A c \in Context : Sets(c) => c # Main(o) /\ Sets(c)'
  <2>1. SUFFICES ASSUME NEW c \in Context, Sets(c)
                 PROVE  c # Main(o) /\ Sets(c)'
    OBVIOUS
  <2>2. c # Main(o)
    BY <1>5, <2>1 DEF Sets, LookedForWork
  <2> QED
    BY <1>1, <1>6, <2>1, <2>2, Kinds, SetsStays
<1>8. mem["is_set"] = TRUE \/ \E c \in Context : Sets(c)
  BY <1>2, <1>5 DEF WorkInv
<1> QED
  BY <1>5, <1>7, <1>8

LEMMA FlushWork ==
  ASSUME TypeInv, ControlInv, BufferInv, WorkInv, NEW p \in Process, Flush(p)
  PROVE  WorkInv'
<1>1. PICK x \in Location, v \in Value :
        Head(buf[p]) = Entry(x, v) /\ Stored(p, Entry(x, v)) /\ v \in ValueOf(x)
  BY Flushed
<1>2. PICK e : e = Entry(x, v)
  OBVIOUS
<1>3. e.loc = x /\ e.val = v
  BY <1>2 DEF Entry
<1>4. /\ x = "work" => \E c \in Context : pc[c] = "barrier"
      /\ x = "is_set" => v = TRUE \/ (p \in Owner /\ pc[Main(p)] = "resetbarrier")
  BY <1>1, <1>2, <1>3, WhoStored
<1>5. pc' = pc
  BY DEF Flush
<1>6. "work" \in Location /\ "is_set" \in Location
  BY DEF Location
<1>7. /\ mem'[x] = v
      /\ \A y \in Location : y # x => mem'[y] = mem[y]
      /\ \A y \in Location : y # x => (NoStore(buf'[p], y) <=> NoStore(buf[p], y))
      /\ \A q \in Process : q # p => buf'[q] = buf[q]
  BY <1>1, FlushEffect
<1>8. CASE x = "work"
  <2>1. PICK c \in Context : pc[c] = "barrier"
    BY <1>4, <1>8
  <2>2. Sets(c)'
    BY <1>5, <2>1 DEF Sets
  <2> QED
    BY <2>2 DEF WorkInv
<1>9. CASE x = "is_set" /\ v = TRUE
  BY <1>7, <1>9 DEF WorkInv
<1>10. CASE x = "is_set" /\ v # TRUE
  <2>1. p \in Owner /\ pc[Main(p)] = "resetbarrier" /\ Running(p)
    BY <1>4, <1>10 DEF Running
  <2>2. \A o \in Owner : Running(o) => o = p
    BY <2>1 DEF ControlInv
  <2>3. \A o \in Owner : pc'[Main(o)] \notin LookedForWork
    BY <1>5, <2>1, <2>2 DEF Running, LookedForWork
  <2> QED
    BY <2>3 DEF WorkInv
<1>11. CASE x \notin {"work", "is_set"}
  <2>1. mem'["work"] = mem["work"] /\ mem'["is_set"] = mem["is_set"]
    BY <1>6, <1>7, <1>11
  <2>2. \A q \in Process : NoStore(buf'[q], "is_set") <=> NoStore(buf[q], "is_set")
    BY <1>6, <1>7, <1>11
  <2>3. \A c \in Context : Sets(c) => Sets(c)'
    BY <1>5, <2>2, Kinds, SetsStays
  <2> QED
    BY <1>5, <2>1, <2>3, WorkFrame
<1> QED
  BY <1>8, <1>9, <1>10, <1>11

(* Work makes its maker call SetLatch.                                     *)
LEMMA WorkStep ==
  ASSUME IInv, Next
  PROVE  WorkInv'
<1>0. TypeInv /\ ControlInv /\ BufferInv /\ SeesInv /\ WorkInv
  BY DEF IInv
<1>1. ASSUME NEW c \in Context, SetLatch(c)
      PROVE  WorkInv'
  BY <1>0, <1>1, CallWork
<1>2. ASSUME NEW c \in Context, MakeWork(c)
      PROVE  WorkInv'
  <2>1. pc'[c] = "barrier"
    BY <1>0, <1>2 DEF MakeWork, Go, TypeInv
  <2>2. Sets(c)'
    BY <2>1 DEF Sets
  <2> QED
    BY <2>2 DEF WorkInv
<1>3. ASSUME NEW o \in Owner, Loop(o) \/ Event(o)
      PROVE  WorkInv'
  BY <1>0, <1>3, OwnerStep, OwnerWork
<1>4. ASSUME NEW o \in Owner, SigurgHandler(o)
      PROVE  WorkInv'
  BY <1>0, <1>4 DEF SigurgHandler, WorkInv, Sets
<1>5. ASSUME NEW p \in Process, Flush(p)
      PROVE  WorkInv'
  BY <1>0, <1>5, FlushWork
<1> QED
  BY <1>1, <1>2, <1>3, <1>4, <1>5 DEF Next

-----------------------------------------------------------------------------
(* WakeInv                                                                 *)

(* A call of SetLatch that may find the owner asleep sends its signal.     *)
LEMMA CallWakes ==
  ASSUME TypeInv, ControlInv, BufferInv, SeesInv, NEW c \in Context, SetLatch(c),
         NEW o \in Owner, pc[Main(o)] = "block", Wakes(c, o)
  PROVE  sigurg'[o] = TRUE \/ pipe'[o] = TRUE \/ Wakes(c, o)'
<1>1. /\ c \in DOMAIN pc /\ c \in DOMAIN target /\ c[1] \in Process /\ o \in Process
      /\ "maybe_sleeping" \in Location /\ "owner_pid" \in Location /\ o # NoPid
  BY Kinds, Contexts DEF TypeInv, Location
<1>2. mem["maybe_sleeping"] = TRUE
  BY DEF SeesInv, Announced
<1>3. mem["owner_pid"] = o
  <2>1. NoStore(buf[o], "owner_pid")
    <3>1. SUFFICES ASSUME NEW i \in 1 .. Len(buf[o])
                   PROVE  buf[o][i].loc # "owner_pid"
      BY DEF NoStore
    <3>2. OwnerStored(o, buf[o][i])
      BY <1>1 DEF BufferInv, Stored
    <3> QED
      BY <3>2 DEF OwnerStored, MainStored, Entry
  <2>2. OwnerSees(o, "owner_pid", o)
    BY DEF SeesInv, Running
  <2> QED
    BY <2>1, <2>2 DEF OwnerSees, Sees, NoStore
<1>4. waiting[o]
  BY DEF ControlInv, InWait
<1>5. CASE SetBarrier2(c)
  BY <1>1, <1>5 DEF SetBarrier2, Go, Wakes
<1>6. CASE TestMaybeSleeping(c)
  <2>1. Load(c[1], "maybe_sleeping") = TRUE
    BY <1>1, <1>2, <1>6, CallEmpty DEF TestMaybeSleeping
  <2> QED
    BY <1>1, <1>6, <2>1 DEF TestMaybeSleeping, Go, Wakes
<1>7. CASE FetchOwner(c)
  <2>1. Load(c[1], "owner_pid") = o
    BY <1>1, <1>3, <1>7, CallEmpty DEF FetchOwner
  <2>2. target'[c] = o
    BY <1>1, <1>7, <2>1 DEF FetchOwner
  <2>3. pc'[c] = "kill"
    BY <1>1, <1>7, <2>2 DEF FetchOwner, Go
  <2> QED
    BY <2>2, <2>3 DEF Wakes
<1>8. CASE Kill(c)
  <2>1. target[c] = o
    BY <1>8 DEF Kill, At, Wakes
  <2>2. CASE o = c[1] /\ selfPipe
    <3>1. pipe' = [pipe EXCEPT ![o] = @ \/ waiting[o]]
      BY <1>8, <2>1, <2>2 DEF Kill
    <3>2. pipe'[o] = (pipe[o] \/ waiting[o])
      BY <1>1, <3>1 DEF TypeInv
    <3> QED
      BY <1>4, <3>2
  <2>3. CASE ~(o = c[1] /\ selfPipe)
    <3>1. sigurg' = [sigurg EXCEPT ![o] = @ \/ o # c[1] \/ waiting[c[1]]]
      BY <1>8, <2>1, <2>3 DEF Kill
    <3>2. sigurg'[o] = (sigurg[o] \/ o # c[1] \/ waiting[c[1]])
      BY <1>1, <3>1 DEF TypeInv
    <3> QED
      BY <1>4, <3>2
  <2> QED
    BY <2>2, <2>3
<1>9. CASE SetBarrier(c) \/ QuickExit(c) \/ SetIsSet(c)
  BY <1>9 DEF SetBarrier, QuickExit, SetIsSet, At, Wakes
<1> QED
  BY <1>5, <1>6, <1>7, <1>8, <1>9 DEF SetLatch

(* A signal on its way stays so, and a call touches its own variables.     *)
LEMMA CallSignals ==
  ASSUME TypeInv, ControlInv, NEW c \in Context, SetLatch(c)
  PROVE  /\ \A o \in Process : sigurg[o] = TRUE => sigurg'[o] = TRUE
         /\ \A o \in Process : pipe[o] = TRUE => pipe'[o] = TRUE
         /\ \A d \in Context : d # c => target'[d] = target[d]
<1>1. CASE SetBarrier(c) \/ QuickExit(c) \/ SetIsSet(c) \/ SetBarrier2(c)
           \/ TestMaybeSleeping(c)
  BY <1>1 DEF SetBarrier, QuickExit, SetIsSet, SetBarrier2, TestMaybeSleeping, kernelVars
<1>2. CASE FetchOwner(c)
  BY <1>2 DEF FetchOwner, kernelVars, TypeInv
<1>3. CASE Kill(c)
  <2>1. \A d \in Context : d # c => target'[d] = target[d]
    BY <1>3 DEF Kill, TypeInv
  <2>2. ASSUME pipe' = [pipe EXCEPT ![c[1]] = @ \/ waiting[c[1]]], sigurg' = sigurg
        PROVE  /\ \A o \in Process : sigurg[o] = TRUE => sigurg'[o] = TRUE
               /\ \A o \in Process : pipe[o] = TRUE => pipe'[o] = TRUE
    BY <2>2 DEF TypeInv
  <2>3. ASSUME NEW t, pipe' = pipe,
               sigurg' = [sigurg EXCEPT ![t] = @ \/ t # c[1] \/ waiting[c[1]]]
        PROVE  /\ \A o \in Process : sigurg[o] = TRUE => sigurg'[o] = TRUE
               /\ \A o \in Process : pipe[o] = TRUE => pipe'[o] = TRUE
    BY <2>3 DEF TypeInv
  <2> QED
    BY <1>3, <2>1, <2>2, <2>3 DEF Kill
<1> QED
  BY <1>1, <1>2, <1>3 DEF SetLatch

LEMMA CallWake ==
  ASSUME TypeInv, ControlInv, BufferInv, SeesInv, WakeInv, NEW c \in Context, SetLatch(c)
  PROVE  WakeInv'
<1>1. SUFFICES ASSUME NEW o \in Owner, mem'["is_set"] = TRUE, pc'[Main(o)] = "block"
               PROVE  sigurg'[o] = TRUE \/ pipe'[o] = TRUE \/ \E d \in Context : Wakes(d, o)'
  BY DEF WakeInv
<1>2. mem' = mem /\ o \in Process
  BY CallGoes, Contexts
<1>3. pc[Main(o)] = "block"
  BY <1>1, CallAwake DEF LookedForWork
<1>4. \A d \in Context : d # c => pc'[d] = pc[d]
  BY CallGoes, Staying
<1>5. CASE sigurg[o] = TRUE \/ pipe[o] = TRUE
  BY <1>2, <1>5, CallSignals
<1>6. ASSUME NEW d \in Context, Wakes(d, o)
      PROVE  sigurg'[o] = TRUE \/ pipe'[o] = TRUE \/ Wakes(d, o)'
  <2>1. CASE d = c
    BY <1>3, <1>6, <2>1, CallWakes
  <2>2. CASE d # c
    <3>1. pc'[d] = pc[d] /\ target'[d] = target[d]
      BY <1>4, <2>2, CallSignals
    <3> QED
      BY <1>6, <3>1 DEF Wakes
  <2> QED
    BY <2>1, <2>2
<1> QED
  BY <1>1, <1>2, <1>3, <1>5, <1>6 DEF WakeInv

(* An owner falls asleep only after it has read that is_set is FALSE.      *)
LEMMA OwnerWake ==
  ASSUME TypeInv, ControlInv, NEW o \in Owner, OwnerMoves(o)
  PROVE  WakeInv'
<1>1. Main(o) \in DOMAIN pc
  BY Contexts DEF TypeInv
<1>2. \A from, to : Moves(o, from, to) => pc'[Main(o)] = to
  BY <1>1 DEF Moves, MainGoes
<1>3. \A q \in Owner : q # o => pc'[Main(q)] # "block"
  BY OwnerAlone
<1>4. pc'[Main(o)] = "block" => mem'["is_set"] = FALSE
  <2>1. CASE MovesSilently(o)
    BY <1>2, <2>1 DEF MovesSilently, Silent
  <2>2. ASSUME NEW x \in Location, NEW v \in Value, MovesAndStores(o, x, v)
        PROVE  pc'[Main(o)] # "block"
    BY <1>2, <2>2 DEF MovesAndStores
  <2>3. CASE Moves(o, "do", "wait") \/ Moves(o, "out", "own") \/ Moves(o, "release", "gone")
    BY <1>2, <2>3
  <2> QED
    BY <2>1, <2>2, <2>3 DEF OwnerMoves
<1> QED
  BY <1>3, <1>4 DEF WakeInv

LEMMA FlushWake ==
  ASSUME TypeInv, ControlInv, BufferInv, WakeInv, NEW p \in Process, Flush(p)
  PROVE  WakeInv'
<1>1. PICK x \in Location, v \in Value :
        Head(buf[p]) = Entry(x, v) /\ Stored(p, Entry(x, v)) /\ v \in ValueOf(x)
  BY Flushed
<1>2. UNCHANGED <<pc, sigurg, pipe, target>>
  BY DEF Flush, kernelVars
<1>3. \A c \in Context, o \in Owner : Wakes(c, o)' <=> Wakes(c, o)
  BY <1>2 DEF Wakes
<1>4. /\ mem'[x] = v
      /\ \A y \in Location : y # x => mem'[y] = mem[y]
  BY <1>1, FlushEffect
<1>5. CASE x = "is_set" /\ v = TRUE
  <2>1. PICK e : e = Entry("is_set", TRUE)
    OBVIOUS
  <2>2. PICK c \in Context : pc[c] = "barrier2"
    BY <1>1, <1>5, <2>1, WhoStored
  <2>3. \A o \in Owner : Wakes(c, o)'
    BY <1>3, <2>2 DEF Wakes
  <2> QED
    BY <2>3 DEF WakeInv
<1>6. CASE x = "is_set" /\ v # TRUE
  BY <1>4, <1>6 DEF WakeInv
<1>7. CASE x # "is_set"
  <2>1. mem'["is_set"] = mem["is_set"]
    BY <1>4, <1>7 DEF Location
  <2> QED
    BY <1>2, <1>3, <2>1 DEF WakeInv
<1> QED
  BY <1>5, <1>6, <1>7

LEMMA WakeStep ==
  ASSUME IInv, Next
  PROVE  WakeInv'
<1>0. TypeInv /\ ControlInv /\ BufferInv /\ SeesInv /\ WakeInv
  BY DEF IInv
<1>1. ASSUME NEW c \in Context, SetLatch(c)
      PROVE  WakeInv'
  BY <1>0, <1>1, CallWake
<1>2. ASSUME NEW c \in Context, MakeWork(c)
      PROVE  WakeInv'
  <2>1. /\ pc[c] = "idle" /\ pc' = [pc EXCEPT ![c] = "barrier"]
        /\ UNCHANGED <<mem, sigurg, pipe, target>>
    BY <1>2 DEF MakeWork, Go, kernelVars
  <2>2. pc'[c] = "barrier" /\ \A d \in Context : d # c => pc'[d] = pc[d]
    BY <1>0, <2>1, Staying
  <2>3. \A o \in Owner : Main(o) \in Context /\ (pc'[Main(o)] = "block" => pc[Main(o)] = "block")
    BY <2>2, Contexts
  <2>4. \A d \in Context, o \in Owner : Wakes(d, o) => Wakes(d, o)'
    BY <2>1, <2>2 DEF Wakes
  <2> QED
    BY <1>0, <2>1, <2>3, <2>4 DEF WakeInv
<1>3. ASSUME NEW o \in Owner, Loop(o) \/ Event(o)
      PROVE  WakeInv'
  BY <1>0, <1>3, OwnerStep, OwnerWake
<1>4. ASSUME NEW o \in Owner, SigurgHandler(o)
      PROVE  WakeInv'
  <2>1. UNCHANGED <<mem, pc, target>> /\ o \in Process
    BY <1>4, Contexts DEF SigurgHandler
  <2>2. \A q \in Owner : q # o => sigurg'[q] = sigurg[q] /\ pipe'[q] = pipe[q]
    BY <1>0, <1>4, Contexts DEF SigurgHandler, TypeInv
  <2>3. pc[Main(o)] = "block" => pipe'[o] = TRUE
    <3>1. SUFFICES ASSUME pc[Main(o)] = "block" PROVE pipe'[o] = TRUE
      OBVIOUS
    <3>2. waiting[o]
      BY <1>0, <3>1 DEF ControlInv, InWait
    <3>3. pipe'[o] = (pipe[o] \/ waiting[o])
      BY <1>0, <1>4, <2>1 DEF SigurgHandler, TypeInv
    <3> QED
      BY <3>2, <3>3
  <2>4. \A d \in Context, q \in Owner : Wakes(d, q)' <=> Wakes(d, q)
    BY <2>1 DEF Wakes
  <2> QED
    BY <1>0, <2>1, <2>2, <2>3, <2>4 DEF WakeInv
<1>5. ASSUME NEW p \in Process, Flush(p)
      PROVE  WakeInv'
  BY <1>0, <1>5, FlushWake
<1> QED
  BY <1>1, <1>2, <1>3, <1>4, <1>5 DEF Next

-----------------------------------------------------------------------------
(* The invariant                                                           *)

LEMMA InitInv == Init => IInv
<1> SUFFICES ASSUME Init PROVE IInv
  OBVIOUS
<1>1. /\ \A p \in Process : buf[p] = << >>
      /\ \A c \in Context : pc[c] \in {"out", "idle"}
  BY DEF Init
<1>2. /\ \A s \in Setter : pc[Main(s)] = "idle"
      /\ \A o \in Owner : pc[Main(o)] = "out" /\ pc[Handler(o)] = "idle"
  BY Contexts DEF Init
<1>3. /\ \A x \in Location \ {"owner_pid"} : mem[x] = FALSE
      /\ mem["owner_pid"] = NoPid /\ DOMAIN mem = Location
  BY DEF Init, Location
<1>4. TypeInv
  <2>1. \A x \in Location : mem[x] \in ValueOf(x)
    BY <1>3 DEF ValueOf
  <2>2. pc \in [Context -> {"idle"} \cup SetLatchLabels \cup OwnerLabels]
    BY DEF Init, OwnerLabels
  <2>3. sets \in 0 .. MaxSets
    BY ConstantsAssumption DEF Init
  <2> QED
    BY <1>1, <1>3, <2>1, <2>2, <2>3 DEF Init, TypeInv
<1>5. ControlInv
  BY <1>2 DEF ControlInv, Running, InWait, Calling, SetLatchLabels, OwnerLabels
<1>6. BufferInv
  <2>1. buf \in [Process -> Seq(Entries)]
    BY DEF Init
  <2> QED
    BY <1>1, <2>1, Contexts DEF BufferInv
<1>7. SeesInv
  BY <1>2, <1>3 DEF SeesInv, Running, Location
<1>8. WorkInv /\ WakeInv
  BY <1>2 DEF WorkInv, WakeInv, LookedForWork
<1> QED
  BY <1>4, <1>5, <1>6, <1>7, <1>8 DEF IInv

LEMMA Stutter ==
  ASSUME IInv, UNCHANGED vars
  PROVE  IInv'
<1>1. UNCHANGED <<mem, buf, sigurg, pipe, selfPipe, waiting, free, pc, target, sets>>
  BY DEF vars, kernelVars
<1>2. TypeInv' /\ ControlInv'
  BY <1>1 DEF IInv, TypeInv, ControlInv, Running
<1>3. BufferInv'
  <2>1. \A p, e : Stored(p, e)' <=> Stored(p, e)
    BY <1>1 DEF Stored, OwnerStored, MainStored, SetterStored
  <2> QED
    BY <1>1, <2>1 DEF IInv, BufferInv
<1>4. SeesInv'
  BY <1>1 DEF IInv, SeesInv, OwnerSees, Announced, Running
<1>5. WorkInv' /\ WakeInv'
  BY <1>1 DEF IInv, WorkInv, WakeInv, Sets, Wakes
<1> QED
  BY <1>2, <1>3, <1>4, <1>5 DEF IInv

(* The inductive invariant holds in every reachable state, for any number  *)
(* of owners, setters and calls of SetLatch.                               *)
THEOREM Invariance == Spec => []IInv
<1>1. IInv /\ [Next]_vars => IInv'
  <2>1. ASSUME IInv, Next PROVE IInv'
    <3>1. TypeInv' /\ ControlInv' /\ BufferInv' /\ SeesInv' /\ WorkInv' /\ WakeInv'
      BY <2>1, TypeStep, ControlStep, BufferStep, SeesStep, WorkStep, WakeStep
    <3> QED
      BY <3>1 DEF IInv
  <2> QED
    BY <2>1, Stutter
<1> QED
  BY <1>1, InitInv, PTL DEF Spec

(* NoLostWakeup: SetLatch and WaitEventSetWait agree, through their memory *)
(* barriers, who of them sees the other's flag, so that an owner never     *)
(* sleeps on a latch that is set, or on work, with nothing on its way.     *)
THEOREM NoWakeupLost == Spec => []NoLostWakeup
<1>1. IInv => NoLostWakeup
  <2>1. SUFFICES ASSUME IInv, NEW o \in Owner, pc[Main(o)] = "block", Quiet(o)
                 PROVE  ~mem["work"] /\ ~mem["is_set"]
    BY DEF NoLostWakeup
  <2>2. /\ \A c \in Context : pc[c] \notin SetLatchLabels
        /\ ~sigurg[o] /\ ~pipe[o]
    BY <2>1 DEF Quiet
  <2>3. mem["work"] \in BOOLEAN /\ mem["is_set"] \in BOOLEAN
    BY <2>1 DEF IInv, TypeInv, ValueOf, Location
  <2>4. \A c \in Context : ~Sets(c) /\ ~Wakes(c, o)
    BY <2>2 DEF Sets, Wakes, SetLatchLabels
  <2>5. mem["is_set"] # TRUE
    BY <2>1, <2>2, <2>4 DEF IInv, WakeInv
  <2>6. mem["work"] # TRUE
    BY <2>1, <2>4, <2>5 DEF IInv, WorkInv, LookedForWork
  <2> QED
    BY <2>3, <2>5, <2>6
<1> QED
  BY <1>1, Invariance, PTL

(* AssertionsHold: the Asserts of ResetLatch and WaitEventSetWait hold of  *)
(* what the process itself reads, and OwnLatch never ends in its PANIC,    *)
(* although a PGPROC goes from one process to the next.                    *)
THEOREM AssertsHold == Spec => []AssertionsHold
<1>1. IInv => AssertionsHold
  <2> SUFFICES ASSUME IInv PROVE AssertionsHold
    OBVIOUS
  <2>1. TypeInv /\ ControlInv /\ BufferInv /\ SeesInv
    BY DEF IInv
  <2>2. ASSUME NEW p \in Process, NEW i \in DOMAIN buf[p]
        PROVE  buf[p][i].loc \in Location /\ buf[p][i].val \in ValueOf(buf[p][i].loc)
    <3>1. buf[p] \in Seq(Entries)
      BY <2>1 DEF BufferInv
    <3>2. PICK e : e = buf[p][i]
      OBVIOUS
    <3>3. i \in 1 .. Len(buf[p])
      BY <2>2, <3>1
    <3>4. Stored(p, e)
      BY <2>1, <3>2, <3>3 DEF BufferInv
    <3>5. PICK x \in Location, v \in Value : e = Entry(x, v) /\ v \in ValueOf(x)
      BY <2>1, <3>4, WhoStored
    <3>6. e.loc = x /\ e.val = v
      BY <3>5 DEF Entry
    <3> QED
      BY <3>2, <3>5, <3>6
  <2>3. TypeOK
    BY <2>1, <2>2 DEF TypeOK, TypeInv, BufferInv
  <2>4. ASSUME NEW o \in Owner
        PROVE  /\ pc[Main(o)] # "panic"
               /\ pc[Main(o)] = "reset" =>
                    Load(o, "owner_pid") = o /\ ~Load(o, "maybe_sleeping")
               /\ pc[Main(o)] \in {"block", "drain", "report"} => Load(o, "maybe_sleeping")
    <3>1. o \in Process /\ buf[o] \in Seq(Entries)
      BY <2>1, Contexts DEF BufferInv
    <3>2. pc[Main(o)] # "panic"
      BY <2>1 DEF ControlInv
    <3>3. ASSUME pc[Main(o)] = "reset"
          PROVE  Load(o, "owner_pid") = o /\ ~Load(o, "maybe_sleeping")
      <4>1. OwnerSees(o, "owner_pid", o) /\ OwnerSees(o, "maybe_sleeping", FALSE)
        BY <2>1, <3>3 DEF SeesInv, Running
      <4>2. Load(o, "owner_pid") = o
        BY <3>1, <4>1, SeesLoad DEF OwnerSees
      <4>3. Load(o, "maybe_sleeping") = FALSE
        BY <3>1, <4>1, SeesLoad DEF OwnerSees
      <4> QED
        BY <4>2, <4>3
    <3>4. ASSUME pc[Main(o)] \in {"block", "drain", "report"}
          PROVE  Load(o, "maybe_sleeping")
      <4>1. NoStore(buf[o], "maybe_sleeping") /\ mem["maybe_sleeping"] = TRUE
        BY <2>1, <3>4 DEF SeesInv, Announced
      <4>2. Load(o, "maybe_sleeping") = TRUE
        BY <3>1, <4>1, LoadMemory
      <4> QED
        BY <4>2
    <3> QED
      BY <3>2, <3>3, <3>4
  <2> QED
    BY <2>3, <2>4 DEF AssertionsHold
<1> QED
  BY <1>1, Invariance, PTL
=============================================================================
