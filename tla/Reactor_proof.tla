--------------------------- MODULE Reactor_proof ---------------------------
(***************************************************************************)
(* Proofs about Reactor for any number of events and calling threads;        *)
(* then about the timers and signals of a reactor                            *)
(* without a timer thread, as MCReactor instantiates them.                   *)
(***************************************************************************)
EXTENDS MCReactor, FiniteSetTheorems, SequenceTheorems, WellFoundedInduction, TLAPS

(* reactor::init() establishes the invariant. *)
LEMMA InitIndInv == Init => IndInv
<1> SUFFICES ASSUME Init PROVE IndInv
  OBVIOUS
<1>1. TypeOK
  BY DEF Init, TypeOK, LoopPC, CallPC
<1> QED
  BY <1>1 DEF Init, IndInv, TodoInv, CallerInv, NoChangeDropped, FlagCoversSleep

(* Every step keeps the variables in range, the iteration inside load_event()  *)
(* and an event in the hands of a caller that is about to queue it.            *)
LEMMA TypeStep ==
  ASSUME IndInv, [Next]_vars
  PROVE  TypeOK' /\ TodoInv' /\ CallerInv'
<1> USE LoopAssumption, CtlAssumption, NoEventAssumption DEF LoopPC, CallPC
<1>0. TypeOK /\ TodoInv /\ CallerInv
  BY DEF IndInv
<1>1. ASSUME NEW t \in Callers, NEW e \in Events, Change(t, e), todo' = todo, lpc' = lpc,
             ready' \in SUBSET (Events \cup {Ctl})
      PROVE  TypeOK' /\ TodoInv' /\ CallerInv'
  <2>1. /\ bits' \in [Events -> SUBSET Interest]
        /\ pc' \in [Callers -> CallPC]
        /\ ev' \in [Callers -> Events \cup {NoEvent}]
    BY <1>0, <1>1 DEF TypeOK, Change, SetInterest, Interest
  <2>2. TypeOK'
    BY <1>0, <1>1, <2>1 DEF TypeOK, Change, SetInterest, epollvars
  <2>3. CallerInv'
    BY <1>0, <1>1 DEF TypeOK, CallerInv, Change, SetInterest
  <2> QED
    BY <1>0, <1>1, <2>2, <2>3 DEF TodoInv
<1>2. ASSUME NEW t \in Callers, CallStep(t)
      PROVE  TypeOK' /\ TodoInv' /\ CallerInv'
  <2>1. CASE WriteChange(t)
    BY <1>0, <2>1 DEF TypeOK, TodoInv, CallerInv, WriteChange, epollvars, loopvars
  <2>2. CASE Wakeup(t)
    BY <1>0, <2>2 DEF TypeOK, TodoInv, CallerInv, Wakeup, epollvars, loopvars
  <2>3. CASE WriteEventfd(t)
    BY <1>0, <2>3 DEF TypeOK, TodoInv, CallerInv, WriteEventfd, loopvars
  <2> QED
    BY <1>2, <2>1, <2>2, <2>3 DEF CallStep
<1>3. ASSUME NEW t \in Threads, Stop(t)
      PROVE  TypeOK' /\ TodoInv' /\ CallerInv'
  BY <1>0, <1>3 DEF TypeOK, TodoInv, CallerInv, Stop, epollvars, loopvars, Callers
<1>4. CASE Start \/ Test \/ ClearWakeup \/ EndDispatch
  BY <1>0, <1>4 DEF TypeOK, TodoInv, CallerInv, Start, Test, ClearWakeup, EndDispatch,
                    epollvars
<1>5. CASE Flip
  BY <1>0, <1>5 DEF TypeOK, TodoInv, CallerInv, Flip, epollvars
<1>6. ASSUME NEW e \in todo, Apply(e)
      PROVE  TypeOK' /\ TodoInv' /\ CallerInv'
  BY <1>0, <1>6 DEF TypeOK, TodoInv, CallerInv, Apply
<1>7. CASE ClearBuffer
  BY <1>0, <1>7 DEF TypeOK, TodoInv, CallerInv, ClearBuffer, epollvars
<1>8. CASE EpollWait
  BY <1>0, <1>8 DEF TypeOK, TodoInv, CallerInv, EpollWait, epollvars
<1>9. CASE HandleControl
  BY <1>0, <1>9 DEF TypeOK, TodoInv, CallerInv, HandleControl
<1>10. ASSUME NEW e \in Events, HandleStream(e)
       PROVE  TypeOK' /\ TodoInv' /\ CallerInv'
  <2>1. lpc' = lpc /\ todo' = todo /\ ready' \in SUBSET (Events \cup {Ctl})
    BY <1>0, <1>10 DEF TypeOK, HandleStream
  <2>2. CASE Change(Loop, e)
    BY <1>1, <2>1, <2>2 DEF Callers
  <2>3. CASE UNCHANGED <<bits, buffer, writeidx, epollvars, wakeup, stop, pc, ev>>
    BY <1>0, <2>1, <2>3 DEF TypeOK, TodoInv, CallerInv, epollvars
  <2> QED
    BY <1>10, <2>2, <2>3 DEF HandleStream
<1>11. ASSUME NEW t \in Threads, NEW e \in Events, ThreadChange(t, e)
       PROVE  TypeOK' /\ TodoInv' /\ CallerInv'
  BY <1>0, <1>1, <1>11 DEF ThreadChange, loopvars, TypeOK, Callers
<1>12. CASE UNCHANGED vars
  BY <1>0, <1>12 DEF TypeOK, TodoInv, CallerInv, vars
<1> QED
  BY <1>2, <1>3, <1>4, <1>5, <1>6, <1>7, <1>8, <1>9, <1>10, <1>11, <1>12
     DEF Next, LoopStep

(* An event whose interest epoll does not know stays queued until the loop     *)
(* applies it.                                                                 *)
LEMMA QueuedStep ==
  ASSUME IndInv, [Next]_vars
  PROVE  NoChangeDropped'
<1> USE LoopAssumption, CtlAssumption
<1>0. TypeOK /\ TodoInv /\ NoChangeDropped
  BY DEF IndInv
<1> SUFFICES ASSUME NEW e \in Events, mask'[e] # bits'[e]
             PROVE  Queued(e)'
  BY DEF NoChangeDropped
<1>a. ASSUME UNCHANGED <<bits, mask>> PROVE Queued(e)
  BY <1>0, <1>a DEF NoChangeDropped
<1>1. ASSUME NEW t \in Callers, NEW f \in Events, Change(t, f), todo' = todo
      PROVE  Queued(e)'
  <2>1. /\ pc[t] = "idle" /\ pc' = [pc EXCEPT ![t] = "write"]
        /\ ev' = [ev EXCEPT ![t] = f]
        /\ UNCHANGED <<buffer, writeidx, mask>>
    BY <1>1 DEF Change, MayCall, SetInterest, epollvars
  <2>2. CASE e = f
    BY <1>0, <2>1, <2>2 DEF Queued, TypeOK
  <2>3. CASE e # f
    <3>1. bits'[e] = bits[e]
      BY <1>0, <1>1, <2>3 DEF TypeOK, Change, SetInterest
    <3>2. Queued(e)
      BY <1>0, <2>1, <3>1 DEF NoChangeDropped
    <3> QED
      BY <1>0, <1>1, <2>1, <3>2 DEF Queued, TypeOK
  <2> QED
    BY <2>2, <2>3
<1>2. ASSUME NEW t \in Callers, WriteChange(t)
      PROVE  Queued(e)'
  BY <1>0, <1>a, <1>2 DEF Queued, TypeOK, WriteChange, epollvars, loopvars
<1>3. ASSUME NEW t \in Callers, Wakeup(t) \/ WriteEventfd(t) \/ Stop(t)
      PROVE  Queued(e)'
  <2>1. /\ UNCHANGED <<bits, mask, buffer, writeidx, todo>>
        /\ pc[t] # "write"
        /\ \A u \in Callers : u # t => pc'[u] = pc[u] /\ ev'[u] = ev[u]
    BY <1>0, <1>3 DEF TypeOK, Wakeup, WriteEventfd, Stop, epollvars, loopvars
  <2> QED
    BY <1>a, <2>1 DEF Queued
<1>4. CASE Flip
  BY <1>0, <1>a, <1>4 DEF Queued, TodoInv, Flip, epollvars
<1>5. ASSUME NEW f \in todo, Apply(f)
      PROVE  Queued(e)'
  <2>1. CASE f = e
    BY <1>0, <1>5, <2>1 DEF Apply, TypeOK
  <2>2. CASE f # e
    <3>1. mask'[e] = mask[e] /\ UNCHANGED <<bits, buffer, writeidx, pc, ev>>
      BY <1>0, <1>5, <2>2 DEF Apply, TypeOK
    <3>2. Queued(e)
      BY <1>0, <3>1 DEF NoChangeDropped
    <3> QED
      BY <1>5, <2>2, <3>1, <3>2 DEF Queued, Apply
  <2> QED
    BY <2>1, <2>2
<1>6. CASE ClearBuffer
  <2>1. writeidx # 1 - writeidx
    BY <1>0 DEF TypeOK
  <2>2. buffer'[writeidx] = buffer[writeidx]
    BY <1>0, <1>6, <2>1 DEF TypeOK, ClearBuffer
  <2> QED
    BY <1>a, <1>6, <2>2 DEF Queued, ClearBuffer, epollvars
<1>7. CASE Start \/ Test \/ ClearWakeup \/ EpollWait \/ HandleControl \/ EndDispatch
  BY <1>a, <1>7 DEF Queued, Start, Test, ClearWakeup, EpollWait, HandleControl,
                    EndDispatch, epollvars
<1>8. ASSUME NEW f \in Events, HandleStream(f)
      PROVE  Queued(e)'
  <2>1. CASE Change(Loop, f)
    BY <1>1, <1>8, <2>1 DEF HandleStream, Callers
  <2>2. CASE UNCHANGED <<bits, buffer, writeidx, epollvars, wakeup, stop, pc, ev>>
    BY <1>a, <1>8, <2>2 DEF HandleStream, Queued, epollvars
  <2> QED
    BY <1>8, <2>1, <2>2 DEF HandleStream
<1>9. ASSUME NEW t \in Threads, NEW f \in Events, ThreadChange(t, f)
      PROVE  Queued(e)'
  BY <1>1, <1>9 DEF ThreadChange, loopvars, Callers
<1>10. CASE UNCHANGED vars
  BY <1>a, <1>10 DEF vars, Queued
<1> QED
  BY <1>2, <1>3, <1>4, <1>5, <1>6, <1>7, <1>8, <1>9, <1>10
     DEF Next, LoopStep, CallStep, Callers

(* While the loop sleeps the flag is set only by a caller that goes on to      *)
(* write the eventfd, and nobody drains it.                                    *)
LEMMA FlagStep ==
  ASSUME IndInv, [Next]_vars
  PROVE  FlagCoversSleep'
<1>0. TypeOK /\ FlagCoversSleep
  BY DEF IndInv
<1> SUFFICES ASSUME lpc' = "wait", wakeup'
             PROVE  efd' \/ \E t \in Callers : pc'[t] = "efd"
  BY DEF FlagCoversSleep
<1>1. ASSUME NEW t \in Callers, Wakeup(t)
      PROVE  efd' \/ \E u \in Callers : pc'[u] = "efd"
  <2>1. lpc = "wait" /\ efd' = efd
    BY <1>1 DEF Wakeup, loopvars, epollvars
  <2>2. CASE wakeup_fd /\ ~wakeup
    <3>1. pc'[t] = "efd"
      BY <1>0, <1>1, <2>2 DEF Wakeup, TypeOK
    <3> QED
      BY <3>1
  <2>3. CASE ~(wakeup_fd /\ ~wakeup)
    <3>1. wakeup
      BY <1>0, <1>1, <2>3 DEF Wakeup, TypeOK
    <3>2. \A u \in Callers : pc[u] = "efd" => pc'[u] = "efd"
      BY <1>0, <1>1, <2>3 DEF Wakeup, TypeOK
    <3> QED
      BY <1>0, <2>1, <3>1, <3>2 DEF FlagCoversSleep
  <2> QED
    BY <2>2, <2>3
<1>2. ASSUME NEW t \in Callers, WriteEventfd(t)
      PROVE  efd'
  BY <1>2 DEF WriteEventfd
<1>3. ASSUME NEW t \in Callers,
             \/ WriteChange(t)
             \/ Stop(t)
             \/ \E e \in Events : ThreadChange(t, e)
      PROVE  efd' \/ \E u \in Callers : pc'[u] = "efd"
  <2>1. /\ lpc' = lpc /\ wakeup' = wakeup /\ efd' = efd
        /\ pc[t] # "efd" /\ \A u \in Callers : u # t => pc'[u] = pc[u]
    BY <1>0, <1>3 DEF TypeOK, WriteChange, Stop, ThreadChange, Change, MayCall,
                      SetInterest, loopvars, epollvars
  <2> QED
    BY <1>0, <2>1 DEF FlagCoversSleep
<1>4. ASSUME LoopStep \/ EpollWait
      PROVE  FALSE
  BY <1>4 DEF LoopStep, Start, Test, Flip, Apply, ClearBuffer, ClearWakeup, EpollWait,
              HandleControl, HandleStream, EndDispatch
<1>5. CASE UNCHANGED vars
  BY <1>0, <1>5 DEF FlagCoversSleep, vars
<1> QED
  BY <1>1, <1>2, <1>3, <1>4, <1>5 DEF Next, CallStep, Callers

(* The invariant holds throughout every behaviour of the reactor. *)
THEOREM Inductive == Spec => []IndInv
<1>1. ASSUME IndInv, [Next]_vars
      PROVE  IndInv'
  BY <1>1, TypeStep, QueuedStep, FlagStep DEF IndInv
<1> QED
  BY <1>1, InitIndInv, PTL DEF Spec

(* Every variable of the reactor stays in its range. *)
THEOREM TypeCorrect == Spec => []TypeOK
<1>1. IndInv => TypeOK
  BY DEF IndInv
<1> QED
  BY <1>1, Inductive, PTL

(* No change of interest is dropped by the changelist, whoever makes it and    *)
(* whenever the loop flips the buffers (one_reader_double_buffer::read).       *)
THEOREM NothingDropped == Spec => []NoChangeDropped
<1>1. IndInv => NoChangeDropped
  BY DEF IndInv
<1> QED
  BY <1>1, Inductive, PTL

(* While the loop sleeps, a set _wakeup stands for a written eventfd or one     *)
(* about to be (epoller::wakeup).                                              *)
THEOREM SleepCovered == Spec => []FlagCoversSleep
<1>1. IndInv => FlagCoversSleep
  BY DEF IndInv
<1> QED
  BY <1>1, Inductive, PTL

-----------------------------------------------------------------------------
(***************************************************************************)
(* Timers and signals (ReactorTimer), for any number of timers and signals,  *)
(* any timeouts, repeats and pipe.                                           *)
(***************************************************************************)

(* Among some numbers there is a least one. *)
LEMMA LeastNumber ==
  ASSUME NEW X, X \subseteq Nat, X # {}
  PROVE  \E x \in X : \A y \in X : x <= y
<1> DEFINE R == OpToRel(<, Nat)
<1>1. IsWellFoundedOn(R, Nat)
  BY NatLessThanWellFounded
<1>2. \E x \in X : \A y \in X : ~(<<y, x>> \in R)
  BY <1>1, WFMin
<1>3. \A x, y \in Nat : y < x => <<y, x>> \in R
  BY DEF OpToRel
<1>4. PICK x \in X : \A y \in X : ~(<<y, x>> \in R)
  BY <1>2
<1> HIDE DEF R
<1>5. ASSUME NEW y \in X PROVE x <= y
  <2>1. x \in Nat /\ y \in Nat /\ ~(y < x)
    BY <1>3, <1>4, <1>5
  <2> QED
    BY <2>1
<1> QED
  BY <1>4, <1>5

(* Induction: a set that has 0, and the next of each of its numbers, has them all. *)
LEMMA AllNumbers ==
  ASSUME NEW X, 0 \in X, \A n \in Nat : n \in X => n + 1 \in X
  PROVE  Nat \subseteq X
<1> SUFFICES ASSUME NEW n \in Nat, n \notin X PROVE FALSE
  OBVIOUS
<1>1. PICK x \in Nat \ X : \A y \in Nat \ X : x <= y
  <2>1. Nat \ X \subseteq Nat /\ Nat \ X # {}
    OBVIOUS
  <2> QED
    BY <2>1, LeastNumber
<1>2. x # 0
  OBVIOUS
<1>3. x - 1 \in Nat /\ (x - 1) + 1 = x
  BY <1>2
<1> QED
  BY <1>1, <1>3

(* A sequence of values, each made from the one before it by the function of its turn. *)
Unfolds(D, F, x, n) ==
  \E g \in [0 .. n -> D] : g[0] = x /\ \A i \in 1 .. n : g[i] = F[i][g[i - 1]]

(* There is such a thing for all functions on D. *)
LEMMA Unfolded ==
  ASSUME NEW D, NEW n \in Nat, NEW F \in [1 .. n -> [D -> D]], NEW x \in D
  PROVE  Unfolds(D, F, x, n)
<1> DEFINE X == {k \in Nat : k <= n => Unfolds(D, F, x, k)}
<1> USE DEF Unfolds
<1>1. 0 \in X
  <2>1. [i \in 0 .. 0 |-> x] \in [0 .. 0 -> D]
    OBVIOUS
  <2>2. /\ [i \in 0 .. 0 |-> x][0] = x
        /\ \A i \in 1 .. 0 : [j \in 0 .. 0 |-> x][i] = F[i][[j \in 0 .. 0 |-> x][i - 1]]
    OBVIOUS
  <2> QED
    BY <2>1, <2>2
<1>2. ASSUME NEW k \in Nat, k \in X, k + 1 <= n PROVE Unfolds(D, F, x, k + 1)
  <2>1. PICK g \in [0 .. k -> D] : g[0] = x /\ \A i \in 1 .. k : g[i] = F[i][g[i - 1]]
    BY <1>2
  <2>2. k + 1 \in 1 .. n /\ F[k + 1] \in [D -> D]
    BY <1>2
  <2> DEFINE h == [i \in 0 .. k + 1 |-> IF i = k + 1 THEN F[k + 1][g[k]] ELSE g[i]]
  <2>3. h \in [0 .. k + 1 -> D]
    BY <2>1, <2>2
  <2>4. h[0] = x /\ \A i \in 1 .. k + 1 : h[i] = F[i][h[i - 1]]
    BY <2>1
  <2> QED
    BY <2>3, <2>4
<1>3. \A k \in Nat : k \in X => k + 1 \in X
  BY <1>2
<1>4. Nat \subseteq X
  <2> HIDE DEF X
  <2> QED
    BY <1>1, <1>3, AllNumbers
<1> QED
  BY <1>4

(* A timer is in a queue, and once. *)
In(q, t) == \E i \in DOMAIN q : q[i].t = t
Once(q, t) == \A i, j \in DOMAIN q : q[i].t = t /\ q[j].t = t => i = j

(* Places, said with them. *)
LEMMA PlacesAre ==
  /\ \A t : T!Places(t) = {} <=> ~In(queue, t)
  /\ \A t : (\A i, j \in T!Places(t) : i = j) <=> Once(queue, t)
  BY DEF T!Places, In, Once

(* A timer that is inserted is in the queue, and every other one as it was. *)
LEMMA InsertFacts ==
  ASSUME NEW q \in Seq(T!Entries), NEW at \in Int, NEW t \in Timers
  PROVE  /\ T!Insert(q, at, t) \in Seq(T!Entries)
         /\ \A u : In(T!Insert(q, at, t), u) => In(q, u) \/ u = t
         /\ \A u : u # t /\ Once(q, u) => Once(T!Insert(q, at, t), u)
         /\ ~In(q, t) => Once(T!Insert(q, at, t), t)
<1>1. PICK k : k = Cardinality({i \in DOMAIN q : q[i].at <= at})
  OBVIOUS
<1>2. Len(q) \in Nat /\ DOMAIN q = 1 .. Len(q)
  OBVIOUS
<1>3. k \in 0 .. Len(q)
  <2>1. IsFiniteSet(1 .. Len(q)) /\ Cardinality(1 .. Len(q)) = Len(q)
    <3>1. Cardinality(1 .. Len(q)) = IF 1 > Len(q) THEN 0 ELSE Len(q) - 1 + 1
      BY <1>2, FS_Interval
    <3> QED
      BY <1>2, <3>1, FS_Interval
  <2>2. {i \in DOMAIN q : q[i].at <= at} \in SUBSET (1 .. Len(q))
    BY <1>2
  <2>3. k \in Nat /\ k <= Len(q)
    BY <1>1, <2>1, <2>2, FS_Subset, FS_CardinalityType
  <2> QED
    BY <1>2, <2>3
<1>4. PICK x : x = [at |-> at, t |-> t]
  OBVIOUS
<1>5. x \in T!Entries /\ x.t = t
  BY <1>4 DEF T!Entries
<1>6. PICK a, b : a = SubSeq(q, 1, k) /\ b = SubSeq(q, k + 1, Len(q))
  OBVIOUS
<1>7. /\ a \in Seq(T!Entries) /\ Len(a) = k /\ \A i \in 1 .. k : a[i] = q[i]
      /\ b \in Seq(T!Entries) /\ Len(b) = Len(q) - k /\ \A i \in 1 .. Len(q) - k : b[i] = q[i + k]
  <2>1. /\ a \in Seq(T!Entries) /\ Len(a) = k
        /\ \A i \in 1 .. k : a[i] = q[i]
    <3>1. Len(a) = k /\ a = [i \in 1 .. k |-> q[i]]
      BY <1>2, <1>3, <1>6
    <3>2. \A i \in 1 .. k : q[i] \in T!Entries
      BY <1>2, <1>3
    <3> QED
      BY <1>3, <3>1, <3>2
  <2>2. /\ b \in Seq(T!Entries) /\ Len(b) = Len(q) - k
        /\ \A i \in 1 .. Len(q) - k : b[i] = q[i + k]
    <3>1. k + 1 \in Int /\ Len(q) \in Int /\ \A i \in k + 1 .. Len(q) : q[i] \in T!Entries
      BY <1>2, <1>3
    <3>2. /\ b \in Seq(T!Entries) /\ Len(b) = IF k + 1 <= Len(q) THEN Len(q) - (k + 1) + 1 ELSE 0
          /\ \A i \in 1 .. Len(q) - (k + 1) + 1 : b[i] = q[(k + 1) + i - 1]
      BY <1>6, <3>1, SubSeqProperties
    <3>3. \A i \in 1 .. Len(q) - k : i \in 1 .. Len(q) - (k + 1) + 1 /\ (k + 1) + i - 1 = i + k
      BY <1>2, <1>3
    <3>4. Len(b) = Len(q) - k
      <4>1. CASE k + 1 <= Len(q)
        <5>1. Len(b) = (Len(q) - (k + 1)) + 1
          BY <3>2, <4>1
        <5> QED
          BY <1>2, <1>3, <5>1
      <4>2. CASE ~(k + 1 <= Len(q))
        <5>1. Len(b) = 0
          BY <3>2, <4>2
        <5>2. k = Len(q)
          <6>1. \A m, n \in Int : m <= n /\ ~(m + 1 <= n) => m = n
            OBVIOUS
          <6>2. k \in Int /\ Len(q) \in Int /\ k <= Len(q)
            BY <1>2, <1>3
          <6> QED
            BY ONLY <4>2, <6>1, <6>2
        <5>3. Len(q) - Len(q) = 0
          BY <1>2
        <5> QED
          BY <5>1, <5>2, <5>3
      <4> QED
        BY <4>1, <4>2
    <3> QED
      BY <3>2, <3>3, <3>4
  <2> QED
    BY <2>1, <2>2
<1>8. PICK r : r = a \o <<x>> \o b
  OBVIOUS
<1>9. /\ r \in Seq(T!Entries) /\ Len(r) = Len(q) + 1
      /\ \A i \in 1 .. k : r[i] = q[i]
      /\ r[k + 1] = x
      /\ \A i \in k + 2 .. Len(q) + 1 : r[i] = q[i - 1]
  <2>1. /\ a \o <<x>> \in Seq(T!Entries) /\ Len(a \o <<x>>) = k + 1
        /\ \A i \in 1 .. k : (a \o <<x>>)[i] = q[i]
        /\ (a \o <<x>>)[k + 1] = x
    BY <1>3, <1>5, <1>7
  <2>2. PICK p \in Seq(T!Entries) : p = a \o <<x>>
    BY <2>1
  <2>3. /\ r = p \o b /\ Len(p) = k + 1 /\ (\A i \in 1 .. k : p[i] = q[i]) /\ p[k + 1] = x
    BY <1>8, <2>1, <2>2
  <2>4. /\ r \in Seq(T!Entries) /\ Len(r) = Len(p) + Len(b)
        /\ \A i \in 1 .. Len(p) + Len(b) : r[i] = IF i <= Len(p) THEN p[i] ELSE b[i - Len(p)]
    <3>1. p \in Seq(T!Entries) /\ b \in Seq(T!Entries) /\ r = p \o b
      BY <1>7, <2>2, <2>3
    <3> QED
      BY ONLY <3>1
  <2>5. Len(r) = Len(q) + 1
    BY <1>2, <1>3, <1>7, <2>3, <2>4
  <2>6. \A i \in 1 .. k + 1 : r[i] = p[i]
    BY <1>2, <1>3, <1>7, <2>3, <2>4
  <2>7. ASSUME NEW i \in k + 2 .. Len(q) + 1 PROVE r[i] = q[i - 1]
    <3>1. i - (k + 1) \in 1 .. Len(q) - k /\ i \in 1 .. Len(p) + Len(b) /\ ~(i <= Len(p))
          /\ (i - (k + 1)) + k = i - 1
      BY <1>2, <1>3, <1>7, <2>3, <2>7
    <3>2. r[i] = b[i - (k + 1)]
      BY <2>3, <2>4, <3>1
    <3> QED
      BY <1>7, <3>1, <3>2
  <2>8. (\A i \in 1 .. k : r[i] = q[i]) /\ r[k + 1] = x
    BY <1>3, <2>3, <2>6
  <2> QED
    BY <2>4, <2>5, <2>7, <2>8
<1>10. T!Insert(q, at, t) = r
  <2>1. \A S : T!Cardinality(S) = Cardinality(S)
    BY DEF T!Cardinality, Cardinality
  <2> QED
    BY <1>1, <1>4, <1>6, <1>8, <2>1 DEF T!Insert
<1>11. DOMAIN r = 1 .. Len(q) + 1
  BY <1>2, <1>9
<1>12. \A i \in DOMAIN r : \/ i < k + 1 /\ i \in DOMAIN q /\ r[i] = q[i]
                           \/ i = k + 1 /\ r[i].t = t
                           \/ i > k + 1 /\ i - 1 \in DOMAIN q /\ r[i] = q[i - 1]
  BY <1>2, <1>3, <1>5, <1>9, <1>11
<1>13. \A u : In(r, u) => In(q, u) \/ u = t
  BY <1>12 DEF In
<1>14. ASSUME NEW u, u # t, Once(q, u), NEW i \in DOMAIN r, NEW j \in DOMAIN r, r[i].t = u, r[j].t = u
       PROVE  i = j
  BY <1>2, <1>3, <1>11, <1>12, <1>14 DEF Once
<1>15. ASSUME ~In(q, t), NEW i \in DOMAIN r, NEW j \in DOMAIN r, r[i].t = t, r[j].t = t
       PROVE  i = j
  BY <1>12, <1>15 DEF In
<1> QED
  BY <1>9, <1>10, <1>13, <1>14, <1>15 DEF Once

(* The timers in some order, each once. *)
LEMMA OrderFacts ==
  ASSUME NEW A \in SUBSET Timers
  PROVE  /\ T!SetToSeq(A) \in Seq(Timers)
         /\ \A i, j \in DOMAIN T!SetToSeq(A) : T!SetToSeq(A)[i] = T!SetToSeq(A)[j] => i = j
         /\ \A i \in DOMAIN T!SetToSeq(A) : T!SetToSeq(A)[i] \in A
<1>1. IsFiniteSet(A)
  BY TimersAssumption, FS_Subset
<1>2. PICK n \in Nat : n = Cardinality(A)
  BY <1>1, FS_CardinalityType
<1> DEFINE Order(f) == f \in [1 .. n -> A] /\ \A i, j \in 1 .. n : f[i] = f[j] => i = j
<1>3. \E f : Order(f)
  <2>1. ExistsBijection(1 .. n, A)
    BY <1>1, <1>2, FS_CardinalityType
  <2> QED
    BY <2>1 DEF ExistsBijection, Bijection, Injection, IsInjective
<1>4. T!SetToSeq(A) = CHOOSE f \in [1 .. n -> A] : T!IsInjective(f)
  <2>1. T!Cardinality(A) = n
    BY <1>2 DEF T!Cardinality, Cardinality
  <2> QED
    BY <2>1 DEF T!SetToSeq
<1>5. \A f \in [1 .. n -> A] : T!IsInjective(f) <=> Order(f)
  BY DEF T!IsInjective
<1>6. \E f \in [1 .. n -> A] : T!IsInjective(f)
  BY <1>3, <1>5
<1>7. T!SetToSeq(A) \in [1 .. n -> A] /\ T!IsInjective(T!SetToSeq(A))
  BY <1>4, <1>6, Zenon
<1>8. Order(T!SetToSeq(A))
  BY <1>5, <1>7
<1>9. [1 .. n -> A] \subseteq Seq(Timers)
  BY IsASeq
<1> QED
  BY <1>7, <1>8, <1>9

(* The timers that are added, one after the other. *)
LEMMA InsertAllFacts ==
  ASSUME queue \in Seq(T!Entries), NEW s \in Seq(Timers),
         \A t \in Timers : T!Expire(t) \in Int,
         \A i, j \in DOMAIN s : s[i] = s[j] => i = j,
         \A i \in DOMAIN s : ~In(queue, s[i]),
         \A t : Once(queue, t)
  PROVE  /\ T!InsertAll(s) \in Seq(T!Entries)
         /\ \A t : In(T!InsertAll(s), t) => In(queue, t) \/ \E i \in DOMAIN s : s[i] = t
         /\ \A t : Once(T!InsertAll(s), t)
<1>1. PICK k \in Nat : k = Len(s) /\ DOMAIN s = 1 .. k
  OBVIOUS
<1>2. \A i \in 1 .. k : s[i] \in Timers
  BY <1>1
<1>3. PICK at \in [Timers -> Int] : \A t \in Timers : at[t] = T!Expire(t)
  <2>1. [t \in Timers |-> T!Expire(t)] \in [Timers -> Int]
    OBVIOUS
  <2> QED
    BY <2>1
<1>4. PICK q0 \in Seq(T!Entries) : q0 = queue
  OBVIOUS
<1> DEFINE E == Seq(T!Entries)
           F == [i \in 1 .. k |-> [q \in E |-> T!Insert(q, at[s[i]], s[i])]]
           Turns(q) == q = [n \in 0 .. k |-> IF n = 0 THEN q0
                                             ELSE T!Insert(q[n - 1], at[s[n]], s[n])]
<1>5. F \in [1 .. k -> [E -> E]]
  <2>1. \A i \in 1 .. k : at[s[i]] \in Int
    BY <1>2
  <2> QED
    BY <1>2, <2>1, InsertFacts
<1>6. PICK g \in [0 .. k -> E] : g[0] = q0 /\ \A i \in 1 .. k : g[i] = F[i][g[i - 1]]
  <2> HIDE DEF E, F
  <2>1. q0 \in E
    BY DEF E
  <2>2. Unfolds(E, F, q0, k)
    BY <1>5, <2>1, Unfolded
  <2> QED
    BY <2>2 DEF Unfolds
<1>7. \A i \in 1 .. k : g[i] = T!Insert(g[i - 1], at[s[i]], s[i])
  <2>1. \A i \in 1 .. k : g[i - 1] \in E
    BY <1>6
  <2> QED
    BY <1>6, <2>1
<1>8. Turns(g)
  <2>1. \A n \in 0 .. k : g[n] = IF n = 0 THEN q0 ELSE T!Insert(g[n - 1], at[s[n]], s[n])
    BY <1>6, <1>7
  <2> QED
    BY <1>6, <2>1
<1>9. Turns(CHOOSE q : Turns(q))
  BY <1>8, Zenon
<1>10. T!InsertAll(s) = (CHOOSE q : Turns(q))[k]
  <2>1. \A q : [n \in 0 .. k |-> IF n = 0 THEN q0 ELSE T!Insert(q[n - 1], at[s[n]], s[n])]
             = [n \in 0 .. k |-> IF n = 0 THEN queue ELSE T!Insert(q[n - 1], T!Expire(s[n]), s[n])]
    <3>1. \A n \in 0 .. k : n # 0 => at[s[n]] = T!Expire(s[n])
      BY <1>2, <1>3
    <3> QED
      BY <1>4, <3>1
  <2>2. T!InsertAll(s)
          = (CHOOSE q : q = [n \in 0 .. k |-> IF n = 0 THEN queue
                                              ELSE T!Insert(q[n - 1], T!Expire(s[n]), s[n])])[k]
    BY <1>1 DEF T!InsertAll
  <2>3. \A q : Turns(q) <=> q = [n \in 0 .. k |-> IF n = 0 THEN queue
                                              ELSE T!Insert(q[n - 1], T!Expire(s[n]), s[n])]
    BY <2>1
  <2>4. (CHOOSE q : Turns(q))
          = (CHOOSE q : q = [n \in 0 .. k |-> IF n = 0 THEN queue
                                              ELSE T!Insert(q[n - 1], T!Expire(s[n]), s[n])])
    BY <2>3
  <2> QED
    BY <2>2, <2>4
<1>11. PICK f : Turns(f) /\ T!InsertAll(s) = f[k]
  BY <1>9, <1>10
<1> DEFINE Fine(q, n) == /\ q \in E
                         /\ \A t : In(q, t) => In(q0, t) \/ \E i \in 1 .. n : s[i] = t
                         /\ \A t : Once(q, t)
           X == {n \in Nat : n <= k => Fine(f[n], n)}
<1>12. 0 \in X
  <2>1. f[0] = q0
    BY <1>11
  <2> QED
    BY <1>4, <2>1
<1>13. ASSUME NEW n \in Nat, n \in X PROVE n + 1 \in X
  <2> SUFFICES ASSUME n + 1 <= k PROVE Fine(f[n + 1], n + 1)
    OBVIOUS
  <2>1. n + 1 \in 0 .. k /\ n + 1 # 0 /\ (n + 1) - 1 = n /\ n <= k /\ n + 1 \in 1 .. k
    BY <1>1
  <2>2. f[n + 1] = T!Insert(f[n], at[s[n + 1]], s[n + 1])
    BY <1>11, <2>1
  <2>3. Fine(f[n], n)
    BY <1>13, <2>1
  <2>4. s[n + 1] \in Timers /\ at[s[n + 1]] \in Int
    BY <1>2, <2>1
  <2>5. ~In(f[n], s[n + 1])
    <3>1. \A i \in 1 .. n : s[i] # s[n + 1]
      <4>1. \A i \in 1 .. n : i \in DOMAIN s /\ n + 1 \in DOMAIN s /\ i # n + 1
        BY <1>1, <2>1
      <4> QED
        BY <4>1
    <3>2. ~In(q0, s[n + 1])
      BY <1>1, <1>4, <2>1
    <3> QED
      BY <2>3, <3>1, <3>2
  <2>6. PICK p, r, t, z : p = f[n] /\ r = f[n + 1] /\ t = s[n + 1] /\ z = at[s[n + 1]]
    OBVIOUS
  <2>7. /\ p \in Seq(T!Entries) /\ t \in Timers /\ z \in Int /\ ~In(p, t) /\ r = T!Insert(p, z, t)
        /\ \A u : Once(p, u)
    BY <2>2, <2>3, <2>4, <2>5, <2>6
  <2>8. r \in Seq(T!Entries) /\ (\A u : In(r, u) => In(p, u) \/ u = t) /\ (\A u : Once(r, u))
    <3>1. /\ T!Insert(p, z, t) \in Seq(T!Entries)
          /\ \A u : In(T!Insert(p, z, t), u) => In(p, u) \/ u = t
          /\ \A u : u # t /\ Once(p, u) => Once(T!Insert(p, z, t), u)
          /\ ~In(p, t) => Once(T!Insert(p, z, t), t)
      BY <2>7, InsertFacts
    <3> QED
      BY <2>7, <3>1
  <2>9. \A u : In(r, u) => In(q0, u) \/ \E i \in 1 .. n + 1 : s[i] = u
    <3>1. \A u : In(p, u) => In(q0, u) \/ \E i \in 1 .. n : s[i] = u
      BY <2>3, <2>6
    <3>2. 1 .. n \subseteq 1 .. n + 1 /\ n + 1 \in 1 .. n + 1
      BY <2>1
    <3> QED
      BY <2>6, <2>8, <3>1, <3>2
  <2> QED
    BY <2>6, <2>8, <2>9
<1>14. k \in X
  <2> HIDE DEF X
  <2> QED
    BY <1>12, <1>13, AllNumbers
<1>15. Fine(f[k], k)
  BY <1>14
<1>16. PICK r : r = f[k] /\ r = T!InsertAll(s)
  BY <1>11
<1>17. /\ r \in Seq(T!Entries) /\ (\A t : Once(r, t))
       /\ \A t : In(r, t) => In(queue, t) \/ \E i \in DOMAIN s : s[i] = t
  BY <1>1, <1>4, <1>15, <1>16
<1> QED
  BY <1>16, <1>17

(* The reactor starts without timers and signals. *)
LEMMA InitTimers == T!Init => T!IndInv
<1> SUFFICES ASSUME T!Init PROVE T!IndInv
  OBVIOUS
<1>1. T!TypeOK
  BY TimersAssumption DEF T!Init, T!TypeOK
<1>2. \A t \in Timers : T!Places(t) = {} /\ cur # t /\ tm[t].state = "none" /\ ~tm[t].del
                         /\ tm[t].repeats = 0 /\ runs[t] = 0
  BY TimersAssumption DEF T!Init, T!Places
<1>3. called + Len(pipe) <= raised /\ changes = {} /\ deleting = {}
  BY DEF T!Init
<1>4. T!TimersSound
  BY <1>2, <1>3 DEF T!TimersSound
<1> QED
  BY <1>1, <1>2, <1>3, <1>4 DEF T!IndInv, T!UnusedInv, T!DeletingInv, T!RepeatsInv

(* The record of a timer. *)
Fields == [state : {"none", "live", "freed"}, del : BOOLEAN, delay : BOOLEAN,
           timeout : Nat, repeats : Int, left : Int]

(* What the invariant says of one timer: its record, its runs, whether it is in the queue, *)
(* in the loop's hands, in the changelist or on the way there.                            *)
Good(x, r, in, hand, written, way) ==
  /\ written /\ ~x.del => ~in /\ ~hand
  /\ hand => ~in
  /\ x.state = "freed" => x.del /\ ~in /\ ~hand
  /\ x.repeats > 0 => r <= x.repeats
  /\ x.state = "none" => ~x.del /\ r = 0 /\ ~written /\ ~way /\ ~in /\ ~hand
  /\ way => x.del
  /\ x.repeats > 0 /\ (in \/ hand \/ (written /\ ~x.del)) => x.left > 0 /\ r + x.left = x.repeats

(* The invariant, timer by timer. *)
LEMMA TimerByTimer ==
  ASSUME T!IndInv
  PROVE  /\ T!TypeOK /\ called + Len(pipe) <= raised
         /\ \A t \in Timers : /\ Once(queue, t)
                              /\ Good(tm[t], runs[t], In(queue, t), cur = t, t \in changes, t \in deleting)
<1>1. \A t \in Timers : /\ T!Places(t) = {} <=> ~In(queue, t)
                        /\ (\A i, j \in T!Places(t) : i = j) <=> Once(queue, t)
  BY PlacesAre
<1> QED
  BY <1>1 DEF T!IndInv, T!TimersSound, T!UnusedInv, T!DeletingInv, T!RepeatsInv, Good

(* And after a step. *)
LEMMA TimerByTimerAfter ==
  ASSUME T!TypeOK', called' + Len(pipe') <= raised',
         \A t \in Timers : /\ Once(queue', t)
                           /\ Good(tm'[t], runs'[t], In(queue', t), cur' = t, t \in changes', t \in deleting')
  PROVE  T!IndInv'
<1>1. \A t \in Timers : /\ T!Places(t)' = {} <=> ~In(queue', t)
                        /\ (\A i, j \in T!Places(t)' : i = j) <=> Once(queue', t)
  BY DEF T!Places, In, Once
<1>2. deleting' \in SUBSET Timers
  BY DEF T!TypeOK
<1> QED
  BY <1>1, <1>2 DEF T!IndInv, T!TimersSound, T!UnusedInv, T!DeletingInv, T!RepeatsInv, Good

(* del_timer() sets the status of one timer. *)
LEMMA DelTimerKeeps == ASSUME T!IndInv, NEW u \in Timers, T!DelTimer(u) PROVE T!IndInv'
<1>1. /\ tm[u].state = "live" /\ tm' = [tm EXCEPT ![u].del = TRUE] /\ deleting' = deleting \cup {u}
      /\ UNCHANGED <<now, runs, changes, queue, tlpc, cur, pipe, raised, called>>
  BY DEF T!DelTimer, T!loop, T!signals
<1>2. /\ T!TypeOK /\ called + Len(pipe) <= raised
      /\ \A t \in Timers : /\ Once(queue, t)
                           /\ Good(tm[t], runs[t], In(queue, t), cur = t, t \in changes, t \in deleting)
  BY TimerByTimer
<1>3. tm \in [Timers -> Fields]
  BY <1>2 DEF T!TypeOK, Fields
<1>4. PICK x : x = [tm[u] EXCEPT !.del = TRUE]
  OBVIOUS
<1>5. /\ x \in Fields /\ x.del = TRUE /\ x.state = tm[u].state /\ x.repeats = tm[u].repeats
      /\ x.left = tm[u].left
  BY <1>3, <1>4 DEF Fields
<1>6. tm' = [tm EXCEPT ![u] = x]
  BY <1>1, <1>4
<1>7. tm' \in [Timers -> Fields] /\ tm'[u] = x /\ \A t \in Timers : t # u => tm'[t] = tm[t]
  BY <1>3, <1>5, <1>6
<1>8. T!TypeOK'
  BY <1>1, <1>2, <1>7 DEF T!TypeOK, Fields, T!Entries
<1>9. ASSUME NEW t \in Timers
      PROVE  Good(tm'[t], runs'[t], In(queue', t), cur' = t, t \in changes', t \in deleting')
  <2>1. CASE t = u
    BY <1>1, <1>2, <1>5, <1>7, <2>1 DEF Good
  <2>2. CASE t # u
    BY <1>1, <1>2, <1>7, <2>2 DEF Good
  <2> QED
    BY <2>1, <2>2
<1> QED
  BY <1>1, <1>2, <1>8, <1>9, TimerByTimerAfter

(* del_timer() writes the changelist. *)
LEMMA DelTimerWritesKeeps == ASSUME T!IndInv, NEW u \in Timers, T!DelTimerWrites(u) PROVE T!IndInv'
<1>1. /\ u \in deleting /\ deleting' = deleting \ {u} /\ changes' = changes \cup {u}
      /\ UNCHANGED <<now, tm, runs, queue, tlpc, cur, pipe, raised, called>>
  BY DEF T!DelTimerWrites, T!loop, T!signals
<1>2. /\ T!TypeOK /\ called + Len(pipe) <= raised
      /\ \A t \in Timers : /\ Once(queue, t)
                           /\ Good(tm[t], runs[t], In(queue, t), cur = t, t \in changes, t \in deleting)
  BY TimerByTimer
<1>3. T!TypeOK'
  BY <1>1, <1>2 DEF T!TypeOK, T!Entries
<1>4. ASSUME NEW t \in Timers
      PROVE  Good(tm'[t], runs'[t], In(queue', t), cur' = t, t \in changes', t \in deleting')
  BY <1>1, <1>2 DEF Good
<1> QED
  BY <1>1, <1>2, <1>3, <1>4, TimerByTimerAfter

(* add_timer() takes a timer nobody has added. *)
LEMMA AddTimerKeeps ==
  ASSUME T!IndInv, NEW u \in Timers, NEW d \in BOOLEAN, NEW to \in Timeouts, NEW n \in Repeats,
         T!AddTimer(u, d, to, n)
  PROVE  T!IndInv'
<1>1. PICK x : x = [state |-> "live", del |-> FALSE, delay |-> d, timeout |-> to, repeats |-> n,
                    left |-> n]
  OBVIOUS
<1>2. /\ tm[u].state = "none" /\ tm' = [tm EXCEPT ![u] = x] /\ changes' = changes \cup {u}
      /\ UNCHANGED <<now, runs, deleting, queue, tlpc, cur, pipe, raised, called>>
  BY <1>1 DEF T!AddTimer, T!loop, T!signals
<1>3. /\ T!TypeOK /\ called + Len(pipe) <= raised
      /\ \A t \in Timers : /\ Once(queue, t)
                           /\ Good(tm[t], runs[t], In(queue, t), cur = t, t \in changes, t \in deleting)
  BY TimerByTimer
<1>4. tm \in [Timers -> Fields] /\ runs \in [Timers -> Nat]
  BY <1>3 DEF T!TypeOK, Fields
<1>5. to \in Nat /\ n \in Int
  BY TimersAssumption
<1>6. x \in Fields /\ x.del = FALSE /\ x.state = "live" /\ x.repeats = n /\ x.left = n
  BY <1>1, <1>5 DEF Fields
<1>7. tm' \in [Timers -> Fields] /\ tm'[u] = x /\ \A t \in Timers : t # u => tm'[t] = tm[t]
  BY <1>2, <1>4, <1>6
<1>8. T!TypeOK'
  BY <1>2, <1>3, <1>7 DEF T!TypeOK, Fields, T!Entries
<1>9. ASSUME NEW t \in Timers
      PROVE  Good(tm'[t], runs'[t], In(queue', t), cur' = t, t \in changes', t \in deleting')
  <2>1. CASE t = u
    <3>1. runs[u] = 0 /\ ~In(queue, u) /\ cur # u /\ u \notin deleting
      BY <1>2, <1>3 DEF Good
    <3>2. runs'[u] = 0 /\ ~In(queue', u) /\ cur' # u /\ u \notin deleting'
      BY <1>2, <3>1
    <3>3. 0 + n = n
      BY <1>5
    <3> QED
      BY <1>5, <1>6, <1>7, <2>1, <3>2, <3>3 DEF Good
  <2>2. CASE t # u
    BY <1>2, <1>3, <1>7, <2>2 DEF Good
  <2> QED
    BY <2>1, <2>2
<1> QED
  BY <1>2, <1>3, <1>8, <1>9, TimerByTimerAfter

(* A step that leaves the timers where they are. *)
LEMMA TimersKept ==
  ASSUME T!IndInv, UNCHANGED <<tm, runs, deleting, queue, cur>>,
         \A t \in Timers : t \in changes' <=> t \in changes,
         now' \in Nat, changes' \in SUBSET (Timers \cup SigNums),
         tlpc' \in {"load", "sleep", "timers", "run"}, tlpc' = "run" <=> tlpc = "run",
         pipe' \in Seq(SigNums), raised' \in Nat, called' \in Nat, called' + Len(pipe') <= raised'
  PROVE  T!IndInv'
<1>1. /\ T!TypeOK
      /\ \A t \in Timers : /\ Once(queue, t)
                           /\ Good(tm[t], runs[t], In(queue, t), cur = t, t \in changes, t \in deleting)
  BY TimerByTimer
<1>2. T!TypeOK'
  BY <1>1 DEF T!TypeOK, T!Entries
<1>3. ASSUME NEW t \in Timers
      PROVE  Good(tm'[t], runs'[t], In(queue', t), cur' = t, t \in changes', t \in deleting')
  BY <1>1 DEF Good
<1> QED
  BY <1>1, <1>2, <1>3, TimerByTimerAfter

(* Signals, the clock and the end of epoll_wait(). *)
LEMMA OtherKeeps ==
  ASSUME T!IndInv,
         \/ \E s \in SigNums : T!AddSignal(s) \/ T!Signal(s)
         \/ T!Tick \/ T!Dispatch
  PROVE  T!IndInv'
<1>0. T!TypeOK /\ T!TimersSound
  BY DEF T!IndInv
<1>1. UNCHANGED <<tm, runs, deleting, queue, cur>>
  BY DEF T!AddSignal, T!Signal, T!Tick, T!Dispatch, T!loop
<1>2. /\ \A t \in Timers : t \in changes' <=> t \in changes
      /\ now' \in Nat /\ changes' \in SUBSET (Timers \cup SigNums)
  BY <1>0, TimersAssumption DEF T!AddSignal, T!Signal, T!Tick, T!Dispatch, T!loop, T!TypeOK
<1>3. tlpc' \in {"load", "sleep", "timers", "run"} /\ (tlpc' = "run" <=> tlpc = "run")
  BY <1>0 DEF T!AddSignal, T!Signal, T!Tick, T!Dispatch, T!loop, T!TypeOK
<1>4. called' + Len(pipe') <= raised' /\ pipe' \in Seq(SigNums) /\ raised' \in Nat /\ called' \in Nat
  <2>1. UNCHANGED <<pipe, raised, called>> \/ (\E s \in SigNums : T!Signal(s)) \/ T!Dispatch
    BY DEF T!AddSignal, T!Tick, T!loop, T!signals
  <2>2. /\ pipe \in Seq(SigNums) /\ raised \in Nat /\ called \in Nat /\ Len(pipe) \in Nat
        /\ called + Len(pipe) <= raised
    BY <1>0 DEF T!TypeOK, T!TimersSound
  <2>3. CASE UNCHANGED <<pipe, raised, called>>
    BY <2>2, <2>3
  <2>4. ASSUME NEW s \in SigNums, T!Signal(s)
        PROVE  called' + Len(pipe') <= raised' /\ pipe' \in Seq(SigNums) /\ raised' \in Nat
               /\ called' \in Nat
    <3>1. /\ raised' = raised + 1 /\ called' = called
          /\ (pipe' = pipe \/ pipe' = Append(pipe, s))
      BY <2>4 DEF T!Signal, T!loop
    <3>2. pipe' \in Seq(SigNums) /\ (Len(pipe') = Len(pipe) \/ Len(pipe') = Len(pipe) + 1)
      BY <2>2, <3>1
    <3> QED
      BY <2>2, <3>1, <3>2
  <2>5. ASSUME T!Dispatch
        PROVE  called' + Len(pipe') <= raised' /\ pipe' \in Seq(SigNums) /\ raised' \in Nat
               /\ called' \in Nat
    <3>1. CASE pipe = <<>>
      BY <2>2, <2>5, <3>1 DEF T!Dispatch
    <3>2. CASE pipe # <<>>
      <4>1. /\ pipe' = Tail(pipe) /\ raised' = raised
            /\ (called' = called + 1 \/ called' = called + 0)
        BY <2>5, <3>2 DEF T!Dispatch
      <4>2. pipe' \in Seq(SigNums) /\ Len(pipe') = Len(pipe) - 1
        BY <2>2, <3>2, <4>1
      <4> QED
        BY <2>2, <4>1, <4>2
    <3> QED
      BY <3>1, <3>2
  <2> QED
    BY <2>1, <2>3, <2>4, <2>5
<1> QED
  BY <1>1, <1>2, <1>3, <1>4, TimersKept

(* What load_event() makes of the changelist. *)
LEMMA LoadKeeps == ASSUME T!IndInv, T!Load PROVE T!IndInv'
<1>1. /\ T!TypeOK /\ called + Len(pipe) <= raised
      /\ \A t \in Timers : /\ Once(queue, t)
                           /\ Good(tm[t], runs[t], In(queue, t), cur = t, t \in changes, t \in deleting)
  BY TimerByTimer
<1>2. tm \in [Timers -> Fields] /\ queue \in Seq(T!Entries) /\ now \in Nat
  BY <1>1 DEF T!TypeOK, Fields, T!Entries
<1>3. PICK A \in SUBSET Timers : A = {t \in changes \cap Timers : ~tm[t].del}
  OBVIOUS
<1>4. PICK s : s = T!SetToSeq(A)
  OBVIOUS
<1>5. /\ queue' = T!InsertAll(s) /\ tlpc = "load" /\ tlpc' = "sleep" /\ changes' = {}
      /\ tm' = [t \in Timers |-> IF t \in A THEN [tm[t] EXCEPT !.delay = TRUE] ELSE tm[t]]
      /\ UNCHANGED <<now, runs, deleting, cur, called, pipe, raised>>
  BY <1>3, <1>4 DEF T!Load, T!signals
<1>6. /\ s \in Seq(Timers) /\ \A i, j \in DOMAIN s : s[i] = s[j] => i = j
      /\ \A i \in DOMAIN s : s[i] \in A
  BY <1>4, OrderFacts
<1>7. \A t \in A : t \in Timers /\ ~In(queue, t) /\ t \in changes /\ ~tm[t].del
  BY <1>1, <1>3 DEF Good
<1>8. \A t : Once(queue, t)
  <2>1. \A t : t \notin Timers => Once(queue, t)
    <3>1. \A i \in DOMAIN queue : queue[i] \in T!Entries
      BY <1>2
    <3>2. \A i \in DOMAIN queue : queue[i].t \in Timers
      BY <3>1 DEF T!Entries
    <3> QED
      BY <3>2 DEF Once
  <2> QED
    BY <1>1, <2>1
<1>9. \A t \in Timers : T!Expire(t) \in Int
  <2> SUFFICES ASSUME NEW t \in Timers PROVE T!Expire(t) \in Int
    OBVIOUS
  <2>1. tm[t].timeout \in Nat
    BY <1>2 DEF Fields
  <2> QED
    BY <1>2, <2>1 DEF T!Expire
<1>10. /\ queue' \in Seq(T!Entries)
       /\ \A t : In(queue', t) => In(queue, t) \/ t \in A
       /\ \A t : Once(queue', t)
  <2>1. /\ T!InsertAll(s) \in Seq(T!Entries)
        /\ \A t : In(T!InsertAll(s), t) => In(queue, t) \/ \E i \in DOMAIN s : s[i] = t
        /\ \A t : Once(T!InsertAll(s), t)
    BY <1>2, <1>6, <1>7, <1>8, <1>9, InsertAllFacts
  <2> QED
    BY <1>5, <1>6, <2>1
<1>11. ASSUME NEW t \in Timers
       PROVE  /\ tm'[t] \in Fields /\ tm'[t].del = tm[t].del /\ tm'[t].state = tm[t].state
              /\ tm'[t].repeats = tm[t].repeats /\ tm'[t].left = tm[t].left
  <2>1. tm[t] \in Fields
    BY <1>2
  <2>2. PICK x : x = [tm[t] EXCEPT !.delay = TRUE]
    OBVIOUS
  <2>3. /\ x \in Fields /\ x.del = tm[t].del /\ x.state = tm[t].state
        /\ x.repeats = tm[t].repeats /\ x.left = tm[t].left
    BY <2>1, <2>2 DEF Fields
  <2>4. tm'[t] = x \/ tm'[t] = tm[t]
    BY <1>5, <2>2
  <2> QED
    BY <2>1, <2>3, <2>4
<1>12. tm' \in [Timers -> Fields]
  <2>1. tm' = [t \in Timers |-> tm'[t]]
    BY <1>5
  <2> QED
    BY <1>11, <2>1
<1>13. T!TypeOK'
  BY <1>1, <1>5, <1>10, <1>12 DEF T!TypeOK, Fields, T!Entries
<1>14. cur = None
  BY <1>1, <1>5 DEF T!TypeOK
<1>15. ASSUME NEW t \in Timers
       PROVE  Good(tm'[t], runs'[t], In(queue', t), cur' = t, t \in changes', t \in deleting')
  <2>1. cur # t /\ cur' # t /\ t \notin changes' /\ runs'[t] = runs[t]
        /\ (t \in deleting' <=> t \in deleting)
    BY <1>5, <1>14, TimersAssumption
  <2>2. In(queue', t) => In(queue, t) \/ (t \in changes /\ ~tm[t].del)
    BY <1>7, <1>10
  <2>3. Good(tm[t], runs[t], In(queue, t), cur = t, t \in changes, t \in deleting)
    BY <1>1
  <2> QED
    BY <1>11, <2>1, <2>2, <2>3 DEF Good
<1> QED
  BY <1>1, <1>5, <1>10, <1>13, <1>15, TimerByTimerAfter

(* The queue without its first timer. *)
LEMMA TailFacts ==
  ASSUME NEW q \in Seq(T!Entries), q # <<>>
  PROVE  /\ Tail(q) \in Seq(T!Entries) /\ Head(q).t \in Timers /\ In(q, Head(q).t)
         /\ \A u : In(Tail(q), u) => In(q, u)
         /\ \A u : Once(q, u) => Once(Tail(q), u)
         /\ Once(q, Head(q).t) => ~In(Tail(q), Head(q).t)
<1>1. /\ Tail(q) \in Seq(T!Entries) /\ Head(q) = q[1] /\ Len(q) \in Nat /\ Len(q) > 0
      /\ DOMAIN q = 1 .. Len(q)
  OBVIOUS
<1>2. /\ DOMAIN Tail(q) = 1 .. Len(q) - 1
      /\ \A i \in 1 .. Len(q) - 1 : Tail(q)[i] = q[i + 1] /\ i + 1 \in 1 .. Len(q)
  BY <1>1
<1>3. 1 \in DOMAIN q /\ q[1] \in T!Entries
  BY <1>1
<1>4. Head(q).t \in Timers /\ In(q, Head(q).t)
  BY <1>1, <1>3 DEF In, T!Entries
<1>5. \A u : In(Tail(q), u) => In(q, u)
  BY <1>1, <1>2 DEF In
<1>6. ASSUME NEW u, Once(q, u), NEW i \in DOMAIN Tail(q), NEW j \in DOMAIN Tail(q),
             Tail(q)[i].t = u, Tail(q)[j].t = u
      PROVE  i = j
  <2>1. i + 1 = j + 1
    BY <1>1, <1>2, <1>6 DEF Once
  <2> QED
    BY <1>1, <1>2, <2>1
<1>7. ASSUME Once(q, Head(q).t), NEW i \in DOMAIN Tail(q), Tail(q)[i].t = Head(q).t PROVE FALSE
  <2>1. i + 1 = 1
    BY <1>1, <1>2, <1>3, <1>7 DEF Once
  <2> QED
    BY <1>1, <1>2, <2>1
<1> QED
  BY <1>1, <1>4, <1>5, <1>6, <1>7 DEF Once, In

(* A turn of handle_timer_event(). *)
LEMMA TakeTimerKeeps == ASSUME T!IndInv, T!TakeTimer PROVE T!IndInv'
<1>1. /\ T!TypeOK /\ called + Len(pipe) <= raised
      /\ \A t \in Timers : /\ Once(queue, t)
                           /\ Good(tm[t], runs[t], In(queue, t), cur = t, t \in changes, t \in deleting)
  BY TimerByTimer
<1>2. /\ tm \in [Timers -> Fields] /\ queue \in Seq(T!Entries) /\ now \in Nat /\ raised \in Nat
      /\ called \in Nat /\ pipe \in Seq(SigNums) /\ changes \in SUBSET (Timers \cup SigNums)
  BY <1>1 DEF T!TypeOK, Fields, T!Entries
<1>3. tlpc = "timers" /\ UNCHANGED <<now, runs, deleting, changes, called, pipe, raised>>
  BY DEF T!TakeTimer, T!signals
<1>4. cur = None
  BY <1>1, <1>3 DEF T!TypeOK
<1>5. CASE queue = <<>>
  <2>1. tlpc' = "load" /\ UNCHANGED <<queue, cur, tm>>
    BY <1>5 DEF T!TakeTimer
  <2> QED
    BY <1>1, <1>2, <1>3, <2>1, TimersKept
<1>6. CASE queue # <<>>
  <2>1. PICK u : u = Head(queue).t
    OBVIOUS
  <2>2. /\ queue' = Tail(queue)
        /\ \/ tlpc' = "load" /\ cur' = cur /\ tm' = tm
           \/ tm[u].del /\ tm' = [tm EXCEPT ![u].state = "freed"] /\ tlpc' = tlpc /\ cur' = cur
           \/ ~tm[u].del /\ tlpc' = "run" /\ cur' = u /\ tm' = tm
    BY <1>6, <2>1 DEF T!TakeTimer
  <2>3. /\ queue' \in Seq(T!Entries) /\ u \in Timers /\ In(queue, u) /\ ~In(queue', u)
        /\ \A t \in Timers : (In(queue', t) => In(queue, t)) /\ Once(queue', t)
    BY <1>1, <1>2, <1>6, <2>1, <2>2, TailFacts
  <2>4. CASE tlpc' = "load" /\ cur' = cur /\ tm' = tm
    <3>1. T!TypeOK'
      BY <1>1, <1>3, <1>4, <2>3, <2>4 DEF T!TypeOK, T!Entries
    <3>2. ASSUME NEW t \in Timers
          PROVE  Good(tm'[t], runs'[t], In(queue', t), cur' = t, t \in changes', t \in deleting')
      BY <1>1, <1>3, <2>3, <2>4 DEF Good
    <3> QED
      BY <1>1, <1>3, <2>3, <3>1, <3>2, TimerByTimerAfter
  <2>5. CASE tm[u].del /\ tm' = [tm EXCEPT ![u].state = "freed"] /\ tlpc' = tlpc /\ cur' = cur
    <3>1. PICK x : x = [tm[u] EXCEPT !.state = "freed"]
      OBVIOUS
    <3>2. /\ x \in Fields /\ x.del = tm[u].del /\ x.state = "freed" /\ x.repeats = tm[u].repeats
          /\ x.left = tm[u].left
      BY <1>2, <2>3, <3>1 DEF Fields
    <3>3. tm' = [tm EXCEPT ![u] = x]
      BY <2>5, <3>1
    <3>4. tm' \in [Timers -> Fields] /\ tm'[u] = x /\ \A t \in Timers : t # u => tm'[t] = tm[t]
      BY <1>2, <2>3, <3>2, <3>3
    <3>5. T!TypeOK'
      BY <1>1, <1>3, <2>3, <2>5, <3>4 DEF T!TypeOK, Fields, T!Entries
    <3>6. ASSUME NEW t \in Timers
          PROVE  Good(tm'[t], runs'[t], In(queue', t), cur' = t, t \in changes', t \in deleting')
      <4>1. cur' # t
        BY <1>4, <2>5, TimersAssumption
      <4>2. CASE t = u
        BY <1>1, <1>3, <2>3, <2>5, <3>2, <3>4, <4>1, <4>2 DEF Good
      <4>3. CASE t # u
        BY <1>1, <1>3, <2>3, <2>5, <3>4, <4>1, <4>3 DEF Good
      <4> QED
        BY <4>2, <4>3
    <3> QED
      BY <1>1, <1>3, <2>3, <3>5, <3>6, TimerByTimerAfter
  <2>6. CASE ~tm[u].del /\ tlpc' = "run" /\ cur' = u /\ tm' = tm
    <3>1. cur' # None
      BY <2>3, <2>6, TimersAssumption
    <3>2. T!TypeOK'
      BY <1>1, <1>3, <2>3, <2>6, <3>1 DEF T!TypeOK, T!Entries
    <3>3. ASSUME NEW t \in Timers
          PROVE  Good(tm'[t], runs'[t], In(queue', t), cur' = t, t \in changes', t \in deleting')
      BY <1>1, <1>3, <2>3, <2>6 DEF Good
    <3> QED
      BY <1>1, <1>3, <2>3, <3>2, <3>3, TimerByTimerAfter
  <2> QED
    BY <2>2, <2>4, <2>5, <2>6
<1> QED
  BY <1>5, <1>6

(* timer_event::handle_event() counts the repeats down to the last run. *)
LEMMA HandleEventFacts ==
  ASSUME NEW n \in Int, NEW result \in BOOLEAN
  PROVE  /\ T!HandleEvent(n, result).left \in Int
         /\ T!HandleEvent(n, result).again /\ n > 0 =>
              T!HandleEvent(n, result).left > 0 /\ T!HandleEvent(n, result).left = n - 1
<1>1. PICK m : m = IF result /\ n > 0 THEN n - 1 ELSE n
  OBVIOUS
<1>2. PICK b \in BOOLEAN : b <=> result /\ m # 0
  OBVIOUS
<1>3. T!HandleEvent(n, result).left = m /\ (T!HandleEvent(n, result).again <=> result /\ m # 0)
  <2>1. T!HandleEvent(n, result) = [left |-> m, again |-> b]
    BY <1>1, <1>2 DEF T!HandleEvent
  <2>2. T!HandleEvent(n, result).left = m /\ T!HandleEvent(n, result).again = b
    BY <2>1
  <2> QED
    BY <1>2, <2>2
<1>4. m \in Int /\ (result /\ m # 0 /\ n > 0 => m > 0 /\ m = n - 1)
  <2>1. CASE result /\ n > 0
    BY <1>1, <2>1
  <2>2. CASE ~(result /\ n > 0)
    BY <1>1, <2>2
  <2> QED
    BY <2>1, <2>2
<1> QED
  BY <1>3, <1>4

(* The handler of the timer in hand. *)
LEMMA RunTimerKeeps == ASSUME T!IndInv, NEW result \in BOOLEAN, T!RunTimer(result) PROVE T!IndInv'
<1>1. /\ T!TypeOK /\ called + Len(pipe) <= raised
      /\ \A t \in Timers : /\ Once(queue, t)
                           /\ Good(tm[t], runs[t], In(queue, t), cur = t, t \in changes, t \in deleting)
  BY TimerByTimer
<1>2. tm \in [Timers -> Fields] /\ runs \in [Timers -> Nat]
  BY <1>1 DEF T!TypeOK, Fields
<1>3. PICK h : h = T!HandleEvent(tm[cur].left, result)
  OBVIOUS
<1>4. tlpc = "run" /\ cur \in Timers
  BY <1>1 DEF T!RunTimer, T!TypeOK
<1>5. PICK x : x = [tm[cur] EXCEPT !.left = h.left]
  OBVIOUS
<1>6. /\ runs' = [runs EXCEPT ![cur] = runs[cur] + 1] /\ tm' = [tm EXCEPT ![cur] = x]
      /\ changes' = IF h.again THEN changes \cup {cur} ELSE changes
      /\ tlpc' = "timers" /\ cur' = None
      /\ UNCHANGED <<now, deleting, queue, called, pipe, raised>>
  BY <1>3, <1>5 DEF T!RunTimer, T!signals
<1>7. tm[cur] \in Fields /\ tm[cur].left \in Int /\ tm[cur].repeats \in Int /\ runs[cur] \in Nat
  BY <1>2, <1>4 DEF Fields
<1>8. h.left \in Int /\ (h.again /\ tm[cur].left > 0 => h.left > 0 /\ h.left = tm[cur].left - 1)
  BY <1>3, <1>7, HandleEventFacts
<1>9. /\ x \in Fields /\ x.del = tm[cur].del /\ x.state = tm[cur].state
      /\ x.repeats = tm[cur].repeats /\ x.left = h.left
  BY <1>5, <1>7, <1>8 DEF Fields
<1>10. tm' \in [Timers -> Fields] /\ tm'[cur] = x /\ \A t \in Timers : t # cur => tm'[t] = tm[t]
  BY <1>2, <1>4, <1>6, <1>9
<1>11. /\ runs' \in [Timers -> Nat] /\ runs'[cur] = runs[cur] + 1
       /\ \A t \in Timers : t # cur => runs'[t] = runs[t]
  BY <1>2, <1>4, <1>6, <1>7
<1>12. changes' \in SUBSET (Timers \cup SigNums)
  BY <1>1, <1>4, <1>6 DEF T!TypeOK
<1>13. T!TypeOK'
  BY <1>1, <1>6, <1>10, <1>11, <1>12 DEF T!TypeOK, Fields, T!Entries
<1>14. ASSUME NEW t \in Timers
       PROVE  Good(tm'[t], runs'[t], In(queue', t), cur' = t, t \in changes', t \in deleting')
  <2>1. cur' # t
    BY <1>6, TimersAssumption
  <2>2. CASE t = cur
    <3>1. /\ ~In(queue, cur) /\ tm[cur].state # "freed" /\ tm[cur].state # "none"
          /\ (cur \in changes => tm[cur].del) /\ (cur \in deleting => tm[cur].del)
          /\ (tm[cur].repeats > 0 =>
                tm[cur].left > 0 /\ runs[cur] + tm[cur].left = tm[cur].repeats)
      BY <1>1, <1>4 DEF Good
    <3>2. ~In(queue', cur) /\ (cur \in deleting' <=> cur \in deleting)
      BY <1>6, <3>1
    <3>3. cur \in changes' => cur \in changes \/ h.again
      BY <1>6
    <3>4. x.repeats > 0 => runs[cur] + 1 <= x.repeats
      BY <1>7, <1>9, <3>1
    <3>5. x.repeats > 0 /\ h.again => x.left > 0 /\ runs[cur] + 1 + x.left = x.repeats
      BY <1>7, <1>8, <1>9, <3>1
    <3> QED
      BY <1>9, <1>10, <1>11, <2>1, <2>2, <3>1, <3>2, <3>3, <3>4, <3>5 DEF Good
  <2>3. CASE t # cur
    <3>1. t \in changes' <=> t \in changes
      BY <1>6, <2>3
    <3> QED
      BY <1>1, <1>6, <1>10, <1>11, <2>1, <2>3, <3>1 DEF Good
  <2> QED
    BY <2>2, <2>3
<1> QED
  BY <1>1, <1>6, <1>13, <1>14, TimerByTimerAfter

(* Every step of the timers, and one that is not theirs. *)
LEMMA TimersNext == T!IndInv /\ [NextAll]_allvars => T!IndInv'
<1> SUFFICES ASSUME T!IndInv, [NextAll]_allvars PROVE T!IndInv'
  OBVIOUS
<1>1. CASE UNCHANGED tvars
  <2>1. T!TypeOK /\ called + Len(pipe) <= raised
    BY TimerByTimer
  <2>2. /\ UNCHANGED <<tm, runs, deleting, queue, cur, changes, now, tlpc, pipe, raised, called>>
        /\ now \in Nat /\ changes \in SUBSET (Timers \cup SigNums)
        /\ tlpc \in {"load", "sleep", "timers", "run"}
        /\ pipe \in Seq(SigNums) /\ raised \in Nat /\ called \in Nat
    BY <1>1, <2>1 DEF tvars, T!TypeOK
  <2> QED
    BY <2>1, <2>2, TimersKept
<1>2. CASE T!Next
  BY <1>2, AddTimerKeeps, DelTimerKeeps, DelTimerWritesKeeps, OtherKeeps, LoadKeeps, TakeTimerKeeps,
     RunTimerKeeps DEF T!Next
<1> QED
  BY <1>1, <1>2 DEF NextAll, allvars

(***************************************************************************)
(* A timer waits in one place only, is freed only when it is nowhere in the    *)
(* loop, and runs no more often than was asked (reactor::handle_timer_event(),*)
(* load_event(), timer_event::handle_event()).                               *)
(***************************************************************************)
THEOREM TimersStaySound == InitAll /\ [][NextAll]_allvars => []TimersSound
<1>1. InitAll => T!IndInv
  BY InitTimers DEF InitAll
<1>2. T!IndInv => TimersSound
  BY DEF T!IndInv, TimersSound
<1> QED
  BY <1>1, <1>2, TimersNext, PTL
=============================================================================
