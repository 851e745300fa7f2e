-------------------------- MODULE TimeWheel_proof ---------------------------
(* Proofs about TimeWheel: for every number of timers, slots and callers, even *)
(* after deletions have damaged the lists, every variable stays in its range   *)
(* and a slot of the pool is free exactly when its timer has no state; and     *)
(* until the first deletion the linked lists are whole and the handlers run in *)
(* the tick their timers asked for.  And about Monitor, whose runs they start. *)
EXTENDS MCTimeWheel, SequenceTheorems, FiniteSetTheorems, WellFoundedInduction, TLAPS

-----------------------------------------------------------------------------
(* The lists by name. *)
LEMMA ListNames ==
  /\ \A i \in 0 .. N - 1 : Near(i) \in Lists
  /\ Hang \in Lists /\ Active \in Lists /\ Change(0) \in Lists /\ Change(1) \in Lists
  BY DEF Lists

(* Front and Back are changelists. *)
LEMMA ChangeNames == TypeOK => Front \in Lists /\ Back \in Lists
<1> SUFFICES ASSUME TypeOK PROVE Front \in Lists /\ Back \in Lists
  OBVIOUS
<1>1. frontidx = 0 \/ frontidx = 1
  BY DEF TypeOK
<1>2. 1 - 0 = 1 /\ 1 - 1 = 0
  OBVIOUS
<1> QED
  BY <1>1, <1>2, ListNames DEF Front, Back

(* Positions modulo the number of slots. *)
LEMMA SlotType == \A x \in Int : x % N \in 0 .. N - 1
  BY SlotsAssumption

(* _nexttime - _tickcount, unsigned, is a word. *)
LEMMA AheadType == ASSUME TypeOK, NEW time \in Nat PROVE Ahead(time) \in Nat
<1>1. time - tickcount \in Int /\ Word \in Nat \ {0}
  BY WordAssumption, SlotsAssumption, BoundsAssumption DEF TypeOK
<1>2. \A x \in Int : x % Word \in Nat
  BY <1>1
<1> QED
  BY <1>1, <1>2 DEF Ahead

(* Every place a timer may be put into or looked for is a list. *)
LEMMA PlaceType ==
  ASSUME TypeOK, NEW time \in Nat
  PROVE  Place(time) \in Lists /\ RemovePlace(time) \in Lists
<1>1. Ahead(time) \in Int /\ time \in Int /\ tickcount \in Int
  BY AheadType, BoundsAssumption DEF TypeOK
<1>2. /\ (IF Ahead(time) > 0 THEN time ELSE tickcount) \in Int
      /\ (IF Ahead(time) > 0 THEN Ahead(time) ELSE tickcount) \in Int
  BY <1>1
<1>3. /\ Near((IF Ahead(time) > 0 THEN time ELSE tickcount) % N) \in Lists
      /\ Near((IF Ahead(time) > 0 THEN Ahead(time) ELSE tickcount) % N) \in Lists
  BY <1>2, SlotType, ListNames
<1> QED
  BY <1>3, ListNames DEF Place, RemovePlace

-----------------------------------------------------------------------------
(* push_back() on a list whose head has a predecessor gives links again. *)
LEMMA PushBackType ==
  ASSUME NEW m \in LinksType, NEW l \in Lists, NEW t \in Timers, PushOK(m, l)
  PROVE  PushBack(m, l, t) \in LinksType
<1>0. /\ m.head \in [Lists -> Timers \cup {Null}] /\ m.count \in [Lists -> Nat]
      /\ m.prev \in [Timers -> Timers \cup {Null}] /\ m.next \in [Timers -> Timers \cup {Null}]
  BY DEF LinksType
<1> DEFINE h == m.head[l]
           n == m.count[l] + 1
           c == [m.count EXCEPT ![l] = n]
<1>1. c \in [Lists -> Nat]
  <2>1. n \in Nat
    BY <1>0
  <2> HIDE DEF n
  <2> QED
    BY <1>0, <2>1
<1>2. CASE h = Null
  <2> DEFINE H == [m.head EXCEPT ![l] = t]
             P == [m.prev EXCEPT ![t] = t]
             X == [m.next EXCEPT ![t] = t]
  <2>1. PushBack(m, l, t) = [head |-> H, count |-> c, prev |-> P, next |-> X]
    BY <1>2 DEF PushBack, LinksType
  <2>2. /\ H \in [Lists -> Timers \cup {Null}] /\ P \in [Timers -> Timers \cup {Null}]
        /\ X \in [Timers -> Timers \cup {Null}]
    BY <1>0
  <2> HIDE DEF H, P, X, c
  <2> QED
    BY <1>1, <2>1, <2>2 DEF LinksType
<1>3. CASE h # Null
  <2> DEFINE g == m.prev[h]
             P == [[m.prev EXCEPT ![t] = g] EXCEPT ![h] = t]
             X == [[m.next EXCEPT ![t] = h] EXCEPT ![g] = t]
  <2>1. h \in Timers /\ g \in Timers
    BY <1>0, <1>3 DEF PushOK
  <2>2. PushBack(m, l, t) = [head |-> m.head, count |-> c, prev |-> P, next |-> X]
    BY <1>3 DEF PushBack, LinksType
  <2>3. P \in [Timers -> Timers \cup {Null}] /\ X \in [Timers -> Timers \cup {Null}]
    BY <1>0, <2>1
  <2> HIDE DEF P, X, c
  <2> QED
    BY <1>0, <1>1, <2>2, <2>3 DEF LinksType
<1> QED
  BY <1>2, <1>3

(* pop() where its ASSERTs hold gives links again. *)
LEMMA PopType ==
  ASSUME NEW m \in LinksType, NEW l \in Lists, NEW t \in Timers, PopOK(m, l, t)
  PROVE  Pop(m, l, t) \in LinksType
<1>1. CASE t = m.head[l] /\ m.count[l] = 1
  BY <1>1 DEF Pop, LinksType
<1>2. CASE ~(t = m.head[l] /\ m.count[l] = 1)
  <2>1. m.next[t] \in Timers /\ m.prev[t] \in Timers /\ m.count[l] - 1 \in Nat
    BY <1>2 DEF PopOK, LinksType
  <2> QED
    BY <1>2, <2>1 DEF Pop, LinksType
<1> QED
  BY <1>1, <1>2

(* Emptying two lists and swapping one with a third gives links again. *)
LEMMA HandlingLinks ==
  ASSUME NEW m \in LinksType, NEW f \in Lists, NEW a \in Lists, NEW s \in Lists
  PROVE  Swap([m EXCEPT !.head[f] = Null, !.count[f] = 0,
                        !.head[a] = Null, !.count[a] = 0], a, s) \in LinksType
<1> DEFINE e == [m EXCEPT !.head[f] = Null, !.count[f] = 0, !.head[a] = Null, !.count[a] = 0]
<1>1. e \in LinksType
  BY DEF LinksType
<1> HIDE DEF e
<1>2. Swap(e, a, s) \in LinksType
  BY <1>1 DEF Swap, LinksType
<1> QED
  BY <1>2 DEF e

-----------------------------------------------------------------------------
(* A slot leaves the pool and its timer gets a state. *)
LEMMA TakeSlot ==
  ASSUME TypeOK, PoolSound, pool # << >>, pool' = Tail(pool),
         NEW t, t = Head(pool), NEW v, v # "none", state' = [state EXCEPT ![t] = v]
  PROVE  t \in Timers /\ state[t] = "none" /\ pool' \in Seq(Timers) /\ PoolSound'
<1>0. pool \in Seq(Timers) /\ DOMAIN state = Timers
  BY DEF TypeOK
<1>1. /\ Len(pool) \in Nat /\ Len(pool) > 0 /\ DOMAIN pool = 1 .. Len(pool)
      /\ t = pool[1] /\ t \in Timers
      /\ pool' \in Seq(Timers) /\ Len(pool') = Len(pool) - 1
      /\ DOMAIN pool' = 1 .. Len(pool) - 1
      /\ \A i \in 1 .. Len(pool) - 1 : pool'[i] = pool[i + 1]
  BY <1>0
<1>2. state[t] = "none"
  BY <1>1 DEF PoolSound
<1>3. ASSUME NEW i \in DOMAIN pool', NEW j \in DOMAIN pool', pool'[i] = pool'[j]
      PROVE  i = j
  <2>1. i + 1 \in DOMAIN pool /\ j + 1 \in DOMAIN pool /\ pool[i + 1] = pool[j + 1]
    BY <1>1, <1>3
  <2>2. i + 1 = j + 1
    BY <2>1 DEF PoolSound
  <2> QED
    BY <1>1, <2>2
<1>4. ASSUME NEW u \in Timers
      PROVE  state'[u] = "none" <=> \E i \in DOMAIN pool' : pool'[i] = u
  <2>1. CASE u = t
    <3>1. state'[u] # "none"
      BY <1>0, <2>1
    <3>2. ASSUME NEW i \in DOMAIN pool' PROVE pool'[i] # t
      <4>1. i + 1 \in DOMAIN pool /\ 1 \in DOMAIN pool /\ i + 1 # 1
        BY <1>1
      <4> QED
        BY <1>1, <4>1 DEF PoolSound
    <3> QED
      BY <2>1, <3>1, <3>2
  <2>2. CASE u # t
    <3>1. state'[u] = state[u]
      BY <1>0, <2>2
    <3>2. ASSUME NEW i \in DOMAIN pool, pool[i] = u
          PROVE  \E j \in DOMAIN pool' : pool'[j] = u
      <4>1. i - 1 \in DOMAIN pool' /\ (i - 1) + 1 = i
        BY <1>1, <2>2, <3>2
      <4> QED
        BY <1>1, <3>2, <4>1
    <3>3. ASSUME NEW i \in DOMAIN pool', pool'[i] = u
          PROVE  \E j \in DOMAIN pool : pool[j] = u
      <4>1. i + 1 \in DOMAIN pool
        BY <1>1
      <4> QED
        BY <1>1, <3>3, <4>1
    <3> QED
      BY <3>1, <3>2, <3>3 DEF PoolSound
  <2> QED
    BY <2>1, <2>2
<1>5. PoolSound'
  BY <1>3, <1>4 DEF PoolSound
<1> QED
  BY <1>1, <1>2, <1>5

(* free_timer(): the slot of a timer that has a state goes back to the pool. *)
LEMMA FreeSlot ==
  ASSUME TypeOK, PoolSound, NEW t \in Timers, state[t] # "none", FreeTimer(t)
  PROVE  /\ pool' \in Seq(Timers) /\ late' \in SUBSET Timers
         /\ state' \in [Timers -> {"none", "add", "active", "del"}]
         /\ PoolSound'
<1>0. /\ pool \in Seq(Timers) /\ state \in [Timers -> {"none", "add", "active", "del"}]
      /\ late \in SUBSET Timers
  BY DEF TypeOK
<1>1. /\ state' = [state EXCEPT ![t] = "none"] /\ pool' = <<t>> \o pool
      /\ late' = late \ {t}
  BY DEF FreeTimer
<1>2. /\ Len(pool) \in Nat /\ DOMAIN pool = 1 .. Len(pool)
      /\ pool' \in Seq(Timers) /\ Len(pool') = Len(pool) + 1
      /\ DOMAIN pool' = 1 .. Len(pool) + 1
      /\ pool'[1] = t /\ \A i \in 1 .. Len(pool) : pool'[i + 1] = pool[i]
  BY <1>0, <1>1
<1>3. \A i \in DOMAIN pool : pool[i] # t
  BY DEF PoolSound
<1>4. \A i \in DOMAIN pool' : i = 1 \/ (i - 1 \in DOMAIN pool /\ pool'[i] = pool[i - 1])
  <2>1. ASSUME NEW i \in DOMAIN pool', i # 1
        PROVE  i - 1 \in DOMAIN pool /\ pool'[i] = pool[i - 1]
    <3>1. i - 1 \in 1 .. Len(pool) /\ (i - 1) + 1 = i
      BY <1>2, <2>1
    <3> QED
      BY <1>2, <3>1
  <2> QED
    BY <2>1
<1>5. ASSUME NEW i \in DOMAIN pool', NEW j \in DOMAIN pool', pool'[i] = pool'[j]
      PROVE  i = j
  <2>1. i \in Int /\ j \in Int
    BY <1>2
  <2>2. CASE i = 1 \/ j = 1
    BY <1>2, <1>3, <1>4, <1>5, <2>2
  <2>3. CASE i # 1 /\ j # 1
    <3>1. i - 1 = j - 1
      BY <1>4, <1>5, <2>3 DEF PoolSound
    <3> QED
      BY <2>1, <3>1
  <2> QED
    BY <2>2, <2>3
<1>6. ASSUME NEW u \in Timers
      PROVE  state'[u] = "none" <=> \E i \in DOMAIN pool' : pool'[i] = u
  <2>1. CASE u = t
    <3>1. state'[u] = "none" /\ 1 \in DOMAIN pool'
      BY <1>0, <1>1, <1>2, <2>1
    <3> QED
      BY <1>2, <2>1, <3>1
  <2>2. CASE u # t
    <3>1. state'[u] = state[u]
      BY <1>0, <1>1, <2>2
    <3>2. ASSUME NEW i \in DOMAIN pool, pool[i] = u
          PROVE  \E j \in DOMAIN pool' : pool'[j] = u
      <4>1. i + 1 \in DOMAIN pool'
        BY <1>2
      <4> QED
        BY <1>2, <3>2, <4>1
    <3>3. ASSUME NEW i \in DOMAIN pool', pool'[i] = u
          PROVE  \E j \in DOMAIN pool : pool[j] = u
      BY <1>2, <1>4, <2>2, <3>3
    <3> QED
      BY <3>1, <3>2, <3>3 DEF PoolSound
  <2> QED
    BY <2>1, <2>2
<1>7. PoolSound'
  BY <1>5, <1>6 DEF PoolSound
<1> QED
  BY <1>0, <1>1, <1>2, <1>7

(* A step that moves no timer into or out of the pool. *)
LEMMA KeepSlots ==
  ASSUME PoolSound, UNCHANGED pool,
         \A t \in Timers : state'[t] = "none" <=> state[t] = "none"
  PROVE  PoolSound'
  BY DEF PoolSound

-----------------------------------------------------------------------------
(* IndInv holds of a new wheel. *)
LEMMA InitIndInv == Init => IndInv
<1> SUFFICES ASSUME Init PROVE IndInv
  OBVIOUS
<1>1. links \in LinksType
  BY DEF Init, LinksType
<1>2. pool \in Seq(Timers) /\ DOMAIN pool = Timers /\ \A i \in Timers : pool[i] = i
  <2>1. pool = [i \in 1 .. NTimers |-> i] /\ NTimers \in Nat
    BY SlotsAssumption DEF Init, Timers
  <2>2. pool \in [1 .. NTimers -> 1 .. NTimers]
    BY <2>1
  <2>3. pool \in Seq(1 .. NTimers)
    BY <2>1, <2>2
  <2> QED
    BY <2>1, <2>3 DEF Timers
<1>3. TypeOK
  <2>1. 0 \in 0 .. MaxTick /\ 0 \in 0 .. MaxDrops /\ 0 \in Nat /\ 0 \in Int
    BY BoundsAssumption
  <2>2. /\ state \in [Timers -> {"none", "add", "active", "del"}]
        /\ timeout \in [Timers -> Nat] /\ nexttime \in [Timers -> Nat]
        /\ repeats \in [Timers -> Int]
    BY <2>1 DEF Init
  <2>3. hand \in [Callers \cup {Wheel} -> Timers \cup {Null}]
    BY DEF Init
  <2>4. /\ tickcount \in 0 .. MaxTick /\ drops \in 0 .. MaxDrops /\ frontidx \in {0, 1}
        /\ left \in Nat /\ late \in SUBSET Timers /\ failed \in BOOLEAN
        /\ wpc \in {"switch", "load", "handle", "handler", "regroup"}
        /\ cur \in Timers \cup {Null}
    BY <2>1 DEF Init
  <2> QED
    BY <1>1, <1>2, <2>2, <2>3, <2>4 DEF TypeOK
<1>4. PoolSound
  BY <1>2 DEF Init, PoolSound
<1> QED
  BY <1>3, <1>4 DEF Init, IndInv, HandlerInv

(* add_timer(): a free slot becomes a timer. *)
LEMMA AddTimerStep ==
  ASSUME IndInv, NEW c \in Callers \cup {Wheel}, NEW d \in Delays, NEW k \in Timeouts,
         NEW n \in Repeats, AddTimer(c, d, k, n)
  PROVE  IndInv'
<1> DEFINE t == Head(pool)
<1>0. TypeOK /\ PoolSound /\ HandlerInv /\ k \in Nat /\ n \in Int /\ tickcount \in Nat
  BY ArgsAssumption, BoundsAssumption DEF IndInv, TypeOK
<1>1. t \in Timers /\ state[t] = "none" /\ pool' \in Seq(Timers) /\ PoolSound'
  <2>1. pool # << >> /\ pool' = Tail(pool) /\ state' = [state EXCEPT ![t] = "add"]
    BY DEF AddTimer
  <2> QED
    BY <1>0, <2>1, TakeSlot
<1>2. /\ links' = [links EXCEPT !.prev[t] = Null, !.next[t] = Null]
      /\ state' = [state EXCEPT ![t] = "add"]
      /\ timeout' = [timeout EXCEPT ![t] = k]
      /\ repeats' = [repeats EXCEPT ![t] = n]
      /\ hand' = [hand EXCEPT ![c] = t]
      /\ UNCHANGED <<tickcount, frontidx, wpc, cur, left, late, failed, drops>>
  BY DEF AddTimer
<1>3. \E v \in Nat : nexttime' = [nexttime EXCEPT ![t] = v]
  <2>1. tickcount + k \in Nat
    BY <1>0
  <2> QED
    BY <1>0, <2>1 DEF AddTimer
<1> HIDE DEF t
<1>4. links' \in LinksType
  BY <1>0, <1>1, <1>2 DEF TypeOK, LinksType
<1>5. /\ state' \in [Timers -> {"none", "add", "active", "del"}]
      /\ timeout' \in [Timers -> Nat] /\ nexttime' \in [Timers -> Nat]
      /\ repeats' \in [Timers -> Int]
      /\ hand' \in [Callers \cup {Wheel} -> Timers \cup {Null}]
  BY <1>0, <1>1, <1>2, <1>3 DEF TypeOK
<1>6. TypeOK'
  BY <1>0, <1>1, <1>2, <1>4, <1>5 DEF TypeOK
<1>7. HandlerInv'
  <2>1. ASSUME wpc = "handler" PROVE cur # t
    BY <1>0, <1>1, <2>1 DEF HandlerInv
  <2> QED
    BY <1>0, <1>2, <2>1 DEF HandlerInv, TypeOK
<1> QED
  BY <1>1, <1>6, <1>7 DEF IndInv

(* add_to_changelist(): the timer in hand is linked into the back changelist. *)
LEMMA AddToChangelistStep ==
  ASSUME IndInv, NEW c \in Callers \cup {Wheel}, AddToChangelist(c)
  PROVE  IndInv'
<1>0. TypeOK /\ PoolSound /\ HandlerInv /\ Back \in Lists
  BY ChangeNames DEF IndInv
<1>1. /\ hand[c] # Null
      /\ failed' = ~PushOK(links, Back)
      /\ links' = IF failed' THEN links ELSE PushBack(links, Back, hand[c])
      /\ hand' = [hand EXCEPT ![c] = Null]
      /\ UNCHANGED <<fields, pool, tickcount, frontidx, wpc, cur, left, late, drops>>
  BY DEF AddToChangelist
<1>2. hand[c] \in Timers /\ links \in LinksType
  BY <1>0, <1>1 DEF TypeOK
<1>3. links' \in LinksType /\ failed' \in BOOLEAN
  BY <1>0, <1>1, <1>2, PushBackType
<1>4. hand' \in [Callers \cup {Wheel} -> Timers \cup {Null}]
  BY <1>0, <1>1 DEF TypeOK
<1>5. TypeOK'
  BY <1>0, <1>1, <1>3, <1>4 DEF TypeOK, fields
<1>6. PoolSound' /\ HandlerInv'
  BY <1>0, <1>1, KeepSlots DEF HandlerInv, fields
<1> QED
  BY <1>5, <1>6 DEF IndInv

(* del_timer(): an active timer whose handler is not running gets state "del". *)
LEMMA DelTimerStep ==
  ASSUME IndInv, NEW c \in Callers \cup {Wheel}, NEW t \in Timers, DelTimer(c, t)
  PROVE  IndInv'
<1>0. TypeOK /\ PoolSound /\ HandlerInv /\ Back \in Lists
  BY ChangeNames DEF IndInv
<1>1. /\ drops < MaxDrops /\ drops' = drops + 1
      /\ state[t] = "active" /\ state' = [state EXCEPT ![t] = "del"]
      /\ ~(wpc = "handler" /\ cur = t)
      /\ failed' = ~PushOK(links, Back)
      /\ links' = IF failed' THEN links ELSE PushBack(links, Back, t)
      /\ UNCHANGED <<timeout, nexttime, repeats, pool, tickcount, frontidx, wpc, cur, left,
                     hand, late>>
  BY DEF DelTimer
<1>2. links' \in LinksType /\ failed' \in BOOLEAN
  <2>1. links \in LinksType
    BY <1>0 DEF TypeOK
  <2> QED
    BY <1>0, <1>1, <2>1, PushBackType
<1>3. /\ drops' \in 0 .. MaxDrops
      /\ state' \in [Timers -> {"none", "add", "active", "del"}]
  BY <1>0, <1>1, BoundsAssumption DEF TypeOK
<1>4. TypeOK'
  BY <1>0, <1>1, <1>2, <1>3 DEF TypeOK
<1>5. \A u \in Timers : state'[u] = IF u = t THEN "del" ELSE state[u]
  BY <1>0, <1>1 DEF TypeOK
<1>6. PoolSound'
  BY <1>0, <1>1, <1>5, KeepSlots
<1>7. HandlerInv'
  BY <1>0, <1>1, <1>5 DEF HandlerInv
<1> QED
  BY <1>4, <1>6, <1>7 DEF IndInv

(* readd_timer() of a timer that has a state, on links m. *)
LEMMA ReaddKeeps ==
  ASSUME TypeOK, PoolSound, NEW m \in LinksType, NEW t \in Timers, state[t] # "none",
         NEW time \in Nat, Readd(m, t, time)
  PROVE  /\ links' \in LinksType /\ failed' \in BOOLEAN /\ late' \in SUBSET Timers
         /\ state' \in [Timers -> {"none", "add", "active", "del"}]
         /\ pool' \in Seq(Timers) /\ PoolSound'
<1>1. /\ failed' = ~PushOK(m, Place(time))
      /\ links' = IF failed' THEN m ELSE PushBack(m, Place(time), t)
      /\ state' = [state EXCEPT ![t] = "active"]
      /\ late' = late \/ late' = late \cup {t}
      /\ UNCHANGED pool
  BY DEF Readd
<1>2. links' \in LinksType /\ failed' \in BOOLEAN
  BY <1>1, PlaceType, PushBackType
<1>3. /\ state' \in [Timers -> {"none", "add", "active", "del"}]
      /\ late' \in SUBSET Timers /\ pool' \in Seq(Timers)
      /\ \A u \in Timers : state'[u] = IF u = t THEN "active" ELSE state[u]
  BY <1>1 DEF TypeOK
<1>4. PoolSound'
  BY <1>1, <1>3, KeepSlots
<1> QED
  BY <1>2, <1>3, <1>4

(* load_timers(): one change of the front changelist is applied. *)
LEMMA LoadTimerStep == ASSUME IndInv, LoadTimer PROVE IndInv'
<1>0. TypeOK /\ PoolSound /\ links \in LinksType
  BY DEF IndInv, TypeOK
<1>1. /\ wpc = "load" /\ left > 0 /\ cur # Null
      /\ cur' = links.next[cur] /\ left' = left - 1
      /\ UNCHANGED <<timeout, nexttime, repeats, tickcount, frontidx, wpc, hand, drops>>
  BY DEF LoadTimer
<1>2. cur \in Timers /\ cur' \in Timers \cup {Null} /\ left' \in Nat /\ nexttime[cur] \in Nat
  BY <1>0, <1>1 DEF TypeOK, LinksType
<1>3. /\ links' \in LinksType /\ failed' \in BOOLEAN /\ late' \in SUBSET Timers
      /\ state' \in [Timers -> {"none", "add", "active", "del"}]
      /\ pool' \in Seq(Timers) /\ PoolSound'
  <2>1. CASE state[cur] = "add" /\ Readd(links, cur, nexttime[cur])
    BY <1>0, <1>2, <2>1, ReaddKeeps
  <2>2. CASE /\ state[cur] = "del" /\ FreeTimer(cur)
             /\ failed' = ~PopOK(links, RemovePlace(nexttime[cur]), cur)
             /\ links' = IF failed' THEN links ELSE Pop(links, RemovePlace(nexttime[cur]), cur)
    <3>1. links' \in LinksType /\ failed' \in BOOLEAN
      BY <1>0, <1>2, <2>2, PlaceType, PopType
    <3> QED
      BY <1>0, <1>2, <2>2, <3>1, FreeSlot
  <2>3. CASE UNCHANGED <<links, state, pool, late, failed>>
    BY <1>0, <2>3, KeepSlots DEF TypeOK
  <2> QED
    BY <2>1, <2>2, <2>3 DEF LoadTimer
<1>4. TypeOK'
  BY <1>0, <1>1, <1>2, <1>3 DEF TypeOK
<1> QED
  BY <1>1, <1>3, <1>4 DEF IndInv, HandlerInv

(* handle_timer(): a handler returns. *)
LEMMA HandlerReturnsStep ==
  ASSUME IndInv, NEW r \in Results, HandlerReturns(r)
  PROVE  IndInv'
<1> DEFINE m == Pop(links, Active, cur)
           n == IF repeats[cur] > 0 THEN repeats[cur] - 1 ELSE repeats[cur]
           time == nexttime[cur] + timeout[cur]
<1>0. TypeOK /\ PoolSound /\ links \in LinksType /\ Active \in Lists
  BY ListNames DEF IndInv, TypeOK
<1>1. /\ wpc = "handler" /\ (r \/ drops < MaxDrops)
      /\ drops' = IF r THEN drops ELSE drops + 1
      /\ cur' = links.next[cur] /\ left' = left - 1 /\ wpc' = "handle"
      /\ UNCHANGED <<timeout, tickcount, frontidx, hand>>
  BY DEF HandlerReturns
<1>2. cur \in Timers /\ state[cur] = "active" /\ left > 0
  BY <1>1 DEF IndInv, HandlerInv
<1>3. /\ cur' \in Timers \cup {Null} /\ left' \in Nat /\ drops' \in 0 .. MaxDrops
  BY <1>0, <1>1, <1>2, BoundsAssumption DEF TypeOK, LinksType
<1>4. n \in Int /\ time \in Nat
  BY <1>0, <1>2 DEF TypeOK
<1>5. PopOK(links, Active, cur) => m \in LinksType
  BY <1>0, <1>2, PopType
<1>6. /\ nexttime' \in [Timers -> Nat] /\ repeats' \in [Timers -> Int]
      /\ links' \in LinksType /\ failed' \in BOOLEAN /\ late' \in SUBSET Timers
      /\ state' \in [Timers -> {"none", "add", "active", "del"}]
      /\ pool' \in Seq(Timers) /\ PoolSound'
  <2>0. /\ nexttime \in [Timers -> Nat] /\ repeats \in [Timers -> Int]
        /\ failed \in BOOLEAN
    BY <1>0 DEF TypeOK
  <2>1. CASE FreeTimer(cur) /\ UNCHANGED <<links, nexttime, repeats, failed>>
    BY <1>0, <1>2, <2>0, <2>1, FreeSlot
  <2>2. CASE failed' = TRUE /\ UNCHANGED <<links, state, pool, late, nexttime, repeats>>
    BY <1>0, <2>0, <2>2, KeepSlots DEF TypeOK
  <2>3. CASE /\ PopOK(links, Active, cur) /\ links' = m
             /\ repeats' = [repeats EXCEPT ![cur] = 0]
             /\ FreeTimer(cur) /\ UNCHANGED <<nexttime, failed>>
    BY <1>0, <1>2, <1>5, <2>0, <2>3, FreeSlot
  <2>4. CASE /\ PopOK(links, Active, cur)
             /\ repeats' = [repeats EXCEPT ![cur] = n]
             /\ nexttime' = [nexttime EXCEPT ![cur] = time]
             /\ Readd(m, cur, time)
    <3> HIDE DEF m, n, time
    <3>1. nexttime' \in [Timers -> Nat] /\ repeats' \in [Timers -> Int]
      BY <1>4, <2>0, <2>4
    <3>2. m \in LinksType
      BY <1>5, <2>4
    <3> QED
      BY <1>0, <1>2, <1>4, <2>4, <3>1, <3>2, ReaddKeeps
  <2> QED
    BY <2>1, <2>2, <2>3, <2>4 DEF HandlerReturns
<1>7. TypeOK'
  BY <1>0, <1>1, <1>3, <1>6 DEF TypeOK
<1> QED
  BY <1>1, <1>6, <1>7 DEF IndInv, HandlerInv

(* The rest of tick(): no timer's fields or slot change. *)
LEMMA WalkStep ==
  ASSUME IndInv,
         SwitchChangelist \/ StartHandling \/ FollowNull \/ LockTimer \/ AdvanceTick \/ Regroup
  PROVE  IndInv'
<1>0. TypeOK /\ PoolSound /\ HandlerInv /\ links \in LinksType
      /\ Front \in Lists /\ Back \in Lists /\ Hang \in Lists /\ Active \in Lists
      /\ tickcount \in Nat
  BY ListNames, ChangeNames, BoundsAssumption DEF IndInv, TypeOK
<1>1. UNCHANGED <<fields, pool, hand, late, drops>>
  BY DEF SwitchChangelist, StartHandling, FollowNull, LockTimer, AdvanceTick, Regroup
<1>2. PoolSound'
  BY <1>0, <1>1, KeepSlots DEF fields
<1> DEFINE Walks == /\ links' \in LinksType /\ cur' \in Timers \cup {Null} /\ left' \in Nat
                    /\ tickcount' \in 0 .. MaxTick /\ frontidx' \in {0, 1} /\ failed' \in BOOLEAN
                    /\ wpc' \in {"switch", "load", "handle", "handler", "regroup"}
                    /\ wpc' = "handler" => cur' \in Timers /\ state[cur'] = "active" /\ left' > 0
<1>3. ASSUME Walks PROVE IndInv'
  <2>1. TypeOK'
    BY <1>0, <1>1, <1>3 DEF TypeOK, fields
  <2>2. HandlerInv'
    BY <1>1, <1>3 DEF HandlerInv, fields
  <2> QED
    BY <1>2, <2>1, <2>2 DEF IndInv
<1>4. SUFFICES Walks
  BY <1>3
<1>5. \A l \in Lists : links.head[l] \in Timers \cup {Null} /\ links.count[l] \in Nat
  BY <1>0 DEF LinksType
<1>6. cur # Null => cur \in Timers /\ links.next[cur] \in Timers \cup {Null}
  BY <1>0 DEF TypeOK, LinksType
<1>7. left > 0 => left - 1 \in Nat
  BY <1>0 DEF TypeOK
<1>8. CASE SwitchChangelist
  <2>1. frontidx' \in {0, 1}
    BY <1>0, <1>8 DEF SwitchChangelist, TypeOK
  <2> QED
    BY <1>0, <1>5, <1>8, <2>1 DEF SwitchChangelist, TypeOK
<1>9. CASE StartHandling
  <2>1. Near(tickcount % N) \in Lists
    BY <1>0, SlotType, ListNames
  <2>2. /\ links' \in LinksType /\ cur' = links'.head[Active] /\ left' = links'.count[Active]
        /\ wpc' = "handle" /\ UNCHANGED <<tickcount, frontidx, failed>>
    BY <1>0, <1>9, <2>1, HandlingLinks DEF StartHandling
  <2>3. cur' \in Timers \cup {Null} /\ left' \in Nat
    BY <1>0, <2>2 DEF LinksType
  <2> QED
    BY <1>0, <2>2, <2>3 DEF TypeOK
<1>10. CASE FollowNull
  BY <1>0, <1>10 DEF FollowNull, TypeOK, HandlerInv
<1>11. CASE LockTimer
  BY <1>0, <1>6, <1>7, <1>11 DEF LockTimer, TypeOK
<1>12. CASE AdvanceTick
  <2>1. tickcount' \in 0 .. MaxTick
    BY <1>0, <1>12, BoundsAssumption DEF AdvanceTick, TypeOK
  <2> QED
    BY <1>0, <1>5, <1>12, <2>1 DEF AdvanceTick, TypeOK
<1>13. CASE Regroup
  <2> DEFINE m == Pop(links, Hang, cur)
             move == Ahead(nexttime[cur]) < N
  <2>1. /\ wpc = "regroup" /\ UNCHANGED <<tickcount, frontidx>> /\ wpc' \in {"regroup", "switch"}
        /\ \/ UNCHANGED <<links, cur, left, failed>>
           \/ /\ left > 0 /\ cur # Null /\ left' = left - 1 /\ cur' = links.next[cur]
              /\ failed' = (move /\ ~(PopOK(links, Hang, cur) /\ PushOK(m, Place(nexttime[cur]))))
              /\ links' = IF move /\ ~failed' THEN PushBack(m, Place(nexttime[cur]), cur) ELSE links
    BY <1>13 DEF Regroup
  <2>2. CASE UNCHANGED <<links, cur, left, failed>>
    BY <1>0, <2>1, <2>2 DEF TypeOK
  <2>3. CASE ~UNCHANGED <<links, cur, left, failed>>
    <3>0. cur \in Timers /\ nexttime[cur] \in Nat
      BY <1>0, <1>6, <2>1, <2>3 DEF TypeOK
    <3>1. Place(nexttime[cur]) \in Lists
      BY <1>0, <3>0, PlaceType
    <3>2. PopOK(links, Hang, cur) => m \in LinksType
      BY <1>0, <3>0, PopType
    <3> HIDE DEF m, move
    <3>3. links' \in LinksType /\ failed' \in BOOLEAN
      BY <1>0, <2>1, <2>3, <3>0, <3>1, <3>2, PushBackType
    <3> QED
      BY <1>0, <1>6, <1>7, <2>1, <2>3, <3>3 DEF TypeOK
  <2> QED
    BY <2>2, <2>3
<1> QED
  BY <1>8, <1>9, <1>10, <1>11, <1>12, <1>13

(* IndInv is kept by every step. *)
LEMMA IndInvStep == IndInv /\ [Next]_vars => IndInv'
<1> SUFFICES ASSUME IndInv, [Next]_vars PROVE IndInv'
  OBVIOUS
<1>1. CASE \E c \in Callers \cup {Wheel} :
             \E d \in Delays, k \in Timeouts, n \in Repeats : AddTimer(c, d, k, n)
  BY <1>1, AddTimerStep
<1>2. CASE \E c \in Callers \cup {Wheel} : AddToChangelist(c)
  BY <1>2, AddToChangelistStep
<1>3. CASE \E c \in Callers \cup {Wheel} : \E t \in Timers : DelTimer(c, t)
  BY <1>3, DelTimerStep
<1>4. CASE LoadTimer
  BY <1>4, LoadTimerStep
<1>5. CASE \E r \in Results : HandlerReturns(r)
  BY <1>5, HandlerReturnsStep
<1>6. CASE SwitchChangelist \/ StartHandling \/ FollowNull \/ LockTimer \/ AdvanceTick \/ Regroup
  BY <1>6, WalkStep
<1>7. CASE UNCHANGED vars
  BY <1>7 DEF vars, IndInv, TypeOK, PoolSound, HandlerInv
<1> QED
  BY <1>1, <1>2, <1>3, <1>4, <1>5, <1>6, <1>7 DEF Next, Tick

(* Every variable stays in its range: no link ever leaves the pool of timers. *)
THEOREM TypeCorrect == Spec => []TypeOK
<1>1. IndInv => TypeOK
  BY DEF IndInv
<1> QED
  BY <1>1, InitIndInv, IndInvStep, PTL DEF Spec

(* A slot is free exactly when its timer has no state, and free once: however   *)
(* add_timer(), del_timer(), handlers and the wheel interleave, no timer is     *)
(* freed twice or handed out while in use, for any number of deletions.        *)
THEOREM PoolStaysSound == Spec => []PoolSound
<1>1. IndInv => PoolSound
  BY DEF IndInv
<1> QED
  BY <1>1, InitIndInv, IndInvStep, PTL DEF Spec

-----------------------------------------------------------------------------
(* Neighbours in a circle of n. *)
Succ(i, n) == IF i = n THEN 1 ELSE i + 1
Pred(i, n) == IF i = 1 THEN n ELSE i - 1

(* The links m make list l the circle of the n timers s. *)
Ring(m, l, s, n) ==
  /\ m.count[l] = n
  /\ m.head[l] = IF n = 0 THEN Null ELSE s[1]
  /\ \A i \in 1 .. n : m.next[s[i]] = s[Succ(i, n)] /\ m.prev[s[i]] = s[Pred(i, n)]

(* The next links lead from c through the n timers s. *)
Line(m, c, s, n) ==
  /\ n > 0 => c = s[1]
  /\ \A i \in 1 .. n - 1 : m.next[s[i]] = s[i + 1]

(* n different timers. *)
Different(s, n) ==
  /\ \A i \in 1 .. n : s[i] \in Timers
  /\ \A i, j \in 1 .. n : s[i] = s[j] => i = j

(* Only list l and the timers T differ. *)
Leaves(m, p, l, T) ==
  /\ \A k \in Lists \ {l} : p.head[k] = m.head[k] /\ p.count[k] = m.count[k]
  /\ \A x \in Timers \ T : p.next[x] = m.next[x] /\ p.prev[x] = m.prev[x]

(* No timer is in two places. *)
Apart(q) ==
  \A l, k \in Lists : \A i \in 1 .. Len(q[l]), j \in 1 .. Len(q[k]) :
    q[l][i] = q[k][j] => l = k /\ i = j

Placed(q, t) == \E l \in Lists : \E i \in 1 .. Len(q[l]) : q[l][i] = t

(* q[l] is list l, as far as the wheel has not taken its timers away. *)
RingsInv(q) ==
  /\ q \in [Lists -> Seq(Timers)] /\ Apart(q)
  /\ \A l \in Whole : Ring(links, l, q[l], Len(q[l]))

(* The list the wheel is in. *)
WalkInv(q) ==
  /\ wpc = "load" => left = Len(q[Front]) /\ Line(links, cur, q[Front], left)
  /\ wpc # "load" => Ring(links, Front, q[Front], 0) /\ Len(q[Front]) = 0
  /\ wpc \in {"handle", "handler"} => /\ Ring(links, Active, q[Active], left)
                                     /\ left = Len(q[Active]) /\ (left > 0 => cur = q[Active][1])
  /\ wpc \notin {"handle", "handler"} => Len(q[Active]) = 0
  /\ wpc = "regroup" => /\ left <= Len(q[Hang])
                        /\ left > 0 => cur = q[Hang][Len(q[Hang]) - left + 1]

(* States say where a timer is. *)
StatesInv(q) ==
  /\ \A l \in Lists : \A i \in 1 .. Len(q[l]) :
       state[q[l][i]] = IF l \in {Change(0), Change(1)} THEN "add" ELSE "active"
  /\ \A t \in Timers : state[t] \in {"add", "active"} => Placed(q, t) \/ \E c \in DOMAIN hand : hand[c] = t
  /\ \A t \in Timers : state[t] # "del"

HandsInv(q) ==
  /\ \A c \in DOMAIN hand : hand[c] # Null => state[hand[c]] = "add" /\ ~Placed(q, hand[c])
  /\ \A c, d \in DOMAIN hand : hand[c] # Null /\ hand[c] = hand[d] => c = d

Ghost(q) == RingsInv(q) /\ WalkInv(q) /\ StatesInv(q) /\ HandsInv(q) /\ ~failed

-----------------------------------------------------------------------------
(* push_back() into a circle, field by field. *)
LEMMA PushFields ==
  ASSUME NEW m \in LinksType, NEW l \in Lists, NEW t \in Timers, NEW h \in Timers, NEW g \in Timers,
         m.head[l] = h, m.prev[h] = g, t # h, t # g
  PROVE  LET p == PushBack(m, l, t) IN
         /\ p.head = m.head /\ p.count = [m.count EXCEPT ![l] = @ + 1]
         /\ p.prev[t] = g /\ p.prev[h] = t /\ p.next[t] = h /\ p.next[g] = t
         /\ \A x \in Timers : x # t /\ x # h => p.prev[x] = m.prev[x]
         /\ \A x \in Timers : x # t /\ x # g => p.next[x] = m.next[x]
<1>0. /\ m.head \in [Lists -> Timers \cup {Null}] /\ m.count \in [Lists -> Nat]
      /\ m.prev \in [Timers -> Timers \cup {Null}] /\ m.next \in [Timers -> Timers \cup {Null}]
      /\ m = [head |-> m.head, count |-> m.count, prev |-> m.prev, next |-> m.next]
  BY DEF LinksType
<1>1. h # Null
  BY NullAssumption
<1> DEFINE P == [[m.prev EXCEPT ![t] = g] EXCEPT ![h] = t]
           X == [[m.next EXCEPT ![t] = h] EXCEPT ![g] = t]
           C == [m.count EXCEPT ![l] = @ + 1]
<1>2. PushBack(m, l, t) = [head |-> m.head, count |-> C, prev |-> P, next |-> X]
  BY <1>0, <1>1 DEF PushBack
<1>3. /\ P[t] = g /\ P[h] = t /\ X[t] = h /\ X[g] = t
      /\ \A x \in Timers : x # t /\ x # h => P[x] = m.prev[x]
      /\ \A x \in Timers : x # t /\ x # g => X[x] = m.next[x]
  BY <1>0
<1> HIDE DEF P, X
<1> QED
  BY <1>2, <1>3

(* t is pushed behind the n timers s of list l. *)
Pushed(m, l, t, s, u, n) ==
  /\ PushOK(m, l) /\ Ring(PushBack(m, l, t), l, u, n + 1)
  /\ Leaves(m, PushBack(m, l, t), l, {t} \cup {s[i] : i \in 1 .. n})

(* push_back() puts a timer at the end of the circle and leaves the other lists alone. *)
LEMMA PushRing ==
  ASSUME NEW m \in LinksType, NEW l \in Lists, NEW t \in Timers, NEW s, NEW n \in Nat,
         Different(s, n), \A i \in 1 .. n : s[i] # t, Ring(m, l, s, n),
         NEW u, \A i \in 1 .. n : u[i] = s[i], u[n + 1] = t
  PROVE  Pushed(m, l, t, s, u, n)
<1>0. /\ m.head \in [Lists -> Timers \cup {Null}] /\ m.count \in [Lists -> Nat]
      /\ m.prev \in [Timers -> Timers \cup {Null}] /\ m.next \in [Timers -> Timers \cup {Null}]
      /\ m = [head |-> m.head, count |-> m.count, prev |-> m.prev, next |-> m.next]
  BY DEF LinksType
<1>1. CASE n = 0
  <2>1. m.head[l] = Null /\ m.count[l] = 0
    BY <1>1 DEF Ring
  <2> DEFINE H == [m.head EXCEPT ![l] = t]
             P == [m.prev EXCEPT ![t] = t]
             X == [m.next EXCEPT ![t] = t]
             C == [m.count EXCEPT ![l] = @ + 1]
  <2>2. PushBack(m, l, t) = [head |-> H, count |-> C, prev |-> P, next |-> X]
    BY <1>0, <2>1 DEF PushBack
  <2>3. H[l] = t /\ C[l] = 1 /\ P[t] = t /\ X[t] = t
    BY <1>0, <2>1
  <2>4. /\ \A k \in Lists \ {l} : H[k] = m.head[k] /\ C[k] = m.count[k]
        /\ \A x \in Timers \ {t} : P[x] = m.prev[x] /\ X[x] = m.next[x]
    BY <1>0
  <2> HIDE DEF H, P, X, C
  <2>5. Ring(PushBack(m, l, t), l, u, n + 1)
    BY <1>1, <2>2, <2>3 DEF Ring, Succ, Pred
  <2>6. Leaves(m, PushBack(m, l, t), l, {t} \cup {s[i] : i \in 1 .. n})
    BY <2>2, <2>4 DEF Leaves
  <2> QED
    BY <2>1, <2>5, <2>6 DEF PushOK, Pushed
<1>2. CASE n > 0
  <2>1. PICK h \in Timers, g \in Timers : h = s[1] /\ g = s[n]
    BY <1>2 DEF Different
  <2>2. 1 \in 1 .. n /\ n \in 1 .. n
    BY <1>2
  <2>3. m.head[l] = h /\ m.prev[h] = g /\ t # h /\ t # g
    BY <1>2, <2>1, <2>2 DEF Ring, Pred
  <2>4. PICK p : p = PushBack(m, l, t)
    OBVIOUS
  <2>5. /\ p.head = m.head /\ p.count = [m.count EXCEPT ![l] = @ + 1]
        /\ p.prev[t] = g /\ p.prev[h] = t /\ p.next[t] = h /\ p.next[g] = t
        /\ \A x \in Timers : x # t /\ x # h => p.prev[x] = m.prev[x]
        /\ \A x \in Timers : x # t /\ x # g => p.next[x] = m.next[x]
    BY <2>3, <2>4, PushFields
  <2>6. PushOK(m, l)
    BY <2>3, NullAssumption DEF PushOK
  <2>7. ASSUME NEW i \in 1 .. n + 1
        PROVE  p.next[u[i]] = u[Succ(i, n + 1)] /\ p.prev[u[i]] = u[Pred(i, n + 1)]
    <3>1. CASE i = n + 1
      BY <1>2, <2>1, <2>2, <2>5, <3>1 DEF Succ, Pred
    <3>2. CASE i \in 1 .. n
      <4>1. u[i] = s[i] /\ s[i] \in Timers /\ s[i] # t
        BY <3>2 DEF Different
      <4>2. m.next[s[i]] = s[Succ(i, n)] /\ m.prev[s[i]] = s[Pred(i, n)]
        BY <3>2 DEF Ring
      <4>3. p.next[s[i]] = u[Succ(i, n + 1)]
        <5>1. CASE i = n
          BY <2>1, <2>5, <5>1 DEF Succ
        <5>2. CASE i # n
          <6>1. s[i] # g
            BY <2>1, <2>2, <3>2, <5>2 DEF Different
          <6>2. i + 1 \in 1 .. n /\ i # n + 1
            BY <3>2, <5>2
          <6> QED
            BY <2>5, <4>1, <4>2, <5>2, <6>1, <6>2 DEF Succ
        <5> QED
          BY <5>1, <5>2
      <4>4. p.prev[s[i]] = u[Pred(i, n + 1)]
        <5>1. CASE i = 1
          BY <2>1, <2>5, <5>1 DEF Pred
        <5>2. CASE i # 1
          <6>1. s[i] # h
            BY <2>1, <2>2, <3>2, <5>2 DEF Different
          <6>2. i - 1 \in 1 .. n
            BY <3>2, <5>2
          <6> QED
            BY <2>5, <4>1, <4>2, <5>2, <6>1, <6>2 DEF Pred
        <5> QED
          BY <5>1, <5>2
      <4> QED
        BY <4>1, <4>3, <4>4
    <3> QED
      BY <3>1, <3>2
  <2>8. p.count[l] = n + 1 /\ p.head[l] = u[1]
    BY <1>0, <2>1, <2>2, <2>3, <2>5 DEF Ring
  <2>9. Ring(p, l, u, n + 1)
    BY <1>2, <2>7, <2>8 DEF Ring
  <2>10. Leaves(m, p, l, {t} \cup {s[i] : i \in 1 .. n})
    <3>1. \A k \in Lists \ {l} : p.count[k] = m.count[k]
      BY <1>0, <2>5
    <3>2. h \in {s[i] : i \in 1 .. n} /\ g \in {s[i] : i \in 1 .. n}
      BY <2>1, <2>2
    <3> QED
      BY <2>5, <3>1, <3>2 DEF Leaves
  <2> QED
    BY <2>4, <2>6, <2>9, <2>10 DEF Pushed
<1> QED
  BY <1>1, <1>2

(* Where the j-th of the others was before the i-th of a circle was taken out. *)
Skip(j, i) == IF j < i THEN j ELSE j + 1

(* Neighbours close up. *)
LEMMA SkipFacts ==
  ASSUME NEW n \in Nat, n > 1, NEW i \in 1 .. n, NEW j \in 1 .. n - 1
  PROVE  /\ Skip(j, i) \in 1 .. n /\ Skip(j, i) # i
         /\ Succ(j, n - 1) \in 1 .. n - 1 /\ Pred(j, n - 1) \in 1 .. n - 1
         /\ Skip(Succ(j, n - 1), i) = IF Succ(Skip(j, i), n) = i THEN Succ(i, n) ELSE Succ(Skip(j, i), n)
         /\ Skip(Pred(j, n - 1), i) = IF Pred(Skip(j, i), n) = i THEN Pred(i, n) ELSE Pred(Skip(j, i), n)
  BY SMTT(60) DEF Skip, Succ, Pred

(* Neighbours are each other's. *)
LEMMA CircleFacts ==
  ASSUME NEW n \in Nat, NEW i \in 1 .. n
  PROVE  /\ Succ(i, n) \in 1 .. n /\ Pred(i, n) \in 1 .. n
         /\ Pred(Succ(i, n), n) = i /\ Succ(Pred(i, n), n) = i
         /\ n > 1 => Succ(i, n) # i /\ Pred(i, n) # i
  BY SMTT(60) DEF Succ, Pred

(* pop() out of a circle of more than one, field by field. *)
LEMMA PopFields ==
  ASSUME NEW m \in LinksType, NEW l \in Lists, NEW t \in Timers, NEW h \in Timers, NEW g \in Timers,
         m.next[t] = h, m.prev[t] = g, t # h, t # g, ~(t = m.head[l] /\ m.count[l] = 1)
  PROVE  LET p == Pop(m, l, t) IN
         /\ p.head = [m.head EXCEPT ![l] = IF @ = t THEN h ELSE @]
         /\ p.count = [m.count EXCEPT ![l] = @ - 1]
         /\ p.prev[h] = g /\ p.next[g] = h
         /\ \A x \in Timers : x # t /\ x # h => p.prev[x] = m.prev[x]
         /\ \A x \in Timers : x # t /\ x # g => p.next[x] = m.next[x]
<1>0. /\ m.head \in [Lists -> Timers \cup {Null}] /\ m.count \in [Lists -> Nat]
      /\ m.prev \in [Timers -> Timers \cup {Null}] /\ m.next \in [Timers -> Timers \cup {Null}]
      /\ m = [head |-> m.head, count |-> m.count, prev |-> m.prev, next |-> m.next]
  BY DEF LinksType
<1> DEFINE P == [[m.prev EXCEPT ![h] = g] EXCEPT ![t] = Null]
           X == [[m.next EXCEPT ![g] = h] EXCEPT ![t] = Null]
           C == [m.count EXCEPT ![l] = @ - 1]
           H == [m.head EXCEPT ![l] = IF @ = t THEN h ELSE @]
<1>2. Pop(m, l, t) = [head |-> H, count |-> C, prev |-> P, next |-> X]
  BY <1>0 DEF Pop
<1>3. /\ P[h] = g /\ X[g] = h
      /\ \A x \in Timers : x # t /\ x # h => P[x] = m.prev[x]
      /\ \A x \in Timers : x # t /\ x # g => X[x] = m.next[x]
  BY <1>0
<1> HIDE DEF P, X
<1> QED
  BY <1>2, <1>3

(* t is taken out of the n timers s of list l. *)
PoppedOff(m, l, t, s, u, n) ==
  /\ PopOK(m, l, t) /\ Ring(Pop(m, l, t), l, u, n - 1)
  /\ Leaves(m, Pop(m, l, t), l, {s[j] : j \in 1 .. n})

(* pop() takes a timer out of the circle and leaves the other lists alone. *)
LEMMA PopRing ==
  ASSUME NEW m \in LinksType, NEW l \in Lists, NEW s, NEW n \in Nat, NEW i \in 1 .. n,
         Different(s, n), Ring(m, l, s, n), NEW t, t = s[i],
         NEW u, \A j \in 1 .. n - 1 : u[j] = s[Skip(j, i)]
  PROVE  PoppedOff(m, l, t, s, u, n)
<1>0. /\ m.head \in [Lists -> Timers \cup {Null}] /\ m.count \in [Lists -> Nat]
      /\ m.prev \in [Timers -> Timers \cup {Null}] /\ m.next \in [Timers -> Timers \cup {Null}]
      /\ m = [head |-> m.head, count |-> m.count, prev |-> m.prev, next |-> m.next]
  BY DEF LinksType
<1>1. /\ t \in Timers /\ m.count[l] = n /\ m.head[l] = s[1] /\ s[1] \in Timers
      /\ m.next[t] = s[Succ(i, n)] /\ m.prev[t] = s[Pred(i, n)]
  BY DEF Ring, Different
<1>2. PICK p : p = Pop(m, l, t)
  OBVIOUS
<1>3. CASE n = 1
  <2>1. t = m.head[l] /\ m.count[l] = 1
    BY <1>1, <1>3
  <2> DEFINE H == [m.head EXCEPT ![l] = Null]
             C == [m.count EXCEPT ![l] = 0]
  <2>2. p = [head |-> H, count |-> C, prev |-> m.prev, next |-> m.next]
    BY <1>0, <1>2, <2>1 DEF Pop
  <2>3. H[l] = Null /\ C[l] = 0 /\ \A k \in Lists \ {l} : H[k] = m.head[k] /\ C[k] = m.count[k]
    BY <1>0
  <2> HIDE DEF H, C
  <2>4. Ring(p, l, u, n - 1)
    BY <1>3, <2>2, <2>3 DEF Ring
  <2>5. Leaves(m, p, l, {s[j] : j \in 1 .. n})
    BY <2>2, <2>3 DEF Leaves
  <2>6. PopOK(m, l, t)
    BY <1>1, <2>1, NullAssumption DEF PopOK
  <2> QED
    BY <1>2, <2>4, <2>5, <2>6 DEF PoppedOff
<1>4. CASE n > 1
  <2>1. /\ Succ(i, n) \in 1 .. n /\ Pred(i, n) \in 1 .. n
        /\ Pred(Succ(i, n), n) = i /\ Succ(Pred(i, n), n) = i /\ Succ(i, n) # i /\ Pred(i, n) # i
    BY <1>4, CircleFacts
  <2>2. PICK h \in Timers, g \in Timers : h = s[Succ(i, n)] /\ g = s[Pred(i, n)]
    BY <2>1 DEF Different
  <2>3. m.next[t] = h /\ m.prev[t] = g /\ t # h /\ t # g /\ ~(t = m.head[l] /\ m.count[l] = 1)
    BY <1>1, <1>4, <2>1, <2>2 DEF Different
  <2>4. /\ p.head = [m.head EXCEPT ![l] = IF @ = t THEN h ELSE @]
        /\ p.count = [m.count EXCEPT ![l] = @ - 1]
        /\ p.prev[h] = g /\ p.next[g] = h
        /\ \A x \in Timers : x # t /\ x # h => p.prev[x] = m.prev[x]
        /\ \A x \in Timers : x # t /\ x # g => p.next[x] = m.next[x]
    BY <1>1, <1>2, <2>3, PopFields
  <2>5. PopOK(m, l, t)
    BY <1>1, <1>4, <2>2, <2>3, NullAssumption DEF PopOK
  <2>6. ASSUME NEW j \in 1 .. n - 1
        PROVE  p.next[u[j]] = u[Succ(j, n - 1)] /\ p.prev[u[j]] = u[Pred(j, n - 1)]
    <3>1. PICK k \in 1 .. n : k = Skip(j, i) /\ k # i
      BY <1>4, SkipFacts
    <3>2. /\ Succ(j, n - 1) \in 1 .. n - 1 /\ Pred(j, n - 1) \in 1 .. n - 1
          /\ Skip(Succ(j, n - 1), i) = IF Succ(k, n) = i THEN Succ(i, n) ELSE Succ(k, n)
          /\ Skip(Pred(j, n - 1), i) = IF Pred(k, n) = i THEN Pred(i, n) ELSE Pred(k, n)
      BY <1>4, <3>1, SkipFacts
    <3>3. u[j] = s[k] /\ s[k] \in Timers /\ s[k] # t
      BY <3>1 DEF Different
    <3>4. m.next[s[k]] = s[Succ(k, n)] /\ m.prev[s[k]] = s[Pred(k, n)]
      BY DEF Ring
    <3>5. Pred(Succ(k, n), n) = k /\ Succ(Pred(k, n), n) = k
      BY CircleFacts
    <3>6. p.next[u[j]] = u[Succ(j, n - 1)]
      <4>1. CASE Succ(k, n) = i
        <5>1. k = Pred(i, n)
          BY <3>5, <4>1
        <5> QED
          BY <2>2, <2>4, <3>2, <3>3, <4>1, <5>1
      <4>2. CASE Succ(k, n) # i
        <5>1. k # Pred(i, n)
          BY <2>1, <4>2
        <5>2. s[k] # g
          BY <2>1, <2>2, <5>1 DEF Different
        <5> QED
          BY <2>4, <3>2, <3>3, <3>4, <4>2, <5>2
      <4> QED
        BY <4>1, <4>2
    <3>7. p.prev[u[j]] = u[Pred(j, n - 1)]
      <4>1. CASE Pred(k, n) = i
        <5>1. k = Succ(i, n)
          BY <3>5, <4>1
        <5> QED
          BY <2>2, <2>4, <3>2, <3>3, <4>1, <5>1
      <4>2. CASE Pred(k, n) # i
        <5>1. k # Succ(i, n)
          BY <2>1, <4>2
        <5>2. s[k] # h
          BY <2>1, <2>2, <5>1 DEF Different
        <5> QED
          BY <2>4, <3>2, <3>3, <3>4, <4>2, <5>2
      <4> QED
        BY <4>1, <4>2
    <3> QED
      BY <3>6, <3>7
  <2>7. p.count[l] = n - 1 /\ p.head[l] = u[1]
    <3>1. p.count[l] = n - 1
      BY <1>0, <1>1, <2>4
    <3>2. p.head[l] = IF s[1] = t THEN h ELSE s[1]
      BY <1>0, <1>1, <2>4
    <3>3. 1 \in 1 .. n /\ 1 \in 1 .. n - 1
      BY <1>4
    <3>4. CASE i = 1
      <4>1. u[1] = s[2] /\ Succ(1, n) = 2
        BY <1>4, <3>3, <3>4 DEF Skip, Succ
      <4> QED
        BY <2>2, <3>1, <3>2, <3>4, <4>1
    <3>5. CASE i # 1
      <4>1. u[1] = s[1]
        BY <3>3, <3>5 DEF Skip
      <4>2. s[1] # t
        BY <3>3, <3>5 DEF Different
      <4> QED
        BY <3>1, <3>2, <4>1, <4>2
    <3> QED
      BY <3>4, <3>5
  <2>8. Ring(p, l, u, n - 1)
    BY <1>4, <2>6, <2>7 DEF Ring
  <2>9. Leaves(m, p, l, {s[j] : j \in 1 .. n})
    <3>1. \A k \in Lists \ {l} : p.count[k] = m.count[k] /\ p.head[k] = m.head[k]
      BY <1>0, <2>4
    <3>2. {t, h, g} \subseteq {s[j] : j \in 1 .. n}
      BY <2>1, <2>2
    <3> QED
      BY <2>4, <3>1, <3>2 DEF Leaves
  <2> QED
    BY <1>2, <2>5, <2>8, <2>9 DEF PoppedOff
<1> QED
  BY <1>3, <1>4

(* A list whose head, count and timers are left alone stays the circle it is. *)
LEMMA RingStays ==
  ASSUME NEW m, NEW p, NEW l, NEW T, Leaves(m, p, l, T), NEW k \in Lists, k # l,
         NEW s, NEW n \in Nat, \A i \in 1 .. n : s[i] \in Timers /\ s[i] \notin T, Ring(m, k, s, n)
  PROVE  Ring(p, k, s, n)
  BY DEF Ring, Leaves

(* And a line stays a line. *)
LEMMA LineStays ==
  ASSUME NEW m, NEW p, NEW l, NEW T, Leaves(m, p, l, T), NEW c,
         NEW s, NEW n \in Nat, \A i \in 1 .. n : s[i] \in Timers /\ s[i] \notin T, Line(m, c, s, n)
  PROVE  Line(p, c, s, n)
  BY DEF Line, Leaves

-----------------------------------------------------------------------------
(* Different lists have different names. *)
LEMMA NamesDiffer ==
  /\ \A i, j \in 0 .. N - 1 : Near(i) = Near(j) => i = j
  /\ \A i \in 0 .. N - 1 : Near(i) \notin {Hang, Active, Change(0), Change(1)}
  /\ Hang \notin {Active, Change(0), Change(1)} /\ Active \notin {Change(0), Change(1)}
  /\ Change(0) # Change(1)
  BY DEF Near, Hang, Active, Change

(* The changelists, one in front of the other. *)
LEMMA TwoChangelists ==
  ASSUME frontidx \in {0, 1}
  PROVE  Front # Back /\ {Front, Back} = {Change(0), Change(1)}
<1>1. frontidx = 0 \/ frontidx = 1
  OBVIOUS
<1>2. 1 - 0 = 1 /\ 1 - 1 = 0
  OBVIOUS
<1> QED
  BY <1>1, <1>2, NamesDiffer DEF Front, Back

(* The lists nothing iterates over, and the other two. *)
LEMMA WholeLists ==
  ASSUME frontidx \in {0, 1}
  PROVE  /\ Lists = Whole \cup {Front, Active} /\ Front \notin Whole /\ Active \notin Whole
         /\ Front # Active /\ Back \in Whole /\ Hang \in Whole /\ Front # Back
         /\ \A i \in 0 .. N - 1 : Near(i) \in Whole
         /\ \A l \in Whole : l \in {Change(0), Change(1)} => l = Back
<1>1. Front # Back /\ {Front, Back} = {Change(0), Change(1)}
  BY TwoChangelists
<1> DEFINE Nears == {Near(i) : i \in 0 .. N - 1}
<1>2. Hang \notin Nears /\ Active \notin Nears /\ Front \notin Nears /\ Back \notin Nears
  BY <1>1, NamesDiffer
<1>3. Lists = Nears \cup {Hang, Active, Change(0), Change(1)} /\ Whole = Nears \cup {Hang, Back}
  BY DEF Lists, Whole
<1>4. Front # Hang /\ Front # Active /\ Back # Hang /\ Back # Active /\ Hang # Active
  BY <1>1, NamesDiffer
<1>5. \A i \in 0 .. N - 1 : Near(i) \in Nears
  OBVIOUS
<1> HIDE DEF Nears
<1> QED
  BY <1>1, <1>2, <1>3, <1>4, <1>5

(* Where a timer is put is a slot or the hanging list. *)
LEMMA PlaceWhole ==
  ASSUME TypeOK, NEW time \in Nat
  PROVE  /\ Place(time) \in Lists /\ Place(time) \in Whole /\ Place(time) # Front /\ Place(time) # Back
         /\ Place(time) # Active /\ Place(time) \notin {Change(0), Change(1)}
<1>1. frontidx \in {0, 1}
  BY DEF TypeOK
<1>2. Place(time) = Hang \/ \E i \in 0 .. N - 1 : Place(time) = Near(i)
  <2>1. tickcount \in Int /\ time \in Int
    BY BoundsAssumption DEF TypeOK
  <2> QED
    BY <2>1, SlotType DEF Place
<1>3. Place(time) \in Whole
  BY <1>2 DEF Whole
<1>4. Place(time) \notin {Active, Change(0), Change(1)}
  BY <1>2, NamesDiffer
<1> QED
  BY <1>1, <1>3, <1>4, WholeLists, TwoChangelists

-----------------------------------------------------------------------------
(* r is q with t at the end of list l. *)
Grown(q, r, l, t) ==
  /\ r \in [Lists -> Seq(Timers)] /\ (\A k \in Lists \ {l} : r[k] = q[k])
  /\ Len(r[l]) = Len(q[l]) + 1 /\ r[l][Len(q[l]) + 1] = t
  /\ \A i \in 1 .. Len(q[l]) : r[l][i] = q[l][i]

(* r is q without the i-th timer of list l. *)
Cut(q, r, l, i) ==
  /\ r \in [Lists -> Seq(Timers)] /\ (\A k \in Lists \ {l} : r[k] = q[k])
  /\ Len(r[l]) = Len(q[l]) - 1
  /\ \A j \in 1 .. Len(q[l]) - 1 : r[l][j] = q[l][Skip(j, i)]

(* There is such an r. *)
LEMMA GrownExists ==
  ASSUME NEW q \in [Lists -> Seq(Timers)], NEW l \in Lists, NEW t \in Timers
  PROVE  \E r : Grown(q, r, l, t)
<1>1. PICK s \in Seq(Timers), n \in Nat : s = q[l] /\ n = Len(s)
  OBVIOUS
<1>2. PICK u \in Seq(Timers) : Len(u) = n + 1 /\ u[n + 1] = t /\ \A i \in 1 .. n : u[i] = s[i]
  <2>1. PICK u : u = Append(s, t)
    OBVIOUS
  <2>2. u \in Seq(Timers) /\ Len(u) = n + 1 /\ u[n + 1] = t /\ \A i \in 1 .. n : u[i] = s[i]
    BY <1>1, <2>1, AppendProperties
  <2> QED
    BY <2>2
<1>3. PICK r \in [Lists -> Seq(Timers)] : r[l] = u /\ \A k \in Lists \ {l} : r[k] = q[k]
  <2>1. [q EXCEPT ![l] = u] \in [Lists -> Seq(Timers)]
    OBVIOUS
  <2> QED
    BY <2>1
<1> QED
  BY <1>1, <1>2, <1>3 DEF Grown

(* And such a one. *)
LEMMA CutExists ==
  ASSUME NEW q \in [Lists -> Seq(Timers)], NEW l \in Lists, NEW i \in 1 .. Len(q[l])
  PROVE  \E r : Cut(q, r, l, i)
<1>1. PICK s \in Seq(Timers), n \in Nat : s = q[l] /\ n = Len(s) /\ i \in 1 .. n
  OBVIOUS
<1>2. \A j \in 1 .. n - 1 : s[Skip(j, i)] \in Timers
  <2>1. \A j \in 1 .. n - 1 : Skip(j, i) \in 1 .. n
    BY <1>1 DEF Skip
  <2> QED
    BY <1>1, <2>1
<1>3. PICK u \in Seq(Timers) : Len(u) = n - 1 /\ \A j \in 1 .. n - 1 : u[j] = s[Skip(j, i)]
  <2>1. PICK k \in Nat : k = n - 1
    BY <1>1, SMTT(30)
  <2>2. [j \in 1 .. k |-> s[Skip(j, i)]] \in Seq(Timers)
    BY <1>2, <2>1
  <2>3. PICK u \in Seq(Timers) : u = [j \in 1 .. k |-> s[Skip(j, i)]]
    BY <2>2
  <2>4. Len(u) = k
    BY <2>3
  <2> QED
    BY <2>1, <2>3, <2>4
<1>4. PICK r \in [Lists -> Seq(Timers)] : r[l] = u /\ \A k \in Lists \ {l} : r[k] = q[k]
  <2>1. [q EXCEPT ![l] = u] \in [Lists -> Seq(Timers)]
    OBVIOUS
  <2> QED
    BY <2>1
<1> QED
  BY <1>1, <1>3, <1>4 DEF Cut

(* A timer that was nowhere is in one place. *)
LEMMA GrownApart ==
  ASSUME NEW q \in [Lists -> Seq(Timers)], NEW l \in Lists, NEW t \in Timers, Apart(q), ~Placed(q, t),
         NEW r, Grown(q, r, l, t)
  PROVE  Apart(r) /\ \A x : Placed(r, x) <=> Placed(q, x) \/ x = t
<1>1. PICK n \in Nat : n = Len(q[l])
  OBVIOUS
<1>2. /\ \A k \in Lists \ {l} : r[k] = q[k]
      /\ Len(r[l]) = n + 1 /\ r[l][n + 1] = t /\ \A i \in 1 .. n : r[l][i] = q[l][i]
  BY <1>1 DEF Grown
<1>3. ASSUME NEW k \in Lists, NEW j \in 1 .. Len(r[k])
      PROVE  \/ k = l /\ j = n + 1 /\ r[k][j] = t
             \/ j \in 1 .. Len(q[k]) /\ r[k][j] = q[k][j]
  BY <1>1, <1>2
<1>4. \A k \in Lists : \A j \in 1 .. Len(q[k]) : q[k][j] # t
  BY DEF Placed
<1>5. Apart(r)
  <2> SUFFICES ASSUME NEW k \in Lists, NEW o \in Lists, NEW i \in 1 .. Len(r[k]), NEW j \in 1 .. Len(r[o]),
                      r[k][i] = r[o][j]
               PROVE  k = o /\ i = j
    BY DEF Apart
  <2>1. \/ k = l /\ i = n + 1 /\ r[k][i] = t
        \/ i \in 1 .. Len(q[k]) /\ r[k][i] = q[k][i]
    BY <1>3
  <2>2. \/ o = l /\ j = n + 1 /\ r[o][j] = t
        \/ j \in 1 .. Len(q[o]) /\ r[o][j] = q[o][j]
    BY <1>3
  <2>3. CASE i \in 1 .. Len(q[k]) /\ j \in 1 .. Len(q[o]) /\ q[k][i] = q[o][j]
    BY <2>3 DEF Apart
  <2> QED
    BY <1>4, <2>1, <2>2, <2>3
<1>6. ASSUME NEW x, Placed(q, x) PROVE Placed(r, x)
  <2>0. PICK k \in Lists : \E j \in 1 .. Len(q[k]) : q[k][j] = x
    BY <1>6 DEF Placed
  <2>1. PICK j \in 1 .. Len(q[k]) : q[k][j] = x
    BY <2>0
  <2>2. j \in 1 .. Len(r[k]) /\ r[k][j] = q[k][j]
    BY <1>1, <1>2
  <2> QED
    BY <2>1, <2>2 DEF Placed
<1>7. Placed(r, t)
  <2>1. n + 1 \in 1 .. Len(r[l])
    BY <1>2
  <2> QED
    BY <1>2, <2>1 DEF Placed
<1>8. ASSUME NEW x, Placed(r, x) PROVE Placed(q, x) \/ x = t
  BY <1>3, <1>8 DEF Placed
<1> QED
  BY <1>5, <1>6, <1>7, <1>8

(* The others are where they were, or one further to the front. *)
LEMMA CutApart ==
  ASSUME NEW q \in [Lists -> Seq(Timers)], NEW l \in Lists, NEW i \in 1 .. Len(q[l]), Apart(q),
         NEW r, Cut(q, r, l, i)
  PROVE  Apart(r) /\ \A x : Placed(r, x) <=> Placed(q, x) /\ x # q[l][i]
<1>1. PICK n \in Nat : n = Len(q[l]) /\ i \in 1 .. n
  OBVIOUS
<1>2. /\ \A k \in Lists \ {l} : r[k] = q[k]
      /\ Len(r[l]) = n - 1 /\ \A j \in 1 .. n - 1 : r[l][j] = q[l][Skip(j, i)]
  BY <1>1 DEF Cut
<1>3. /\ \A j \in 1 .. n - 1 : Skip(j, i) \in 1 .. n /\ Skip(j, i) # i
      /\ \A j, k \in 1 .. n - 1 : Skip(j, i) = Skip(k, i) => j = k
      /\ \A j \in 1 .. n : j # i => \E k \in 1 .. n - 1 : Skip(k, i) = j
  <2>1. \A j \in 1 .. n - 1 : Skip(j, i) \in 1 .. n /\ Skip(j, i) # i
    BY <1>1 DEF Skip
  <2>2. \A j, k \in 1 .. n - 1 : Skip(j, i) = Skip(k, i) => j = k
    BY <1>1 DEF Skip
  <2>3. ASSUME NEW j \in 1 .. n, j # i PROVE \E k \in 1 .. n - 1 : Skip(k, i) = j
    <3>1. CASE j < i
      <4>1. j \in 1 .. n - 1 /\ Skip(j, i) = j
        BY <1>1, <3>1 DEF Skip
      <4> QED
        BY <4>1
    <3>2. CASE j > i
      <4>1. j - 1 \in 1 .. n - 1 /\ Skip(j - 1, i) = j
        BY <1>1, <3>2 DEF Skip
      <4> QED
        BY <4>1
    <3> QED
      BY <1>1, <2>3, <3>1, <3>2
  <2> QED
    BY <2>1, <2>2, <2>3
<1>4. ASSUME NEW k \in Lists, NEW j \in 1 .. Len(r[k])
      PROVE  \/ k = l /\ j \in 1 .. n - 1 /\ r[k][j] = q[l][Skip(j, i)]
             \/ k # l /\ j \in 1 .. Len(q[k]) /\ r[k][j] = q[k][j]
  BY <1>2
<1>5. Apart(r)
  <2> SUFFICES ASSUME NEW k \in Lists, NEW o \in Lists, NEW a \in 1 .. Len(r[k]), NEW b \in 1 .. Len(r[o]),
                      r[k][a] = r[o][b]
               PROVE  k = o /\ a = b
    BY DEF Apart
  <2>1. \/ k = l /\ a \in 1 .. n - 1 /\ r[k][a] = q[l][Skip(a, i)]
        \/ k # l /\ a \in 1 .. Len(q[k]) /\ r[k][a] = q[k][a]
    BY <1>4
  <2>2. \/ o = l /\ b \in 1 .. n - 1 /\ r[o][b] = q[l][Skip(b, i)]
        \/ o # l /\ b \in 1 .. Len(q[o]) /\ r[o][b] = q[o][b]
    BY <1>4
  <2>3. PICK c : c = IF k = l THEN Skip(a, i) ELSE a
    OBVIOUS
  <2>4. PICK e : e = IF o = l THEN Skip(b, i) ELSE b
    OBVIOUS
  <2>5. c \in 1 .. Len(q[k]) /\ r[k][a] = q[k][c]
    BY <1>1, <1>3, <2>1, <2>3
  <2>6. e \in 1 .. Len(q[o]) /\ r[o][b] = q[o][e]
    BY <1>1, <1>3, <2>2, <2>4
  <2>7. k = o /\ c = e
    <3>1. q[k][c] = q[o][e]
      BY <2>5, <2>6
    <3>2. \A f \in 1 .. Len(q[k]), g \in 1 .. Len(q[o]) : q[k][f] = q[o][g] => k = o /\ f = g
      BY DEF Apart
    <3>3. c \in 1 .. Len(q[k]) /\ e \in 1 .. Len(q[o])
      BY <2>5, <2>6
    <3> QED
      BY <3>1, <3>2, <3>3
  <2> QED
    BY <1>3, <2>1, <2>2, <2>3, <2>4, <2>7
<1>6. ASSUME NEW x, Placed(q, x), x # q[l][i] PROVE Placed(r, x)
  <2>0. PICK k \in Lists : \E j \in 1 .. Len(q[k]) : q[k][j] = x
    BY <1>6 DEF Placed
  <2>1. PICK j \in 1 .. Len(q[k]) : q[k][j] = x
    BY <2>0
  <2>2. CASE k # l
    BY <1>2, <2>1, <2>2 DEF Placed
  <2>3. CASE k = l
    <3>1. j \in 1 .. n /\ j # i
      BY <1>1, <1>6, <2>1, <2>3
    <3>2. PICK o \in 1 .. n - 1 : Skip(o, i) = j
      BY <1>3, <3>1
    <3>3. r[l][o] = x /\ o \in 1 .. Len(r[l])
      BY <1>2, <2>1, <2>3, <3>2
    <3> QED
      BY <3>3 DEF Placed
  <2> QED
    BY <2>2, <2>3
<1>7. ASSUME NEW x, Placed(r, x) PROVE Placed(q, x) /\ x # q[l][i]
  <2>0. PICK k \in Lists : \E j \in 1 .. Len(r[k]) : r[k][j] = x
    BY <1>7 DEF Placed
  <2>1. PICK j \in 1 .. Len(r[k]) : r[k][j] = x
    BY <2>0
  <2>2. CASE k = l
    <3>1. j \in 1 .. n - 1 /\ r[k][j] = q[l][Skip(j, i)]
      BY <1>4, <2>2
    <3>2. PICK c \in 1 .. Len(q[l]) : c = Skip(j, i) /\ c # i
      BY <1>1, <1>3, <3>1
    <3>3. q[l][c] # q[l][i]
      BY <3>2 DEF Apart
    <3> QED
      BY <2>1, <3>1, <3>2, <3>3 DEF Placed
  <2>3. CASE k # l
    <3>1. j \in 1 .. Len(q[k]) /\ r[k][j] = q[k][j]
      BY <1>4, <2>3
    <3>2. q[k][j] # q[l][i]
      BY <2>3, <3>1 DEF Apart
    <3> QED
      BY <2>1, <3>1, <3>2 DEF Placed
  <2> QED
    BY <2>2, <2>3
<1> QED
  BY <1>5, <1>6, <1>7

(* The timers of a list are different. *)
LEMMA ListDifferent ==
  ASSUME NEW q \in [Lists -> Seq(Timers)], Apart(q), NEW l \in Lists
  PROVE  Different(q[l], Len(q[l]))
<1>1. q[l] \in Seq(Timers)
  OBVIOUS
<1>2. \A i, j \in 1 .. Len(q[l]) : q[l][i] = q[l][j] => i = j
  BY DEF Apart
<1> QED
  BY <1>1, <1>2 DEF Different

(* Lists have no timers in common. *)
LEMMA ListsApart ==
  ASSUME NEW q \in [Lists -> Seq(Timers)], Apart(q), NEW l \in Lists, NEW k \in Lists, k # l,
         NEW i \in 1 .. Len(q[k])
  PROVE  q[k][i] \in Timers /\ q[k][i] \notin {q[l][j] : j \in 1 .. Len(q[l])}
<1>1. q[k] \in Seq(Timers)
  OBVIOUS
<1>2. \A j \in 1 .. Len(q[l]) : q[k][i] # q[l][j]
  BY DEF Apart
<1>3. q[k][i] \in Timers
  BY <1>1
<1>4. q[k][i] \notin {q[l][j] : j \in 1 .. Len(q[l])}
  BY <1>2, Zenon
<1> QED
  BY <1>3, <1>4

(* The other lists under q, m stay what they are under r, p. *)
Others(m, q, p, r, l) ==
  /\ \A k \in Lists : k # l /\ Ring(m, k, q[k], Len(q[k])) => Ring(p, k, r[k], Len(r[k]))
  /\ \A c : \A k \in Lists : k # l /\ Line(m, c, q[k], Len(q[k])) => Line(p, c, r[k], Len(r[k]))

(* push_back() of a timer that is in no list. *)
LEMMA GrownRings ==
  ASSUME NEW m \in LinksType, NEW q \in [Lists -> Seq(Timers)], NEW l \in Lists, NEW t \in Timers,
         Apart(q), ~Placed(q, t), NEW r, Grown(q, r, l, t), Ring(m, l, q[l], Len(q[l]))
  PROVE  /\ PushOK(m, l) /\ Ring(PushBack(m, l, t), l, r[l], Len(r[l]))
         /\ Others(m, q, PushBack(m, l, t), r, l)
<1>1. PICK n \in Nat, s \in Seq(Timers) : n = Len(q[l]) /\ s = q[l]
  OBVIOUS
<1>2. Different(s, n) /\ Ring(m, l, s, n) /\ \A i \in 1 .. n : s[i] # t
  BY <1>1, ListDifferent DEF Placed
<1>3. PICK u : u = r[l] /\ Len(u) = n + 1 /\ u[n + 1] = t /\ \A i \in 1 .. n : u[i] = s[i]
  BY <1>1 DEF Grown
<1>4. PICK p, T : p = PushBack(m, l, t) /\ T = {t} \cup {s[i] : i \in 1 .. n}
  OBVIOUS
<1>5. PushOK(m, l) /\ Ring(p, l, u, n + 1) /\ Leaves(m, p, l, T)
  <2>1. Pushed(m, l, t, s, u, n)
    BY <1>2, <1>3, PushRing
  <2> QED
    BY <1>4, <2>1, Zenon DEF Pushed
<1>6. ASSUME NEW k \in Lists, k # l
      PROVE  /\ r[k] = q[k] /\ Len(q[k]) \in Nat
             /\ \A i \in 1 .. Len(q[k]) : q[k][i] \in Timers /\ q[k][i] \notin T
  <2>1. \A i \in 1 .. Len(q[k]) : q[k][i] \in Timers /\ q[k][i] \notin {q[l][j] : j \in 1 .. Len(q[l])}
    BY <1>6, ListsApart
  <2>2. \A i \in 1 .. Len(q[k]) : q[k][i] # t
    BY DEF Placed
  <2>3. r[k] = q[k] /\ q[k] \in Seq(Timers)
    BY <1>6 DEF Grown
  <2> QED
    BY <1>1, <1>4, <2>1, <2>2, <2>3
<1>7. ASSUME NEW k \in Lists, k # l, Ring(m, k, q[k], Len(q[k])) PROVE Ring(p, k, r[k], Len(r[k]))
  <2>1. PICK e \in Nat, v \in Seq(Timers) : v = q[k] /\ e = Len(q[k]) /\ \A i \in 1 .. e : v[i] \in Timers /\ v[i] \notin T
    BY <1>6, <1>7
  <2>2. Ring(p, k, v, e)
    BY <1>5, <1>7, <2>1, RingStays
  <2> QED
    BY <1>6, <1>7, <2>1, <2>2
<1>8. ASSUME NEW k \in Lists, NEW c, k # l, Line(m, c, q[k], Len(q[k])) PROVE Line(p, c, r[k], Len(r[k]))
  <2>1. PICK e \in Nat, v \in Seq(Timers) : v = q[k] /\ e = Len(q[k]) /\ \A i \in 1 .. e : v[i] \in Timers /\ v[i] \notin T
    BY <1>6, <1>8
  <2>2. Line(p, c, v, e)
    BY <1>5, <1>8, <2>1, LineStays
  <2> QED
    BY <1>6, <1>8, <2>1, <2>2
<1>9. Ring(p, l, r[l], Len(r[l]))
  BY <1>3, <1>5
<1>10. Others(m, q, p, r, l)
  BY <1>7, <1>8 DEF Others
<1> QED
  BY <1>4, <1>5, <1>9, <1>10

(* pop() of a timer of a list. *)
LEMMA CutRings ==
  ASSUME NEW m \in LinksType, NEW q \in [Lists -> Seq(Timers)], NEW l \in Lists, NEW i \in 1 .. Len(q[l]),
         Apart(q), NEW r, Cut(q, r, l, i), Ring(m, l, q[l], Len(q[l])), NEW t, t = q[l][i]
  PROVE  /\ PopOK(m, l, t) /\ Ring(Pop(m, l, t), l, r[l], Len(r[l]))
         /\ Others(m, q, Pop(m, l, t), r, l)
<1>1. PICK n \in Nat, s \in Seq(Timers) : n = Len(q[l]) /\ s = q[l] /\ i \in 1 .. n
  OBVIOUS
<1>2. Different(s, n) /\ Ring(m, l, s, n) /\ t = s[i]
  BY <1>1, ListDifferent
<1>3. PICK u : u = r[l] /\ Len(u) = n - 1 /\ \A j \in 1 .. n - 1 : u[j] = s[Skip(j, i)]
  BY <1>1 DEF Cut
<1>4. PICK p, T : p = Pop(m, l, t) /\ T = {s[j] : j \in 1 .. n}
  OBVIOUS
<1>5. PopOK(m, l, t) /\ Ring(p, l, u, n - 1) /\ Leaves(m, p, l, T)
  <2>1. PoppedOff(m, l, t, s, u, n)
    BY <1>1, <1>2, <1>3, PopRing
  <2> QED
    BY <1>4, <2>1, Zenon DEF PoppedOff
<1>6. ASSUME NEW k \in Lists, k # l
      PROVE  /\ r[k] = q[k] /\ Len(q[k]) \in Nat
             /\ \A j \in 1 .. Len(q[k]) : q[k][j] \in Timers /\ q[k][j] \notin T
  <2>1. \A j \in 1 .. Len(q[k]) : q[k][j] \in Timers /\ q[k][j] \notin {q[l][e] : e \in 1 .. Len(q[l])}
    BY <1>6, ListsApart
  <2>2. r[k] = q[k] /\ q[k] \in Seq(Timers)
    BY <1>6 DEF Cut
  <2> QED
    BY <1>1, <1>4, <2>1, <2>2
<1>7. ASSUME NEW k \in Lists, k # l, Ring(m, k, q[k], Len(q[k])) PROVE Ring(p, k, r[k], Len(r[k]))
  <2>1. PICK e \in Nat, v \in Seq(Timers) : v = q[k] /\ e = Len(q[k]) /\ \A j \in 1 .. e : v[j] \in Timers /\ v[j] \notin T
    BY <1>6, <1>7
  <2>2. Ring(p, k, v, e)
    BY <1>5, <1>7, <2>1, RingStays
  <2> QED
    BY <1>6, <1>7, <2>1, <2>2
<1>8. ASSUME NEW k \in Lists, NEW c, k # l, Line(m, c, q[k], Len(q[k])) PROVE Line(p, c, r[k], Len(r[k]))
  <2>1. PICK e \in Nat, v \in Seq(Timers) : v = q[k] /\ e = Len(q[k]) /\ \A j \in 1 .. e : v[j] \in Timers /\ v[j] \notin T
    BY <1>6, <1>8
  <2>2. Line(p, c, v, e)
    BY <1>5, <1>8, <2>1, LineStays
  <2> QED
    BY <1>6, <1>8, <2>1, <2>2
<1>9. Ring(p, l, r[l], Len(r[l]))
  BY <1>3, <1>5
<1>10. Others(m, q, p, r, l)
  BY <1>7, <1>8 DEF Others
<1> QED
  BY <1>4, <1>5, <1>9, <1>10

-----------------------------------------------------------------------------
(* The j-th timer of list k under r was there under q, or is t. *)
OldOrNew(q, r, l, t, k, j) ==
  \/ k = l /\ r[k][j] = t
  \/ j \in 1 .. Len(q[k]) /\ r[k][j] = q[k][j]

(* What is in r was in q, or is t at the end of list l. *)
LEMMA GrownWhere ==
  ASSUME NEW q \in [Lists -> Seq(Timers)], NEW l \in Lists, NEW t, NEW r, Grown(q, r, l, t),
         NEW k \in Lists, NEW j \in 1 .. Len(r[k])
  PROVE  OldOrNew(q, r, l, t, k, j)
<1>1. PICK n \in Nat : n = Len(q[l])
  OBVIOUS
<1> QED
  BY <1>1 DEF Grown, OldOrNew

(* What is in r was in q. *)
LEMMA CutWhere ==
  ASSUME NEW q \in [Lists -> Seq(Timers)], NEW l \in Lists, NEW i \in 1 .. Len(q[l]), NEW r, Cut(q, r, l, i),
         NEW k \in Lists, NEW j \in 1 .. Len(r[k])
  PROVE  \E o \in 1 .. Len(q[k]) : /\ r[k][j] = q[k][o]
                                  /\ o = IF k = l THEN Skip(j, i) ELSE j
<1>1. PICK n \in Nat : n = Len(q[l]) /\ i \in 1 .. n
  OBVIOUS
<1>2. CASE k = l
  <2>1. j \in 1 .. n - 1 /\ r[k][j] = q[k][Skip(j, i)]
    BY <1>1, <1>2 DEF Cut
  <2>2. Skip(j, i) \in 1 .. n
    BY <1>1, <2>1 DEF Skip
  <2> QED
    BY <1>1, <1>2, <2>1, <2>2
<1>3. CASE k # l
  BY <1>3 DEF Cut
<1> QED
  BY <1>2, <1>3

(* Ghost(q) and the types, unfolded. *)
LEMMA GhostFacts ==
  ASSUME IndInv, NEW q, Ghost(q)
  PROVE  /\ q \in [Lists -> Seq(Timers)] /\ Apart(q) /\ links \in LinksType /\ frontidx \in {0, 1}
         /\ DOMAIN hand = Callers \cup {Wheel} /\ state \in [Timers -> {"none", "add", "active", "del"}]
         /\ hand \in [Callers \cup {Wheel} -> Timers \cup {Null}]
         /\ tickcount \in Nat /\ nexttime \in [Timers -> Nat] /\ timeout \in [Timers -> Nat]
         /\ cur \in Timers \cup {Null} /\ left \in Nat /\ failed = FALSE
<1>1. q \in [Lists -> Seq(Timers)] /\ Apart(q) /\ ~failed
  BY DEF Ghost, RingsInv
<1>2. TypeOK
  BY DEF IndInv
<1>3. failed = FALSE
  BY <1>1, <1>2, Zenon DEF TypeOK
<1>4. tickcount \in Nat
  BY <1>2, BoundsAssumption DEF TypeOK
<1> QED
  BY <1>1, <1>2, <1>3, <1>4 DEF TypeOK

(* Every list is empty at first. *)
LEMMA InitGhost == ASSUME Init PROVE \E q : Ghost(q)
<1>1. PICK q \in [Lists -> Seq(Timers)] : \A l \in Lists : q[l] = << >>
  <2>1. << >> \in Seq(Timers)
    OBVIOUS
  <2>2. [l \in Lists |-> << >>] \in [Lists -> Seq(Timers)]
    BY <2>1
  <2> QED
    BY <2>2
<1>2. \A l \in Lists : Len(q[l]) = 0
  BY <1>1
<1>3. \A l \in Lists : \A i \in 1 .. Len(q[l]) : FALSE
  BY <1>2
<1>4. \A l \in Lists : Ring(links, l, q[l], Len(q[l]))
  <2>1. \A l \in Lists : links.head[l] = Null /\ links.count[l] = 0
    BY DEF Init
  <2> QED
    BY <1>2, <1>3, <2>1 DEF Ring
<1>5. frontidx \in {0, 1} /\ wpc = "switch" /\ ~failed
  BY DEF Init
<1>6. Whole \subseteq Lists /\ Front \in Lists /\ Active \in Lists
  BY <1>5, WholeLists
<1>7. RingsInv(q)
  BY <1>1, <1>3, <1>4, <1>6 DEF RingsInv, Apart
<1>8. WalkInv(q)
  BY <1>2, <1>4, <1>5, <1>6 DEF WalkInv
<1>9. StatesInv(q)
  BY <1>3 DEF StatesInv, Init
<1>10. HandsInv(q)
  BY DEF HandsInv, Init
<1> QED
  BY <1>5, <1>7, <1>8, <1>9, <1>10 DEF Ghost

(* add_timer(): a timer that is in no list gets its fields. *)
LEMMA AddTimerGhost ==
  ASSUME IndInv, NEW q, Ghost(q), NEW c \in Callers \cup {Wheel}, NEW d, NEW k, NEW n, AddTimer(c, d, k, n)
  PROVE  Ghost(q)'
<1>0. /\ q \in [Lists -> Seq(Timers)] /\ Apart(q) /\ links \in LinksType /\ frontidx \in {0, 1}
      /\ DOMAIN hand = Callers \cup {Wheel} /\ state \in [Timers -> {"none", "add", "active", "del"}]
      /\ hand \in [Callers \cup {Wheel} -> Timers \cup {Null}] /\ failed = FALSE
  BY GhostFacts
<1>1. PICK t \in Timers :
        /\ state[t] = "none" /\ links' = [links EXCEPT !.prev[t] = Null, !.next[t] = Null]
        /\ state' = [state EXCEPT ![t] = "add"] /\ hand' = [hand EXCEPT ![c] = t]
        /\ hand[c] = Null /\ UNCHANGED <<frontidx, wpc, cur, left, failed>>
  <2>1. /\ hand[c] = Null /\ pool # << >> /\ pool' = Tail(pool)
        /\ links' = [links EXCEPT !.prev[Head(pool)] = Null, !.next[Head(pool)] = Null]
        /\ state' = [state EXCEPT ![Head(pool)] = "add"] /\ hand' = [hand EXCEPT ![c] = Head(pool)]
        /\ UNCHANGED <<frontidx, wpc, cur, left, failed>>
    BY DEF AddTimer, MayCall
  <2>2. TypeOK /\ PoolSound
    BY DEF IndInv
  <2>3. Head(pool) \in Timers /\ state[Head(pool)] = "none"
    BY <2>1, <2>2, TakeSlot
  <2> QED
    BY <2>1, <2>3
<1>2. /\ links'.head = links.head /\ links'.count = links.count
      /\ \A x \in Timers : x # t => links'.next[x] = links.next[x] /\ links'.prev[x] = links.prev[x]
  BY <1>0, <1>1 DEF LinksType
<1>3. \A l \in Lists : \A i \in 1 .. Len(q[l]) : q[l][i] \in Timers /\ q[l][i] # t
  <2>1. \A l \in Lists : \A i \in 1 .. Len(q[l]) : q[l][i] \in Timers
    BY <1>0
  <2>2. \A l \in Lists : \A i \in 1 .. Len(q[l]) : state[q[l][i]] # "none"
    BY DEF Ghost, StatesInv
  <2> QED
    BY <1>1, <2>1, <2>2
<1>4. \A x \in DOMAIN hand : hand[x] # t
  BY <1>1, NullAssumption DEF Ghost, HandsInv
<1>5. \A l \in Lists : Ring(links, l, q[l], Len(q[l])) => Ring(links', l, q[l], Len(q[l]))
  BY <1>2, <1>3 DEF Ring
<1>6. \A e : \A l \in Lists : Line(links, e, q[l], Len(q[l])) => Line(links', e, q[l], Len(q[l]))
  <2> SUFFICES ASSUME NEW e, NEW l \in Lists, Line(links, e, q[l], Len(q[l])) PROVE Line(links', e, q[l], Len(q[l]))
    OBVIOUS
  <2>1. PICK z \in Nat, s \in Seq(Timers) : s = q[l] /\ z = Len(q[l])
    BY <1>0
  <2> QED
    BY <1>2, <1>3, <2>1, SMTT(30) DEF Line
<1>7. /\ Front' = Front /\ Back' = Back /\ Whole' = Whole /\ Whole \subseteq Lists
      /\ Front \in Lists /\ Active \in Lists
  BY <1>0, <1>1, WholeLists DEF Front, Back, Whole
<1>8. RingsInv(q)'
  BY <1>0, <1>5, <1>7 DEF RingsInv, Ghost
<1>9. WalkInv(q)'
  BY <1>1, <1>5, <1>6, <1>7 DEF WalkInv, Ghost
<1>10. \A x \in Timers : state'[x] = IF x = t THEN "add" ELSE state[x]
  BY <1>0, <1>1
<1>11. \A x \in DOMAIN hand : hand'[x] = IF x = c THEN t ELSE hand[x]
  BY <1>0, <1>1
<1>12. DOMAIN hand' = DOMAIN hand /\ c \in DOMAIN hand
  BY <1>0, <1>1
<1>13. StatesInv(q)'
  <2>1. StatesInv(q)
    BY DEF Ghost
  <2>2. \A l \in Lists : \A i \in 1 .. Len(q[l]) :
          state'[q[l][i]] = IF l \in {Change(0), Change(1)} THEN "add" ELSE "active"
    BY <1>3, <1>10, <2>1 DEF StatesInv
  <2>3. ASSUME NEW x \in Timers, state'[x] \in {"add", "active"}
        PROVE  Placed(q, x) \/ \E e \in DOMAIN hand' : hand'[e] = x
    <3>1. CASE x = t
      BY <1>11, <1>12, <3>1
    <3>2. CASE x # t
      <4>1. Placed(q, x) \/ \E e \in DOMAIN hand : hand[e] = x
        BY <1>10, <2>1, <2>3, <3>2 DEF StatesInv
      <4>2. ASSUME NEW e \in DOMAIN hand, hand[e] = x PROVE \E f \in DOMAIN hand' : hand'[f] = x
        <5>1. e # c
          BY <1>1, <4>2, NullAssumption
        <5> QED
          BY <1>11, <1>12, <4>2, <5>1
      <4> QED
        BY <4>1, <4>2
    <3> QED
      BY <3>1, <3>2
  <2>4. \A x \in Timers : state'[x] # "del"
    BY <1>10, <2>1 DEF StatesInv
  <2> QED
    BY <2>2, <2>3, <2>4 DEF StatesInv
<1>14. HandsInv(q)'
  <2>1. HandsInv(q)
    BY DEF Ghost
  <2>2. ~Placed(q, t)
    BY <1>3 DEF Placed
  <2>3. \A x \in DOMAIN hand : hand[x] # Null => hand[x] \in Timers
    BY <1>0
  <2>4. \A x \in DOMAIN hand : hand'[x] # Null => state'[hand'[x]] = "add" /\ ~Placed(q, hand'[x])
    BY <1>10, <1>11, <2>1, <2>2, <2>3 DEF HandsInv
  <2>5. \A x, y \in DOMAIN hand : hand'[x] # Null /\ hand'[x] = hand'[y] => x = y
    BY <1>4, <1>11, <2>1 DEF HandsInv
  <2> QED
    BY <1>12, <2>4, <2>5 DEF HandsInv
<1> QED
  BY <1>0, <1>1, <1>8, <1>9, <1>13, <1>14 DEF Ghost

(* add_to_changelist(): the timer in hand goes to the end of the back changelist. *)
LEMMA AddToChangelistGhost ==
  ASSUME IndInv, NEW q, Ghost(q), NEW c \in Callers \cup {Wheel}, AddToChangelist(c)
  PROVE  \E r : Grown(q, r, Back, hand[c]) /\ Ghost(r)'
<1>0. /\ q \in [Lists -> Seq(Timers)] /\ Apart(q) /\ links \in LinksType /\ frontidx \in {0, 1}
      /\ DOMAIN hand = Callers \cup {Wheel} /\ state \in [Timers -> {"none", "add", "active", "del"}]
      /\ hand \in [Callers \cup {Wheel} -> Timers \cup {Null}] /\ failed = FALSE
  BY GhostFacts
<1>1. PICK t \in Timers : t = hand[c]
  BY <1>0 DEF AddToChangelist
<1>2. /\ failed' = ~PushOK(links, Back)
      /\ links' = IF failed' THEN links ELSE PushBack(links, Back, t)
      /\ hand' = [hand EXCEPT ![c] = Null] /\ UNCHANGED <<state, frontidx, wpc, cur, left>>
  BY <1>1 DEF AddToChangelist, fields
<1>3. /\ Front' = Front /\ Back' = Back /\ Whole' = Whole /\ Whole \subseteq Lists /\ Front # Back
      /\ Front \in Lists /\ Active \in Lists /\ Back \in Whole /\ Back # Active /\ Back # Hang /\ Hang \in Lists /\ Back \in Lists
      /\ Back \in {Change(0), Change(1)}
  <2>1. Back # Hang /\ Back # Active /\ Back \in {Change(0), Change(1)}
    BY <1>0, TwoChangelists, NamesDiffer
  <2> QED
    BY <1>0, <1>2, <2>1, WholeLists DEF Front, Back, Whole
<1>4. t # Null /\ state[t] = "add" /\ ~Placed(q, t)
  BY <1>0, <1>1, NullAssumption DEF Ghost, HandsInv
<1>5. PICK r : Grown(q, r, Back, t)
  BY <1>0, <1>3, GrownExists
<1>6. Ring(links, Back, q[Back], Len(q[Back]))
  BY <1>3 DEF Ghost, RingsInv
<1>7. /\ PushOK(links, Back) /\ Ring(PushBack(links, Back, t), Back, r[Back], Len(r[Back]))
      /\ Others(links, q, PushBack(links, Back, t), r, Back)
  BY <1>0, <1>3, <1>4, <1>5, <1>6, GrownRings
<1>8. failed' = FALSE /\ links' = PushBack(links, Back, t)
  BY <1>2, <1>7
<1>9. Apart(r) /\ \A x : Placed(r, x) <=> Placed(q, x) \/ x = t
  BY <1>0, <1>3, <1>4, <1>5, GrownApart
<1>10. r \in [Lists -> Seq(Timers)] /\ \A k \in Lists : k # Back => r[k] = q[k]
  BY <1>5 DEF Grown
<1>11. RingsInv(r)'
  <2>1. \A l \in Whole : Ring(links', l, r[l], Len(r[l]))
    BY <1>3, <1>7, <1>8 DEF Ghost, RingsInv, Others
  <2> QED
    BY <1>3, <1>9, <1>10, <2>1 DEF RingsInv
<1>12. WalkInv(r)'
  <2>1. \A k \in Lists : k # Back /\ Ring(links, k, q[k], Len(q[k])) => Ring(links', k, r[k], Len(r[k]))
    BY <1>7, <1>8 DEF Others
  <2>2. \A e : \A k \in Lists : k # Back /\ Line(links, e, q[k], Len(q[k])) => Line(links', e, r[k], Len(r[k]))
    BY <1>7, <1>8 DEF Others
  <2>3. r[Front] = q[Front] /\ r[Active] = q[Active] /\ r[Hang] = q[Hang]
    BY <1>3, <1>10
  <2>4. WalkInv(q)
    BY DEF Ghost
  <2> QED
    BY <1>2, <1>3, <2>1, <2>2, <2>3, <2>4 DEF WalkInv
<1>13. StatesInv(r)'
  <2>1. StatesInv(q)
    BY DEF Ghost
  <2>2. ASSUME NEW l \in Lists, NEW i \in 1 .. Len(r[l])
        PROVE  state[r[l][i]] = IF l \in {Change(0), Change(1)} THEN "add" ELSE "active"
    <3>1. \/ l = Back /\ r[l][i] = t
          \/ i \in 1 .. Len(q[l]) /\ r[l][i] = q[l][i]
      <4>1. OldOrNew(q, r, Back, t, l, i)
        BY <1>0, <1>3, <1>5, GrownWhere
      <4> QED
        BY <4>1 DEF OldOrNew
    <3> QED
      BY <1>3, <1>4, <2>1, <3>1 DEF StatesInv
  <2>3. ASSUME NEW x \in Timers, state[x] \in {"add", "active"}
        PROVE  Placed(r, x) \/ \E e \in DOMAIN hand' : hand'[e] = x
    <3>1. Placed(q, x) \/ \E e \in DOMAIN hand : hand[e] = x
      BY <2>1, <2>3 DEF StatesInv
    <3>2. \A e \in DOMAIN hand : e # c => hand'[e] = hand[e] /\ e \in DOMAIN hand'
      BY <1>2
    <3> QED
      BY <1>1, <1>9, <3>1, <3>2
  <2> QED
    BY <1>2, <2>1, <2>2, <2>3 DEF StatesInv
<1>14. HandsInv(r)'
  <2>1. HandsInv(q)
    BY DEF Ghost
  <2>2. /\ DOMAIN hand' = DOMAIN hand /\ c \in DOMAIN hand
        /\ \A e \in DOMAIN hand : hand'[e] = IF e = c THEN Null ELSE hand[e]
    BY <1>0, <1>2
  <2>3. \A e \in DOMAIN hand : hand'[e] # Null => hand'[e] = hand[e] /\ hand[e] # t
    BY <1>1, <1>4, <2>1, <2>2 DEF HandsInv
  <2> QED
    BY <1>2, <1>9, <2>1, <2>2, <2>3 DEF HandsInv
<1> QED
  BY <1>1, <1>5, <1>8, <1>11, <1>12, <1>13, <1>14 DEF Ghost

(* switch_changelist(): the wheel starts at the head of what was the back changelist. *)
LEMMA SwitchGhost ==
  ASSUME IndInv, NEW q, Ghost(q), SwitchChangelist
  PROVE  Ghost(q)'
<1>0. /\ q \in [Lists -> Seq(Timers)] /\ Apart(q) /\ links \in LinksType /\ frontidx \in {0, 1}
      /\ failed = FALSE
  BY GhostFacts
<1>1. /\ wpc = "switch" /\ frontidx' = 1 - frontidx /\ cur' = links.head[Back]
      /\ left' = links.count[Back] /\ wpc' = "load" /\ UNCHANGED <<links, state, hand, failed>>
  BY DEF SwitchChangelist, fields
<1>2. Front' = Back /\ Back' = Front /\ Whole' = (Whole \ {Back}) \cup {Front}
  <2>1. frontidx' = 1 - frontidx /\ 1 - frontidx' = frontidx
    BY <1>0, <1>1
  <2>2. Front' = Back /\ Back' = Front
    BY <2>1 DEF Front, Back
  <2>3. Back \notin {Near(i) : i \in 0 .. N - 1} \cup {Hang}
    BY <1>0, NamesDiffer, TwoChangelists
  <2> QED
    BY <2>2, <2>3 DEF Whole
<1>3. Whole \subseteq Lists /\ Front \in Lists /\ Active \in Lists /\ Back \in Whole
  BY <1>0, WholeLists
<1>4. Ring(links, Front, q[Front], 0) /\ Len(q[Front]) = 0 /\ Len(q[Active]) = 0
  BY <1>1 DEF Ghost, WalkInv
<1>5. Ring(links, Back, q[Back], Len(q[Back]))
  BY <1>3 DEF Ghost, RingsInv
<1>6. RingsInv(q)'
  BY <1>0, <1>1, <1>2, <1>4 DEF Ghost, RingsInv
<1>7. left' = Len(q[Back]) /\ Line(links, cur', q[Back], left')
  <2>1. PICK n \in Nat, s \in Seq(Timers) : n = Len(q[Back]) /\ s = q[Back]
    BY <1>0, <1>3
  <2>2. left' = n /\ (n > 0 => cur' = s[1]) /\ \A i \in 1 .. n : links.next[s[i]] = s[Succ(i, n)]
    BY <1>1, <1>5, <2>1 DEF Ring
  <2>3. \A i \in 1 .. n - 1 : links.next[s[i]] = s[i + 1]
    BY <2>2 DEF Succ
  <2> QED
    BY <2>1, <2>2, <2>3 DEF Line
<1>8. WalkInv(q)'
  BY <1>1, <1>2, <1>4, <1>7 DEF WalkInv
<1>9. StatesInv(q)' /\ HandsInv(q)'
  BY <1>1 DEF Ghost, StatesInv, HandsInv
<1> QED
  BY <1>0, <1>1, <1>6, <1>8, <1>9 DEF Ghost

(* r is q with the i-th timer of list l, t, moved to the end of list k. *)
Moved(q, r, l, i, k, t) == \E z : Cut(q, z, l, i) /\ Grown(z, r, k, t)

(* A timer is moved to a slot or to the hanging list. *)
LEMMA MovedStates ==
  ASSUME IndInv, NEW q, Ghost(q), NEW l \in Lists, NEW i \in 1 .. Len(q[l]), NEW t, t = q[l][i],
         NEW z, Cut(q, z, l, i), NEW k \in Lists, k \notin {Change(0), Change(1)}, NEW r, Grown(z, r, k, t),
         \A x \in Timers : state'[x] = IF x = t THEN "active" ELSE state[x], UNCHANGED hand
  PROVE  StatesInv(r)' /\ HandsInv(r)' /\ Apart(r)
<1>0. q \in [Lists -> Seq(Timers)] /\ Apart(q)
      /\ hand \in [Callers \cup {Wheel} -> Timers \cup {Null}]
  BY GhostFacts
<1>1. t \in Timers /\ z \in [Lists -> Seq(Timers)]
  BY <1>0 DEF Cut
<1>2. Apart(z) /\ \A x : Placed(z, x) <=> Placed(q, x) /\ x # t
  BY <1>0, CutApart
<1>3. Apart(r) /\ \A x : Placed(r, x) <=> Placed(z, x) \/ x = t
  <2>1. ~Placed(z, t)
    BY <1>2
  <2> QED
    BY <1>1, <1>2, <2>1, GrownApart
<1>4. Placed(q, t)
  BY DEF Placed
<1>5. \A x : Placed(r, x) <=> Placed(q, x)
  BY <1>2, <1>3, <1>4
<1>6. StatesInv(q) /\ HandsInv(q)
  BY DEF Ghost
<1>7. ASSUME NEW o \in Lists, NEW j \in 1 .. Len(r[o])
      PROVE  state'[r[o][j]] = IF o \in {Change(0), Change(1)} THEN "add" ELSE "active"
  <2>1. \/ o = k /\ r[o][j] = t
        \/ j \in 1 .. Len(z[o]) /\ r[o][j] = z[o][j]
    <3>1. OldOrNew(z, r, k, t, o, j)
      BY <1>1, GrownWhere
    <3> QED
      BY <3>1 DEF OldOrNew
  <2>2. CASE r[o][j] = t /\ o = k
    BY <1>1, <2>2
  <2>3. CASE j \in 1 .. Len(z[o]) /\ r[o][j] = z[o][j]
    <3>1. \E e \in 1 .. Len(q[o]) : z[o][j] = q[o][e]
      BY <1>0, <2>3, CutWhere, SMTT(30)
    <3>2. PICK e \in 1 .. Len(q[o]) : z[o][j] = q[o][e]
      BY <3>1
    <3>3. Placed(z, z[o][j])
      BY <2>3 DEF Placed
    <3>4. q[o][e] # t /\ q[o][e] \in Timers
      BY <1>0, <1>2, <3>2, <3>3
    <3> QED
      BY <1>6, <2>3, <3>2, <3>4 DEF StatesInv
  <2> QED
    BY <2>1, <2>2, <2>3
<1>8. StatesInv(r)'
  <2>1. \A x \in Timers : state'[x] \in {"add", "active"} => Placed(r, x) \/ \E c \in DOMAIN hand : hand[c] = x
    BY <1>4, <1>5, <1>6 DEF StatesInv
  <2>2. \A x \in Timers : state'[x] # "del"
    BY <1>6 DEF StatesInv
  <2> QED
    BY <1>7, <2>1, <2>2 DEF StatesInv
<1>9. HandsInv(r)'
  <2>1. \A c \in DOMAIN hand : hand[c] # Null => hand[c] \in Timers
    BY <1>0
  <2> QED
    BY <1>4, <1>5, <1>6, <2>1 DEF HandsInv
<1> QED
  BY <1>3, <1>8, <1>9

(* load_timers(): the timer goes from the front changelist to its place. *)
LEMMA LoadGhost ==
  ASSUME IndInv, NEW q, Ghost(q), LoadTimer
  PROVE  \E r : /\ left > 0 /\ Moved(q, r, Front, 1, Place(nexttime[cur]), cur) /\ cur = q[Front][1] /\ Ghost(r)'
                /\ state[cur] = "add" /\ Readd(links, cur, nexttime[cur])
<1>0. /\ q \in [Lists -> Seq(Timers)] /\ Apart(q) /\ links \in LinksType /\ frontidx \in {0, 1}
      /\ state \in [Timers -> {"none", "add", "active", "del"}] /\ nexttime \in [Timers -> Nat]
      /\ left \in Nat /\ failed = FALSE
  BY GhostFacts
<1>1. /\ wpc = "load" /\ left > 0 /\ cur # Null /\ cur' = links.next[cur] /\ left' = left - 1
      /\ UNCHANGED <<frontidx, wpc, hand>>
  BY DEF LoadTimer
<1>2. /\ Front' = Front /\ Back' = Back /\ Whole' = Whole /\ Whole \subseteq Lists
      /\ Front \in Lists /\ Active \in Lists /\ Front \notin Whole /\ Active \notin Whole /\ Front # Active
      /\ Front \in {Change(0), Change(1)}
  BY <1>0, <1>1, WholeLists, TwoChangelists DEF Front, Back, Whole
<1>3. left = Len(q[Front]) /\ Line(links, cur, q[Front], left) /\ Len(q[Active]) = 0
  BY <1>1 DEF Ghost, WalkInv
<1>4. PICK t \in Timers : t = cur /\ t = q[Front][1] /\ state[t] = "add" /\ 1 \in 1 .. Len(q[Front])
  <2>1. 1 \in 1 .. Len(q[Front])
    BY <1>0, <1>1, <1>3
  <2>2. cur = q[Front][1]
    BY <1>0, <1>1, <1>3 DEF Line
  <2>3. q[Front][1] \in Timers
    BY <1>0, <1>2, <2>1
  <2>4. state[q[Front][1]] = "add"
    BY <1>2, <2>1 DEF Ghost, StatesInv
  <2> QED
    BY <2>1, <2>2, <2>3, <2>4
<1>5. Readd(links, t, nexttime[t])
  BY <1>4 DEF LoadTimer
<1>6. PICK k \in Lists : /\ k = Place(nexttime[t]) /\ k \in Whole /\ k # Front /\ k # Back
                        /\ k # Active /\ k \notin {Change(0), Change(1)}
  <2>1. TypeOK /\ nexttime[t] \in Nat
    BY <1>0 DEF IndInv
  <2> QED
    BY <2>1, PlaceWhole
<1>7. /\ failed' = ~PushOK(links, k) /\ links' = IF failed' THEN links ELSE PushBack(links, k, t)
      /\ state' = [state EXCEPT ![t] = "active"]
  BY <1>5, <1>6 DEF Readd
<1>8. PICK z : Cut(q, z, Front, 1)
  BY <1>0, <1>2, <1>4, CutExists
<1>9. /\ z \in [Lists -> Seq(Timers)] /\ (\A o \in Lists : o # Front => z[o] = q[o])
      /\ Len(z[Front]) = Len(q[Front]) - 1 /\ \A j \in 1 .. Len(q[Front]) - 1 : z[Front][j] = q[Front][Skip(j, 1)]
  BY <1>8 DEF Cut
<1>10. Apart(z) /\ ~Placed(z, t)
  <2>1. PICK a \in 1 .. Len(q[Front]) : a = 1
    BY <1>4
  <2>2. Cut(q, z, Front, a) /\ t = q[Front][a]
    BY <1>4, <1>8, <2>1
  <2>3. Apart(z) /\ \A x : Placed(z, x) <=> Placed(q, x) /\ x # q[Front][a]
    BY <1>0, <1>2, <2>2, CutApart
  <2> QED
    BY <2>2, <2>3
<1>11. PICK r : Grown(z, r, k, t)
  BY <1>9, GrownExists
<1>12. r \in [Lists -> Seq(Timers)] /\ \A o \in Lists : o # k => r[o] = z[o]
  BY <1>11 DEF Grown
<1>13. Ring(links, k, z[k], Len(z[k]))
  BY <1>6, <1>9 DEF Ghost, RingsInv
<1>14. /\ PushOK(links, k) /\ Ring(PushBack(links, k, t), k, r[k], Len(r[k]))
       /\ Others(links, z, PushBack(links, k, t), r, k)
  BY <1>0, <1>9, <1>10, <1>11, <1>13, GrownRings
<1>15. failed' = FALSE /\ links' = PushBack(links, k, t)
  BY <1>7, <1>14
<1>16. \A x \in Timers : state'[x] = IF x = t THEN "active" ELSE state[x]
  BY <1>0, <1>7
<1>17. StatesInv(r)' /\ HandsInv(r)' /\ Apart(r)
  BY <1>1, <1>2, <1>4, <1>6, <1>8, <1>11, <1>16, MovedStates
<1>18. RingsInv(r)'
  <2>1. \A l \in Whole : l # k => Ring(links, l, z[l], Len(z[l]))
    BY <1>2, <1>9 DEF Ghost, RingsInv
  <2>2. \A l \in Whole : Ring(links', l, r[l], Len(r[l]))
    BY <1>2, <1>14, <1>15, <2>1 DEF Others
  <2> QED
    BY <1>2, <1>12, <1>17, <2>2 DEF RingsInv
<1>19. left' = Len(z[Front]) /\ Line(links, cur', z[Front], left')
  <2>1. PICK s \in Seq(Timers), u \in Seq(Timers), n \in Nat :
          s = q[Front] /\ u = z[Front] /\ n = left' /\ Len(u) = n /\ Len(s) = n + 1 /\ left = n + 1
    BY <1>0, <1>1, <1>2, <1>3, <1>9
  <2>2. \A j \in 1 .. n : u[j] = s[j + 1]
    <3>0. Len(q[Front]) - 1 = n
      <4>1. Len(q[Front]) = n + 1
        BY <2>1
      <4> QED
        BY <4>1
    <3>1. \A j \in 1 .. n : j \in 1 .. Len(q[Front]) - 1 /\ Skip(j, 1) = j + 1
      BY <3>0 DEF Skip
    <3> QED
      BY <1>9, <2>1, <3>1
  <2>3. cur = s[1] /\ \A j \in 1 .. n : links.next[s[j]] = s[j + 1]
    <3>1. left - 1 = n /\ left > 0 /\ Line(links, cur, s, left)
      BY <1>1, <1>3, <2>1
    <3> QED
      BY <3>1 DEF Line
  <2>4. n > 0 => cur' = u[1]
    BY <1>1, <2>2, <2>3
  <2>5. \A j \in 1 .. n - 1 : links.next[u[j]] = u[j + 1]
    BY <2>2, <2>3
  <2> QED
    BY <2>1, <2>4, <2>5 DEF Line
<1>20. WalkInv(r)'
  <2>1. r[Front] = z[Front] /\ r[Active] = q[Active]
    BY <1>2, <1>6, <1>9, <1>12
  <2>2. Line(links', cur', r[Front], left')
    BY <1>2, <1>6, <1>14, <1>15, <1>19, <2>1 DEF Others
  <2> QED
    BY <1>1, <1>2, <1>3, <1>19, <2>1, <2>2 DEF WalkInv
<1>21. Moved(q, r, Front, 1, k, t)
  BY <1>8, <1>11 DEF Moved
<1>22. Ghost(r)'
  BY <1>15, <1>17, <1>18, <1>20 DEF Ghost
<1> QED
  BY <1>1, <1>4, <1>5, <1>6, <1>21, <1>22

(* r is q with the lists a and s exchanged. *)
Swapped(q, r, a, s) ==
  /\ r \in [Lists -> Seq(Timers)] /\ r[a] = q[s] /\ r[s] = q[a]
  /\ \A k \in Lists : k # a /\ k # s => r[k] = q[k]

(* Exchanging two lists leaves every timer in one place. *)
LEMMA SwappedApart ==
  ASSUME NEW q \in [Lists -> Seq(Timers)], Apart(q), NEW a \in Lists, NEW s \in Lists, a # s,
         NEW r, Swapped(q, r, a, s)
  PROVE  Apart(r) /\ \A x : Placed(r, x) <=> Placed(q, x)
<1> DEFINE f(l) == IF l = a THEN s ELSE IF l = s THEN a ELSE l
<1>1. \A l \in Lists : f(l) \in Lists /\ r[l] = q[f(l)] /\ f(f(l)) = l /\ q[l] = r[f(l)]
  BY DEF Swapped
<1>2. \A l, k \in Lists : f(l) = f(k) => l = k
  BY <1>1
<1> HIDE DEF f
<1>3. Apart(r)
  <2> SUFFICES ASSUME NEW l \in Lists, NEW k \in Lists, NEW i \in 1 .. Len(r[l]), NEW j \in 1 .. Len(r[k]),
                      r[l][i] = r[k][j]
               PROVE  l = k /\ i = j
    BY DEF Apart
  <2>1. PICK x \in Lists, y \in Lists : x = f(l) /\ y = f(k) /\ r[l] = q[x] /\ r[k] = q[y]
    BY <1>1
  <2>2. i \in 1 .. Len(q[x]) /\ j \in 1 .. Len(q[y]) /\ q[x][i] = q[y][j]
    BY <2>1
  <2>3. x = y /\ i = j
    BY <2>2 DEF Apart
  <2> QED
    BY <1>2, <2>1, <2>3
<1>4. ASSUME NEW x, Placed(r, x) PROVE Placed(q, x)
  <2>1. PICK l \in Lists : \E i \in 1 .. Len(r[l]) : r[l][i] = x
    BY <1>4 DEF Placed
  <2>2. PICK k \in Lists : r[l] = q[k]
    BY <1>1
  <2> QED
    BY <2>1, <2>2 DEF Placed
<1>5. ASSUME NEW x, Placed(q, x) PROVE Placed(r, x)
  <2>1. PICK l \in Lists : \E i \in 1 .. Len(q[l]) : q[l][i] = x
    BY <1>5 DEF Placed
  <2>2. PICK k \in Lists : q[l] = r[k]
    BY <1>1
  <2> QED
    BY <2>1, <2>2 DEF Placed
<1> QED
  BY <1>3, <1>4, <1>5

(* The links in which handle_timer() has emptied lists f and a and taken list s. *)
Taken(m, f, a, s) ==
  Swap([m EXCEPT !.head[f] = Null, !.count[f] = 0, !.head[a] = Null, !.count[a] = 0], a, s)

(* p differs from m in these three lists. *)
Took(m, p, f, a, s) ==
  /\ p.next = m.next /\ p.prev = m.prev
  /\ p.head[f] = Null /\ p.count[f] = 0 /\ p.head[a] = m.head[s] /\ p.count[a] = m.count[s]
  /\ p.head[s] = Null /\ p.count[s] = 0
  /\ \A l \in Lists : l \notin {f, a, s} => p.head[l] = m.head[l] /\ p.count[l] = m.count[l]

(* handle_timer() takes the slot's list: head and count of every list. *)
LEMMA HandlingFields ==
  ASSUME NEW m \in LinksType, NEW f \in Lists, NEW a \in Lists, NEW s \in Lists, f # a, a # s, f # s,
         NEW p, p = Taken(m, f, a, s)
  PROVE  Took(m, p, f, a, s)
<1>0. /\ m.head \in [Lists -> Timers \cup {Null}] /\ m.count \in [Lists -> Nat]
      /\ m = [head |-> m.head, count |-> m.count, prev |-> m.prev, next |-> m.next]
  BY DEF LinksType
<1>1. PICK e : e = [m EXCEPT !.head[f] = Null, !.count[f] = 0, !.head[a] = Null, !.count[a] = 0]
  OBVIOUS
<1>2. PICK H, C : H = [[m.head EXCEPT ![f] = Null] EXCEPT ![a] = Null]
                  /\ C = [[m.count EXCEPT ![f] = 0] EXCEPT ![a] = 0]
  OBVIOUS
<1>3. e = [head |-> H, count |-> C, prev |-> m.prev, next |-> m.next]
  BY <1>0, <1>1, <1>2
<1>4. /\ H \in [Lists -> Timers \cup {Null}] /\ C \in [Lists -> Nat]
      /\ H[f] = Null /\ C[f] = 0 /\ H[a] = Null /\ C[a] = 0
      /\ \A l \in Lists : l \notin {f, a} => H[l] = m.head[l] /\ C[l] = m.count[l]
  BY <1>0, <1>2
<1>5. p = Swap(e, a, s)
  BY <1>1, Zenon DEF Taken
<1>6. PICK G, B : G = [[H EXCEPT ![a] = H[s]] EXCEPT ![s] = H[a]]
                  /\ B = [[C EXCEPT ![a] = C[s]] EXCEPT ![s] = C[a]]
  OBVIOUS
<1>7. p = [head |-> G, count |-> B, prev |-> m.prev, next |-> m.next]
  BY <1>3, <1>5, <1>6 DEF Swap
<1>8. /\ G[a] = m.head[s] /\ B[a] = m.count[s] /\ G[s] = Null /\ B[s] = 0
      /\ G[f] = Null /\ B[f] = 0
      /\ \A l \in Lists : l \notin {f, a, s} => G[l] = m.head[l] /\ B[l] = m.count[l]
  BY <1>4, <1>6
<1>9. p.next = m.next /\ p.prev = m.prev /\ p.head = G /\ p.count = B
  BY <1>7
<1> QED
  BY <1>8, <1>9 DEF Took

(* The start of handle_timer(): the slot that is due becomes the list of active timers. *)
LEMMA StartGhost ==
  ASSUME IndInv, NEW q, Ghost(q), StartHandling
  PROVE  \E r : Swapped(q, r, Active, Near(tickcount % N)) /\ Len(q[Active]) = 0 /\ Ghost(r)'
<1>0. /\ q \in [Lists -> Seq(Timers)] /\ Apart(q) /\ links \in LinksType /\ frontidx \in {0, 1}
      /\ tickcount \in Nat /\ left \in Nat /\ failed = FALSE
  BY GhostFacts
<1>1. PICK i \in 0 .. N - 1 : i = tickcount % N
  BY <1>0, SlotType, SMTT(30)
<1>2. PICK s \in Lists : s = Near(i)
  BY ListNames
<1>3. /\ wpc = "load" /\ left = 0 /\ cur' = links'.head[Active] /\ left' = links'.count[Active]
      /\ wpc' = "handle" /\ UNCHANGED <<state, frontidx, hand, failed>>
      /\ links' = Swap([links EXCEPT !.head[Front] = Null, !.count[Front] = 0,
                                     !.head[Active] = Null, !.count[Active] = 0], Active, s)
  BY <1>1, <1>2 DEF StartHandling, fields
<1>4. /\ Front' = Front /\ Back' = Back /\ Whole' = Whole /\ Whole \subseteq Lists
      /\ Front \in Lists /\ Active \in Lists /\ Front \notin Whole /\ Active \notin Whole /\ Front # Active
      /\ s \in Whole /\ Front # s /\ Active # s /\ Front \in {Change(0), Change(1)}
      /\ s \notin {Change(0), Change(1)} /\ Active \notin {Change(0), Change(1)}
  <2>1. s \in Whole /\ s \notin {Change(0), Change(1)} /\ Active \notin {Change(0), Change(1)}
    BY <1>0, <1>2, WholeLists, NamesDiffer
  <2> QED
    BY <1>0, <1>3, <2>1, WholeLists, TwoChangelists DEF Front, Back, Whole
<1>5. Len(q[Front]) = 0 /\ Len(q[Active]) = 0
  BY <1>3 DEF Ghost, WalkInv
<1>6. PICK r : Swapped(q, r, Active, s)
  <2>1. PICK r : r = [l \in Lists |-> IF l = Active THEN q[s] ELSE IF l = s THEN q[Active] ELSE q[l]]
    OBVIOUS
  <2>2. Swapped(q, r, Active, s)
    BY <1>0, <1>4, <2>1 DEF Swapped
  <2> QED
    BY <2>2
<1>7. /\ r \in [Lists -> Seq(Timers)] /\ r[Active] = q[s] /\ r[s] = q[Active]
      /\ \A k \in Lists : k # Active /\ k # s => r[k] = q[k]
  BY <1>6 DEF Swapped
<1>8. Apart(r) /\ \A x : Placed(r, x) <=> Placed(q, x)
  BY <1>0, <1>4, <1>6, SwappedApart
<1>9. /\ links'.next = links.next /\ links'.prev = links.prev
      /\ links'.head[Front] = Null /\ links'.count[Front] = 0
      /\ links'.head[Active] = links.head[s] /\ links'.count[Active] = links.count[s]
      /\ links'.head[s] = Null /\ links'.count[s] = 0
      /\ \A l \in Lists : l \notin {Front, Active, s} => links'.head[l] = links.head[l] /\ links'.count[l] = links.count[l]
  <2>1. links' = Taken(links, Front, Active, s)
    BY <1>3 DEF Taken
  <2>2. Took(links, links', Front, Active, s)
    BY <1>0, <1>4, <2>1, HandlingFields
  <2> QED
    BY <2>2 DEF Took
<1>10. /\ Ring(links', Front, r[Front], 0) /\ Len(r[Front]) = 0
       /\ Ring(links', s, r[s], Len(r[s]))
  <2>1. Len(r[s]) = 0 /\ Len(r[Front]) = 0
    BY <1>4, <1>5, <1>7
  <2> QED
    BY <1>9, <2>1 DEF Ring
<1>11. Ring(links, s, q[s], Len(q[s]))
  BY <1>4 DEF Ghost, RingsInv
<1>12. Ring(links', Active, r[Active], Len(r[Active]))
  BY <1>7, <1>9, <1>11 DEF Ring
<1>13. RingsInv(r)'
  <2>1. ASSUME NEW l \in Whole PROVE Ring(links', l, r[l], Len(r[l]))
    <3>1. CASE l = s
      BY <1>10, <3>1
    <3>2. CASE l # s
      <4>1. l \in Lists /\ l \notin {Front, Active, s} /\ r[l] = q[l]
        BY <1>4, <1>7, <3>2
      <4>2. Ring(links, l, q[l], Len(q[l]))
        BY DEF Ghost, RingsInv
      <4> QED
        BY <1>9, <4>1, <4>2 DEF Ring
    <3> QED
      BY <3>1, <3>2
  <2> QED
    BY <1>4, <1>7, <1>8, <2>1 DEF RingsInv
<1>14. WalkInv(r)'
  <2>1. left' = Len(r[Active]) /\ Ring(links', Active, r[Active], left')
    BY <1>3, <1>12 DEF Ring
  <2>2. left' > 0 => cur' = r[Active][1]
    <3>1. left' > 0 => left' # 0
      OBVIOUS
    <3> QED
      BY <1>3, <2>1, <3>1 DEF Ring
  <2> QED
    BY <1>3, <1>4, <1>10, <2>1, <2>2 DEF WalkInv
<1>15. StatesInv(r)'
  <2>1. StatesInv(q)
    BY DEF Ghost
  <2>2. ASSUME NEW l \in Lists, NEW j \in 1 .. Len(r[l])
        PROVE  state[r[l][j]] = IF l \in {Change(0), Change(1)} THEN "add" ELSE "active"
    <3>1. CASE l = Active
      BY <1>4, <1>7, <2>1, <3>1 DEF StatesInv
    <3>2. CASE l = s
      BY <1>4, <1>7, <2>1, <3>2 DEF StatesInv
    <3>3. CASE l # Active /\ l # s
      BY <1>7, <2>1, <3>3 DEF StatesInv
    <3> QED
      BY <3>1, <3>2, <3>3
  <2> QED
    BY <1>3, <1>8, <2>1, <2>2 DEF StatesInv
<1>16. HandsInv(r)'
  BY <1>3, <1>8 DEF Ghost, HandsInv
<1>17. Ghost(r)'
  BY <1>0, <1>3, <1>13, <1>14, <1>15, <1>16 DEF Ghost
<1> QED
  BY <1>1, <1>2, <1>5, <1>6, <1>17

(* An active timer's handler is called; the loops follow no null pointer; the tick ends. *)
LEMMA TurnGhost ==
  ASSUME IndInv, NEW q, Ghost(q), LockTimer \/ FollowNull \/ AdvanceTick
  PROVE  ~FollowNull /\ (LockTimer => wpc' = "handler" /\ UNCHANGED <<cur, left>>) /\ Ghost(q)'
<1>0. /\ q \in [Lists -> Seq(Timers)] /\ Apart(q) /\ links \in LinksType /\ frontidx \in {0, 1}
      /\ left \in Nat /\ failed = FALSE
  BY GhostFacts
<1>1. /\ Whole \subseteq Lists /\ Front \in Lists /\ Active \in Lists /\ Hang \in Whole
      /\ Active \notin {Change(0), Change(1)}
  BY <1>0, WholeLists, NamesDiffer
<1>2. WalkInv(q)
  BY DEF Ghost
<1>3. ASSUME left > 0, wpc \in {"load", "handle", "regroup"} PROVE cur \in Timers
  <2>1. CASE wpc = "load"
    <3>1. cur = q[Front][1] /\ 1 \in 1 .. Len(q[Front])
      BY <1>0, <1>2, <1>3, <2>1 DEF WalkInv, Line
    <3> QED
      BY <1>0, <1>1, <3>1
  <2>2. CASE wpc = "handle"
    <3>1. cur = q[Active][1] /\ 1 \in 1 .. Len(q[Active])
      BY <1>0, <1>2, <1>3, <2>2 DEF WalkInv
    <3> QED
      BY <1>0, <1>1, <3>1
  <2>3. CASE wpc = "regroup"
    <3>0. PICK n \in Nat : n = Len(q[Hang])
      BY <1>0, <1>1
    <3>1. PICK i \in 1 .. n : i = n - left + 1 /\ cur = q[Hang][i]
      BY <1>0, <1>2, <1>3, <2>3, <3>0 DEF WalkInv
    <3> QED
      BY <1>0, <1>1, <3>0, <3>1
  <2> QED
    BY <1>3, <2>1, <2>2, <2>3
<1>4. ~FollowNull
  BY <1>3, NullAssumption DEF FollowNull
<1>5. LockTimer => wpc' = "handler" /\ UNCHANGED <<cur, left>>
  <2> SUFFICES ASSUME LockTimer PROVE wpc' = "handler" /\ UNCHANGED <<cur, left>>
    OBVIOUS
  <2>1. wpc = "handle" /\ left > 0
    BY DEF LockTimer
  <2>2. cur = q[Active][1] /\ 1 \in 1 .. Len(q[Active])
    BY <1>0, <1>2, <2>1 DEF WalkInv
  <2>3. state[cur] = "active"
    BY <1>1, <2>2 DEF Ghost, StatesInv
  <2> QED
    BY <2>3 DEF LockTimer
<1>6. UNCHANGED <<links, state, frontidx, hand, failed>>
  BY <1>4 DEF LockTimer, AdvanceTick, fields
<1>7. Front' = Front /\ Back' = Back /\ Whole' = Whole
  BY <1>6 DEF Front, Back, Whole
<1>8. RingsInv(q)' /\ StatesInv(q)' /\ HandsInv(q)'
  BY <1>6, <1>7 DEF Ghost, RingsInv, StatesInv, HandsInv
<1>9. CASE LockTimer
  <2>1. wpc = "handle"
    BY <1>9 DEF LockTimer
  <2>2. WalkInv(q)'
    BY <1>2, <1>5, <1>6, <1>7, <1>9, <2>1 DEF WalkInv
  <2> QED
    BY <1>0, <1>4, <1>5, <1>6, <1>8, <2>2 DEF Ghost
<1>10. CASE AdvanceTick
  <2>1. wpc = "handle" /\ left = 0 /\ wpc' \in {"regroup", "switch"}
    BY <1>10 DEF AdvanceTick
  <2>2. Len(q[Active]) = 0 /\ Ring(links, Front, q[Front], 0) /\ Len(q[Front]) = 0
    BY <1>2, <2>1 DEF WalkInv
  <2>3. wpc' = "regroup" => left' <= Len(q[Hang]) /\ (left' > 0 => cur' = q[Hang][Len(q[Hang]) - left' + 1])
    <3> SUFFICES ASSUME wpc' = "regroup"
                 PROVE  left' <= Len(q[Hang]) /\ (left' > 0 => cur' = q[Hang][Len(q[Hang]) - left' + 1])
      OBVIOUS
    <3>1. cur' = links.head[Hang] /\ left' = links.count[Hang]
      BY <1>10 DEF AdvanceTick
    <3>2. PICK n \in Nat, s \in Seq(Timers) : n = Len(q[Hang]) /\ s = q[Hang]
      BY <1>0, <1>1
    <3>3. Ring(links, Hang, s, n)
      BY <1>1, <3>2 DEF Ghost, RingsInv
    <3>4. left' = n /\ (n > 0 => cur' = s[1]) /\ n - n + 1 = 1
      BY <3>1, <3>3 DEF Ring
    <3> QED
      BY <3>2, <3>4
  <2>4. WalkInv(q)'
    BY <1>6, <1>7, <2>1, <2>2, <2>3 DEF WalkInv
  <2>5. ~LockTimer
    BY <2>1 DEF LockTimer
  <2> QED
    BY <1>0, <1>4, <1>6, <1>8, <2>4, <2>5 DEF Ghost
<1> QED
  BY <1>4, <1>9, <1>10

(* The timer whose handler has returned leaves the list of active timers. *)
LEMMA PoppedActive ==
  ASSUME IndInv, NEW q, Ghost(q), wpc = "handler"
  PROVE  \E z : /\ Cut(q, z, Active, 1) /\ 1 \in 1 .. Len(q[Active]) /\ cur = q[Active][1] /\ left = Len(q[Active])
                /\ PopOK(links, Active, cur) /\ Pop(links, Active, cur) \in LinksType
                /\ Ring(Pop(links, Active, cur), Active, z[Active], left - 1) /\ Len(z[Active]) = left - 1
                /\ Others(links, q, Pop(links, Active, cur), z, Active)
                /\ (left - 1 > 0 => links.next[cur] = z[Active][1])
<1>0. /\ q \in [Lists -> Seq(Timers)] /\ Apart(q) /\ links \in LinksType /\ frontidx \in {0, 1}
      /\ left \in Nat /\ Active \in Lists
  BY GhostFacts, ListNames
<1>1. left > 0 /\ cur \in Timers
  BY DEF IndInv, HandlerInv
<1>2. left = Len(q[Active]) /\ Ring(links, Active, q[Active], left) /\ cur = q[Active][1]
  BY <1>1 DEF Ghost, WalkInv
<1>3. PICK i \in 1 .. Len(q[Active]) : i = 1
  BY <1>0, <1>1, <1>2
<1>4. PICK z : Cut(q, z, Active, i)
  BY <1>0, CutExists
<1>5. /\ PopOK(links, Active, cur) /\ Ring(Pop(links, Active, cur), Active, z[Active], Len(z[Active]))
      /\ Others(links, q, Pop(links, Active, cur), z, Active)
  BY <1>0, <1>2, <1>3, <1>4, CutRings
<1>6. Pop(links, Active, cur) \in LinksType
  BY <1>0, <1>1, <1>5, PopType
<1>7. PICK n \in Nat, s \in Seq(Timers) : n = left /\ s = q[Active] /\ Len(s) = n /\ n > 0
  BY <1>0, <1>1, <1>2
<1>8. Len(z[Active]) = n - 1 /\ \A j \in 1 .. n - 1 : z[Active][j] = s[Skip(j, i)]
  BY <1>4, <1>7 DEF Cut
<1>9. n - 1 > 0 => links.next[cur] = z[Active][1]
  <2> SUFFICES ASSUME n - 1 > 0 PROVE links.next[cur] = z[Active][1]
    OBVIOUS
  <2>1. 1 \in 1 .. n /\ 1 \in 1 .. n - 1 /\ Succ(1, n) = 2 /\ Skip(1, i) = 2
    BY <1>3, <1>7 DEF Succ, Skip
  <2>2. links.next[s[1]] = s[Succ(1, n)]
    BY <1>2, <1>7, <2>1 DEF Ring
  <2>3. z[Active][1] = s[2]
    BY <1>8, <2>1
  <2> QED
    BY <1>2, <1>7, <2>1, <2>2, <2>3
<1>10. Len(z[Active]) = left - 1 /\ (left - 1 > 0 => links.next[cur] = z[Active][1])
  BY <1>7, <1>8, <1>9
<1> QED
  BY <1>2, <1>3, <1>4, <1>5, <1>6, <1>10

(* handle_timer(): the timer is freed. *)
LEMMA FreedGhost ==
  ASSUME IndInv, NEW q, Ghost(q), wpc = "handler", wpc' = "handle", links' = Pop(links, Active, cur),
         cur' = links.next[cur], left' = left - 1, FreeTimer(cur), UNCHANGED <<frontidx, hand, failed>>
  PROVE  \E r : Cut(q, r, Active, 1) /\ cur = q[Active][1] /\ Ghost(r)'
<1>0. /\ q \in [Lists -> Seq(Timers)] /\ Apart(q) /\ links \in LinksType /\ frontidx \in {0, 1}
      /\ left \in Nat /\ Active \in Lists /\ failed = FALSE
      /\ state \in [Timers -> {"none", "add", "active", "del"}]
      /\ hand \in [Callers \cup {Wheel} -> Timers \cup {Null}]
  BY GhostFacts, ListNames
<1>1. PICK z : /\ Cut(q, z, Active, 1) /\ 1 \in 1 .. Len(q[Active]) /\ cur = q[Active][1] /\ left = Len(q[Active])
               /\ Ring(links', Active, z[Active], left') /\ Len(z[Active]) = left'
               /\ Others(links, q, links', z, Active) /\ (left' > 0 => cur' = z[Active][1])
  BY PoppedActive
<1>2. PICK i \in 1 .. Len(q[Active]) : i = 1
  BY <1>1
<1>3. Cut(q, z, Active, i) /\ cur = q[Active][i]
  BY <1>1, <1>2
<1>4. Apart(z) /\ \A x : Placed(z, x) <=> Placed(q, x) /\ x # cur
  BY <1>0, <1>3, CutApart
<1>5. /\ Front' = Front /\ Back' = Back /\ Whole' = Whole /\ Whole \subseteq Lists /\ Active \notin Whole
      /\ Front \in Lists /\ Front # Active
  BY <1>0, WholeLists DEF Front, Back, Whole
<1>6. z \in [Lists -> Seq(Timers)] /\ \A k \in Lists : k # Active => z[k] = q[k]
  BY <1>3 DEF Cut
<1>7. RingsInv(z)'
  <2>1. \A l \in Whole : Ring(links', l, z[l], Len(z[l]))
    BY <1>1, <1>5 DEF Ghost, RingsInv, Others
  <2> QED
    BY <1>4, <1>5, <1>6, <2>1 DEF RingsInv
<1>8. WalkInv(z)'
  <2>1. Ring(links, Front, q[Front], Len(q[Front])) /\ Len(q[Front]) = 0
    BY DEF Ghost, WalkInv
  <2>2. Ring(links', Front, z[Front], Len(z[Front])) /\ Len(z[Front]) = 0
    BY <1>1, <1>5, <1>6, <2>1 DEF Others
  <2> QED
    BY <1>1, <1>5, <2>2 DEF WalkInv
<1>9. cur \in Timers /\ state[cur] = "active"
  BY DEF IndInv, HandlerInv
<1>10. \A x \in Timers : state'[x] = IF x = cur THEN "none" ELSE state[x]
  BY <1>0, <1>9 DEF FreeTimer
<1>11. StatesInv(z)'
  <2>1. StatesInv(q)
    BY DEF Ghost
  <2>2. ASSUME NEW l \in Lists, NEW j \in 1 .. Len(z[l])
        PROVE  state'[z[l][j]] = IF l \in {Change(0), Change(1)} THEN "add" ELSE "active"
    <3>1. \E o \in 1 .. Len(q[l]) : z[l][j] = q[l][o]
      BY <1>0, <1>3, CutWhere
    <3>2. PICK o \in 1 .. Len(q[l]) : z[l][j] = q[l][o]
      BY <3>1
    <3>3. Placed(z, z[l][j])
      BY DEF Placed
    <3>4. q[l][o] \in Timers /\ q[l][o] # cur
      BY <1>0, <1>4, <3>2, <3>3
    <3> QED
      BY <1>10, <2>1, <3>2, <3>4 DEF StatesInv
  <2>3. \A x \in Timers : state'[x] \in {"add", "active"} => Placed(z, x) \/ \E c \in DOMAIN hand : hand[c] = x
    BY <1>4, <1>10, <2>1 DEF StatesInv
  <2>4. \A x \in Timers : state'[x] # "del"
    BY <1>10, <2>1 DEF StatesInv
  <2> QED
    BY <2>2, <2>3, <2>4 DEF StatesInv
<1>12. HandsInv(z)'
  <2>1. \A c \in DOMAIN hand : hand[c] # Null => hand[c] \in Timers
    BY <1>0
  <2>2. \A c \in DOMAIN hand : hand[c] # Null => state[hand[c]] = "add" /\ ~Placed(q, hand[c])
    BY DEF Ghost, HandsInv
  <2>3. \A c \in DOMAIN hand : hand[c] # Null => state'[hand[c]] = "add" /\ ~Placed(z, hand[c])
    BY <1>4, <1>9, <1>10, <2>1, <2>2
  <2> QED
    BY <2>3 DEF Ghost, HandsInv
<1> QED
  BY <1>0, <1>1, <1>7, <1>8, <1>11, <1>12 DEF Ghost

(* handle_timer(): the timer is linked in again. *)
LEMMA ReaddedGhost ==
  ASSUME IndInv, NEW q, Ghost(q), wpc = "handler", wpc' = "handle", NEW time \in Nat,
         Readd(Pop(links, Active, cur), cur, time),
         cur' = links.next[cur], left' = left - 1, UNCHANGED <<frontidx, hand>>
  PROVE  \E r : Moved(q, r, Active, 1, Place(time), cur) /\ cur = q[Active][1] /\ Ghost(r)'
<1>0. /\ q \in [Lists -> Seq(Timers)] /\ Apart(q) /\ links \in LinksType /\ frontidx \in {0, 1}
      /\ left \in Nat /\ Active \in Lists
      /\ state \in [Timers -> {"none", "add", "active", "del"}] /\ TypeOK
  BY GhostFacts, ListNames DEF IndInv
<1>1. PICK m : m = Pop(links, Active, cur)
  OBVIOUS
<1>2. PICK z : /\ Cut(q, z, Active, 1) /\ 1 \in 1 .. Len(q[Active]) /\ cur = q[Active][1] /\ left = Len(q[Active])
               /\ Ring(m, Active, z[Active], left') /\ Len(z[Active]) = left' /\ m \in LinksType
               /\ Others(links, q, m, z, Active) /\ (left' > 0 => cur' = z[Active][1])
  BY <1>1, PoppedActive
<1>3. PICK i \in 1 .. Len(q[Active]) : i = 1
  BY <1>2
<1>4. Cut(q, z, Active, i) /\ cur = q[Active][i]
  BY <1>2, <1>3
<1>5. Apart(z) /\ \A x : Placed(z, x) <=> Placed(q, x) /\ x # cur
  BY <1>0, <1>4, CutApart
<1>6. ~Placed(z, cur)
  BY <1>5
<1>7. cur \in Timers /\ state[cur] = "active"
  BY DEF IndInv, HandlerInv
<1>8. PICK k \in Lists : /\ k = Place(time) /\ k \in Whole /\ k # Front /\ k # Back
                        /\ k # Active /\ k \notin {Change(0), Change(1)}
  BY <1>0, PlaceWhole
<1>9. /\ failed' = ~PushOK(m, k) /\ links' = IF failed' THEN m ELSE PushBack(m, k, cur)
      /\ state' = [state EXCEPT ![cur] = "active"]
  BY <1>1, <1>8 DEF Readd
<1>10. /\ Front' = Front /\ Back' = Back /\ Whole' = Whole /\ Whole \subseteq Lists /\ Active \notin Whole
       /\ Front \in Lists /\ Front # Active
  BY <1>0, WholeLists DEF Front, Back, Whole
<1>11. z \in [Lists -> Seq(Timers)] /\ \A l \in Lists : l # Active => z[l] = q[l]
  BY <1>4 DEF Cut
<1>12. PICK r : Grown(z, r, k, cur)
  BY <1>7, <1>11, GrownExists
<1>13. r \in [Lists -> Seq(Timers)] /\ \A l \in Lists : l # k => r[l] = z[l]
  BY <1>12 DEF Grown
<1>14. \A l \in Whole : Ring(m, l, z[l], Len(z[l]))
  BY <1>2, <1>10 DEF Ghost, RingsInv, Others
<1>15. /\ PushOK(m, k) /\ Ring(PushBack(m, k, cur), k, r[k], Len(r[k]))
       /\ Others(m, z, PushBack(m, k, cur), r, k)
  <2>1. Ring(m, k, z[k], Len(z[k]))
    BY <1>8, <1>14
  <2> QED
    BY <1>2, <1>5, <1>6, <1>7, <1>11, <1>12, <2>1, GrownRings
<1>16. failed' = FALSE /\ links' = PushBack(m, k, cur)
  BY <1>9, <1>15
<1>17. \A x \in Timers : state'[x] = IF x = cur THEN "active" ELSE state[x]
  BY <1>0, <1>7, <1>9
<1>18. StatesInv(r)' /\ HandsInv(r)' /\ Apart(r)
  <2>1. PICK t : t = cur
    OBVIOUS
  <2>2. t = q[Active][i] /\ Grown(z, r, k, t) /\ \A x \in Timers : state'[x] = IF x = t THEN "active" ELSE state[x]
    BY <1>4, <1>12, <1>17, <2>1
  <2>3. UNCHANGED hand
    OBVIOUS
  <2>4. Active \in Lists /\ Cut(q, z, Active, i)
    BY <1>0, <1>4
  <2>5. k \in Lists /\ k \notin {Change(0), Change(1)}
    BY <1>8
  <2> QED
    BY <2>2, <2>3, <2>4, <2>5, MovedStates
<1>19. RingsInv(r)'
  <2>1. \A l \in Whole : Ring(links', l, r[l], Len(r[l]))
    BY <1>10, <1>14, <1>15, <1>16 DEF Others
  <2> QED
    BY <1>10, <1>13, <1>18, <2>1 DEF RingsInv
<1>20. WalkInv(r)'
  <2>1. Ring(links, Front, q[Front], Len(q[Front])) /\ Len(q[Front]) = 0
    BY DEF Ghost, WalkInv
  <2>2. Ring(m, Front, z[Front], Len(z[Front])) /\ Len(z[Front]) = 0
    BY <1>2, <1>10, <1>11, <2>1 DEF Others
  <2>3. Ring(links', Front, r[Front], Len(r[Front])) /\ Len(r[Front]) = 0
    BY <1>8, <1>10, <1>13, <1>15, <1>16, <2>2 DEF Others
  <2>4. r[Active] = z[Active] /\ Ring(links', Active, r[Active], left')
    BY <1>0, <1>2, <1>8, <1>13, <1>15, <1>16 DEF Others
  <2> QED
    BY <1>2, <1>10, <2>3, <2>4 DEF WalkInv
<1>21. Moved(q, r, Active, 1, k, cur)
  BY <1>2, <1>12 DEF Moved
<1>22. Ghost(r)'
  BY <1>16, <1>18, <1>19, <1>20 DEF Ghost
<1> QED
  BY <1>2, <1>8, <1>21, <1>22

(* handle_timer() after a handler has returned true, or false: without drops it was true. *)
LEMMA ReturnsGhost ==
  ASSUME IndInv, NEW q, Ghost(q), NEW w \in Results, HandlerReturns(w), drops' = 0
  PROVE  /\ wpc = "handler" /\ wpc' = "handle" /\ cur = q[Active][1] /\ left > 0 /\ left = Len(q[Active])
         /\ \/ \E r : /\ Cut(q, r, Active, 1) /\ Ghost(r)' /\ FreeTimer(cur) /\ UNCHANGED <<nexttime, timeout>>
            \/ \E r : /\ Moved(q, r, Active, 1, Place(nexttime[cur] + timeout[cur]), cur) /\ Ghost(r)'
                      /\ nexttime' = [nexttime EXCEPT ![cur] = nexttime[cur] + timeout[cur]]
                      /\ Readd(Pop(links, Active, cur), cur, nexttime[cur] + timeout[cur]) /\ UNCHANGED timeout
<1>0. nexttime \in [Timers -> Nat] /\ timeout \in [Timers -> Nat] /\ drops \in Nat /\ w \in BOOLEAN
  BY GhostFacts, ArgsAssumption, BoundsAssumption DEF IndInv, TypeOK
<1>1. /\ wpc = "handler" /\ drops' = (IF w THEN drops ELSE drops + 1) /\ cur' = links.next[cur]
      /\ left' = left - 1 /\ wpc' = "handle" /\ UNCHANGED <<timeout, frontidx, hand>>
  BY DEF HandlerReturns
<1>2. w = TRUE
  <2>1. CASE w = FALSE
    <3>1. drops' = drops + 1
      BY <1>1, <2>1
    <3> QED
      BY <1>0, <3>1
  <2> QED
    BY <1>0, <2>1
<1>3. /\ PopOK(links, Active, cur) /\ cur = q[Active][1] /\ left = Len(q[Active])
  BY <1>1, PoppedActive
<1>4. cur \in Timers /\ left > 0
  BY <1>1 DEF IndInv, HandlerInv
<1>5. PICK time \in Nat : time = nexttime[cur] + timeout[cur]
  BY <1>0, <1>4
<1>6. \/ links' = Pop(links, Active, cur) /\ FreeTimer(cur) /\ UNCHANGED <<nexttime, failed>>
      \/ nexttime' = [nexttime EXCEPT ![cur] = time] /\ Readd(Pop(links, Active, cur), cur, time)
  BY <1>2, <1>3, <1>5 DEF HandlerReturns
<1>7. CASE links' = Pop(links, Active, cur) /\ FreeTimer(cur) /\ UNCHANGED <<nexttime, failed>>
  <2>1. \E r : Cut(q, r, Active, 1) /\ Ghost(r)'
    BY <1>1, <1>7, FreedGhost
  <2> QED
    BY <1>1, <1>3, <1>4, <1>7, <2>1
<1>8. CASE nexttime' = [nexttime EXCEPT ![cur] = time] /\ Readd(Pop(links, Active, cur), cur, time)
  <2>1. \E r : Moved(q, r, Active, 1, Place(time), cur) /\ Ghost(r)'
    BY <1>1, <1>8, ReaddedGhost
  <2> QED
    BY <1>1, <1>3, <1>4, <1>5, <1>8, <2>1
<1> QED
  BY <1>6, <1>7, <1>8

(* regroup_timers(): the timer at the wheel's position. *)
LEMMA RegroupAt ==
  ASSUME IndInv, NEW q, Ghost(q), wpc = "regroup", left > 0
  PROVE  \E i \in 1 .. Len(q[Hang]) :
           /\ i = Len(q[Hang]) - left + 1 /\ cur = q[Hang][i] /\ cur \in Timers /\ state[cur] = "active"
           /\ (left - 1 > 0 => i + 1 \in 1 .. Len(q[Hang]) /\ links.next[cur] = q[Hang][i + 1])
<1>0. q \in [Lists -> Seq(Timers)] /\ left \in Nat /\ frontidx \in {0, 1}
  BY GhostFacts
<1>1. Hang \in Lists /\ Hang \in Whole /\ Hang \notin {Change(0), Change(1)}
  BY <1>0, WholeLists, NamesDiffer
<1>2. PICK n \in Nat, s \in Seq(Timers) : n = Len(q[Hang]) /\ s = q[Hang]
  BY <1>0, <1>1
<1>3. left <= n /\ cur = s[n - left + 1]
  BY <1>2 DEF Ghost, WalkInv
<1>4. PICK i \in 1 .. n : i = n - left + 1
  BY <1>0, <1>3
<1>5. Ring(links, Hang, s, n)
  BY <1>1, <1>2 DEF Ghost, RingsInv
<1>6. cur = s[i] /\ cur \in Timers /\ state[cur] = "active"
  <2>1. cur = s[i] /\ s[i] \in Timers
    BY <1>2, <1>3, <1>4
  <2>2. state[q[Hang][i]] = "active"
    BY <1>1, <1>2 DEF Ghost, StatesInv
  <2> QED
    BY <1>2, <2>1, <2>2
<1>7. left - 1 > 0 => i + 1 \in 1 .. n /\ links.next[cur] = s[i + 1]
  <2> SUFFICES ASSUME left - 1 > 0 PROVE i + 1 \in 1 .. n /\ links.next[cur] = s[i + 1]
    OBVIOUS
  <2>1. i + 1 \in 1 .. n /\ Succ(i, n) = i + 1
    BY <1>0, <1>4 DEF Succ
  <2>2. links.next[s[i]] = s[Succ(i, n)]
    BY <1>5 DEF Ring
  <2> QED
    BY <1>6, <2>1, <2>2
<1> QED
  BY <1>2, <1>4, <1>6, <1>7

(* A timer less than a turn ahead goes into a slot. *)
LEMMA PlaceNear ==
  ASSUME TypeOK, NEW time \in Nat, Ahead(time) < N PROVE Place(time) # Hang
<1>0. time \in Int /\ tickcount \in Int /\ Ahead(time) \in Nat /\ N \in Nat
  BY AheadType, SlotsAssumption, BoundsAssumption DEF TypeOK
<1>1. ~(Ahead(time) >= N)
  BY <1>0
<1>2. PICK i \in 0 .. N - 1 : Place(time) = Near(i)
  BY <1>0, <1>1, SlotType DEF Place
<1> QED
  BY <1>2, NamesDiffer

(* regroup_timers(): the timer stays, or goes into its slot. *)
LEMMA RegroupGhost ==
  ASSUME IndInv, NEW q, Ghost(q), Regroup
  PROVE  /\ wpc = "regroup"
         /\ \/ left = 0 /\ wpc' = "switch" /\ Ghost(q)'
            \/ /\ left > 0 /\ wpc' = "regroup" /\ left' = left - 1 /\ left <= Len(q[Hang])
               /\ cur = q[Hang][Len(q[Hang]) - left + 1] /\ cur \in Timers
               /\ \/ ~(Ahead(nexttime[cur]) < N) /\ Ghost(q)'
                  \/ /\ Ahead(nexttime[cur]) < N
                     /\ \E r : Moved(q, r, Hang, Len(q[Hang]) - left + 1, Place(nexttime[cur]), cur) /\ Ghost(r)'
<1>0. /\ q \in [Lists -> Seq(Timers)] /\ Apart(q) /\ links \in LinksType /\ frontidx \in {0, 1}
      /\ left \in Nat /\ failed = FALSE /\ nexttime \in [Timers -> Nat] /\ TypeOK
      /\ state \in [Timers -> {"none", "add", "active", "del"}]
  BY GhostFacts DEF IndInv
<1>1. wpc = "regroup" /\ UNCHANGED <<state, nexttime, hand, frontidx>>
  BY DEF Regroup, fields
<1>2. /\ Front' = Front /\ Back' = Back /\ Whole' = Whole /\ Whole \subseteq Lists /\ Active \notin Whole
      /\ Front \in Lists /\ Active \in Lists /\ Front \notin Whole /\ Hang \in Whole /\ Hang \in Lists
  BY <1>0, <1>1, WholeLists DEF Front, Back, Whole
<1>3. WalkInv(q) /\ StatesInv(q)
  BY DEF Ghost
<1>4. Len(q[Active]) = 0 /\ Ring(links, Front, q[Front], Len(q[Front])) /\ Len(q[Front]) = 0
  BY <1>1, <1>3 DEF WalkInv
<1>5. CASE left = 0
  <2>1. wpc' = "switch" /\ UNCHANGED <<links, cur, left, failed>>
    BY <1>5 DEF Regroup
  <2>2. RingsInv(q)' /\ StatesInv(q)' /\ HandsInv(q)'
    BY <1>1, <1>2, <2>1 DEF Ghost, RingsInv, StatesInv, HandsInv
  <2>3. WalkInv(q)'
    BY <1>2, <1>4, <2>1 DEF WalkInv
  <2> QED
    BY <1>0, <1>1, <1>5, <2>1, <2>2, <2>3 DEF Ghost
<1>6. CASE left > 0
  <2>1. PICK n \in Nat : n = Len(q[Hang])
    BY <1>0, <1>2
  <2>2. \E i \in 1 .. Len(q[Hang]) :
          /\ i = Len(q[Hang]) - left + 1 /\ cur = q[Hang][i] /\ cur \in Timers /\ state[cur] = "active"
          /\ (left - 1 > 0 => i + 1 \in 1 .. Len(q[Hang]) /\ links.next[cur] = q[Hang][i + 1])
    BY <1>1, <1>6, RegroupAt
  <2>3. PICK i \in 1 .. n : /\ i = n - left + 1 /\ cur = q[Hang][i] /\ cur \in Timers /\ state[cur] = "active"
                            /\ (left - 1 > 0 => i + 1 \in 1 .. n /\ links.next[cur] = q[Hang][i + 1])
    BY <2>1, <2>2
  <2>4. left <= n /\ left - 1 \in Nat /\ left - 1 <= n - 1 /\ n - (left - 1) + 1 = i + 1
        /\ (n - 1) - (left - 1) + 1 = i
    BY <1>0, <1>6, <2>1, <2>3
  <2>5. PICK t \in Timers, k \in Lists : t = cur /\ k = Place(nexttime[cur]) /\ k \in Whole
                                         /\ k # Active /\ k # Front /\ k \notin {Change(0), Change(1)}
    BY <1>0, <2>3, PlaceWhole
  <2>6. /\ left' = left - 1 /\ cur' = links.next[t] /\ wpc' = "regroup"
        /\ failed' = (Ahead(nexttime[t]) < N /\ ~(PopOK(links, Hang, t) /\ PushOK(Pop(links, Hang, t), k)))
        /\ links' = IF Ahead(nexttime[t]) < N /\ ~failed' THEN PushBack(Pop(links, Hang, t), k, t) ELSE links
    BY <1>1, <1>6, <2>5 DEF Regroup
  <2>7. CASE ~(Ahead(nexttime[t]) < N)
    <3>1. failed' = FALSE /\ links' = links
      BY <2>6, <2>7
    <3>2. RingsInv(q)' /\ StatesInv(q)' /\ HandsInv(q)'
      BY <1>1, <1>2, <3>1 DEF Ghost, RingsInv, StatesInv, HandsInv
    <3>3. left' <= Len(q[Hang]) /\ (left' > 0 => cur' = q[Hang][Len(q[Hang]) - left' + 1])
      <4>1. left' <= n
        BY <1>0, <2>4, <2>6
      <4>2. left' > 0 => cur' = q[Hang][i + 1]
        BY <2>3, <2>5, <2>6
      <4>3. n - left' + 1 = i + 1
        BY <2>4, <2>6
      <4> QED
        BY <2>1, <4>1, <4>2, <4>3
    <3>4. WalkInv(q)'
      BY <1>2, <1>4, <2>6, <3>1, <3>3 DEF WalkInv
    <3>5. Ghost(q)'
      BY <3>1, <3>2, <3>4 DEF Ghost
    <3> QED
      BY <1>1, <1>6, <2>1, <2>3, <2>4, <2>5, <2>6, <2>7, <3>5
  <2>8. CASE Ahead(nexttime[t]) < N
    <3>1. k # Hang
      BY <1>0, <2>5, <2>8, PlaceNear
    <3>2. PICK m : m = Pop(links, Hang, t)
      OBVIOUS
    <3>3. i \in 1 .. Len(q[Hang]) /\ t = q[Hang][i]
      BY <2>1, <2>3, <2>5
    <3>4. PICK z : Cut(q, z, Hang, i)
      BY <1>0, <1>2, <3>3, CutExists
    <3>5. Ring(links, Hang, q[Hang], Len(q[Hang]))
      BY <1>2 DEF Ghost, RingsInv
    <3>6. /\ PopOK(links, Hang, t) /\ Ring(m, Hang, z[Hang], Len(z[Hang])) /\ Others(links, q, m, z, Hang)
      BY <1>0, <1>2, <3>2, <3>3, <3>4, <3>5, CutRings
    <3>7. m \in LinksType
      BY <1>0, <1>2, <3>2, <3>6, PopType
    <3>8. Apart(z) /\ \A x : Placed(z, x) <=> Placed(q, x) /\ x # q[Hang][i]
      BY <1>0, <1>2, <3>3, <3>4, CutApart
    <3>9. ~Placed(z, t)
      BY <3>3, <3>8
    <3>10. /\ z \in [Lists -> Seq(Timers)] /\ (\A l \in Lists : l # Hang => z[l] = q[l])
           /\ Len(z[Hang]) = n - 1 /\ \A j \in 1 .. n - 1 : z[Hang][j] = q[Hang][Skip(j, i)]
      BY <2>1, <3>4 DEF Cut
    <3>11. PICK r : Grown(z, r, k, t)
      BY <3>10, GrownExists
    <3>12. r \in [Lists -> Seq(Timers)] /\ \A l \in Lists : l # k => r[l] = z[l]
      BY <3>11 DEF Grown
    <3>13. \A l \in Whole : Ring(m, l, z[l], Len(z[l]))
      BY <1>2, <3>6 DEF Ghost, RingsInv, Others
    <3>14. /\ PushOK(m, k) /\ Ring(PushBack(m, k, t), k, r[k], Len(r[k]))
           /\ Others(m, z, PushBack(m, k, t), r, k)
      <4>1. Ring(m, k, z[k], Len(z[k]))
        BY <2>5, <3>13
      <4> QED
        BY <3>7, <3>8, <3>9, <3>10, <3>11, <4>1, GrownRings
    <3>15. failed' = FALSE /\ links' = PushBack(m, k, t)
      BY <2>6, <2>8, <3>2, <3>6, <3>14
    <3>16. StatesInv(r)' /\ HandsInv(r)' /\ Apart(r)
      <4>1. \A x \in Timers : state'[x] = IF x = t THEN "active" ELSE state[x]
        BY <1>1, <2>3, <2>5
      <4>2. UNCHANGED hand
        BY <1>1
      <4> QED
        BY <1>2, <2>5, <3>3, <3>4, <3>11, <4>1, <4>2, MovedStates
    <3>17. RingsInv(r)'
      <4>1. \A l \in Whole : Ring(links', l, r[l], Len(r[l]))
        BY <1>2, <3>13, <3>14, <3>15 DEF Others
      <4> QED
        BY <1>2, <3>12, <3>16, <4>1 DEF RingsInv
    <3>18. r[Hang] = z[Hang] /\ r[Front] = q[Front] /\ r[Active] = q[Active]
      <4>1. Hang # Front /\ Hang # Active
        BY <1>2
      <4> QED
        BY <1>2, <2>5, <3>1, <3>10, <3>12, <4>1
    <3>19. Ring(links', Front, r[Front], Len(r[Front]))
      <4>1. Ring(m, Front, z[Front], Len(z[Front]))
        BY <1>2, <1>4, <3>6 DEF Others
      <4> QED
        BY <1>2, <2>5, <3>14, <3>15, <4>1 DEF Others
    <3>20. left' <= Len(r[Hang]) /\ (left' > 0 => cur' = r[Hang][Len(r[Hang]) - left' + 1])
      <4>1. Len(r[Hang]) = n - 1
        BY <3>10, <3>18
      <4>2. left' <= n - 1 /\ (n - 1) - left' + 1 = i
        BY <2>4, <2>6
      <4>3. ASSUME left' > 0 PROVE cur' = r[Hang][i]
        <5>1. i + 1 \in 1 .. n /\ cur' = q[Hang][i + 1]
          BY <2>3, <2>5, <2>6, <4>3
        <5>2. i \in 1 .. n - 1 /\ Skip(i, i) = i + 1
          BY <5>1 DEF Skip
        <5> QED
          BY <3>10, <3>18, <5>1, <5>2
      <4> QED
        BY <4>1, <4>2, <4>3
    <3>21. WalkInv(r)'
      BY <1>2, <1>4, <2>6, <3>18, <3>19, <3>20 DEF WalkInv
    <3>22. Ghost(r)'
      BY <3>15, <3>16, <3>17, <3>21 DEF Ghost
    <3>23. Moved(q, r, Hang, i, k, t)
      BY <3>4, <3>11 DEF Moved
    <3>24. i = Len(q[Hang]) - left + 1 /\ left <= Len(q[Hang])
      BY <2>1, <2>3, <2>4
    <3> QED
      BY <1>1, <1>6, <2>3, <2>5, <2>6, <2>8, <3>22, <3>23, <3>24
  <2> QED
    BY <2>7, <2>8
<1> QED
  BY <1>0, <1>5, <1>6

-----------------------------------------------------------------------------
(* Among some numbers there is a least one. *)
LEMMA LeastNumber ==
  ASSUME NEW X, X \subseteq Nat, X # {}
  PROVE  \E x \in X : \A y \in X : x <= y
<1> DEFINE Less == OpToRel(<, Nat)
<1>1. IsWellFoundedOn(Less, Nat)
  BY NatLessThanWellFounded
<1>2. \E x \in X : \A y \in X : ~(<<y, x>> \in Less)
  BY <1>1, WFMin
<1>3. \A x, y \in Nat : y < x => <<y, x>> \in Less
  BY DEF OpToRel
<1>4. PICK x \in X : \A y \in X : ~(<<y, x>> \in Less)
  BY <1>2
<1> HIDE DEF Less
<1>5. ASSUME NEW y \in X PROVE x <= y
  <2>1. x \in Nat /\ y \in Nat /\ ~(y < x)
    BY <1>3, <1>4, <1>5
  <2> QED
    BY <2>1
<1> QED
  BY <1>4, <1>5

(* Induction: a set that has 0, and the next of each of its numbers, has them all. *)
LEMMA AllNumbers ==
  ASSUME NEW X, 0 \in X, \A n \in Nat : n \in X => n + 1 \in X
  PROVE  Nat \subseteq X
<1> SUFFICES ASSUME NEW n \in Nat, n \notin X PROVE FALSE
  OBVIOUS
<1>1. PICK x \in Nat \ X : \A y \in Nat \ X : x <= y
  <2>1. Nat \ X \subseteq Nat /\ Nat \ X # {}
    OBVIOUS
  <2> QED
    BY <2>1, LeastNumber
<1>2. x # 0
  OBVIOUS
<1>3. x - 1 \in Nat /\ (x - 1) + 1 = x
  BY <1>2
<1> QED
  BY <1>1, <1>3


(* w follows the next links from c, k times. *)
Steps(w, c, k) ==
  w = [i \in 0 .. k |-> IF i = 0 THEN c ELSE IF w[i - 1] = Null THEN Null ELSE links.next[w[i - 1]]]

(* There is one such w, and it is this one. *)
LEMMA StepsAre ==
  ASSUME NEW k \in Nat, NEW c, NEW s, \A i \in 1 .. k : s[i] \in Timers, k > 0 => c = s[1],
         \A i \in 1 .. k - 1 : links.next[s[i]] = s[i + 1],
         NEW e, e = IF k = 0 THEN c ELSE links.next[s[k]],
         NEW g, g = [i \in 0 .. k |-> IF i < k THEN s[i + 1] ELSE e]
  PROVE  Steps(g, c, k) /\ \A w : Steps(w, c, k) => w = g
<1>1. ASSUME NEW i \in 0 .. k
      PROVE  g[i] = IF i = 0 THEN c ELSE IF g[i - 1] = Null THEN Null ELSE links.next[g[i - 1]]
  <2>1. CASE i = 0
    BY <2>1
  <2>2. CASE i > 0
    <3>1. i - 1 \in 0 .. k /\ i - 1 < k /\ (i - 1) + 1 = i /\ i \in 1 .. k
      BY <2>2
    <3>2. g[i - 1] = s[i]
      BY <3>1
    <3>3. s[i] # Null
      BY <3>1, NullAssumption
    <3>4. g[i] = links.next[s[i]]
      <4>1. CASE i < k
        BY <3>1, <4>1
      <4>2. CASE i = k
        BY <3>1, <4>2
      <4> QED
        BY <4>1, <4>2
    <3> QED
      BY <2>2, <3>2, <3>3, <3>4
  <2> QED
    BY <2>1, <2>2
<1>2. DOMAIN g = 0 .. k
  OBVIOUS
<1>3. Steps(g, c, k)
  <2> DEFINE h == [i \in 0 .. k |-> IF i = 0 THEN c ELSE IF g[i - 1] = Null THEN Null ELSE links.next[g[i - 1]]]
  <2>1. DOMAIN h = 0 .. k /\ \A i \in 0 .. k : g[i] = h[i]
    BY <1>1
  <2>2. g = h
    <3>1. g = [i \in 0 .. k |-> g[i]]
      OBVIOUS
    <3>2. h = [i \in 0 .. k |-> h[i]]
      OBVIOUS
    <3> HIDE DEF h
    <3> QED
      BY <2>1, <3>1, <3>2
  <2> QED
    BY <2>2, Zenon DEF Steps
<1>4. ASSUME NEW w, Steps(w, c, k) PROVE w = g
  <2>1. w = [i \in 0 .. k |-> w[i]]
    BY <1>4 DEF Steps
  <2>2. \A i \in 0 .. k : w[i] = IF i = 0 THEN c ELSE IF w[i - 1] = Null THEN Null ELSE links.next[w[i - 1]]
    BY <1>4 DEF Steps
  <2> DEFINE X == {i \in Nat : i <= k => w[i] = g[i]}
  <2>3. 0 \in X
    BY <1>1, <2>2
  <2>4. ASSUME NEW i \in Nat, i \in X, i + 1 <= k PROVE w[i + 1] = g[i + 1]
    <3>1. PICK j \in 0 .. k : j = i + 1 /\ j # 0 /\ j - 1 = i
      BY <2>4
    <3>2. w[i] = g[i]
      BY <2>4
    <3>3. w[j] = IF w[i] = Null THEN Null ELSE links.next[w[i]]
      BY <2>2, <3>1
    <3>4. g[j] = IF g[i] = Null THEN Null ELSE links.next[g[i]]
      <4>1. g[j] = IF j = 0 THEN c ELSE IF g[j - 1] = Null THEN Null ELSE links.next[g[j - 1]]
        BY <1>1, Zenon
      <4> QED
        BY <3>1, <4>1, Zenon
    <3> QED
      BY <3>1, <3>2, <3>3, <3>4
  <2>5. \A i \in Nat : i \in X => i + 1 \in X
    BY <2>4
  <2>6. Nat \subseteq X
    <3> HIDE DEF X
    <3> QED
      BY <2>3, <2>5, AllNumbers
  <2>7. \A i \in 0 .. k : w[i] = g[i]
    BY <2>6
  <2>8. g = [i \in 0 .. k |-> g[i]]
    OBVIOUS
  <2> QED
    BY <2>1, <2>7, <2>8
<1> QED
  BY <1>3, <1>4

(* Walk(c, k) is s and then e. *)
Walks(c, k, s, e) ==
  /\ \A i \in 0 .. k - 1 : Walk(c, k)[i] = s[i + 1]
  /\ Walk(c, k)[k] = e
  /\ {Walk(c, k)[i] : i \in 0 .. k - 1} = {s[i] : i \in 1 .. k}

(* Walking along a line meets its timers in their order. *)
LEMMA WalkLine ==
  ASSUME NEW k \in Nat, NEW c, NEW s, \A i \in 1 .. k : s[i] \in Timers, Line(links, c, s, k),
         NEW e, e = IF k = 0 THEN c ELSE links.next[s[k]]
  PROVE  Walks(c, k, s, e)
<1>1. PICK g : g = [i \in 0 .. k |-> IF i < k THEN s[i + 1] ELSE e]
  OBVIOUS
<1>2. Steps(g, c, k) /\ \A w : Steps(w, c, k) => w = g
  <2>1. (k > 0 => c = s[1]) /\ \A i \in 1 .. k - 1 : links.next[s[i]] = s[i + 1]
    BY DEF Line
  <2> QED
    BY <1>1, <2>1, StepsAre, SMTT(30)
<1>3. PICK w : w = Walk(c, k)
  OBVIOUS
<1>4. w = CHOOSE h : Steps(h, c, k)
  BY <1>3 DEF Walk, Steps
<1>5. w = g
  <2>1. Steps((CHOOSE h : Steps(h, c, k)), c, k)
    BY <1>2, Zenon
  <2> QED
    BY <1>2, <1>4, <2>1
<1>6. (\A i \in 0 .. k - 1 : w[i] = s[i + 1]) /\ w[k] = e
  BY <1>1, <1>5
<1>7. {w[i] : i \in 0 .. k - 1} = {s[i] : i \in 1 .. k}
  <2>1. ASSUME NEW i \in 0 .. k - 1 PROVE w[i] \in {s[j] : j \in 1 .. k}
    <3>1. i + 1 \in 1 .. k
      OBVIOUS
    <3> QED
      BY <1>6, <3>1
  <2>2. ASSUME NEW i \in 1 .. k PROVE s[i] \in {w[j] : j \in 0 .. k - 1}
    <3>1. i - 1 \in 0 .. k - 1 /\ (i - 1) + 1 = i
      OBVIOUS
    <3>2. w[i - 1] = s[i]
      BY <1>6, <3>1
    <3> QED
      BY <3>1, <3>2
  <2> QED
    BY <2>1, <2>2
<1> QED
  BY <1>3, <1>6, <1>7 DEF Walks

(* n different timers are n timers. *)
LEMMA CountDifferent ==
  ASSUME NEW n \in Nat, NEW s, Different(s, n), NEW S, S = {s[i] : i \in 1 .. n}
  PROVE  Cardinality(S) = n
<1>1. PICK f : f = [i \in 1 .. n |-> s[i]]
  OBVIOUS
<1>2. f \in [1 .. n -> S] /\ (\A x \in S : \E i \in 1 .. n : f[i] = x)
      /\ \A i, j \in 1 .. n : f[i] = f[j] => i = j
  BY <1>1 DEF Different
<1>3. f \in Bijection(1 .. n, S)
  BY <1>2 DEF Bijection, Injection, Surjection, IsInjective
<1>4. ExistsBijection(1 .. n, S)
  BY <1>3 DEF ExistsBijection
<1>5. IsFiniteSet(1 .. n) /\ Cardinality(1 .. n) = n
  BY FS_Interval
<1> QED
  BY <1>4, <1>5, FS_Bijection

(* A ring is circular, and its timers are the members of the list. *)
LEMMA RingCircular ==
  ASSUME NEW l, NEW s, NEW n \in Nat, Different(s, n), Ring(links, l, s, n)
  PROVE  Circular(l) /\ Members(l) = {s[i] : i \in 1 .. n}
<1>1. PICK c : c = links.head[l] /\ links.count[l] = n /\ c = IF n = 0 THEN Null ELSE s[1]
  BY DEF Ring
<1>2. \A i \in 1 .. n : s[i] \in Timers /\ links.next[s[i]] = s[Succ(i, n)] /\ links.prev[s[i]] = s[Pred(i, n)]
  BY DEF Ring, Different
<1>3. Line(links, c, s, n)
  <2>1. \A i \in 1 .. n - 1 : i \in 1 .. n /\ Succ(i, n) = i + 1
    BY DEF Succ
  <2> QED
    BY <1>1, <1>2, <2>1 DEF Line
<1>4. PICK e : e = IF n = 0 THEN c ELSE links.next[s[n]]
  OBVIOUS
<1>5. Walks(c, n, s, e)
  BY <1>2, <1>3, <1>4, WalkLine
<1>6. n > 0 => e = s[1]
  <2>1. n > 0 => n \in 1 .. n /\ Succ(n, n) = 1
    BY DEF Succ
  <2> QED
    BY <1>2, <1>4, <2>1
<1>7. PICK w : w = Walk(c, n)
  OBVIOUS
<1>8. (\A i \in 0 .. n - 1 : w[i] = s[i + 1]) /\ w[n] = e /\ {w[i] : i \in 0 .. n - 1} = {s[i] : i \in 1 .. n}
  BY <1>5, <1>7, Zenon DEF Walks
<1>9. Members(l) = {w[i] : i \in 0 .. n - 1}
  BY <1>1, <1>7 DEF Members
<1>10. PICK X : X = Members(l) /\ X = {s[i] : i \in 1 .. n}
  BY <1>8, <1>9
<1>11. Cardinality(X) = n
  BY <1>10, CountDifferent
<1>12. Null \notin X
  BY <1>2, <1>10, NullAssumption
<1>13. c = Null <=> n = 0
  <2>1. n > 0 => c \in Timers
    BY <1>1, <1>2
  <2> QED
    BY <1>1, <2>1, NullAssumption
<1>14. n > 0 => w[n] = w[0]
  BY <1>6, <1>8
<1>15. ASSUME NEW i \in 0 .. n - 1 PROVE links.prev[w[i + 1]] = w[i]
  <2>1. w[i] = s[i + 1] /\ i + 1 \in 1 .. n
    BY <1>8
  <2>2. CASE i + 1 < n
    <3>1. PICK j \in 1 .. n : j = (i + 1) + 1 /\ j - 1 = i + 1 /\ j # 1 /\ i + 1 \in 0 .. n - 1
      BY <2>2
    <3>2. w[i + 1] = s[j]
      BY <1>8, <3>1
    <3>3. links.prev[s[j]] = s[i + 1]
      BY <1>2, <3>1 DEF Pred
    <3> QED
      BY <2>1, <3>2, <3>3
  <2>3. CASE i + 1 = n
    <3>1. 1 \in 1 .. n /\ Pred(1, n) = n
      BY <2>3 DEF Pred
    <3>2. w[i + 1] = s[1]
      BY <1>6, <1>8, <2>3
    <3>3. links.prev[s[1]] = s[n]
      BY <1>2, <3>1
    <3> QED
      BY <2>1, <2>3, <3>2, <3>3
  <2> QED
    BY <2>1, <2>2, <2>3
<1>16. Circular(l)
  BY <1>1, <1>7, <1>10, <1>11, <1>12, <1>13, <1>14, <1>15 DEF Circular
<1> QED
  BY <1>10, <1>16

(* The timers the wheel has still to come to are those of the front changelist and *)
(* of the list of active timers.                                                   *)
LEMMA PendingTimers ==
  ASSUME IndInv, NEW q, Ghost(q), NEW t
  PROVE  t \in Pending <=> \/ \E i \in 1 .. Len(q[Front]) : q[Front][i] = t
                           \/ \E i \in 1 .. Len(q[Active]) : q[Active][i] = t
<1>0. q \in [Lists -> Seq(Timers)] /\ frontidx \in {0, 1} /\ left \in Nat
  BY GhostFacts
<1>1. Front \in Lists /\ Active \in Lists
  BY <1>0, WholeLists
<1>2. WalkInv(q)
  BY DEF Ghost
<1>3. ASSUME NEW l \in Lists, left = Len(q[l]), Line(links, cur, q[l], left)
      PROVE  {Walk(cur, left)[i] : i \in 0 .. left - 1} = {q[l][i] : i \in 1 .. Len(q[l])}
  <2>0. PICK s \in Seq(Timers) : s = q[l]
    BY <1>0
  <2>1. PICK e : e = IF left = 0 THEN cur ELSE links.next[s[left]]
    OBVIOUS
  <2>2. \A i \in 1 .. left : s[i] \in Timers
    BY <1>3, <2>0
  <2>4. Walks(cur, left, s, e)
    BY <1>0, <1>3, <2>0, <2>1, <2>2, WalkLine
  <2>5. {Walk(cur, left)[i] : i \in 0 .. left - 1} = {s[i] : i \in 1 .. left}
    BY <2>4, Zenon DEF Walks
  <2>6. {s[i] : i \in 1 .. left} = {q[l][i] : i \in 1 .. Len(q[l])}
    BY <1>3, <2>0, Zenon
  <2> QED
    BY <2>5, <2>6, Zenon
<1>4. CASE wpc = "load"
  <2>1. left = Len(q[Front]) /\ Line(links, cur, q[Front], left) /\ Len(q[Active]) = 0
    BY <1>2, <1>4 DEF WalkInv
  <2>2. Pending = {q[Front][i] : i \in 1 .. Len(q[Front])}
    BY <1>1, <1>3, <1>4, <2>1 DEF Pending
  <2> QED
    BY <2>1, <2>2
<1>5. CASE wpc \in {"handle", "handler"}
  <2>1. /\ left = Len(q[Active]) /\ Ring(links, Active, q[Active], left) /\ (left > 0 => cur = q[Active][1])
        /\ Len(q[Front]) = 0
    BY <1>2, <1>5 DEF WalkInv
  <2>2. Line(links, cur, q[Active], left)
    <3>1. \A i \in 1 .. left - 1 : i \in 1 .. left /\ Succ(i, left) = i + 1
      BY <1>0 DEF Succ
    <3> QED
      BY <2>1, <3>1 DEF Line, Ring
  <2>3. Pending = {q[Active][i] : i \in 1 .. Len(q[Active])}
    BY <1>1, <1>3, <1>5, <2>1, <2>2 DEF Pending
  <2> QED
    BY <2>1, <2>3
<1>6. CASE wpc \notin {"load", "handle", "handler"}
  <2>1. Pending = {} /\ Len(q[Front]) = 0 /\ Len(q[Active]) = 0
    BY <1>2, <1>6 DEF WalkInv, Pending
  <2> QED
    BY <2>1
<1> QED
  BY <1>4, <1>5, <1>6

(* The lists are intact where Ghost(q) holds. *)
LEMMA GhostLists ==
  ASSUME IndInv, NEW q, Ghost(q)
  PROVE  (\A l \in Whole : Circular(l)) /\ EachInOneList
<1>0. /\ q \in [Lists -> Seq(Timers)] /\ Apart(q) /\ frontidx \in {0, 1} /\ DOMAIN hand = Callers \cup {Wheel}
  BY GhostFacts
<1>1. /\ Lists = Whole \cup {Front, Active} /\ Front \notin Whole /\ Active \notin Whole
  BY <1>0, WholeLists
<1>2. ASSUME NEW l \in Whole PROVE Circular(l) /\ Members(l) = {q[l][i] : i \in 1 .. Len(q[l])}
  <2>1. PICK n \in Nat, s \in Seq(Timers) : n = Len(q[l]) /\ s = q[l]
    BY <1>0, <1>1
  <2>2. Different(s, n) /\ Ring(links, l, s, n)
    <3>1. Different(q[l], Len(q[l]))
      BY <1>0, <1>1, ListDifferent
    <3> QED
      BY <2>1, <3>1 DEF Ghost, RingsInv
  <2>3. Circular(l) /\ Members(l) = {s[i] : i \in 1 .. n}
    BY <2>2, RingCircular
  <2> QED
    BY <2>1, <2>3
<1>3. \A l \in Whole : \A t : t \in Members(l) <=> \E i \in 1 .. Len(q[l]) : q[l][i] = t
  BY <1>2
<1>4. ASSUME NEW t \in Timers, state[t] \in {"add", "active"}
      PROVE  Cardinality({l \in Whole : t \in Members(l)}) + Cardinality({t} \cap Pending)
               + Cardinality({c \in Callers \cup {Wheel} : hand[c] = t}) = 1
  <2>0. PICK A, B, C : A = {l \in Whole : t \in Members(l)} /\ B = {t} \cap Pending
                       /\ C = {c \in Callers \cup {Wheel} : hand[c] = t}
    OBVIOUS
  <2>1. t # Null
    BY NullAssumption
  <2>2. ASSUME NEW c \in DOMAIN hand, hand[c] = t PROVE ~Placed(q, t) /\ C = {c}
    <3>1. ~Placed(q, t) /\ \A d \in DOMAIN hand : hand[d] = t => d = c
      BY <2>1, <2>2 DEF Ghost, HandsInv
    <3> QED
      BY <1>0, <2>0, <2>2, <3>1
  <2>3. ASSUME NEW l \in Lists, NEW i \in 1 .. Len(q[l]), q[l][i] = t
        PROVE  Placed(q, t) /\ \A k \in Lists : \A j \in 1 .. Len(q[k]) : q[k][j] = t => k = l
    <3>1. \A k \in Lists : \A j \in 1 .. Len(q[k]) : q[l][i] = q[k][j] => l = k
      BY <1>0 DEF Apart
    <3> QED
      BY <2>3, <3>1 DEF Placed
  <2>4. t \in Pending <=> \/ \E i \in 1 .. Len(q[Front]) : q[Front][i] = t
                          \/ \E i \in 1 .. Len(q[Active]) : q[Active][i] = t
    BY PendingTimers
  <2>5. Placed(q, t) \/ \E c \in DOMAIN hand : hand[c] = t
    BY <1>4 DEF Ghost, StatesInv
  <2>6. (Placed(q, t) => C = {})
    BY <1>0, <2>0, <2>2
  <2>7. \/ (\E l : A = {l}) /\ B = {} /\ C = {}
        \/ A = {} /\ B = {t} /\ C = {}
        \/ A = {} /\ B = {} /\ \E c : C = {c}
    <3>1. CASE \E c \in DOMAIN hand : hand[c] = t
      <4>1. PICK c \in DOMAIN hand : hand[c] = t
        BY <3>1
      <4>2. ~Placed(q, t) /\ C = {c}
        BY <2>2, <4>1
      <4>3. A = {} /\ t \notin Pending
        BY <1>1, <1>3, <2>0, <2>4, <4>2 DEF Placed
      <4> QED
        BY <2>0, <4>2, <4>3
    <3>2. CASE Placed(q, t)
      <4>0. PICK l \in Lists : \E i \in 1 .. Len(q[l]) : q[l][i] = t
        BY <3>2 DEF Placed
      <4>1. \A k \in Lists : (\E j \in 1 .. Len(q[k]) : q[k][j] = t) => k = l
        BY <2>3, <4>0
      <4>2. CASE l \in Whole
        <5>1. A = {l}
          BY <1>1, <1>3, <2>0, <4>0, <4>1, <4>2
        <5>2. t \notin Pending
          BY <1>1, <2>4, <4>1, <4>2
        <5> QED
          BY <2>0, <2>6, <3>2, <5>1, <5>2
      <4>3. CASE l \notin Whole
        <5>1. A = {}
          BY <1>1, <1>3, <2>0, <4>1, <4>3
        <5>2. t \in Pending
          BY <1>1, <2>4, <4>0, <4>3
        <5> QED
          BY <2>0, <2>6, <3>2, <5>1, <5>2
      <4> QED
        BY <4>2, <4>3
    <3> QED
      BY <2>5, <3>1, <3>2
  <2>8. /\ \A x : Cardinality({x}) = 1
        /\ Cardinality({}) = 0
    BY FS_Singleton, FS_EmptySet
  <2>9. Cardinality(A) + Cardinality(B) + Cardinality(C) = 1
    <3>1. CASE (\E l : A = {l}) /\ B = {} /\ C = {}
      <4>1. Cardinality(A) = 1 /\ Cardinality(B) = 0 /\ Cardinality(C) = 0
        BY <2>8, <3>1, Zenon
      <4> QED
        BY <4>1
    <3>2. CASE A = {} /\ B = {t} /\ C = {}
      <4>1. Cardinality(A) = 0 /\ Cardinality(B) = 1 /\ Cardinality(C) = 0
        BY <2>8, <3>2, Zenon
      <4> QED
        BY <4>1
    <3>3. CASE A = {} /\ B = {} /\ \E c : C = {c}
      <4>1. Cardinality(A) = 0 /\ Cardinality(B) = 0 /\ Cardinality(C) = 1
        BY <2>8, <3>3, Zenon
      <4> QED
        BY <4>1
    <3> QED
      BY <2>7, <3>1, <3>2, <3>3
  <2> QED
    BY <2>0, <2>9, Zenon
<1>5. EachInOneList
  BY <1>4, Zenon DEF EachInOneList
<1> QED
  BY <1>2, <1>5

-----------------------------------------------------------------------------
(* Quotient and rest. *)
LEMMA DivideFacts ==
  ASSUME NEW n \in Nat, n > 0, NEW a \in Int
  PROVE  a \div n \in Int /\ a % n \in 0 .. n - 1 /\ a = n * (a \div n) + (a % n)
<1>1. a \div n \in Int /\ a % n \in 0 .. n - 1
  OBVIOUS
<1>2. a = n * (a \div n) + (a % n)
  OBVIOUS
<1> QED
  BY <1>1, <1>2

(* A multiple of n closer to 0 than n is 0. *)
LEMMA SmallMultiple ==
  ASSUME NEW n \in Nat, n > 0, NEW d \in Int, n * d < n, -n < n * d
  PROVE  d = 0
<1>1. CASE d >= 1
  <2>1. n * d >= n
    BY <1>1
  <2> QED
    BY <2>1
<1>2. CASE d <= -1
  <2>1. n * d <= -n
    BY <1>2
  <2> QED
    BY <2>1
<1> QED
  BY <1>1, <1>2

(* There is one rest. *)
LEMMA RestIs ==
  ASSUME NEW n \in Nat, n > 0, NEW a \in Int, NEW x \in Int, NEW u \in 0 .. n - 1, a = n * x + u
  PROVE  a % n = u
<1>1. PICK y \in Int, v \in 0 .. n - 1 : v = a % n /\ a = n * y + v
  BY DivideFacts
<1>2. PICK d \in Int : d = x - y
  OBVIOUS
<1>3. n * d = n * x - n * y
  BY <1>2
<1>4. n * d = v - u
  BY <1>1, <1>3
<1>5. d = 0
  <2>1. n * d < n /\ -n < n * d
    BY <1>4
  <2> QED
    BY <2>1, SmallMultiple
<1>6. n * d = 0
  BY <1>5
<1> QED
  BY <1>1, <1>4, <1>6

(* Two times less than a turn apart in the same slot are the same. *)
LEMMA SameSlot ==
  ASSUME NEW a \in Int, NEW b \in Int, a % N = b % N, a - b < N, b - a < N
  PROVE  a = b
<1>0. N \in Nat /\ N > 0
  BY SlotsAssumption
<1>1. PICK x \in Int, y \in Int, u \in 0 .. N - 1 : a = N * x + u /\ b = N * y + u
  BY <1>0, DivideFacts, ZenonT(40)
<1>2. PICK d \in Int : d = x - y
  OBVIOUS
<1>3. N * d = N * x - N * y
  BY <1>0, <1>2
<1>4. PICK e \in Int : e = N * d /\ e = a - b
  BY <1>0, <1>1, <1>3
<1>5. d = 0
  <2>1. N * d < N /\ -N < N * d
    BY <1>0, <1>4
  <2> QED
    BY <1>0, <2>1, SmallMultiple
<1>6. N * d = 0
  BY <1>0, <1>5
<1> QED
  BY <1>4, <1>6

(* The slot of the next tick. *)
LEMMA NextSlot ==
  ASSUME NEW a \in Int
  PROVE  (a + 1) % N = IF a % N = N - 1 THEN 0 ELSE (a % N) + 1
<1>0. N \in Nat /\ N > 0
  BY SlotsAssumption
<1>1. PICK x \in Int, u \in 0 .. N - 1 : u = a % N /\ a = N * x + u
  BY <1>0, DivideFacts
<1>2. PICK b \in Int : b = a + 1
  OBVIOUS
<1>3. CASE u = N - 1
  <2>1. PICK y \in Int : y = x + 1
    OBVIOUS
  <2>2. N * y = N * x + N
    BY <1>0, <2>1
  <2>3. b = N * y + 0 /\ 0 \in 0 .. N - 1
    BY <1>0, <1>1, <1>2, <1>3, <2>2
  <2>4. b % N = 0
    BY <1>0, <2>3, RestIs
  <2> QED
    BY <1>1, <1>2, <1>3, <2>4
<1>4. CASE u # N - 1
  <2>1. PICK v \in 0 .. N - 1 : v = u + 1
    BY <1>0, <1>4
  <2>2. b = N * x + v
    BY <1>0, <1>1, <1>2, <2>1
  <2>3. b % N = v
    BY <1>0, <2>2, RestIs
  <2> QED
    BY <1>1, <1>2, <1>4, <2>1, <2>3
<1> QED
  BY <1>3, <1>4

(* _nexttime - _tickcount for a time at most a word away. *)
LEMMA AheadIs ==
  ASSUME TypeOK, NEW time \in Nat, time < tickcount + Word
  PROVE  Ahead(time) = IF time >= tickcount THEN time - tickcount ELSE (time - tickcount) + Word
<1>0. Word \in Nat /\ Word > 0 /\ tickcount \in Nat /\ tickcount <= MaxTick /\ MaxTick \in Nat
      /\ MaxTick + N <= Word /\ N \in Nat
  BY WordAssumption, SlotsAssumption, BoundsAssumption, TimeoutsAssumption DEF TypeOK
<1>1. PICK a \in Int : a = time - tickcount
  BY <1>0
<1>2. CASE time >= tickcount
  <2>1. a \in 0 .. Word - 1 /\ a = Word * 0 + a
    BY <1>0, <1>1, <1>2
  <2>2. a % Word = a
    <3>1. 0 \in Int
      OBVIOUS
    <3> QED
      BY <1>0, <2>1, <3>1, RestIs
  <2> QED
    BY <1>1, <1>2, <2>2 DEF Ahead
<1>3. CASE ~(time >= tickcount)
  <2>1. PICK u \in 0 .. Word - 1, x \in Int : u = a + Word /\ x = -1
    BY <1>0, <1>1, <1>3
  <2>2. a = Word * x + u
    BY <1>0, <2>1
  <2>3. a % Word = u
    BY <1>0, <2>2, RestIs
  <2> QED
    BY <1>1, <1>3, <2>1, <2>3 DEF Ahead
<1> QED
  BY <1>2, <1>3

(* Where readd_timer() and regroup_timers() put a timer, by its time. *)
LEMMA PlaceIs ==
  ASSUME TypeOK, NEW time \in Nat, time < tickcount + Word
  PROVE  /\ time < tickcount => Place(time) = Hang /\ ~(Ahead(time) < N)
         /\ time >= tickcount + N => Place(time) = Hang /\ ~(Ahead(time) < N)
         /\ time >= tickcount /\ time < tickcount + N => Place(time) = Near(time % N) /\ Ahead(time) < N
<1>0. Word \in Nat /\ tickcount \in Nat /\ tickcount <= MaxTick /\ MaxTick \in Nat
      /\ MaxTick + N <= Word /\ N \in Nat /\ N > 0
  BY WordAssumption, SlotsAssumption, BoundsAssumption, TimeoutsAssumption DEF TypeOK
<1>1. PICK a \in Int : a = Ahead(time) /\ a = IF time >= tickcount THEN time - tickcount ELSE (time - tickcount) + Word
  BY <1>0, AheadIs
<1>2. ASSUME time < tickcount \/ time >= tickcount + N PROVE Place(time) = Hang /\ ~(a < N)
  <2>1. a >= N
    BY <1>0, <1>1, <1>2
  <2> QED
    BY <1>0, <1>1, <2>1 DEF Place
<1>3. ASSUME time >= tickcount, time < tickcount + N PROVE Place(time) = Near(time % N) /\ a < N
  <2>1. a < N /\ ~(a >= N) /\ (a > 0 \/ time = tickcount)
    BY <1>0, <1>1, <1>3
  <2> QED
    BY <1>1, <2>1 DEF Place
<1> QED
  BY <1>1, <1>2, <1>3

-----------------------------------------------------------------------------
(* The first tick after this turn of the wheel. *)
Turn == tickcount - (tickcount % N) + N

(* The time of a timer in slot k: this tick, while its timers have not been taken, *)
(* or one of the other ticks of a turn from now.                                  *)
SlotTime(t, k) ==
  /\ t \notin late /\ nexttime[t] % N = k /\ nexttime[t] < tickcount + N
  /\ nexttime[t] >= IF wpc \in {"handle", "handler"} THEN tickcount + 1 ELSE tickcount

ActiveTime(t) == t \notin late /\ nexttime[t] = tickcount

(* The time of the i-th of n timers in the hanging list: in a later turn, unless   *)
(* regroup_timers() has still to come to it, or in the past.                      *)
HangTime(t, i, n) ==
  IF t \in late THEN nexttime[t] < tickcount
  ELSE nexttime[t] >= IF wpc = "regroup" /\ i > n - left THEN tickcount ELSE Turn

(* Times ahead are less than a word away, and only linked timers are late. *)
BoundsInv ==
  /\ \A t \in Timers : state[t] # "none" => nexttime[t] < tickcount + Word /\ timeout[t] \in Timeouts
  /\ \A t \in late : state[t] = "active"
  /\ wpc = "regroup" => tickcount % N = 0

SlotsInv(q) == \A k \in 0 .. N - 1 : \A i \in 1 .. Len(q[Near(k)]) : SlotTime(q[Near(k)][i], k)
ActiveInv(q) == \A i \in 1 .. Len(q[Active]) : ActiveTime(q[Active][i])
HangInv(q) == \A i \in 1 .. Len(q[Hang]) : HangTime(q[Hang][i], i, Len(q[Hang]))

TimesInv(q) == BoundsInv /\ SlotsInv(q) /\ ActiveInv(q) /\ HangInv(q)

(* At first there is nothing. *)
LEMMA InitTimes ==
  ASSUME Init, NEW q, Ghost(q) PROVE TimesInv(q)
<1>1. \A l \in Lists : \A i \in 1 .. Len(q[l]) : FALSE
  <2>1. \A l \in Lists : \A i \in 1 .. Len(q[l]) : q[l][i] \in Timers
    BY DEF Ghost, RingsInv
  <2>2. \A t \in Timers : state[t] = "none"
    BY DEF Init
  <2>3. \A l \in Lists : \A i \in 1 .. Len(q[l]) : state[q[l][i]] \in {"add", "active"}
    BY DEF Ghost, StatesInv
  <2> QED
    BY <2>1, <2>2, <2>3
<1>2. BoundsInv
  BY DEF Init, BoundsInv
<1> QED
  BY <1>1, <1>2, ListNames DEF TimesInv, SlotsInv, ActiveInv, HangInv

(* A step that leaves times, ticks and the timers of slots and the hanging list alone. *)
LEMMA TimesStay ==
  ASSUME NEW q, TimesInv(q), NEW r, r[Hang] = q[Hang], r[Active] = q[Active],
         \A k \in 0 .. N - 1 : r[Near(k)] = q[Near(k)],
         UNCHANGED <<state, nexttime, timeout, tickcount, late>>,
         wpc' \in {"handle", "handler"} <=> wpc \in {"handle", "handler"},
         wpc' = "regroup" <=> wpc = "regroup", wpc = "regroup" => left' = left
  PROVE  TimesInv(r)'
<1>1. BoundsInv'
  BY DEF TimesInv, BoundsInv
<1>2. \A t, k : SlotTime(t, k) => SlotTime(t, k)'
  BY DEF SlotTime
<1>3. \A t : ActiveTime(t) => ActiveTime(t)'
  BY DEF ActiveTime
<1>4. \A t, i, n : HangTime(t, i, n) => HangTime(t, i, n)'
  BY DEF HangTime, Turn
<1>5. SlotsInv(r)'
  BY <1>2 DEF TimesInv, SlotsInv
<1>6. ActiveInv(r)'
  BY <1>3 DEF TimesInv, ActiveInv
<1>7. HangInv(r)'
  BY <1>4 DEF TimesInv, HangInv
<1> QED
  BY <1>1, <1>5, <1>6, <1>7 DEF TimesInv

(* add_timer(): the timer's time is less than a word ahead. *)
LEMMA AddTimerTimes ==
  ASSUME IndInv, NEW q, Ghost(q), TimesInv(q), NEW c \in Callers \cup {Wheel}, NEW d \in Delays,
         NEW e \in Timeouts, NEW n \in Repeats, AddTimer(c, d, e, n)
  PROVE  TimesInv(q)'
<1>0. /\ q \in [Lists -> Seq(Timers)] /\ state \in [Timers -> {"none", "add", "active", "del"}]
      /\ nexttime \in [Timers -> Nat] /\ timeout \in [Timers -> Nat] /\ tickcount \in Nat
      /\ late \in SUBSET Timers
  BY GhostFacts DEF IndInv, TypeOK
<1>1. PICK t \in Timers, v \in Nat :
        /\ state[t] = "none" /\ state' = [state EXCEPT ![t] = "add"] /\ timeout' = [timeout EXCEPT ![t] = e]
        /\ nexttime' = [nexttime EXCEPT ![t] = v] /\ v < tickcount + Word
        /\ UNCHANGED <<tickcount, wpc, left, late>>
  <2>1. /\ pool # << >> /\ pool' = Tail(pool) /\ timeout' = [timeout EXCEPT ![Head(pool)] = e]
        /\ state' = [state EXCEPT ![Head(pool)] = "add"]
        /\ nexttime' = [nexttime EXCEPT ![Head(pool)] = IF d THEN tickcount + e ELSE tickcount]
        /\ UNCHANGED <<tickcount, wpc, left, late>>
    BY DEF AddTimer
  <2>2. TypeOK /\ PoolSound
    BY DEF IndInv
  <2>3. Head(pool) \in Timers /\ state[Head(pool)] = "none"
    BY <2>1, <2>2, TakeSlot
  <2>4. Word \in Nat /\ e \in 1 .. Word - 1
    BY WordAssumption, TimeoutsAssumption
  <2>5. PICK v : v = IF d THEN tickcount + e ELSE tickcount
    OBVIOUS
  <2>6. v \in Nat /\ v < tickcount + Word
    BY <1>0, <2>4, <2>5
  <2> QED
    BY <2>1, <2>3, <2>5, <2>6
<1>2. \A x \in Timers : x # t => nexttime'[x] = nexttime[x] /\ timeout'[x] = timeout[x] /\ state'[x] = state[x]
  BY <1>0, <1>1
<1>3. nexttime'[t] = v /\ timeout'[t] = e /\ state'[t] = "add"
  BY <1>0, <1>1
<1>4. \A l \in Lists : \A i \in 1 .. Len(q[l]) : q[l][i] \in Timers /\ q[l][i] # t
  <2>1. \A l \in Lists : \A i \in 1 .. Len(q[l]) : q[l][i] \in Timers
    BY <1>0
  <2>2. \A l \in Lists : \A i \in 1 .. Len(q[l]) : state[q[l][i]] # "none"
    BY DEF Ghost, StatesInv
  <2> QED
    BY <1>1, <2>1, <2>2
<1>5. BoundsInv'
  <2>1. BoundsInv /\ t \notin late
    BY <1>0, <1>1 DEF TimesInv, BoundsInv
  <2>2. \A x \in Timers : state'[x] # "none" => nexttime'[x] < tickcount + Word /\ timeout'[x] \in Timeouts
    BY <1>1, <1>2, <1>3, <2>1 DEF BoundsInv
  <2>3. \A x \in late : state'[x] = "active"
    BY <1>0, <1>2, <2>1 DEF BoundsInv
  <2> QED
    BY <1>1, <2>1, <2>2, <2>3 DEF BoundsInv
<1>6. \A x \in Timers : \A k : x # t => (SlotTime(x, k) => SlotTime(x, k)')
  BY <1>1, <1>2 DEF SlotTime
<1>7. \A x \in Timers : x # t => (ActiveTime(x) => ActiveTime(x)')
  BY <1>1, <1>2 DEF ActiveTime
<1>8. \A x \in Timers : \A i, m : x # t => (HangTime(x, i, m) => HangTime(x, i, m)')
  BY <1>1, <1>2 DEF HangTime, Turn
<1>9. SlotsInv(q)'
  BY <1>4, <1>6, ListNames DEF TimesInv, SlotsInv
<1>10. ActiveInv(q)'
  BY <1>4, <1>7, ListNames DEF TimesInv, ActiveInv
<1>11. HangInv(q)'
  BY <1>4, <1>8, ListNames DEF TimesInv, HangInv
<1> QED
  BY <1>5, <1>9, <1>10, <1>11 DEF TimesInv

(* handle_timer() takes the slot of this tick; the other slots are for later ones. *)
LEMMA StartTimes ==
  ASSUME IndInv, NEW q, Ghost(q), TimesInv(q), StartHandling, NEW r,
         Swapped(q, r, Active, Near(tickcount % N)), Len(q[Active]) = 0
  PROVE  TimesInv(r)'
<1>0. /\ q \in [Lists -> Seq(Timers)] /\ nexttime \in [Timers -> Nat] /\ tickcount \in Nat /\ N \in Nat
  BY GhostFacts, SlotsAssumption
<1>1. /\ wpc = "load" /\ wpc' = "handle" /\ UNCHANGED <<state, nexttime, timeout, tickcount, late>>
  BY DEF StartHandling, fields
<1>2. PICK j \in 0 .. N - 1 : j = tickcount % N
  BY <1>0, SlotType
<1>3. /\ r[Active] = q[Near(j)] /\ r[Near(j)] = q[Active]
      /\ \A k \in Lists : k # Active /\ k # Near(j) => r[k] = q[k]
  BY <1>2 DEF Swapped
<1>4. \A l \in Lists : \A i \in 1 .. Len(q[l]) : nexttime[q[l][i]] \in Nat
  <2>1. \A l \in Lists : \A i \in 1 .. Len(q[l]) : q[l][i] \in Timers
    BY <1>0
  <2> QED
    BY <1>0, <2>1
<1>5. BoundsInv'
  BY <1>1 DEF TimesInv, BoundsInv
<1>6. ASSUME NEW i \in 1 .. Len(r[Active]) PROVE ActiveTime(r[Active][i])'
  <2>1. PICK t : t = q[Near(j)][i]
    OBVIOUS
  <2>2. SlotTime(t, j)
    BY <1>3, <2>1 DEF TimesInv, SlotsInv
  <2>3. PICK a \in Nat : a = nexttime[t]
    BY <1>3, <1>4, <2>1, ListNames
  <2>4. a % N = tickcount % N /\ a < tickcount + N /\ a >= tickcount /\ t \notin late
    BY <1>1, <1>2, <2>2, <2>3 DEF SlotTime
  <2>5. a = tickcount
    <3>1. a - tickcount < N /\ tickcount - a < N /\ a \in Int /\ tickcount \in Int
      BY <1>0, <2>3, <2>4, SlotsAssumption
    <3> QED
      BY <2>4, <3>1, SameSlot
  <2> QED
    BY <1>1, <1>3, <2>1, <2>3, <2>4, <2>5 DEF ActiveTime
<1>7. ASSUME NEW k \in 0 .. N - 1, NEW i \in 1 .. Len(r[Near(k)]) PROVE SlotTime(r[Near(k)][i], k)'
  <2>1. k # j
    BY <1>3, <1>7
  <2>2. Near(k) \in Lists /\ Near(k) # Near(j) /\ Near(k) # Active
    BY <2>1, ListNames, NamesDiffer
  <2>3. PICK t : t = q[Near(k)][i] /\ t = r[Near(k)][i]
    BY <1>3, <2>2
  <2>4. SlotTime(t, k)
    BY <1>3, <2>2, <2>3 DEF TimesInv, SlotsInv
  <2>5. PICK a \in Nat : a = nexttime[t]
    BY <1>3, <1>4, <2>2, <2>3
  <2>6. a % N = k /\ a < tickcount + N /\ a >= tickcount /\ t \notin late
    BY <1>1, <2>4, <2>5 DEF SlotTime
  <2>7. a # tickcount
    BY <1>2, <2>1, <2>6
  <2>8. a >= tickcount + 1
    BY <1>0, <2>5, <2>6, <2>7
  <2> QED
    BY <1>1, <2>3, <2>5, <2>6, <2>8 DEF SlotTime
<1>8. HangInv(r)'
  <2>1. r[Hang] = q[Hang]
    BY <1>3, ListNames, NamesDiffer
  <2>2. \A t, i, n : HangTime(t, i, n) => HangTime(t, i, n)'
    BY <1>1 DEF HangTime, Turn
  <2> QED
    BY <2>1, <2>2 DEF TimesInv, HangInv
<1> QED
  BY <1>5, <1>6, <1>7, <1>8 DEF TimesInv, SlotsInv, ActiveInv

(* The j-th timer of list o under r is t, or another one that was there under q. *)
MovedOrOld(q, r, k, t, o, j) ==
  \/ o = k /\ r[o][j] = t
  \/ \E e \in 1 .. Len(q[o]) : r[o][j] = q[o][e] /\ q[o][e] # t

(* What is in r is t, at the end of list k, or was in q. *)
LEMMA MovedWhere ==
  ASSUME NEW q \in [Lists -> Seq(Timers)], Apart(q), NEW l \in Lists, NEW i \in 1 .. Len(q[l]), NEW t, t = q[l][i],
         NEW k \in Lists, NEW r, Moved(q, r, l, i, k, t), NEW o \in Lists, NEW j \in 1 .. Len(r[o])
  PROVE  MovedOrOld(q, r, k, t, o, j)
<1>1. PICK z : Cut(q, z, l, i) /\ Grown(z, r, k, t)
  BY DEF Moved
<1>2. z \in [Lists -> Seq(Timers)]
  BY <1>1 DEF Cut
<1>3. \/ o = k /\ r[o][j] = t
      \/ j \in 1 .. Len(z[o]) /\ r[o][j] = z[o][j]
  <2>1. OldOrNew(z, r, k, t, o, j)
    BY <1>1, <1>2, GrownWhere
  <2> QED
    BY <2>1 DEF OldOrNew
<1>4. ASSUME j \in 1 .. Len(z[o]), r[o][j] = z[o][j]
      PROVE  \E e \in 1 .. Len(q[o]) : r[o][j] = q[o][e] /\ q[o][e] # t
  <2>1. \E e \in 1 .. Len(q[o]) : z[o][j] = q[o][e]
    BY <1>1, <1>4, CutWhere
  <2>2. \A x : Placed(z, x) <=> Placed(q, x) /\ x # t
    BY <1>1, CutApart
  <2>3. Placed(z, z[o][j])
    BY <1>4 DEF Placed
  <2> QED
    BY <1>4, <2>1, <2>2, <2>3
<1> QED
  BY <1>3, <1>4 DEF MovedOrOld

(* readd_timer() puts a timer where its time belongs. *)
LEMMA ReaddTimes ==
  ASSUME IndInv, NEW q, Ghost(q), TimesInv(q), NEW l \in Lists, NEW i \in 1 .. Len(q[l]), NEW t, t = q[l][i],
         NEW time \in Nat, time < tickcount + Word, t \notin late, NEW r, Moved(q, r, l, i, Place(time), t),
         wpc \in {"load", "handler"}, wpc' \in {"load", "handle"}, wpc = "load" <=> wpc' = "load",
         wpc = "handler" => time > tickcount, UNCHANGED <<tickcount, timeout>>,
         \A x \in Timers : nexttime'[x] = IF x = t THEN time ELSE nexttime[x],
         \A x \in Timers : state'[x] = IF x = t THEN "active" ELSE state[x],
         late' = IF time < tickcount THEN late \cup {t} ELSE late
  PROVE  TimesInv(r)'
<1>0. /\ q \in [Lists -> Seq(Timers)] /\ Apart(q) /\ nexttime \in [Timers -> Nat] /\ tickcount \in Nat /\ N \in Nat /\ N > 0
      /\ late \in SUBSET Timers /\ TypeOK
  <2>1. TypeOK
    BY DEF IndInv
  <2>2. late \in SUBSET Timers
    BY <2>1 DEF TypeOK
  <2>3. N \in Nat /\ N > 0
    BY SlotsAssumption
  <2>4. /\ q \in [Lists -> Seq(Timers)] /\ Apart(q) /\ nexttime \in [Timers -> Nat] /\ tickcount \in Nat
    BY GhostFacts
  <2> QED
    BY <2>1, <2>2, <2>3, <2>4
<1>1. t \in Timers
  BY <1>0
<1>2. PICK k \in Lists : k = Place(time) /\ k # Active
  BY <1>0, PlaceWhole
<1>3. /\ time < tickcount => k = Hang
      /\ time >= tickcount + N => k = Hang
      /\ time >= tickcount /\ time < tickcount + N => k = Near(time % N)
  BY <1>0, <1>2, PlaceIs
<1>4. ASSUME NEW o \in Lists, NEW j \in 1 .. Len(r[o])
      PROVE  \/ o = k /\ r[o][j] = t
             \/ \E e \in 1 .. Len(q[o]) : r[o][j] = q[o][e] /\ q[o][e] # t /\ q[o][e] \in Timers
  <2>1. \/ o = k /\ r[o][j] = t
        \/ \E e \in 1 .. Len(q[o]) : r[o][j] = q[o][e] /\ q[o][e] # t
    <3>1. Moved(q, r, l, i, k, t)
      BY <1>2
    <3>2. q \in [Lists -> Seq(Timers)] /\ Apart(q)
      BY <1>0
    <3>3. MovedOrOld(q, r, k, t, o, j)
      BY <3>1, <3>2, MovedWhere
    <3> QED
      BY <3>3 DEF MovedOrOld
  <2>2. \A e \in 1 .. Len(q[o]) : q[o][e] \in Timers
    BY <1>0
  <2> QED
    BY <2>1, <2>2
<1>5. \A x \in Timers : x # t => nexttime'[x] = nexttime[x] /\ (x \in late' <=> x \in late)
  OBVIOUS
<1>6. nexttime'[t] = time /\ (t \in late' <=> time < tickcount)
  BY <1>1
<1>7. SlotsInv(r)'
  <2> SUFFICES ASSUME NEW h \in 0 .. N - 1, NEW j \in 1 .. Len(r[Near(h)])
               PROVE  SlotTime(r[Near(h)][j], h)'
    BY DEF SlotsInv
  <2>1. CASE Near(h) = k /\ r[Near(h)][j] = t
    <3>1. k # Hang
      BY <2>1, NamesDiffer
    <3>2. time >= tickcount /\ time < tickcount + N
      BY <1>0, <1>3, <3>1
    <3>3. time % N \in 0 .. N - 1 /\ Near(time % N) = Near(h)
      BY <1>3, <2>1, <3>2, SlotType
    <3>4. time % N = h
      BY <3>3, NamesDiffer
    <3>5. time >= IF wpc' \in {"handle", "handler"} THEN tickcount + 1 ELSE tickcount
      BY <1>0, <3>2
    <3>6. t \notin late'
      BY <1>0, <1>6, <3>2
    <3> QED
      BY <1>6, <2>1, <3>2, <3>4, <3>5, <3>6 DEF SlotTime
  <2>2. CASE \E e \in 1 .. Len(q[Near(h)]) : /\ r[Near(h)][j] = q[Near(h)][e] /\ q[Near(h)][e] # t
                                             /\ q[Near(h)][e] \in Timers
    <3>1. PICK e \in 1 .. Len(q[Near(h)]) : /\ r[Near(h)][j] = q[Near(h)][e] /\ q[Near(h)][e] # t
                                           /\ q[Near(h)][e] \in Timers
      BY <2>2
    <3>2. SlotTime(q[Near(h)][e], h)
      BY DEF TimesInv, SlotsInv
    <3>3. wpc' \in {"handle", "handler"} <=> wpc \in {"handle", "handler"}
      OBVIOUS
    <3> QED
      BY <1>5, <3>1, <3>2, <3>3 DEF SlotTime
  <2> QED
    BY <1>4, <2>1, <2>2, ListNames
<1>8. ActiveInv(r)'
  <2> SUFFICES ASSUME NEW j \in 1 .. Len(r[Active]) PROVE ActiveTime(r[Active][j])'
    BY DEF ActiveInv
  <2>1. PICK e \in 1 .. Len(q[Active]) : r[Active][j] = q[Active][e] /\ q[Active][e] # t /\ q[Active][e] \in Timers
    BY <1>2, <1>4, ListNames
  <2>2. ActiveTime(q[Active][e])
    BY DEF TimesInv, ActiveInv
  <2> QED
    BY <1>5, <2>1, <2>2 DEF ActiveTime
<1>9. HangInv(r)'
  <2> SUFFICES ASSUME NEW j \in 1 .. Len(r[Hang]) PROVE HangTime(r[Hang][j], j, Len(r[Hang]))'
    BY DEF HangInv
  <2>0. wpc' # "regroup" /\ wpc # "regroup" /\ Turn' = Turn
    BY DEF Turn
  <2>1. CASE Hang = k /\ r[Hang][j] = t
    <3>1. time < tickcount \/ time >= tickcount + N
      <4>1. time % N \in 0 .. N - 1
        BY <1>0, SlotType
      <4>2. Near(time % N) # Hang
        BY <4>1, NamesDiffer
      <4> QED
        BY <1>0, <1>3, <2>1, <4>2
    <3>2. Turn <= tickcount + N
      <4>1. tickcount % N \in 0 .. N - 1
        BY <1>0, SlotType
      <4> QED
        BY <1>0, <4>1 DEF Turn
    <3>3. Turn \in Int
      <4>1. tickcount % N \in 0 .. N - 1
        BY <1>0, SlotType
      <4> QED
        BY <1>0, <4>1 DEF Turn
    <3>4. time < tickcount \/ (~(time < tickcount) /\ time >= Turn)
      BY <1>0, <3>1, <3>2, <3>3
    <3> QED
      BY <1>6, <2>0, <2>1, <3>4 DEF HangTime
  <2>2. CASE \E e \in 1 .. Len(q[Hang]) : r[Hang][j] = q[Hang][e] /\ q[Hang][e] # t /\ q[Hang][e] \in Timers
    <3>1. PICK e \in 1 .. Len(q[Hang]) : r[Hang][j] = q[Hang][e] /\ q[Hang][e] # t /\ q[Hang][e] \in Timers
      BY <2>2
    <3>2. HangTime(q[Hang][e], e, Len(q[Hang]))
      BY DEF TimesInv, HangInv
    <3> QED
      BY <1>5, <2>0, <3>1, <3>2 DEF HangTime
  <2> QED
    BY <1>4, <2>1, <2>2, ListNames
<1>10. BoundsInv'
  <2>1. BoundsInv
    BY DEF TimesInv
  <2>2. state[t] # "none"
    <3>1. state[q[l][i]] \in {"add", "active"}
      BY DEF Ghost, StatesInv
    <3> QED
      BY <3>1
  <2>3. \A x \in Timers : state'[x] # "none" => nexttime'[x] < tickcount + Word /\ timeout[x] \in Timeouts
    BY <2>1, <2>2 DEF BoundsInv
  <2>4. \A x \in late' : state'[x] = "active"
    BY <1>0, <1>1, <2>1 DEF BoundsInv
  <2> QED
    BY <2>3, <2>4 DEF BoundsInv
<1> QED
  BY <1>7, <1>8, <1>9, <1>10 DEF TimesInv

(* A timer that has been freed is in no list. *)
LEMMA FreeTimes ==
  ASSUME IndInv, NEW q, Ghost(q), TimesInv(q), NEW i \in 1 .. Len(q[Active]), cur = q[Active][i],
         NEW r, Cut(q, r, Active, i), FreeTimer(cur), wpc = "handler", wpc' = "handle",
         UNCHANGED <<tickcount, timeout, nexttime>>
  PROVE  TimesInv(r)'
<1>0. /\ q \in [Lists -> Seq(Timers)] /\ Apart(q) /\ state \in [Timers -> {"none", "add", "active", "del"}]
      /\ late \in SUBSET Timers /\ Active \in Lists
  BY GhostFacts, ListNames DEF IndInv, TypeOK
<1>1. cur \in Timers
  BY <1>0
<1>2. \A x \in Timers : state'[x] = IF x = cur THEN "none" ELSE state[x]
  BY <1>0, <1>1 DEF FreeTimer
<1>3. late' = late \ {cur}
  BY DEF FreeTimer
<1>4. BoundsInv'
  BY <1>0, <1>1, <1>2, <1>3 DEF TimesInv, BoundsInv
<1>5. ASSUME NEW o \in Lists, NEW j \in 1 .. Len(r[o])
      PROVE  \E e \in 1 .. Len(q[o]) : r[o][j] = q[o][e] /\ q[o][e] # cur
  <2>0. q \in [Lists -> Seq(Timers)] /\ Active \in Lists
    BY <1>0
  <2>1. \E e \in 1 .. Len(q[o]) : r[o][j] = q[o][e]
    BY <2>0, CutWhere
  <2>2. Apart(r) /\ \A x : Placed(r, x) <=> Placed(q, x) /\ x # q[Active][i]
    BY <1>0, CutApart
  <2>3. Placed(r, r[o][j])
    BY DEF Placed
  <2> QED
    BY <2>1, <2>2, <2>3
<1>6. \A x, k : SlotTime(x, k) /\ x # cur => SlotTime(x, k)'
  BY <1>3 DEF SlotTime
<1>7. \A x : ActiveTime(x) /\ x # cur => ActiveTime(x)'
  BY <1>3 DEF ActiveTime
<1>8. \A x, a, b, c, d : HangTime(x, a, b) /\ x # cur => HangTime(x, c, d)'
  BY <1>3 DEF HangTime, Turn
<1>9. SlotsInv(r)'
  <2> SUFFICES ASSUME NEW h \in 0 .. N - 1, NEW j \in 1 .. Len(r[Near(h)])
               PROVE  SlotTime(r[Near(h)][j], h)'
    BY DEF SlotsInv
  <2>1. PICK e \in 1 .. Len(q[Near(h)]) : r[Near(h)][j] = q[Near(h)][e] /\ q[Near(h)][e] # cur
    BY <1>5, ListNames
  <2>2. SlotTime(q[Near(h)][e], h)
    BY DEF TimesInv, SlotsInv
  <2>3. SlotTime(r[Near(h)][j], h) /\ r[Near(h)][j] # cur
    BY <2>1, <2>2
  <2> QED
    BY <1>6, <2>3
<1>10. ActiveInv(r)'
  <2> SUFFICES ASSUME NEW j \in 1 .. Len(r[Active]) PROVE ActiveTime(r[Active][j])'
    BY DEF ActiveInv
  <2>1. PICK e \in 1 .. Len(q[Active]) : r[Active][j] = q[Active][e] /\ q[Active][e] # cur
    BY <1>0, <1>5
  <2>2. ActiveTime(q[Active][e])
    BY DEF TimesInv, ActiveInv
  <2>3. ActiveTime(r[Active][j]) /\ r[Active][j] # cur
    BY <2>1, <2>2
  <2> QED
    BY <1>7, <2>3
<1>11. HangInv(r)'
  <2> SUFFICES ASSUME NEW j \in 1 .. Len(r[Hang]) PROVE HangTime(r[Hang][j], j, Len(r[Hang]))'
    BY DEF HangInv
  <2>1. PICK e \in 1 .. Len(q[Hang]) : r[Hang][j] = q[Hang][e] /\ q[Hang][e] # cur
    BY <1>5, ListNames
  <2>2. PICK n, x : n = Len(q[Hang]) /\ x = r[Hang][j]
    OBVIOUS
  <2>3. HangTime(x, e, n) /\ x # cur
    BY <2>1, <2>2 DEF TimesInv, HangInv
  <2> QED
    BY <1>8, <2>2, <2>3
<1> QED
  BY <1>4, <1>9, <1>10, <1>11 DEF TimesInv

(* The next tick: what was for later ticks is for this one or later, and at the end *)
(* of a turn the hanging list is for this turn or later.                            *)
LEMMA AdvanceTimes ==
  ASSUME IndInv, NEW q, Ghost(q), TimesInv(q), AdvanceTick
  PROVE  TimesInv(q)'
<1>0. /\ q \in [Lists -> Seq(Timers)] /\ nexttime \in [Timers -> Nat] /\ tickcount \in Nat /\ frontidx \in {0, 1}
  BY GhostFacts
<1>1. /\ wpc = "handle" /\ left = 0 /\ tickcount' = tickcount + 1 /\ UNCHANGED <<state, nexttime, timeout, late>>
      /\ wpc' = (IF tickcount' % N = 0 THEN "regroup" ELSE "switch")
      /\ (wpc' = "regroup" => left' = links.count[Hang])
  BY DEF AdvanceTick, fields
<1>2. N \in Nat /\ N > 0 /\ Word \in Nat
  BY SlotsAssumption, WordAssumption
<1>3. PICK u \in 0 .. N - 1 : u = tickcount % N
  BY <1>0, SlotType
<1>4. tickcount' % N = IF u = N - 1 THEN 0 ELSE u + 1
  <2>1. PICK a \in Nat : a = tickcount
    BY <1>0
  <2>2. tickcount' = a + 1 /\ u = a % N
    BY <1>1, <1>3, <2>1
  <2>3. (a + 1) % N = IF a % N = N - 1 THEN 0 ELSE (a % N) + 1
    BY <2>1, NextSlot
  <2> QED
    BY <2>2, <2>3
<1>5. \A l \in Lists : \A i \in 1 .. Len(q[l]) : nexttime[q[l][i]] \in Nat
  <2>1. \A l \in Lists : \A i \in 1 .. Len(q[l]) : q[l][i] \in Timers
    BY <1>0
  <2> QED
    BY <1>0, <2>1
<1>6. BoundsInv'
  <2>1. BoundsInv
    BY DEF TimesInv
  <2>2. \A t \in Timers : state[t] # "none" => nexttime[t] < tickcount + 1 + Word /\ timeout[t] \in Timeouts
    <3>1. \A t \in Timers : nexttime[t] \in Nat
      BY <1>0
    <3> QED
      BY <1>0, <1>2, <2>1, <3>1 DEF BoundsInv
  <2>3. wpc' = "regroup" => tickcount' % N = 0
    BY <1>1
  <2> QED
    BY <1>1, <2>1, <2>2, <2>3 DEF BoundsInv
<1>7. SlotsInv(q)'
  <2> SUFFICES ASSUME NEW k \in 0 .. N - 1, NEW i \in 1 .. Len(q[Near(k)])
               PROVE  SlotTime(q[Near(k)][i], k)'
    BY DEF SlotsInv
  <2>1. PICK t : t = q[Near(k)][i]
    OBVIOUS
  <2>2. SlotTime(t, k)
    BY <2>1 DEF TimesInv, SlotsInv
  <2>3. PICK a \in Nat : a = nexttime[t]
    BY <1>5, <2>1, ListNames
  <2>4. a % N = k /\ a < tickcount + N /\ a >= tickcount + 1 /\ t \notin late
    BY <1>1, <2>2, <2>3 DEF SlotTime
  <2>5. a < tickcount' + N /\ a >= tickcount'
    BY <1>0, <1>1, <1>2, <2>4
  <2> QED
    BY <1>1, <2>1, <2>3, <2>4, <2>5 DEF SlotTime
<1>8. ActiveInv(q)'
  <2>1. Len(q[Active]) = 0
    BY <1>1 DEF Ghost, WalkInv
  <2> QED
    BY <2>1 DEF ActiveInv
<1>9. HangInv(q)'
  <2> SUFFICES ASSUME NEW i \in 1 .. Len(q[Hang])
               PROVE  HangTime(q[Hang][i], i, Len(q[Hang]))'
    BY DEF HangInv
  <2>1. PICK t : t = q[Hang][i]
    OBVIOUS
  <2>2. PICK a \in Nat : a = nexttime[t]
    BY <1>5, <2>1, ListNames
  <2>3. PICK n \in Nat : n = Len(q[Hang])
    BY <1>0, ListNames
  <2>4. HangTime(t, i, n)
    BY <2>1, <2>3 DEF TimesInv, HangInv
  <2>5. IF t \in late THEN a < tickcount ELSE a >= tickcount - u + N
    BY <1>1, <1>3, <2>2, <2>4 DEF HangTime, Turn
  <2>6. CASE u = N - 1
    <3>1. wpc' = "regroup" /\ left' = n
      <4>1. Ring(links, Hang, q[Hang], Len(q[Hang]))
        BY <1>0, WholeLists DEF Ghost, RingsInv
      <4> QED
        BY <1>1, <1>4, <2>3, <2>6, <4>1 DEF Ring
    <3>2. i > n - left'
      BY <2>3, <3>1
    <3>3. IF t \in late THEN a < tickcount' ELSE a >= tickcount'
      BY <1>0, <1>1, <1>2, <2>5, <2>6
    <3> QED
      BY <1>1, <2>1, <2>2, <2>3, <3>1, <3>2, <3>3 DEF HangTime
  <2>7. CASE u # N - 1
    <3>1. wpc' = "switch"
      <4>1. tickcount' % N # 0
        BY <1>4, <2>7
      <4> QED
        BY <1>1, <4>1
    <3>2. tickcount' - (tickcount' % N) + N = tickcount - u + N
      BY <1>0, <1>1, <1>2, <1>4, <2>7
    <3>3. IF t \in late THEN a < tickcount' ELSE a >= tickcount - u + N
      BY <1>0, <1>1, <2>5
    <3> QED
      BY <1>1, <2>1, <2>2, <2>3, <3>1, <3>2, <3>3 DEF HangTime, Turn
  <2> QED
    BY <2>6, <2>7
<1> QED
  BY <1>6, <1>7, <1>8, <1>9 DEF TimesInv

(* regroup_timers(): the timer at the wheel's position is late, for a later turn, or for this one. *)
LEMMA RegroupTime ==
  ASSUME IndInv, NEW q, Ghost(q), TimesInv(q), wpc = "regroup", left > 0, left <= Len(q[Hang]),
         cur = q[Hang][Len(q[Hang]) - left + 1], cur \in Timers
  PROVE  /\ nexttime[cur] < tickcount + Word
         /\ ~(Ahead(nexttime[cur]) < N) => IF cur \in late THEN nexttime[cur] < tickcount ELSE nexttime[cur] >= Turn
         /\ Ahead(nexttime[cur]) < N => /\ cur \notin late /\ nexttime[cur] >= tickcount /\ nexttime[cur] < tickcount + N
                                        /\ Place(nexttime[cur]) = Near(nexttime[cur] % N)
<1>0. /\ q \in [Lists -> Seq(Timers)] /\ nexttime \in [Timers -> Nat] /\ tickcount \in Nat /\ left \in Nat /\ TypeOK
      /\ N \in Nat
  <2>1. TypeOK
    BY DEF IndInv
  <2> QED
    BY <2>1, GhostFacts, SlotsAssumption
<1>1. PICK n \in Nat : n = Len(q[Hang])
  BY <1>0, ListNames
<1>2. PICK i \in 1 .. n : i = n - left + 1 /\ i > n - left
  BY <1>0, <1>1
<1>3. HangTime(cur, i, n)
  BY <1>1, <1>2 DEF TimesInv, HangInv
<1>4. PICK a \in Nat : a = nexttime[cur]
  BY <1>0
<1>5. IF cur \in late THEN a < tickcount ELSE a >= tickcount
  BY <1>2, <1>3, <1>4 DEF HangTime
<1>6. state[cur] # "none"
  <2>1. Hang \in Lists /\ i \in 1 .. Len(q[Hang])
    BY <1>1, ListNames
  <2>2. state[q[Hang][i]] \in {"add", "active"}
    BY <2>1 DEF Ghost, StatesInv
  <2> QED
    BY <1>1, <1>2, <2>2
<1>7. a < tickcount + Word /\ tickcount % N = 0
  BY <1>4, <1>6 DEF TimesInv, BoundsInv
<1>8. Turn = tickcount + N
  BY <1>0, <1>7 DEF Turn
<1>9. /\ a < tickcount => Place(a) = Hang /\ ~(Ahead(a) < N)
      /\ a >= tickcount + N => Place(a) = Hang /\ ~(Ahead(a) < N)
      /\ a >= tickcount /\ a < tickcount + N => Place(a) = Near(a % N) /\ Ahead(a) < N
  BY <1>0, <1>7, PlaceIs
<1>10. CASE Ahead(a) < N
  <2>1. a >= tickcount /\ a < tickcount + N
    BY <1>0, <1>9, <1>10
  <2>2. cur \notin late
    BY <1>0, <1>5, <2>1
  <2> QED
    BY <1>4, <1>7, <1>9, <1>10, <2>1, <2>2
<1>11. CASE ~(Ahead(a) < N)
  <2>1. IF cur \in late THEN a < tickcount ELSE a >= Turn
    BY <1>0, <1>5, <1>8, <1>9, <1>11
  <2> QED
    BY <1>4, <1>7, <1>11, <2>1
<1> QED
  BY <1>10, <1>11

(* regroup_timers() keeps the times. *)
LEMMA RegroupStays ==
  ASSUME IndInv, NEW q, Ghost(q), TimesInv(q), Regroup, wpc = "regroup", wpc' = "regroup", left > 0,
         left' = left - 1, left <= Len(q[Hang]),
         cur = q[Hang][Len(q[Hang]) - left + 1], cur \in Timers, ~(Ahead(nexttime[cur]) < N)
  PROVE  TimesInv(q)'
<1>0. UNCHANGED <<state, nexttime, timeout, tickcount, late>> /\ left \in Nat /\ q \in [Lists -> Seq(Timers)]
  BY GhostFacts DEF Regroup, fields
<1>1. IF cur \in late THEN nexttime[cur] < tickcount ELSE nexttime[cur] >= Turn
  BY RegroupTime
<1>2. BoundsInv'
  BY <1>0 DEF TimesInv, BoundsInv
<1>3. SlotsInv(q)'
  <2>1. \A t, k : SlotTime(t, k) => SlotTime(t, k)'
    BY <1>0 DEF SlotTime
  <2> QED
    BY <2>1 DEF TimesInv, SlotsInv
<1>4. ActiveInv(q)'
  <2>1. \A t : ActiveTime(t) => ActiveTime(t)'
    BY <1>0 DEF ActiveTime
  <2> QED
    BY <2>1 DEF TimesInv, ActiveInv
<1>5. HangInv(q)'
  <2> SUFFICES ASSUME NEW i \in 1 .. Len(q[Hang]) PROVE HangTime(q[Hang][i], i, Len(q[Hang]))'
    BY DEF HangInv
  <2>0. PICK n \in Nat : n = Len(q[Hang])
    BY <1>0, ListNames
  <2>1. PICK t : n = Len(q[Hang]) /\ t = q[Hang][i]
    BY <2>0
  <2>2. HangTime(t, i, n)
    BY <2>1 DEF TimesInv, HangInv
  <2>3. Turn' = Turn
    BY <1>0 DEF Turn
  <2>4. CASE i = n - left + 1
    <3>1. t = cur /\ ~(i > n - left')
      BY <1>0, <2>1, <2>4
    <3> QED
      BY <1>0, <1>1, <2>1, <2>3, <3>1 DEF HangTime
  <2>5. CASE i # n - left + 1
    <3>1. i > n - left' <=> i > n - left
      BY <1>0, <2>1, <2>5
    <3> QED
      BY <1>0, <2>1, <2>2, <2>3, <3>1 DEF HangTime
  <2> QED
    BY <2>4, <2>5
<1> QED
  BY <1>2, <1>3, <1>4, <1>5 DEF TimesInv

(* regroup_timers() moves a timer into the slot of its time. *)
LEMMA RegroupMoves ==
  ASSUME IndInv, NEW q, Ghost(q), TimesInv(q), Regroup, wpc = "regroup", wpc' = "regroup", left > 0,
         left' = left - 1, left <= Len(q[Hang]), NEW i, i = Len(q[Hang]) - left + 1,
         cur = q[Hang][i], cur \in Timers, Ahead(nexttime[cur]) < N,
         NEW r, Moved(q, r, Hang, i, Place(nexttime[cur]), cur)
  PROVE  TimesInv(r)'
<1>0. /\ UNCHANGED <<state, nexttime, timeout, tickcount, late>> /\ left \in Nat /\ tickcount \in Nat
      /\ q \in [Lists -> Seq(Timers)] /\ Apart(q) /\ nexttime \in [Timers -> Nat]
  <2>1. UNCHANGED <<state, nexttime, timeout, tickcount, late>>
    BY DEF Regroup, fields
  <2> QED
    BY <2>1, GhostFacts
<1>1. PICK a \in Nat, n \in Nat : a = nexttime[cur] /\ n = Len(q[Hang])
  BY <1>0, ListNames
<1>2. i \in 1 .. n /\ n - left = i - 1 /\ (n - 1) - left' = i - 1
  BY <1>0, <1>1
<1>3. /\ cur \notin late /\ a >= tickcount /\ a < tickcount + N /\ Place(a) = Near(a % N)
  BY <1>1, RegroupTime
<1>4. PICK h \in 0 .. N - 1 : h = a % N
  BY SlotType
<1>5. PICK z : Cut(q, z, Hang, i) /\ Grown(z, r, Near(h), cur)
  BY <1>1, <1>3, <1>4 DEF Moved
<1>6. Near(h) \in Lists /\ Near(h) # Hang /\ Near(h) # Active /\ Hang # Active /\ Hang \in Lists /\ Active \in Lists
  BY ListNames, NamesDiffer
<1>7. /\ z \in [Lists -> Seq(Timers)] /\ (\A l \in Lists : l # Hang => z[l] = q[l]) /\ Len(z[Hang]) = n - 1
      /\ \A j \in 1 .. n - 1 : z[Hang][j] = q[Hang][Skip(j, i)]
  BY <1>1, <1>5 DEF Cut
<1>8. \A l \in Lists : l # Near(h) => r[l] = z[l]
  BY <1>5 DEF Grown
<1>9. BoundsInv'
  BY <1>0 DEF TimesInv, BoundsInv
<1>10. \A t, k : SlotTime(t, k) => SlotTime(t, k)'
  BY <1>0 DEF SlotTime
<1>11. SlotsInv(r)'
  <2> SUFFICES ASSUME NEW k \in 0 .. N - 1, NEW j \in 1 .. Len(r[Near(k)])
               PROVE  SlotTime(r[Near(k)][j], k)'
    BY DEF SlotsInv
  <2>1. Near(k) \in Lists /\ Near(k) # Hang
    BY ListNames, NamesDiffer
  <2>2. OldOrNew(z, r, Near(h), cur, Near(k), j)
    BY <1>5, <1>6, <1>7, <2>1, GrownWhere
  <2>3. CASE Near(k) = Near(h) /\ r[Near(k)][j] = cur
    <3>1. k = h
      BY <2>3, NamesDiffer
    <3>2. SlotTime(cur, k)
      BY <1>1, <1>3, <1>4, <3>1 DEF SlotTime
    <3> QED
      BY <1>10, <2>3, <3>2
  <2>4. CASE j \in 1 .. Len(z[Near(k)]) /\ r[Near(k)][j] = z[Near(k)][j]
    <3>1. z[Near(k)] = q[Near(k)]
      BY <1>7, <2>1
    <3>2. SlotTime(q[Near(k)][j], k)
      BY <2>4, <3>1 DEF TimesInv, SlotsInv
    <3> QED
      BY <1>10, <2>4, <3>1, <3>2
  <2> QED
    BY <2>2, <2>3, <2>4 DEF OldOrNew
<1>12. ActiveInv(r)'
  <2>1. \A t : ActiveTime(t) => ActiveTime(t)'
    BY <1>0 DEF ActiveTime
  <2>2. r[Active] = q[Active]
    BY <1>6, <1>7, <1>8
  <2> QED
    BY <2>1, <2>2 DEF TimesInv, ActiveInv
<1>13. HangInv(r)'
  <2>0. r[Hang] = z[Hang] /\ Turn' = Turn
    BY <1>0, <1>6, <1>8 DEF Turn
  <2> SUFFICES ASSUME NEW j \in 1 .. Len(r[Hang]) PROVE HangTime(r[Hang][j], j, Len(r[Hang]))'
    BY DEF HangInv
  <2>1. Len(r[Hang]) = n - 1 /\ j \in 1 .. n - 1
    BY <1>7, <2>0
  <2>2. PICK e \in 1 .. n : e = Skip(j, i)
    BY <1>2, <2>1 DEF Skip
  <2>3. PICK t : t = r[Hang][j] /\ t = q[Hang][e]
    BY <1>7, <2>0, <2>1, <2>2
  <2>4. HangTime(t, e, n)
    BY <1>1, <2>2, <2>3 DEF TimesInv, HangInv
  <2>5. j > (n - 1) - left' <=> e > n - left
    BY <1>2, <2>1, <2>2 DEF Skip
  <2> QED
    BY <1>0, <2>0, <2>1, <2>3, <2>4, <2>5 DEF HangTime
<1> QED
  BY <1>9, <1>11, <1>12, <1>13 DEF TimesInv
-----------------------------------------------------------------------------
(* A step takes the lists q to the lists r, and their times with them. *)
Goes(q, r) == Ghost(r)' /\ (TimesInv(q) => TimesInv(r)')

(* add_to_changelist(): no slot and no hanging timer changes. *)
LEMMA AddToChangelistGoes ==
  ASSUME IndInv, NEW q, Ghost(q), NEW c \in Callers \cup {Wheel}, AddToChangelist(c)
  PROVE  \E r : Goes(q, r)
<1>0. frontidx \in {0, 1}
  BY GhostFacts
<1>1. PICK r : Grown(q, r, Back, hand[c]) /\ Ghost(r)'
  BY AddToChangelistGhost
<1>2. /\ \A l \in Lists \ {Back} : r[l] = q[l]
  BY <1>1 DEF Grown
<1>3. Back \in {Change(0), Change(1)}
  BY <1>0, TwoChangelists
<1>4. r[Hang] = q[Hang] /\ r[Active] = q[Active] /\ \A k \in 0 .. N - 1 : r[Near(k)] = q[Near(k)]
  BY <1>2, <1>3, ListNames, NamesDiffer
<1>5. UNCHANGED <<state, nexttime, timeout, tickcount, late, wpc, left>>
  BY DEF AddToChangelist, fields
<1>6. ASSUME TimesInv(q) PROVE TimesInv(r)'
  BY <1>4, <1>5, <1>6, TimesStay
<1> QED
  BY <1>1, <1>6 DEF Goes

(* switch_changelist(). *)
LEMMA SwitchGoes ==
  ASSUME IndInv, NEW q, Ghost(q), SwitchChangelist
  PROVE  Goes(q, q)
<1>1. UNCHANGED <<state, nexttime, timeout, tickcount, late>> /\ wpc = "switch" /\ wpc' = "load"
  BY DEF SwitchChangelist, fields
<1>2. ASSUME TimesInv(q) PROVE TimesInv(q)'
  BY <1>1, <1>2, TimesStay
<1> QED
  BY <1>2, SwitchGhost DEF Goes

(* load_timers(): a new timer goes where its time says. *)
LEMMA LoadGoes ==
  ASSUME IndInv, NEW q, Ghost(q), LoadTimer
  PROVE  \E r : Goes(q, r)
<1>0. /\ q \in [Lists -> Seq(Timers)] /\ nexttime \in [Timers -> Nat] /\ left \in Nat /\ frontidx \in {0, 1}
      /\ state \in [Timers -> {"none", "add", "active", "del"}]
  BY GhostFacts
<1>1. PICK r : /\ left > 0 /\ Moved(q, r, Front, 1, Place(nexttime[cur]), cur) /\ cur = q[Front][1] /\ Ghost(r)'
               /\ state[cur] = "add" /\ Readd(links, cur, nexttime[cur])
  BY LoadGhost
<1>2. wpc = "load" /\ wpc' = "load" /\ UNCHANGED <<tickcount, timeout, nexttime>>
  BY DEF LoadTimer
<1>3. Front \in Lists /\ left = Len(q[Front])
  <2>1. Front \in Lists
    BY <1>0, WholeLists
  <2> QED
    BY <1>2, <2>1 DEF Ghost, WalkInv
<1>4. PICK i \in 1 .. Len(q[Front]) : i = 1
  BY <1>0, <1>1, <1>3
<1>5. PICK t \in Timers : t = cur /\ t = q[Front][i]
  BY <1>0, <1>1, <1>3, <1>4
<1>6. PICK time \in Nat : time = nexttime[t]
  BY <1>0
<1>7. /\ \A x \in Timers : nexttime'[x] = IF x = t THEN time ELSE nexttime[x]
      /\ \A x \in Timers : state'[x] = IF x = t THEN "active" ELSE state[x]
  BY <1>0, <1>1, <1>2, <1>5, <1>6 DEF Readd
<1>8. late' = IF time < tickcount THEN late \cup {t} ELSE late
  BY <1>1, <1>5, <1>6 DEF Readd
<1>9. ASSUME TimesInv(q) PROVE TimesInv(r)'
  <2>1. BoundsInv /\ state[t] = "add"
    BY <1>1, <1>5, <1>9 DEF TimesInv
  <2>2. time < tickcount + Word /\ t \notin late
    BY <1>6, <2>1 DEF BoundsInv
  <2>3. Moved(q, r, Front, i, Place(time), t)
    BY <1>1, <1>4, <1>5, <1>6
  <2> QED
    BY <1>2, <1>3, <1>5, <1>7, <1>8, <1>9, <2>2, <2>3, ReaddTimes, ZenonT(40)
<1> QED
  BY <1>1, <1>9 DEF Goes

(* handle_timer() when a handler has returned true. *)
LEMMA ReturnsGoes ==
  ASSUME IndInv, NEW q, Ghost(q), NEW w \in Results, HandlerReturns(w), drops' = 0
  PROVE  \E r : Goes(q, r)
<1>0. /\ q \in [Lists -> Seq(Timers)] /\ nexttime \in [Timers -> Nat] /\ left \in Nat /\ tickcount \in Nat
      /\ timeout \in [Timers -> Nat] /\ Active \in Lists
      /\ state \in [Timers -> {"none", "add", "active", "del"}]
  BY GhostFacts, ListNames
<1>1. wpc = "handler" /\ wpc' = "handle" /\ cur = q[Active][1] /\ left > 0 /\ left = Len(q[Active])
  BY ReturnsGhost
<1>2. UNCHANGED tickcount
  BY DEF HandlerReturns
<1>3. PICK i \in 1 .. Len(q[Active]) : i = 1
  BY <1>0, <1>1
<1>4. PICK t \in Timers : t = cur /\ t = q[Active][i]
  BY <1>0, <1>1, <1>3
<1>5. ASSUME NEW r, Cut(q, r, Active, 1), Ghost(r)', FreeTimer(cur), UNCHANGED <<nexttime, timeout>>
      PROVE  Goes(q, r)
  <2>1. ASSUME TimesInv(q) PROVE TimesInv(r)'
    BY <1>1, <1>2, <1>3, <1>4, <1>5, <2>1, FreeTimes
  <2> QED
    BY <1>5, <2>1 DEF Goes
<1>6. ASSUME NEW r, Moved(q, r, Active, 1, Place(nexttime[cur] + timeout[cur]), cur), Ghost(r)',
             nexttime' = [nexttime EXCEPT ![cur] = nexttime[cur] + timeout[cur]],
             Readd(Pop(links, Active, cur), cur, nexttime[cur] + timeout[cur]), UNCHANGED timeout
      PROVE  Goes(q, r)
  <2>1. PICK time \in Nat : time = nexttime[t] + timeout[t]
    BY <1>0
  <2>2. /\ \A x \in Timers : nexttime'[x] = IF x = t THEN time ELSE nexttime[x]
        /\ \A x \in Timers : state'[x] = IF x = t THEN "active" ELSE state[x]
    BY <1>0, <1>4, <1>6, <2>1 DEF Readd
  <2>3. late' = IF time < tickcount THEN late \cup {t} ELSE late
    BY <1>4, <1>6, <2>1 DEF Readd
  <2>4. ASSUME TimesInv(q) PROVE TimesInv(r)'
    <3>1. t \notin late /\ nexttime[t] = tickcount
      BY <1>4, <2>4 DEF TimesInv, ActiveInv, ActiveTime
    <3>2. state[t] = "active"
      BY <1>1, <1>4 DEF IndInv, HandlerInv
    <3>3. timeout[t] \in Timeouts
      BY <2>4, <3>2 DEF TimesInv, BoundsInv
    <3>4. timeout[t] \in 1 .. Word - 1 /\ Word \in Nat
      BY <3>3, TimeoutsAssumption, WordAssumption
    <3>5. time < tickcount + Word /\ time > tickcount
      BY <1>0, <2>1, <3>1, <3>4
    <3>6. Moved(q, r, Active, i, Place(time), t)
      BY <1>3, <1>4, <1>6, <2>1
    <3> QED
      BY <1>0, <1>1, <1>2, <1>4, <1>6, <2>2, <2>3, <2>4, <3>1, <3>5, <3>6, ReaddTimes
  <2> QED
    BY <1>6, <2>4 DEF Goes
<1> QED
  BY <1>5, <1>6, ReturnsGhost

(* The end of regroup_timers(): every timer it came to and left is for a later turn. *)
LEMMA RegroupEnds ==
  ASSUME IndInv, NEW q, Ghost(q), TimesInv(q), Regroup, wpc = "regroup", wpc' = "switch", left = 0
  PROVE  TimesInv(q)'
<1>0. UNCHANGED <<state, nexttime, timeout, tickcount, late>> /\ q \in [Lists -> Seq(Timers)]
  BY GhostFacts DEF Regroup, fields
<1>1. BoundsInv'
  BY <1>0 DEF TimesInv, BoundsInv
<1>2. SlotsInv(q)'
  <2>1. \A t, k : SlotTime(t, k) => SlotTime(t, k)'
    BY <1>0 DEF SlotTime
  <2> QED
    BY <2>1 DEF TimesInv, SlotsInv
<1>3. ActiveInv(q)'
  <2>1. \A t : ActiveTime(t) => ActiveTime(t)'
    BY <1>0 DEF ActiveTime
  <2> QED
    BY <2>1 DEF TimesInv, ActiveInv
<1>4. HangInv(q)'
  <2> SUFFICES ASSUME NEW i \in 1 .. Len(q[Hang]) PROVE HangTime(q[Hang][i], i, Len(q[Hang]))'
    BY DEF HangInv
  <2>1. PICK n \in Nat : n = Len(q[Hang])
    BY <1>0, ListNames
  <2>2. PICK t : t = q[Hang][i]
    OBVIOUS
  <2>3. HangTime(t, i, n) /\ ~(i > n - left)
    BY <2>1, <2>2 DEF TimesInv, HangInv
  <2>4. Turn' = Turn
    BY <1>0 DEF Turn
  <2> QED
    BY <1>0, <2>1, <2>2, <2>3, <2>4 DEF HangTime
<1> QED
  BY <1>1, <1>2, <1>3, <1>4 DEF TimesInv

(* regroup_timers(). *)
LEMMA RegroupGoes ==
  ASSUME IndInv, NEW q, Ghost(q), Regroup
  PROVE  \E r : Goes(q, r)
<1>1. CASE left = 0 /\ wpc' = "switch" /\ Ghost(q)'
  <2>1. ASSUME TimesInv(q) PROVE TimesInv(q)'
    BY <1>1, <2>1, RegroupGhost, RegroupEnds
  <2> QED
    BY <1>1, <2>1 DEF Goes
<1>2. ASSUME left > 0, wpc' = "regroup", left' = left - 1, left <= Len(q[Hang]),
             cur = q[Hang][Len(q[Hang]) - left + 1], cur \in Timers,
             ~(Ahead(nexttime[cur]) < N), Ghost(q)'
      PROVE  Goes(q, q)
  <2>1. ASSUME TimesInv(q) PROVE TimesInv(q)'
    BY <1>2, <2>1, RegroupGhost, RegroupStays
  <2> QED
    BY <1>2, <2>1 DEF Goes
<1>3. ASSUME left > 0, wpc' = "regroup", left' = left - 1, left <= Len(q[Hang]),
             cur = q[Hang][Len(q[Hang]) - left + 1], cur \in Timers, Ahead(nexttime[cur]) < N,
             NEW r, Moved(q, r, Hang, Len(q[Hang]) - left + 1, Place(nexttime[cur]), cur), Ghost(r)'
      PROVE  Goes(q, r)
  <2>1. PICK i : i = Len(q[Hang]) - left + 1
    OBVIOUS
  <2>2. wpc = "regroup" /\ cur = q[Hang][i] /\ Moved(q, r, Hang, i, Place(nexttime[cur]), cur)
    BY <1>3, <2>1, RegroupGhost
  <2>3. ASSUME TimesInv(q) PROVE TimesInv(r)'
    BY <1>3, <2>1, <2>2, <2>3, RegroupMoves
  <2> QED
    BY <1>3, <2>3 DEF Goes
<1> QED
  BY <1>1, <1>2, <1>3, RegroupGhost

(* Until a timer is dropped, every step keeps the lists and the times. *)
LEMMA WheelStep ==
  ASSUME IndInv, NEW q, Ghost(q), Next, drops' = 0
  PROVE  \E r : Goes(q, r)
<1>0. drops \in Nat
  BY BoundsAssumption DEF IndInv, TypeOK
<1>1. ASSUME NEW c \in Callers \cup {Wheel}, NEW d \in Delays, NEW k \in Timeouts, NEW n \in Repeats, AddTimer(c, d, k, n)
      PROVE  Goes(q, q)
  <2>1. Ghost(q)'
    BY <1>1, AddTimerGhost
  <2>2. ASSUME TimesInv(q) PROVE TimesInv(q)'
    BY <1>1, <2>2, AddTimerTimes
  <2> QED
    BY <2>1, <2>2 DEF Goes
<1>2. ASSUME NEW c \in Callers \cup {Wheel}, NEW t \in Timers, DelTimer(c, t) PROVE FALSE
  BY <1>0, <1>2 DEF DelTimer
<1>3. CASE StartHandling
  <2>1. PICK r : Swapped(q, r, Active, Near(tickcount % N)) /\ Len(q[Active]) = 0 /\ Ghost(r)'
    BY <1>3, StartGhost
  <2>2. ASSUME TimesInv(q) PROVE TimesInv(r)'
    BY <1>3, <2>1, <2>2, StartTimes
  <2> QED
    BY <2>1, <2>2 DEF Goes
<1>4. CASE LockTimer
  <2>1. Ghost(q)' /\ wpc' = "handler" /\ UNCHANGED <<cur, left>>
    BY <1>4, TurnGhost
  <2>2. UNCHANGED <<state, nexttime, timeout, tickcount, late>> /\ wpc = "handle"
    BY <1>4 DEF LockTimer, fields
  <2>3. ASSUME TimesInv(q) PROVE TimesInv(q)'
    BY <2>1, <2>2, <2>3, TimesStay
  <2> QED
    BY <2>1, <2>3 DEF Goes
<1>5. CASE AdvanceTick
  <2>1. Ghost(q)'
    BY <1>5, TurnGhost
  <2>2. ASSUME TimesInv(q) PROVE TimesInv(q)'
    BY <1>5, <2>2, AdvanceTimes
  <2> QED
    BY <2>1, <2>2 DEF Goes
<1>6. ~FollowNull
  BY TurnGhost
<1>7. CASE Tick
  BY <1>3, <1>4, <1>5, <1>6, <1>7, SwitchGoes, LoadGoes, ReturnsGoes, RegroupGoes DEF Tick
<1> QED
  BY <1>1, <1>2, <1>7, AddToChangelistGoes DEF Next

(* Until a timer is dropped, the lists are circles of timers whose times are those *)
(* of their list.                                                                  *)
WheelInv == drops = 0 => \E q : Ghost(q) /\ TimesInv(q)

(* Every step keeps them so: drops only grows. *)
LEMMA WheelStays == IndInv /\ WheelInv /\ [Next]_vars => WheelInv'
<1> SUFFICES ASSUME IndInv, WheelInv, [Next]_vars, drops' = 0
             PROVE  (\E q : Ghost(q) /\ TimesInv(q))'
  BY DEF WheelInv
<1>1. CASE Next
  <2>1. drops = 0
    <3>1. drops \in Nat
      BY BoundsAssumption DEF IndInv, TypeOK
    <3>2. drops' = drops \/ drops' = drops + 1
      BY <1>1 DEF Next, Tick, AddTimer, AddToChangelist, DelTimer, SwitchChangelist, LoadTimer, StartHandling,
                  FollowNull, LockTimer, HandlerReturns, AdvanceTick, Regroup
    <3> QED
      BY <3>1, <3>2
  <2>2. PICK q : Ghost(q) /\ TimesInv(q)
    BY <2>1 DEF WheelInv
  <2>3. PICK r : Goes(q, r)
    BY <1>1, <2>2, WheelStep
  <2> QED
    BY <2>2, <2>3 DEF Goes
<1>2. CASE UNCHANGED vars
  <2>1. WheelInv'
    <3>1. PICK q : Ghost(q) /\ TimesInv(q)
      BY <1>2 DEF WheelInv, vars
    <3>2. UNCHANGED <<links, state, timeout, nexttime, tickcount, frontidx, wpc, cur, left, hand, late, failed>>
      BY <1>2 DEF vars
    <3>3. Ghost(q)'
      <4>1. RingsInv(q)'
        BY <3>1, <3>2 DEF Ghost, RingsInv, Ring, Whole, Back
      <4>2. WalkInv(q)'
        BY <3>1, <3>2 DEF Ghost, WalkInv, Ring, Line, Front
      <4>3. StatesInv(q)' /\ HandsInv(q)'
        BY <3>1, <3>2 DEF Ghost, StatesInv, HandsInv
      <4> QED
        BY <3>1, <3>2, <4>1, <4>2, <4>3 DEF Ghost
    <3>4. TimesInv(q)'
      BY <3>1, <3>2, TimesStay
    <3> QED
      BY <3>3, <3>4 DEF WheelInv
  <2> QED
    BY <2>1 DEF WheelInv
<1> QED
  BY <1>1, <1>2

(* The pool and the timers' states agree in every reachable state. *)
LEMMA IndInvariant == Spec => []IndInv
  BY InitIndInv, IndInvStep, PTL DEF Spec

(* Every reachable state has them. *)
LEMMA WheelIsSound == Spec => []WheelInv
<1>1. Init => WheelInv
  <2> SUFFICES ASSUME Init PROVE \E q : Ghost(q) /\ TimesInv(q)
    BY DEF WheelInv
  <2>1. PICK q : Ghost(q)
    BY InitGhost
  <2> QED
    BY <2>1, InitTimes
<1> QED
  BY <1>1, WheelStays, IndInvariant, PTL DEF Spec

(* ListsIntact follows from them. *)
LEMMA ListsFollow == IndInv /\ WheelInv => ListsIntact
<1> SUFFICES ASSUME IndInv, WheelInv PROVE ListsIntact
  OBVIOUS
<1>1. TypeOK
  BY DEF IndInv
<1>2. ASSUME drops = 0 PROVE ~failed /\ (\A l \in Whole : Circular(l)) /\ EachInOneList
  <2>1. PICK q : Ghost(q)
    BY <1>2 DEF WheelInv
  <2>2. (\A l \in Whole : Circular(l)) /\ EachInOneList
    BY <2>1, GhostLists
  <2> QED
    BY <2>1, <2>2 DEF Ghost
<1> QED
  BY <1>1, <1>2 DEF ListsIntact

(* An active timer between ticks is in a slot or hangs, and neither is for the past. *)
LEMMA TimesFollow == IndInv /\ WheelInv => OnTime
<1> SUFFICES ASSUME IndInv, WheelInv, drops = 0
             PROVE  /\ wpc = "handler" => nexttime[cur] = tickcount
                    /\ wpc = "switch" => \A t \in Timers :
                         state[t] = "active" /\ t \notin late => nexttime[t] >= tickcount
  BY DEF OnTime
<1>1. PICK q : Ghost(q) /\ TimesInv(q)
  BY DEF WheelInv
<1>2. /\ q \in [Lists -> Seq(Timers)] /\ nexttime \in [Timers -> Nat] /\ left \in Nat /\ tickcount \in Nat
      /\ N \in Nat /\ N > 0
  <2>1. N \in Nat /\ N > 0
    BY SlotsAssumption
  <2> QED
    BY <1>1, <2>1, GhostFacts
<1>3. ASSUME wpc = "handler" PROVE nexttime[cur] = tickcount
  <2>1. left > 0 /\ left = Len(q[Active]) /\ cur = q[Active][1]
    BY <1>1, <1>3 DEF IndInv, HandlerInv, Ghost, WalkInv
  <2>2. 1 \in 1 .. Len(q[Active])
    BY <1>2, <2>1
  <2>3. ActiveTime(q[Active][1])
    BY <1>1, <2>2 DEF TimesInv, ActiveInv
  <2> QED
    BY <2>1, <2>3 DEF ActiveTime
<1>4. ASSUME wpc = "switch", NEW t \in Timers, state[t] = "active", t \notin late
      PROVE  nexttime[t] >= tickcount
  <2>1. ~ \E c \in DOMAIN hand : hand[c] = t
    <3> SUFFICES ASSUME NEW c \in DOMAIN hand, hand[c] = t PROVE FALSE
      OBVIOUS
    <3>1. hand[c] # Null
      BY NullAssumption
    <3>2. state[hand[c]] = "add"
      BY <1>1, <3>1 DEF Ghost, HandsInv
    <3> QED
      BY <1>4, <3>2
  <2>2. PICK l \in Lists : \E i \in 1 .. Len(q[l]) : q[l][i] = t
    BY <1>1, <1>4, <2>1 DEF Ghost, StatesInv, Placed
  <2>0. PICK i \in 1 .. Len(q[l]) : q[l][i] = t
    BY <2>2
  <2>3. l \notin {Change(0), Change(1)}
    <3>1. state[q[l][i]] = IF l \in {Change(0), Change(1)} THEN "add" ELSE "active"
      BY <1>1 DEF Ghost, StatesInv
    <3> QED
      BY <1>4, <2>0, <3>1
  <2>4. l # Active
    <3>1. Len(q[Active]) = 0
      BY <1>1, <1>4 DEF Ghost, WalkInv
    <3> QED
      BY <2>0, <3>1
  <2>5. l = Hang \/ \E k \in 0 .. N - 1 : l = Near(k)
    BY <2>3, <2>4 DEF Lists
  <2>6. CASE l = Hang
    <3>1. HangTime(t, i, Len(q[Hang]))
      BY <1>1, <2>0, <2>6 DEF TimesInv, HangInv
    <3>2. nexttime[t] >= Turn
      BY <1>4, <3>1 DEF HangTime
    <3>3. PICK u \in 0 .. N - 1 : u = tickcount % N
      BY <1>2, SlotType
    <3>4. Turn = tickcount - u + N
      BY <3>3 DEF Turn
    <3>5. nexttime[t] \in Nat
      BY <1>2
    <3> QED
      BY <1>2, <3>2, <3>3, <3>4, <3>5
  <2>7. ASSUME NEW k \in 0 .. N - 1, l = Near(k) PROVE nexttime[t] >= tickcount
    <3>1. SlotTime(t, k)
      BY <1>1, <2>0, <2>7 DEF TimesInv, SlotsInv
    <3> QED
      BY <1>4, <3>1 DEF SlotTime
  <2> QED
    BY <2>5, <2>6, <2>7
<1> QED
  BY <1>3, <1>4

(* Until a timer is deleted or dropped by its handler, every list is a circle of   *)
(* the timers it counts, linked in both directions, no ASSERT of timerlist fails,  *)
(* and each timer that was added is in one list or in one caller's hands, for      *)
(* every number of timers, slots and callers and every order of their steps        *)
(* (timerlist::push_back, pop; timewheel::add_timer, load_timers, handle_timer,    *)
(* regroup_timers).                                                                *)
THEOREM ListsStayIntact == Spec => []ListsIntact
  BY ListsFollow, IndInvariant, WheelIsSound, PTL

(* As long as none is deleted or dropped, a timer's handler runs in the tick it    *)
(* asked for and no tick passes over a timer that is due, whatever the size of the *)
(* wheel and the timeouts of a tick or more (timewheel::handle_timer, readd_timer, *)
(* regroup_timers).                                                                *)
THEOREM HandlersOnTime == Spec => []OnTime
  BY TimesFollow, IndInvariant, WheelIsSound, PTL

-----------------------------------------------------------------------------
(***************************************************************************)
(* The monitor.                                                              *)
(***************************************************************************)

(* Nothing has no names. *)
LEMMA NothingIs == DOMAIN M!Nothing = {}
  BY DEF M!Nothing

(* A disk metric describes the mount it names, and so does one with another mount in it. *)
Labelled(d, Ks, tag) ==
  \/ d = M!Nothing
  \/ Ks \subseteq DOMAIN d /\ (\A k \in Ks : d[k] = d[tag]) /\ "interface" \notin DOMAIN d

(* init_mount_points() gives a sequence. *)
LEMMA MountPointsType == M!MountPoints \in Seq(Nat)
<1>0. Mounts \in Seq([point : Nat, fstype : STRING])
  BY MonitorAssumption DEF M!Sound
<1>1. PICK k \in Nat : k = Len(Mounts)
  BY <1>0
<1>9. \A i \in 1 .. Len(Mounts) : Mounts[i].point \in Nat
  <2>1. \A i \in 1 .. Len(Mounts) : Mounts[i] \in [point : Nat, fstype : STRING]
    BY <1>0, ElementOfSeq
  <2> QED
    BY <2>1
<1> DEFINE Turns(f, n) == f = [i \in 0 .. n |-> IF i = 0 THEN << >> ELSE M!AddPoint(f[i - 1], Mounts[i])]
           X == {n \in Nat : \E f : Turns(f, n)}
<1>2. 0 \in X
  <2>1. Turns([i \in 0 .. 0 |-> << >>], 0)
    OBVIOUS
  <2> QED
    BY <2>1
<1>3. ASSUME NEW n \in Nat, n \in X PROVE n + 1 \in X
  <2>1. PICK f : Turns(f, n)
    BY <1>3
  <2> DEFINE g == [i \in 0 .. n + 1 |-> IF i = n + 1 THEN M!AddPoint(f[n], Mounts[n + 1]) ELSE f[i]]
  <2>2. Turns(g, n + 1)
    <3>1. \A i \in 0 .. n + 1 : g[i] = IF i = 0 THEN << >> ELSE M!AddPoint(g[i - 1], Mounts[i])
      BY <2>1
    <3> QED
      BY <3>1
  <2>3. \E h : Turns(h, n + 1)
    BY <2>2, Zenon
  <2> QED
    BY <2>3
<1>4. \E f : Turns(f, k)
  <2>1. k \in X
    <3> HIDE DEF X
    <3> QED
      BY <1>1, <1>2, <1>3, AllNumbers
  <2> QED
    BY <2>1
<1>5. PICK f : Turns(f, k) /\ M!MountPoints = f[k]
  <2>1. Turns(CHOOSE f : Turns(f, k), k)
    BY <1>4, Zenon
  <2>2. M!MountPoints = (CHOOSE f : Turns(f, k))[k]
    BY <1>1 DEF M!MountPoints
  <2> QED
    BY <2>1, <2>2
<1> DEFINE Y == {n \in Nat : n <= k => f[n] \in Seq(Nat)}
<1>6. 0 \in Y
  BY <1>1, <1>5
<1>7. ASSUME NEW n \in Nat, n \in Y PROVE n + 1 \in Y
  <2>1. CASE n + 1 <= k
    <3>1. n + 1 \in 0 .. k /\ n + 1 # 0 /\ (n + 1) - 1 = n /\ n <= k /\ n + 1 \in 1 .. Len(Mounts)
      BY <1>1, <2>1
    <3>2. f[n + 1] = M!AddPoint(f[n], Mounts[n + 1])
      BY <1>5, <3>1
    <3>3. PICK m : m = Mounts[n + 1]
      OBVIOUS
    <3>4. m.point \in Nat
      BY <1>9, <3>1, <3>3
    <3>5. PICK s \in Seq(Nat), p \in Nat : s = f[n] /\ p = m.point
      BY <1>7, <3>1, <3>4
    <3>6. M!AddPoint(s, m) = s \/ M!AddPoint(s, m) = Append(s, p)
      BY <3>5 DEF M!AddPoint
    <3>7. Append(s, p) \in Seq(Nat)
      OBVIOUS
    <3>8. f[n + 1] \in Seq(Nat)
      BY <3>2, <3>3, <3>5, <3>6, <3>7
    <3> QED
      BY <3>8
  <2> QED
    BY <2>1
<1>8. k \in Y
  <2> HIDE DEF Y
  <2> QED
    BY <1>1, <1>6, <1>7, AllNumbers
<1> QED
  BY <1>5, <1>8

(* A disk metric describes one mount, however many of them there are. *)
LEMMA DiskIs ==
  ASSUME NEW alive PROVE Labelled(M!Disk(alive), M!DiskFields, "mount")
<1>1. PICK k \in Nat : k = Len(M!MountPoints)
  BY MountPointsType
<1> DEFINE Turns(f, n) == f = [i \in 0 .. n |-> IF i = 0 THEN M!Nothing ELSE M!DiskUsage(f[i - 1], M!MountPoints[i], alive)]
           X == {n \in Nat : \E f : Turns(f, n)}
<1>2. 0 \in X
  <2>1. Turns([i \in 0 .. 0 |-> M!Nothing], 0)
    OBVIOUS
  <2> QED
    BY <2>1
<1>3. ASSUME NEW n \in Nat, n \in X PROVE n + 1 \in X
  <2>1. PICK f : Turns(f, n)
    BY <1>3
  <2> DEFINE g == [i \in 0 .. n + 1 |-> IF i = n + 1 THEN M!DiskUsage(f[n], M!MountPoints[n + 1], alive) ELSE f[i]]
  <2>2. Turns(g, n + 1)
    <3>1. \A i \in 0 .. n + 1 : g[i] = IF i = 0 THEN M!Nothing ELSE M!DiskUsage(g[i - 1], M!MountPoints[i], alive)
      BY <2>1
    <3> QED
      BY <3>1
  <2>3. \E h : Turns(h, n + 1)
    BY <2>2, Zenon
  <2> QED
    BY <2>3
<1>4. \E f : Turns(f, k)
  <2>1. k \in X
    <3> HIDE DEF X
    <3> QED
      BY <1>1, <1>2, <1>3, AllNumbers
  <2> QED
    BY <2>1
<1>5. PICK f : Turns(f, k) /\ M!Disk(alive) = f[k]
  <2>1. Turns(CHOOSE f : Turns(f, k), k)
    BY <1>4, Zenon
  <2>2. M!Disk(alive) = (CHOOSE f : Turns(f, k))[k]
    BY <1>1 DEF M!Disk
  <2> QED
    BY <2>1, <2>2
<1> DEFINE Fits(d) == DOMAIN d = M!DiskFields /\ \A e \in M!DiskFields : d[e] = d["mount"]
           Y == {n \in Nat : n <= k => f[n] = M!Nothing \/ Fits(f[n])}
<1>6. 0 \in Y
  BY <1>1, <1>5
<1>7. ASSUME NEW n \in Nat, n \in Y PROVE n + 1 \in Y
  <2>1. CASE n + 1 <= k
    <3>1. n + 1 \in 0 .. k /\ n + 1 # 0 /\ (n + 1) - 1 = n /\ n <= k
      BY <1>1, <2>1
    <3>2. f[n + 1] = M!DiskUsage(f[n], M!MountPoints[n + 1], alive)
      BY <1>5, <3>1
    <3>3. PICK d, p, e : d = f[n] /\ p = M!MountPoints[n + 1] /\ e = M!Put(d, M!DiskFields, p)
      OBVIOUS
    <3>4. d = M!Nothing \/ Fits(d)
      BY <1>7, <3>1, <3>3
    <3>5. Fits(e)
      <4>1. DOMAIN e = M!DiskFields \cup DOMAIN d /\ \A x \in M!DiskFields : e[x] = p
        BY <3>3 DEF M!Put
      <4>2. DOMAIN d \subseteq M!DiskFields
        BY <3>4, NothingIs
      <4>3. "mount" \in M!DiskFields
        BY DEF M!DiskFields
      <4> QED
        BY <4>1, <4>2, <4>3
    <3>6. f[n + 1] = d \/ f[n + 1] = e
      BY <3>2, <3>3 DEF M!DiskUsage
    <3>7. f[n + 1] = M!Nothing \/ Fits(f[n + 1])
      BY <3>4, <3>5, <3>6
    <3> QED
      BY <3>7
  <2> QED
    BY <2>1
<1>8. k \in Y
  <2> HIDE DEF Y
  <2> QED
    BY <1>1, <1>6, <1>7, AllNumbers
<1>9. f[k] = M!Nothing \/ Fits(f[k])
  BY <1>8
<1>10. "interface" \notin M!DiskFields
  BY DEF M!DiskFields
<1> QED
  BY <1>5, <1>9, <1>10 DEF Labelled

(* A process metric is empty or describes one process: its numbers are that process's *)
(* or all uninitialised.                                                              *)
Described(d) ==
  /\ M!ProcFields \subseteq DOMAIN d
  /\ \A e \in M!ProcLabels : d[e] = d["pid"]
  /\ \E v \in {d["pid"], M!Junk} : \A e \in M!ProcNumbers : d[e] = v

Tagged(d) == d = M!Nothing \/ (Described(d) /\ "interface" \notin DOMAIN d)

(* What Process() makes is; getrusage() adds fields of other names. *)
LEMMA ProcessIs ==
  ASSUME NEW alive, NEW garbled PROVE Tagged(M!Process(alive, garbled))
<1>1. PICK k \in Nat : k = NSources
  BY MonitorAssumption DEF M!Sound
<1> DEFINE Turns(f, n) == f = [i \in 0 .. n |-> IF i = 0 THEN M!Nothing ELSE M!ProcessStats(f[i - 1], i, alive, garbled)]
           X == {n \in Nat : \E f : Turns(f, n)}
<1>2. 0 \in X
  <2>1. Turns([i \in 0 .. 0 |-> M!Nothing], 0)
    OBVIOUS
  <2> QED
    BY <2>1
<1>3. ASSUME NEW n \in Nat, n \in X PROVE n + 1 \in X
  <2>1. PICK f : Turns(f, n)
    BY <1>3
  <2> DEFINE g == [i \in 0 .. n + 1 |-> IF i = n + 1 THEN M!ProcessStats(f[n], n + 1, alive, garbled) ELSE f[i]]
  <2>2. Turns(g, n + 1)
    <3>1. \A i \in 0 .. n + 1 : g[i] = IF i = 0 THEN M!Nothing ELSE M!ProcessStats(g[i - 1], i, alive, garbled)
      BY <2>1
    <3> QED
      BY <3>1
  <2>3. \E h : Turns(h, n + 1)
    BY <2>2, Zenon
  <2> QED
    BY <2>3
<1>4. \E f : Turns(f, k)
  <2>1. k \in X
    <3> HIDE DEF X
    <3> QED
      BY <1>1, <1>2, <1>3, AllNumbers
  <2> QED
    BY <2>1
<1>5. PICK f : Turns(f, k) /\ M!Process(alive, garbled) = f[k]
  <2>1. Turns(CHOOSE f : Turns(f, k), k)
    BY <1>4, Zenon
  <2>2. M!Process(alive, garbled) = (CHOOSE f : Turns(f, k))[k]
    BY <1>1 DEF M!Process
  <2> QED
    BY <2>1, <2>2
<1> DEFINE Fits(d) == Described(d) /\ DOMAIN d \subseteq M!ProcFields \cup M!RusageFields
           Y == {n \in Nat : n <= k => f[n] = M!Nothing \/ Fits(f[n])}
<1>6. 0 \in Y
  BY <1>1, <1>5
<1>7. ASSUME NEW n \in Nat, n \in Y PROVE n + 1 \in Y
  <2>1. CASE n + 1 <= k
    <3>1. n + 1 \in 0 .. k /\ n + 1 # 0 /\ (n + 1) - 1 = n /\ n <= k
      BY <1>1, <2>1
    <3>2. f[n + 1] = M!ProcessStats(f[n], n + 1, alive, garbled)
      BY <1>5, <3>1
    <3>3. PICK d, p, v, a, e, h :
               /\ d = f[n] /\ p = n + 1 /\ v = M!ParseProcStat(p, alive, garbled).numbers
               /\ a = M!Put(d, M!ProcLabels, p) /\ e = M!Put(a, M!ProcNumbers, v)
               /\ h = M!Put(e, M!RusageFields, 1)
      OBVIOUS
    <3>4. d = M!Nothing \/ Fits(d)
      BY <1>7, <3>1, <3>3
    <3>5. CASE p \in alive
      <4>1. v \in {p, M!Junk}
        BY <3>3, <3>5 DEF M!ParseProcStat
      <4>2. DOMAIN a = M!ProcLabels \cup DOMAIN d /\ \A x \in M!ProcLabels : a[x] = p
        BY <3>3 DEF M!Put
      <4>3. /\ DOMAIN e = M!ProcNumbers \cup DOMAIN a /\ \A x \in M!ProcNumbers : e[x] = v
            /\ \A x \in DOMAIN a : x \notin M!ProcNumbers => e[x] = a[x]
        BY <3>3 DEF M!Put
      <4>4. DOMAIN h = M!RusageFields \cup DOMAIN e /\ \A x \in DOMAIN e : x \notin M!RusageFields => h[x] = e[x]
        BY <3>3 DEF M!Put
      <4>5. DOMAIN d \subseteq M!ProcFields \cup M!RusageFields
        BY <3>4, NothingIs
      <4>6. /\ "pid" \in M!ProcLabels
            /\ \A x \in M!ProcLabels : x \notin M!ProcNumbers /\ x \notin M!RusageFields
            /\ \A x \in M!ProcNumbers : x \notin M!RusageFields
        BY DEF M!ProcLabels, M!ProcNumbers, M!RusageFields
      <4>7. DOMAIN h \subseteq M!ProcFields \cup M!RusageFields /\ M!ProcFields \subseteq DOMAIN h
        BY <4>2, <4>3, <4>4, <4>5 DEF M!ProcFields
      <4>8. \A x \in M!ProcLabels : h[x] = p
        BY <4>2, <4>3, <4>4, <4>6
      <4>9. \A x \in M!ProcNumbers : h[x] = v
        BY <4>3, <4>4, <4>6
      <4>10. Fits(h)
        BY <4>1, <4>6, <4>7, <4>8, <4>9 DEF Described
      <4>11. f[n + 1] = h
        <5>1. M!ParseProcStat(p, alive, garbled).pid = p /\ p # 0
          BY <3>3, <3>5 DEF M!ParseProcStat
        <5> QED
          BY <3>2, <3>3, <5>1 DEF M!ProcessStats
      <4> QED
        BY <4>10, <4>11
    <3>6. CASE p \notin alive
      <4>1. M!ParseProcStat(p, alive, garbled).pid = 0
        BY <3>6 DEF M!ParseProcStat
      <4>2. f[n + 1] = d
        BY <3>2, <3>3, <4>1 DEF M!ProcessStats
      <4> QED
        BY <3>4, <4>2
    <3> QED
      BY <3>5, <3>6
  <2> QED
    BY <2>1
<1>8. k \in Y
  <2> HIDE DEF Y
  <2> QED
    BY <1>1, <1>6, <1>7, AllNumbers
<1>9. f[k] = M!Nothing \/ Fits(f[k])
  BY <1>8
<1>10. "interface" \notin M!ProcFields \cup M!RusageFields
  BY DEF M!ProcFields, M!ProcLabels, M!ProcNumbers, M!RusageFields
<1> QED
  <2>1. PICK d : d = f[k] /\ d = M!Process(alive, garbled)
    BY <1>5
  <2>2. d = M!Nothing \/ (Described(d) /\ DOMAIN d \subseteq M!ProcFields \cup M!RusageFields)
    BY <1>9, <2>1
  <2>3. Tagged(d)
    BY <1>10, <2>2 DEF Tagged
  <2> QED
    BY <2>1, <2>3

(* A metric of interfaces 1 to n tells of the last one that is monitored. *)
Tells(d, n) ==
  IF \A j \in 1 .. n : j \notin M!Monitored THEN d = M!Nothing
  ELSE \E j \in 1 .. n : /\ j \in M!Monitored /\ (\A l \in 1 .. n : l \in M!Monitored => l <= j)
                         /\ {"interface", "rx_bytes"} \subseteq DOMAIN d
                         /\ d["interface"] = j /\ d["rx_bytes"] = M!Delta(j)

(* Every line of /proc/net/dev that is monitored overwrites the one before it. *)
LEMMA InterfacesAre ==
  ASSUME NEW alive, NEW avail, "dev" \in avail
  PROVE  Tells(M!Interfaces(alive, avail), NSources)
<1>1. PICK k \in Nat : k = NSources
  BY MonitorAssumption DEF M!Sound
<1> DEFINE Turns(f, n) == f = [i \in 0 .. n |-> IF i = 0 THEN M!Nothing ELSE M!Interface(f[i - 1], i, alive)]
           X == {n \in Nat : \E f : Turns(f, n)}
<1>2. 0 \in X
  <2>1. Turns([i \in 0 .. 0 |-> M!Nothing], 0)
    OBVIOUS
  <2> QED
    BY <2>1
<1>3. ASSUME NEW n \in Nat, n \in X PROVE n + 1 \in X
  <2>1. PICK f : Turns(f, n)
    BY <1>3
  <2> DEFINE g == [i \in 0 .. n + 1 |-> IF i = n + 1 THEN M!Interface(f[n], n + 1, alive) ELSE f[i]]
  <2>2. Turns(g, n + 1)
    <3>1. \A i \in 0 .. n + 1 : g[i] = IF i = 0 THEN M!Nothing ELSE M!Interface(g[i - 1], i, alive)
      BY <2>1
    <3> QED
      BY <3>1
  <2>3. \E h : Turns(h, n + 1)
    BY <2>2, Zenon
  <2> QED
    BY <2>3
<1>4. \E f : Turns(f, k)
  <2>1. k \in X
    <3> HIDE DEF X
    <3> QED
      BY <1>1, <1>2, <1>3, AllNumbers
  <2> QED
    BY <2>1
<1>5. PICK f : Turns(f, k) /\ M!Interfaces(alive, avail) = f[k]
  <2>1. Turns(CHOOSE f : Turns(f, k), k)
    BY <1>4, Zenon
  <2>2. M!Interfaces(alive, avail) = (CHOOSE f : Turns(f, k))[k]
    BY <1>1 DEF M!Interfaces
  <2> QED
    BY <2>1, <2>2
<1> DEFINE Y == {n \in Nat : n <= k => Tells(f[n], n)}
<1>6. 0 \in Y
  <2>1. f[0] = M!Nothing
    BY <1>1, <1>5
  <2>2. \A j \in 1 .. 0 : FALSE
    OBVIOUS
  <2> QED
    BY <2>1, <2>2 DEF Tells
<1>7. ASSUME NEW n \in Nat, n \in Y PROVE n + 1 \in Y
  <2>1. CASE n + 1 <= k
    <3>1. n + 1 \in 0 .. k /\ n + 1 # 0 /\ (n + 1) - 1 = n /\ n <= k
      BY <1>1, <2>1
    <3>2. f[n + 1] = M!Interface(f[n], n + 1, alive)
      BY <1>5, <3>1
    <3>3. PICK d, i, a, b, e : /\ d = f[n] /\ i = n + 1 /\ a = M!Put(d, {"interface", "tx_bytes"}, i)
                               /\ b = M!Put(a, {"rx_bytes"}, M!Delta(i)) /\ e = M!Put(b, {"speed", "ip"}, i)
      OBVIOUS
    <3>4. Tells(d, n)
      BY <1>7, <3>1, <3>3
    <3>5. CASE i \notin M!Monitored
      <4>1. f[n + 1] = d
        BY <3>2, <3>3, <3>5 DEF M!Interface
      <4>2. \A j : j \in 1 .. n + 1 /\ j \in M!Monitored => j \in 1 .. n
        BY <3>3, <3>5
      <4>3. \A j \in 1 .. n : j \in 1 .. n + 1
        OBVIOUS
      <4>4. Tells(d, n + 1)
        BY <3>4, <4>2, <4>3 DEF Tells
      <4> QED
        BY <4>1, <4>4
    <3>6. CASE i \in M!Monitored
      <4>1. DOMAIN a = {"interface", "tx_bytes"} \cup DOMAIN d /\ a["interface"] = i
        BY <3>3 DEF M!Put
      <4>2. /\ DOMAIN b = {"rx_bytes"} \cup DOMAIN a /\ b["rx_bytes"] = M!Delta(i)
            /\ \A x \in DOMAIN a : x \notin {"rx_bytes"} => b[x] = a[x]
        BY <3>3 DEF M!Put
      <4>3. DOMAIN e = {"speed", "ip"} \cup DOMAIN b /\ \A x \in DOMAIN b : x \notin {"speed", "ip"} => e[x] = b[x]
        BY <3>3 DEF M!Put
      <4>4. {"interface", "rx_bytes"} \subseteq DOMAIN b /\ b["interface"] = i /\ b["rx_bytes"] = M!Delta(i)
        BY <4>1, <4>2
      <4>5. {"interface", "rx_bytes"} \subseteq DOMAIN e /\ e["interface"] = i /\ e["rx_bytes"] = M!Delta(i)
        BY <4>3, <4>4
      <4>6. f[n + 1] = b \/ f[n + 1] = e
        BY <3>2, <3>3, <3>6 DEF M!Interface
      <4>7. i \in 1 .. n + 1 /\ \A l \in 1 .. n + 1 : l <= i
        BY <3>3
      <4>8. Tells(f[n + 1], n + 1)
        BY <3>6, <4>4, <4>5, <4>6, <4>7 DEF Tells
      <4> QED
        BY <4>8
    <3> QED
      BY <3>5, <3>6
  <2> QED
    BY <2>1
<1>8. k \in Y
  <2> HIDE DEF Y
  <2> QED
    BY <1>1, <1>6, <1>7, AllNumbers
<1> QED
  BY <1>1, <1>5, <1>8

(* The deltas are numbers. *)
LEMMA DeltaType ==
  ASSUME M!Typed, NEW i \in M!Sources PROVE M!Delta(i) \in 0 .. CounterWord - 1
<1>1. CounterWord \in Nat /\ CounterWord > 0
  BY MonitorAssumption DEF M!Sound
<1>2. PICK a \in 0 .. CounterWord - 1, b \in 0 .. CounterWord - 1 : a = rx[i] /\ b = prev[i]
  BY DEF M!Typed
<1>3. PICK z \in Nat : z = a + CounterWord - b
  BY <1>1, <1>2
<1>4. z % CounterWord \in 0 .. CounterWord - 1
  BY <1>1, <1>3
<1> QED
  BY <1>2, <1>3, <1>4 DEF M!Delta

(* The interface that survives is the last one monitored. *)
LEMMA SurvivorIs ==
  ASSUME NEW j \in M!Monitored, \A l \in M!Monitored : l <= j PROVE M!Survivor = j
<1>1. M!Monitored \subseteq Nat
  BY MonitorAssumption DEF M!Sound, M!Sources
<1>2. PICK s : s = M!Survivor
  OBVIOUS
<1>3. s \in M!Monitored /\ \A l \in M!Monitored : l <= s
  <2>1. \E i \in M!Monitored : \A l \in M!Monitored : l <= i
    OBVIOUS
  <2>2. s = CHOOSE i \in M!Monitored : \A l \in M!Monitored : l <= i
    BY <1>2 DEF M!Survivor
  <2> QED
    BY <2>1, <2>2, Zenon
<1>4. s <= j /\ j <= s /\ s \in Nat /\ j \in Nat
  BY <1>1, <1>3
<1> QED
  BY <1>2, <1>4

(* What a network metric tells: of the survivor, if there is one and its counters were read. *)
Network(d, avail) ==
  IF "dev" \in avail /\ M!Monitored # {}
    THEN /\ {"interface", "rx_bytes"} \subseteq DOMAIN d /\ M!Survivor \in M!Sources
         /\ d["interface"] = M!Survivor /\ d["rx_bytes"] = M!Delta(M!Survivor)
    ELSE "interface" \notin DOMAIN d

(* The other statistics leave the interface alone. *)
LEMMA PutElsewhere ==
  ASSUME NEW d, NEW avail, Network(d, avail), NEW ks, "interface" \notin ks, "rx_bytes" \notin ks, NEW v
  PROVE  Network(M!Put(d, ks, v), avail)
<1>1. PICK e : e = M!Put(d, ks, v)
  OBVIOUS
<1>2. /\ DOMAIN e = ks \cup DOMAIN d /\ \A k \in DOMAIN d : k \notin ks => e[k] = d[k]
  BY <1>1 DEF M!Put
<1> QED
  BY <1>1, <1>2 DEF Network

(* net_collector::collect_impl(). *)
LEMMA NetworkIs ==
  ASSUME NEW alive, NEW avail, NEW st PROVE Network(M!Network(alive, avail, st), avail)
<1>1. Network(M!Interfaces(alive, avail), avail)
  <2>1. CASE "dev" \notin avail
    <3>1. M!Interfaces(alive, avail) = M!Nothing
      BY <2>1 DEF M!Interfaces
    <3> QED
      BY <2>1, <3>1, NothingIs DEF Network
  <2>2. CASE "dev" \in avail
    <3>1. M!Monitored \subseteq M!Sources /\ M!Sources = 1 .. NSources
      BY MonitorAssumption DEF M!Sound, M!Sources
    <3>2. PICK d : d = M!Interfaces(alive, avail)
      OBVIOUS
    <3>3. Tells(d, NSources)
      BY <2>2, <3>2, InterfacesAre
    <3>4. CASE M!Monitored = {}
      <4>1. d = M!Nothing
        BY <3>3, <3>4 DEF Tells
      <4> QED
        BY <3>2, <3>4, <4>1, NothingIs DEF Network
    <3>5. CASE M!Monitored # {}
      <4>1. PICK j \in 1 .. NSources :
              /\ j \in M!Monitored /\ (\A l \in 1 .. NSources : l \in M!Monitored => l <= j)
              /\ {"interface", "rx_bytes"} \subseteq DOMAIN d /\ d["interface"] = j /\ d["rx_bytes"] = M!Delta(j)
        BY <3>1, <3>3, <3>5 DEF Tells
      <4>2. M!Survivor = j
        BY <3>1, <4>1, SurvivorIs
      <4> QED
        BY <2>2, <3>1, <3>2, <3>5, <4>1, <4>2 DEF Network
    <3> QED
      BY <3>4, <3>5
  <2> QED
    BY <2>1, <2>2
<1>2. PICK a, b, c, d : /\ a = M!Interfaces(alive, avail) /\ b = M!TcpStats(a, avail) /\ c = M!UdpStats(b, avail)
                        /\ d = M!ConnectionStats(c, avail, st)
  OBVIOUS
<1>3. Network(b, avail)
  <2>1. "interface" \notin M!TcpFields \cup {"protocol"} /\ "rx_bytes" \notin M!TcpFields \cup {"protocol"}
    BY DEF M!TcpFields
  <2>2. Network(M!Put(a, M!TcpFields \cup {"protocol"}, "tcp"), avail)
    BY <1>1, <1>2, <2>1, PutElsewhere
  <2> QED
    BY <1>1, <1>2, <2>2 DEF M!TcpStats
<1>4. Network(c, avail)
  <2>1. "interface" \notin M!UdpFields \cup {"protocol"} /\ "rx_bytes" \notin M!UdpFields \cup {"protocol"}
    BY DEF M!UdpFields
  <2>2. Network(M!Put(b, M!UdpFields \cup {"protocol"}, "udp"), avail)
    BY <1>3, <2>1, PutElsewhere
  <2> QED
    BY <1>2, <1>3, <2>2 DEF M!UdpStats
<1>5. Network(d, avail)
  <2>1. PICK ks : ks = IF st = "ESTABLISHED" THEN {"remote", "remote_connections"} ELSE {}
    OBVIOUS
  <2>2. PICK e : e = M!Put(c, {"state", "connections"}, st)
    OBVIOUS
  <2>3. Network(e, avail)
    BY <1>4, <2>2, PutElsewhere
  <2>4. Network(M!Put(e, ks, st), avail)
    BY <2>1, <2>3, PutElsewhere
  <2> QED
    BY <1>2, <1>4, <2>1, <2>2, <2>4 DEF M!ConnectionStats
<1> QED
  BY <1>2, <1>5 DEF M!Network

(* What collector c puts into its metric. *)
Metric(c, d, avail) ==
  /\ c = "network" => IF M!Due(c) THEN Network(d, avail) ELSE d = M!Nothing
  /\ c # "network" => "interface" \notin DOMAIN d
  /\ c = "disk" => Labelled(d, M!DiskFields, "mount")
  /\ c = "process" => Tagged(d)

(* collect(). *)
LEMMA CollectIs ==
  ASSUME NEW c \in Configured, NEW alive, NEW garbled, NEW avail, NEW st
  PROVE  Metric(c, M!Collect(c, alive, garbled, avail, st), avail)
<1>0. c \in {"cpu", "memory", "disk", "process", "network"}
  BY MonitorAssumption DEF M!Sound
<1>1. "interface" \notin DOMAIN M!Nothing /\ \A Ks, tag : Labelled(M!Nothing, Ks, tag)
  BY NothingIs DEF Labelled
<1>2. CASE ~M!Due(c)
  <2>1. M!Collect(c, alive, garbled, avail, st) = M!Nothing
    BY <1>2 DEF M!Collect
  <2>2. PICK d : d = M!Nothing /\ d = M!Collect(c, alive, garbled, avail, st)
    BY <2>1
  <2>3. "interface" \notin DOMAIN d /\ Labelled(d, M!DiskFields, "mount") /\ Tagged(d)
    BY <1>1, <2>2 DEF Tagged
  <2>4. Metric(c, d, avail)
    BY <1>2, <2>2, <2>3 DEF Metric
  <2> QED
    BY <2>2, <2>4
<1>3. CASE M!Due(c)
  <2>0. PICK d : d = M!Collect(c, alive, garbled, avail, st)
    OBVIOUS
  <2>1. d = M!CollectImpl(c, alive, garbled, avail, st)
    BY <1>3, <2>0 DEF M!Collect
  <2>2. CASE c = "cpu"
    <3>1. d = M!Cpu(avail)
      BY <2>1, <2>2 DEF M!CollectImpl
    <3>2. "interface" \notin DOMAIN d
      BY <1>1, <3>1 DEF M!Cpu, M!Put
    <3> QED
      BY <2>0, <2>2, <3>2 DEF Metric
  <2>3. CASE c = "memory"
    <3>1. d = M!Memory(avail)
      BY <2>1, <2>3 DEF M!CollectImpl
    <3>2. PICK a, b : a = M!Put(M!Nothing, M!MemFields \cup {"type"}, "physical") /\ b = M!Put(a, M!MemFields \cup {"type"}, "swap")
      OBVIOUS
    <3>3. "interface" \notin M!MemFields \cup {"type"}
      BY DEF M!MemFields
    <3>4. "interface" \notin DOMAIN b
      BY <1>1, <3>2, <3>3 DEF M!Put
    <3>5. "interface" \notin DOMAIN M!ParseMeminfo(b, avail)
      BY <3>4 DEF M!ParseMeminfo, M!Put
    <3>6. "interface" \notin DOMAIN d
      BY <1>1, <3>1, <3>2, <3>5 DEF M!Memory
    <3> QED
      BY <2>0, <2>3, <3>6 DEF Metric
  <2>4. CASE c = "disk"
    <3>1. d = M!Disk(alive)
      BY <2>1, <2>4 DEF M!CollectImpl
    <3>2. Labelled(d, M!DiskFields, "mount")
      BY <3>1, DiskIs
    <3>3. "interface" \notin DOMAIN d
      BY <1>1, <3>2 DEF Labelled
    <3> QED
      BY <2>0, <2>4, <3>2, <3>3 DEF Metric
  <2>5. CASE c = "process"
    <3>1. d = M!Process(alive, garbled)
      BY <2>1, <2>5 DEF M!CollectImpl
    <3>2. Tagged(d)
      BY <3>1, ProcessIs
    <3>3. "interface" \notin DOMAIN d
      BY <1>1, <3>2 DEF Tagged
    <3> QED
      BY <2>0, <2>5, <3>2, <3>3 DEF Metric
  <2>6. CASE c = "network"
    <3>1. d = M!Network(alive, avail, st)
      BY <2>1, <2>6 DEF M!CollectImpl
    <3>2. Network(d, avail)
      BY <3>1, NetworkIs
    <3> QED
      BY <1>3, <2>0, <2>6, <3>2 DEF Metric
  <2> QED
    BY <1>0, <2>2, <2>3, <2>4, <2>5, <2>6
<1> QED
  BY <1>2, <1>3

(* The octets of interface i that the first n of the metrics ms tell of are f[n]. *)
Adds(f, ms, i, k) == f = [n \in 0 .. k |-> IF n = 0 THEN 0 ELSE M!AddReceived(f[n - 1], ms[n], i)]

(* There is such an f. *)
LEMMA AddsExists ==
  ASSUME NEW ms, NEW i, NEW k \in Nat PROVE \E f : Adds(f, ms, i, k)
<1> DEFINE X == {n \in Nat : \E f : Adds(f, ms, i, n)}
<1>1. 0 \in X
  <2>1. Adds([n \in 0 .. 0 |-> 0], ms, i, 0)
    BY DEF Adds
  <2> QED
    BY <2>1
<1>2. ASSUME NEW n \in Nat, n \in X PROVE n + 1 \in X
  <2>1. PICK f : Adds(f, ms, i, n)
    BY <1>2
  <2>2. PICK g : g = [l \in 0 .. n + 1 |-> IF l = n + 1 THEN M!AddReceived(f[n], ms[n + 1], i) ELSE f[l]]
    OBVIOUS
  <2>3. Adds(g, ms, i, n + 1)
    <3>1. \A l \in 0 .. n : f[l] = IF l = 0 THEN 0 ELSE M!AddReceived(f[l - 1], ms[l], i)
      BY <2>1 DEF Adds
    <3>2. \A l \in 0 .. n + 1 : g[l] = IF l = 0 THEN 0 ELSE M!AddReceived(g[l - 1], ms[l], i)
      BY <2>2, <3>1
    <3> QED
      BY <2>2, <3>2 DEF Adds
  <2> QED
    BY <2>3
<1>3. k \in X
  <2> HIDE DEF X
  <2> QED
    BY <1>1, <1>2, AllNumbers
<1> QED
  BY <1>3

(* And one only. *)
LEMMA AddsOnce ==
  ASSUME NEW ms, NEW i, NEW k \in Nat, NEW f, Adds(f, ms, i, k), NEW g, Adds(g, ms, i, k)
  PROVE  f[k] = g[k]
<1> DEFINE X == {n \in Nat : n <= k => f[n] = g[n]}
<1>0. /\ \A n \in 0 .. k : f[n] = IF n = 0 THEN 0 ELSE M!AddReceived(f[n - 1], ms[n], i)
      /\ \A n \in 0 .. k : g[n] = IF n = 0 THEN 0 ELSE M!AddReceived(g[n - 1], ms[n], i)
  BY DEF Adds
<1>1. 0 \in X
  BY <1>0
<1>2. ASSUME NEW n \in Nat, n \in X PROVE n + 1 \in X
  <2>1. CASE n + 1 <= k
    <3>1. n + 1 \in 0 .. k /\ n + 1 # 0 /\ (n + 1) - 1 = n /\ n <= k
      BY <2>1
    <3>2. f[n + 1] = M!AddReceived(f[n], ms[n + 1], i) /\ g[n + 1] = M!AddReceived(g[n], ms[n + 1], i)
      BY <1>0, <3>1
    <3>3. f[n + 1] = g[n + 1]
      BY <1>2, <3>1, <3>2
    <3> QED
      BY <3>3
  <2> QED
    BY <2>1
<1>3. k \in X
  <2> HIDE DEF X
  <2> QED
    BY <1>1, <1>2, AllNumbers
<1> QED
  BY <1>3

(* Received() is its last value. *)
LEMMA ReceivedIs ==
  ASSUME NEW ms, NEW i, NEW k \in Nat, k = Len(ms), NEW f, Adds(f, ms, i, k)
  PROVE  M!Received(ms, i) = f[k]
<1>1. PICK g : g = CHOOSE h : Adds(h, ms, i, k)
  OBVIOUS
<1>2. Adds(g, ms, i, k)
  BY <1>1, Zenon
<1>3. M!Received(ms, i) = g[k]
  BY <1>1 DEF M!Received, Adds
<1> QED
  BY <1>2, <1>3, AddsOnce

(* It is a number of octets. *)
LEMMA ReceivedType ==
  ASSUME NEW ms, NEW i, NEW k \in Nat, k = Len(ms),
         \A n \in 1 .. k : "interface" \in DOMAIN ms[n].data => ms[n].data.rx_bytes \in Nat
  PROVE  M!Received(ms, i) \in 0 .. CounterWord - 1
<1>0. CounterWord \in Nat /\ CounterWord > 0
  BY MonitorAssumption DEF M!Sound
<1>1. PICK f : Adds(f, ms, i, k)
  BY AddsExists
<1> DEFINE X == {n \in Nat : n <= k => f[n] \in 0 .. CounterWord - 1}
<1>2. \A n \in 0 .. k : f[n] = IF n = 0 THEN 0 ELSE M!AddReceived(f[n - 1], ms[n], i)
  BY <1>1 DEF Adds
<1>3. 0 \in X
  BY <1>0, <1>2
<1>4. ASSUME NEW n \in Nat, n \in X PROVE n + 1 \in X
  <2>1. CASE n + 1 <= k
    <3>1. n + 1 \in 0 .. k /\ n + 1 # 0 /\ (n + 1) - 1 = n /\ n <= k /\ n + 1 \in 1 .. k
      BY <2>1
    <3>2. f[n + 1] = M!AddReceived(f[n], ms[n + 1], i)
      BY <1>2, <3>1
    <3>3. PICK a \in 0 .. CounterWord - 1 : a = f[n]
      BY <1>4, <3>1
    <3>4. PICK d, b : d = ms[n + 1].data /\ b = ms[n + 1].data.rx_bytes
      OBVIOUS
    <3>5. "interface" \in DOMAIN d => b \in Nat
      BY <3>1, <3>4
    <3>6. b \in Nat => (a + b) % CounterWord \in 0 .. CounterWord - 1
      BY <1>0
    <3>7. f[n + 1] = a \/ ("interface" \in DOMAIN d /\ f[n + 1] = (a + b) % CounterWord)
      <4>1. PICK x : x = ms[n + 1]
        OBVIOUS
      <4>2. f[n + 1] = M!AddReceived(a, x, i) /\ d = x.data /\ b = x.data.rx_bytes
        BY <3>2, <3>3, <3>4, <4>1
      <4>3. CASE "interface" \in DOMAIN x.data /\ x.data.interface = i
        <5>1. M!AddReceived(a, x, i) = (a + x.data.rx_bytes) % CounterWord
          BY <4>3 DEF M!AddReceived
        <5> QED
          BY <4>2, <4>3, <5>1
      <4>4. CASE ~ ("interface" \in DOMAIN x.data /\ x.data.interface = i)
        <5>1. M!AddReceived(a, x, i) = a
          BY <4>4 DEF M!AddReceived
        <5>2. f[n + 1] = a
          BY <4>2, <5>1
        <5> QED
          BY <5>2, Zenon
      <4> QED
        BY <4>3, <4>4
    <3>8. f[n + 1] \in 0 .. CounterWord - 1
      BY <3>3, <3>5, <3>6, <3>7
    <3> QED
      BY <3>8
  <2> QED
    BY <2>1
<1>5. k \in X
  <2> HIDE DEF X
  <2> QED
    BY <1>3, <1>4, AllNumbers
<1> QED
  BY <1>1, <1>5, ReceivedIs

(* After the m metrics ms that tell of r octets of i come k more, and only the p-th tells of i. *)
Grows(ms, m, ks, k, i, r, t, p) ==
  /\ m = Len(ms) /\ Len(ks) = m + k /\ (\A n \in 1 .. m : ks[n] = ms[n]) /\ r = M!Received(ms, i)
  /\ \A n \in 1 .. k : n < p => M!AddReceived(r, ks[m + n], i) = r
  /\ p <= k => M!AddReceived(r, ks[m + p], i) = t
  /\ \A n \in 1 .. k : n > p => M!AddReceived(t, ks[m + n], i) = t

(* Then all of them tell of what this one comes to. *)
LEMMA ReceivedGrows ==
  ASSUME NEW ms, NEW m \in Nat, NEW ks, NEW k \in Nat, NEW i, NEW r, NEW t, NEW p \in 1 .. k + 1,
         Grows(ms, m, ks, k, i, r, t, p)
  PROVE  M!Received(ks, i) = IF p <= k THEN t ELSE r
<1>0. /\ m = Len(ms) /\ Len(ks) = m + k /\ (\A n \in 1 .. m : ks[n] = ms[n]) /\ r = M!Received(ms, i)
      /\ \A n \in 1 .. k : n < p => M!AddReceived(r, ks[m + n], i) = r
      /\ p <= k => M!AddReceived(r, ks[m + p], i) = t
      /\ \A n \in 1 .. k : n > p => M!AddReceived(t, ks[m + n], i) = t
  BY DEF Grows
<1>1. PICK g : Adds(g, ms, i, m)
  BY AddsExists
<1>2. g[m] = r
  BY <1>0, <1>1, ReceivedIs
<1>3. PICK h : h = [n \in 0 .. m + k |-> IF n <= m THEN g[n] ELSE IF n < m + p THEN r ELSE t]
  OBVIOUS
<1>4. \A n \in 0 .. m : g[n] = IF n = 0 THEN 0 ELSE M!AddReceived(g[n - 1], ms[n], i)
  BY <1>1 DEF Adds
<1>5. ASSUME NEW n \in 0 .. m + k PROVE h[n] = IF n = 0 THEN 0 ELSE M!AddReceived(h[n - 1], ks[n], i)
  <2>1. CASE n <= m
    <3>1. h[n] = g[n] /\ (n # 0 => h[n - 1] = g[n - 1] /\ ks[n] = ms[n])
      BY <1>0, <1>3, <2>1
    <3> QED
      BY <1>4, <2>1, <3>1
  <2>2. CASE n > m
    <3>1. PICK j \in 1 .. k : j = n - m /\ n = m + j
      BY <2>2
    <3>2. h[n] = (IF j < p THEN r ELSE t)
      BY <1>3, <3>1
    <3>3. h[n - 1] = IF j <= p THEN r ELSE t
      BY <1>2, <1>3, <3>1
    <3>4. n # 0
      BY <2>2
    <3>5. CASE j < p
      <4>1. h[n] = r
        BY <3>2, <3>5
      <4>2. h[n - 1] = r
        BY <3>1, <3>3, <3>5
      <4>3. M!AddReceived(r, ks[m + j], i) = r
        BY <1>0, <3>1, <3>5
      <4> QED
        BY <3>1, <3>4, <4>1, <4>2, <4>3
    <3>6. CASE j = p
      BY <1>0, <3>1, <3>2, <3>3, <3>4, <3>6
    <3>7. CASE j > p
      <4>1. h[n] = t
        BY <3>1, <3>2, <3>7
      <4>2. h[n - 1] = t
        BY <3>1, <3>3, <3>7
      <4>3. M!AddReceived(t, ks[m + j], i) = t
        BY <1>0, <3>1, <3>7
      <4> QED
        BY <3>1, <3>4, <4>1, <4>2, <4>3
    <3> QED
      BY <3>5, <3>6, <3>7
  <2> QED
    BY <2>1, <2>2
<1>6. Adds(h, ks, i, m + k)
  BY <1>3, <1>5 DEF Adds
<1>7. PICK l \in Nat : l = m + k
  OBVIOUS
<1>8. M!Received(ks, i) = h[l]
  BY <1>0, <1>6, <1>7, ReceivedIs
<1>9. h[l] = IF p <= k THEN t ELSE r
  BY <1>2, <1>3, <1>7
<1> QED
  BY <1>8, <1>9

(* What remains of a. *)
RestOf(a, w) == a % w

(* Adding the delta to the counter told before gives the counter. *)
LEMMA DeltaAdds ==
  ASSUME NEW w \in Nat, w > 0, NEW t \in Nat, NEW r \in Nat, NEW p \in 0 .. w - 1, NEW x \in 0 .. w - 1,
         RestOf(t + r, w) = p, NEW d, d = RestOf(x + w - p, w), NEW s, s = RestOf(r + d, w)
  PROVE  RestOf(t + s, w) = x
<1>0. (t + r) % w = p /\ d = (x + w - p) % w /\ s = (r + d) % w
  BY DEF RestOf
<1>1. PICK a \in Int : t + r = w * a + p
  <2>1. PICK y \in Int : y = t + r
    OBVIOUS
  <2>2. y = w * (y \div w) + (y % w) /\ y \div w \in Int
    BY <2>1, DivideFacts
  <2> QED
    BY <1>0, <2>1, <2>2
<1>2. PICK b \in Int : x + w - p = w * b + d /\ d \in 0 .. w - 1
  <2>1. PICK y \in Int : y = x + w - p
    OBVIOUS
  <2>2. y = w * (y \div w) + (y % w) /\ y \div w \in Int /\ y % w \in 0 .. w - 1
    BY <2>1, DivideFacts
  <2> QED
    BY <1>0, <2>1, <2>2
<1>3. PICK c \in Int : r + d = w * c + s /\ s \in 0 .. w - 1
  <2>1. PICK y \in Int : y = r + d
    BY <1>2
  <2>2. y = w * (y \div w) + (y % w) /\ y \div w \in Int /\ y % w \in 0 .. w - 1
    BY <2>1, DivideFacts
  <2> QED
    BY <1>0, <2>1, <2>2
<1>4. PICK e \in Int : e = a + 1 - b - c
  OBVIOUS
<1>5. w * e = w * a + w - w * b - w * c
  BY <1>4
<1>6. t + s = w * e + x
  <2>1. PICK aa \in Int, bb \in Int, cc \in Int, ee \in Int : aa = w * a /\ bb = w * b /\ cc = w * c /\ ee = w * e
    BY <1>1, <1>2, <1>3, <1>4
  <2>2. t + r = aa + p /\ x + w - p = bb + d /\ r + d = cc + s /\ ee = aa + w - bb - cc
    BY <1>1, <1>2, <1>3, <1>5, <2>1
  <2>3. d \in Int /\ s \in Int
    BY <1>2, <1>3
  <2>4. t + s = ee + x
    BY <2>1, <2>2, <2>3
  <2> QED
    BY <2>1, <2>4
<1>7. PICK y \in Int : y = t + s
  BY <1>3
<1> QED
  BY <1>6, <1>7, RestIs DEF RestOf

(* The collectors in some order, each once. *)
LEMMA OrderIs ==
  ASSUME M!Typed, NEW cs, cs = M!SetToSeq(collectors)
  PROVE  \E k \in Nat : /\ cs \in [1 .. k -> collectors] /\ Len(cs) = k
                        /\ \A i, j \in 1 .. k : cs[i] = cs[j] => i = j
                        /\ \A c \in collectors : \E i \in 1 .. k : cs[i] = c
<1>1. IsFiniteSet(collectors)
  <2>1. collectors \subseteq {"cpu", "memory", "disk", "process", "network"}
    BY MonitorAssumption DEF M!Sound, M!Typed
  <2>2. IsFiniteSet({"cpu", "memory", "disk", "process", "network"})
    <3>1. IsFiniteSet({})
      BY FS_EmptySet
    <3>2. IsFiniteSet({} \cup {"cpu"})
      BY <3>1, FS_AddElement
    <3>3. IsFiniteSet(({} \cup {"cpu"}) \cup {"memory"})
      BY <3>2, FS_AddElement
    <3>4. IsFiniteSet((({} \cup {"cpu"}) \cup {"memory"}) \cup {"disk"})
      BY <3>3, FS_AddElement
    <3>5. IsFiniteSet(((({} \cup {"cpu"}) \cup {"memory"}) \cup {"disk"}) \cup {"process"})
      BY <3>4, FS_AddElement
    <3>6. IsFiniteSet((((({} \cup {"cpu"}) \cup {"memory"}) \cup {"disk"}) \cup {"process"}) \cup {"network"})
      BY <3>5, FS_AddElement
    <3>7. {"cpu", "memory", "disk", "process", "network"}
            = (((({} \cup {"cpu"}) \cup {"memory"}) \cup {"disk"}) \cup {"process"}) \cup {"network"}
      BY Zenon
    <3> QED
      BY <3>6, <3>7
  <2> QED
    BY <2>1, <2>2, FS_Subset
<1>2. PICK n \in Nat : n = Cardinality(collectors)
  BY <1>1, FS_CardinalityType
<1> DEFINE Order(f) == f \in [1 .. n -> collectors] /\ \A i, j \in 1 .. n : f[i] = f[j] => i = j
<1>3. \E f : Order(f)
  <2>1. ExistsBijection(1 .. n, collectors)
    BY <1>1, <1>2, FS_CardinalityType
  <2> QED
    BY <2>1 DEF ExistsBijection, Bijection, Injection, IsInjective
<1>4. M!SetToSeq(collectors) = CHOOSE f \in [1 .. n -> collectors] : M!IsInjective(f)
  <2>1. M!Cardinality(collectors) = n
    BY <1>2 DEF M!Cardinality, Cardinality
  <2> QED
    BY <2>1 DEF M!SetToSeq
<1>5. \A f \in [1 .. n -> collectors] : M!IsInjective(f) <=> Order(f)
  BY DEF M!IsInjective
<1>6. \E f \in [1 .. n -> collectors] : M!IsInjective(f)
  BY <1>3, <1>5
<1>7. M!SetToSeq(collectors) \in [1 .. n -> collectors] /\ M!IsInjective(M!SetToSeq(collectors))
  BY <1>4, <1>6, Zenon
<1>8. Order(cs)
  BY <1>5, <1>7
<1>9. cs \in Surjection(1 .. n, collectors)
  <2>1. cs \in Injection(1 .. n, collectors)
    BY <1>8 DEF Injection, IsInjective
  <2>2. Cardinality(1 .. n) = n
    BY FS_Interval
  <2> QED
    BY <1>1, <1>2, <2>1, <2>2, FS_Injection
<1>10. \A c \in collectors : \E i \in 1 .. n : cs[i] = c
  BY <1>9 DEF Surjection
<1>11. Len(cs) = n
  BY <1>8
<1> QED
  BY <1>8, <1>10, <1>11

(* A sequence of values of U. *)
LEMMA SeqOver ==
  ASSUME NEW S, NEW s \in Seq(S), NEW U, \A i \in 1 .. Len(s) : s[i] \in U PROVE s \in Seq(U)
<1>1. PICK l \in Nat : l = Len(s) /\ s = [i \in 1 .. l |-> s[i]]
  OBVIOUS
<1>2. s \in [1 .. l -> U]
  BY <1>1
<1> QED
  BY <1>2

(* What two sequences joined hold. *)
Joined(ms, m, ns, k, ks) ==
  /\ m \in Nat /\ Len(ms) = m /\ DOMAIN ms = 1 .. m
  /\ ks \in Seq(M!ToSet(ks)) /\ Len(ks) = m + k /\ DOMAIN ks = 1 .. m + k
  /\ \A n \in 1 .. m : ks[n] = ms[n]
  /\ \A n \in 1 .. k : ks[m + n] = ns[n]

(* Metrics joined to the ones that wait. *)
LEMMA JoinedIs ==
  ASSUME NEW ms, ms \in Seq(M!ToSet(ms)), NEW ns, NEW k \in Nat, NEW T, ns \in [1 .. k -> T],
         NEW ks, ks = ms \o ns
  PROVE  Joined(ms, Len(ms), ns, k, ks)
<1>1. PICK S : S = M!ToSet(ms) \cup T
  OBVIOUS
<1>2. PICK m \in Nat : m = Len(ms) /\ DOMAIN ms = 1 .. m
  OBVIOUS
<1>3. ms \in Seq(S)
  <2>1. \A i \in 1 .. Len(ms) : ms[i] \in M!ToSet(ms)
    BY <1>2 DEF M!ToSet
  <2>2. ms = [i \in 1 .. m |-> ms[i]]
    BY <1>2
  <2>3. ms \in [1 .. m -> S]
    BY <1>1, <1>2, <2>1, <2>2
  <2> QED
    BY <1>2, <2>3
<1>4. ns \in Seq(S) /\ Len(ns) = k
  BY <1>1
<1>5. ks \in Seq(S) /\ Len(ks) = m + k /\ DOMAIN ks = 1 .. m + k
  <2>1. ks \in Seq(S)
    BY <1>3, <1>4
  <2>2. Len(ks) = m + k
    BY <1>2, <1>3, <1>4, ConcatProperties
  <2>3. DOMAIN ks = 1 .. Len(ks)
    BY <2>1
  <2> QED
    BY <2>1, <2>2, <2>3
<1>6. \A n \in 1 .. m : ks[n] = ms[n]
  BY <1>2, <1>3, <1>4
<1>7. \A n \in 1 .. k : ks[m + n] = ns[n]
  BY <1>2, <1>3, <1>4
<1>8. ks \in Seq(M!ToSet(ks))
  <2>1. PICK U : U = M!ToSet(ks)
    OBVIOUS
  <2>2. \A i \in DOMAIN ks : ks[i] \in U
    BY <2>1 DEF M!ToSet
  <2>3. \A i \in 1 .. Len(ks) : ks[i] \in U
    BY <1>5, <2>2
  <2> QED
    BY <1>5, <2>1, <2>3, SeqOver
<1> QED
  BY <1>2, <1>5, <1>6, <1>7, <1>8 DEF Joined

(* No metrics tell of nothing. *)
LEMMA ReceivedNone == ASSUME NEW i PROVE M!Received(<< >>, i) = 0
<1>1. PICK f : f = [n \in 0 .. 0 |-> 0]
  OBVIOUS
<1>2. Adds(f, << >>, i, 0)
  BY <1>1 DEF Adds
<1>3. Len(<< >>) = 0
  OBVIOUS
<1>4. f[0] = 0
  BY <1>1
<1> QED
  BY <1>2, <1>3, <1>4, ReceivedIs

(* What LabelsAgree says of one metric. *)
Agree(x) ==
  LET d == x.data IN
  /\ x.name = "disk" /\ d # M!Nothing =>
       \A k \in M!DiskFields : k \in DOMAIN d /\ d[k] = d.mount
  /\ x.name = "process" /\ d # M!Nothing =>
       /\ M!ProcFields \subseteq DOMAIN d
       /\ \A k \in M!ProcLabels : d[k] = d.pid
       /\ \E v \in {d.pid, M!Junk} : \A k \in M!ProcNumbers : d[k] = v

(* What CountsInv says of one. *)
Counts(x) == "interface" \in DOMAIN x.data => x.data.rx_bytes \in Nat

(* A metric that collect() made. *)
LEMMA MetricAgrees ==
  ASSUME M!Typed, NEW x, NEW avail, Metric(x.name, x.data, avail)
  PROVE  Agree(x) /\ Counts(x)
<1>1. PICK c, d : c = x.name /\ d = x.data
  OBVIOUS
<1>2. Metric(c, d, avail)
  BY <1>1
<1>3. ASSUME "interface" \in DOMAIN d PROVE d["rx_bytes"] \in Nat
  <2>1. c = "network"
    BY <1>2, <1>3 DEF Metric
  <2>2. Network(d, avail)
    <3>1. d # M!Nothing
      BY <1>3, NothingIs
    <3> QED
      BY <1>2, <2>1, <3>1 DEF Metric
  <2>3. M!Survivor \in M!Sources /\ d["rx_bytes"] = M!Delta(M!Survivor)
    BY <1>3, <2>2 DEF Network
  <2>4. CounterWord \in Nat
    BY MonitorAssumption DEF M!Sound
  <2> QED
    BY <2>3, <2>4, DeltaType
<1>4. Counts(x)
  BY <1>1, <1>3 DEF Counts
<1>5. ASSUME c = "disk", d # M!Nothing PROVE \A k \in M!DiskFields : k \in DOMAIN d /\ d[k] = d["mount"]
  BY <1>2, <1>5 DEF Metric, Labelled
<1>6. ASSUME c = "process", d # M!Nothing PROVE Described(d)
  BY <1>2, <1>6 DEF Metric, Tagged
<1>7. Agree(x)
  BY <1>1, <1>5, <1>6 DEF Agree, Described
<1> QED
  BY <1>4, <1>7

(* There is a last interface, if there is any. *)
LEMMA SurvivorThere ==
  ASSUME M!Monitored # {} PROVE M!Survivor \in M!Sources /\ M!Survivor \in M!Monitored
<1>1. PICK ns \in Nat : ns = NSources
  BY MonitorAssumption DEF M!Sound
<1>2. M!Monitored \subseteq 1 .. ns
  BY <1>1, MonitorAssumption DEF M!Sound, M!Sources
<1> DEFINE X == {n \in Nat : n <= ns /\ ns - n \in M!Monitored}
<1>3. X # {}
  <2>1. PICK i : i \in M!Monitored
    OBVIOUS
  <2>2. i \in 1 .. ns
    BY <1>2, <2>1
  <2>3. PICK n \in Nat : n = ns - i
    BY <1>1, <2>2
  <2>4. ns - n = i /\ n <= ns
    BY <1>1, <2>2, <2>3
  <2> QED
    BY <2>1, <2>3, <2>4
<1>4. PICK n \in X : \A l \in X : n <= l
  <2> HIDE DEF X
  <2>1. X \subseteq Nat
    BY DEF X
  <2> QED
    BY <1>3, <2>1, LeastNumber
<1>5. PICK j : j = ns - n
  OBVIOUS
<1>6. j \in M!Monitored /\ j \in 1 .. ns
  BY <1>2, <1>4, <1>5
<1>7. ASSUME NEW l \in M!Monitored PROVE l <= j
  <2>1. l \in 1 .. ns
    BY <1>2
  <2>2. PICK q \in Nat : q = ns - l
    BY <1>1, <2>1
  <2>3. ns - q = l /\ q <= ns
    BY <1>1, <2>1, <2>2
  <2>4. q \in X
    BY <2>2, <2>3
  <2>5. n <= q
    BY <1>4, <2>4
  <2> QED
    BY <1>1, <1>4, <1>5, <2>1, <2>2, <2>5
<1>8. M!Survivor = j
  BY <1>6, <1>7, SurvivorIs
<1> QED
  BY <1>1, <1>6, <1>8 DEF M!Sources

(* The metric tells interface i nothing. *)
LEMMA TellsNothing ==
  ASSUME NEW x, "interface" \notin DOMAIN x.data, NEW n, NEW i PROVE M!AddReceived(n, x, i) = n
  BY DEF M!AddReceived

(* It tells of interface i, v octets. *)
TellsOf(x, i, v) == "interface" \in DOMAIN x.data /\ x.data["interface"] = i /\ x.data["rx_bytes"] = v

(* They are added. *)
LEMMA TellsDelta ==
  ASSUME NEW x, NEW i, NEW v, TellsOf(x, i, v), NEW n PROVE M!AddReceived(n, x, i) = RestOf(n + v, CounterWord)
  BY DEF M!AddReceived, RestOf, TellsOf

(* What holds of the metrics that a run adds, ks after them all. *)
Added(ks, m, k, cs, avail) ==
  \A n \in 1 .. k : ks[m + n].id = made + n /\ ks[m + n].name = cs[n] /\ Metric(cs[n], ks[m + n].data, avail)

(* cs holds every collector once. *)
Ordered(cs, k) ==
  /\ cs \in [1 .. k -> collectors]
  /\ \A i, j \in 1 .. k : cs[i] = cs[j] => i = j
  /\ \A c \in collectors : \E i \in 1 .. k : cs[i] = c

(* _prev_stats after a run. *)
Kept(avail) ==
  IF "network" \in {c \in collectors : M!Due(c)} /\ "dev" \in avail
  THEN [i \in M!Sources |-> IF i \in M!Monitored THEN rx[i] ELSE prev[i]] ELSE prev

(* What has been told of interface i, with the metrics ks, comes to v. *)
TellsAll(ks, i, v) == (told[i] + M!Received(ks, i)) % CounterWord = v

(* The first half of run(): the deltas go on adding up. *)
LEMMA CollectAdds ==
  ASSUME M!IndInv, exporter, M!Monitored # {}, NEW avail, NEW s, s = M!Survivor,
         NEW m \in Nat, m = Len(metrics), DOMAIN metrics = 1 .. m, NEW k \in Nat, NEW ks, Len(ks) = m + k,
         \A n \in 1 .. m : ks[n] = metrics[n], NEW cs, Added(ks, m, k, cs, avail), Ordered(cs, k),
         NEW pv, pv = Kept(avail)
  PROVE  TellsAll(ks, s, pv[s])
<1>0. CounterWord \in Nat /\ CounterWord > 0
  BY MonitorAssumption DEF M!Sound
<1>1. s \in M!Sources /\ s \in M!Monitored
  BY SurvivorThere
<1>2. PICK r : r = M!Received(metrics, s)
  OBVIOUS
<1>3. r \in 0 .. CounterWord - 1
  <2>1. \A n \in 1 .. m : "interface" \in DOMAIN metrics[n].data => metrics[n].data.rx_bytes \in Nat
    BY DEF M!IndInv, M!CountsInv
  <2> QED
    BY <1>2, <2>1, ReceivedType
<1>4. PICK t \in 0 .. CounterWord - 1, p \in 0 .. CounterWord - 1, x \in 0 .. CounterWord - 1 :
        t = told[s] /\ p = prev[s] /\ x = rx[s]
  BY <1>1 DEF M!IndInv, M!Typed
<1>5. (t + r) % CounterWord = p
  BY <1>2, <1>4 DEF M!IndInv, M!RatesAddUp
<1>6. CASE "network" \in collectors /\ M!Due("network") /\ "dev" \in avail
  <2>1. pv[s] = x
    BY <1>1, <1>4, <1>6 DEF Kept
  <2>2. PICK j \in 1 .. k : cs[j] = "network"
    BY <1>6 DEF Ordered
  <2>3. PICK y, d, w : y = ks[m + j] /\ d = M!Delta(s) /\ w = (r + d) % CounterWord
    OBVIOUS
  <2>4. "interface" \in DOMAIN y.data /\ y.data["interface"] = s /\ y.data["rx_bytes"] = d
    <3>1. Metric("network", y.data, avail)
      BY <2>2, <2>3 DEF Added
    <3>2. Network(y.data, avail)
      BY <1>6, <3>1 DEF Metric
    <3> QED
      BY <1>6, <2>3, <3>2 DEF Network
  <2>5. M!AddReceived(r, ks[m + j], s) = w
    <3>1. M!AddReceived(r, y, s) = RestOf(r + d, CounterWord)
      <4>1. TellsOf(y, s, d)
        BY <2>4 DEF TellsOf
      <4> QED
        BY <4>1, TellsDelta
    <3> QED
      BY <2>3, <3>1 DEF RestOf
  <2>6. ASSUME NEW n \in 1 .. k, n # j 
        PROVE  M!AddReceived(r, ks[m + n], s) = r /\ M!AddReceived(w, ks[m + n], s) = w
    <3>1. cs[n] # "network"
      BY <2>2, <2>6 DEF Ordered
    <3>2. Metric(cs[n], ks[m + n].data, avail)
      BY DEF Added
    <3>3. "interface" \notin DOMAIN ks[m + n].data
      BY <3>1, <3>2 DEF Metric
    <3>4. PICK z : z = ks[m + n]
      OBVIOUS
    <3>5. M!AddReceived(r, z, s) = r /\ M!AddReceived(w, z, s) = w
      BY <3>3, <3>4, TellsNothing
    <3> QED
      BY <3>4, <3>5
  <2>7. M!Received(ks, s) = w
    <3>1. j \in 1 .. k + 1 /\ j <= k
      BY <2>2
    <3>2. ASSUME NEW n \in 1 .. k, n < j PROVE M!AddReceived(r, ks[m + n], s) = r
      <4>1. n # j
        BY <2>2, <3>2
      <4> QED
        BY <2>6, <4>1, Zenon
    <3>3. ASSUME NEW n \in 1 .. k, n > j PROVE M!AddReceived(w, ks[m + n], s) = w
      <4>1. n # j
        BY <2>2, <3>3
      <4> QED
        BY <2>6, <4>1, Zenon
    <3>4. PICK ms : ms = metrics
      OBVIOUS
    <3>5. m = Len(ms) /\ r = M!Received(ms, s) /\ \A n \in 1 .. m : ks[n] = ms[n]
      BY <1>2, <3>4
    <3>6. M!Received(ks, s) = IF j <= k THEN w ELSE r
      <4>1. Grows(ms, m, ks, k, s, r, w, j)
        BY <2>5, <3>1, <3>2, <3>3, <3>5 DEF Grows
      <4> QED
        BY <3>1, <4>1, ReceivedGrows
    <3> QED
      BY <3>1, <3>6
  <2>8. d = (x + CounterWord - p) % CounterWord
    BY <1>4, <2>3 DEF M!Delta
  <2>9. (t + w) % CounterWord = x
    <3>1. PICK W \in Nat : W = CounterWord /\ W > 0
      BY <1>0
    <3>2. t \in Nat /\ r \in Nat /\ p \in 0 .. W - 1 /\ x \in 0 .. W - 1
      BY <1>3, <1>4, <3>1
    <3>3. RestOf(t + r, W) = p /\ d = RestOf(x + W - p, W) /\ w = RestOf(r + d, W)
      BY <1>5, <2>3, <2>8, <3>1 DEF RestOf
    <3>4. RestOf(t + w, W) = x
      BY <3>1, <3>2, <3>3, DeltaAdds
    <3> QED
      BY <3>1, <3>4 DEF RestOf
  <2> QED
    BY <1>4, <2>1, <2>7, <2>9 DEF TellsAll
<1>7. CASE ~ ("network" \in collectors /\ M!Due("network") /\ "dev" \in avail)
  <2>1. pv[s] = p
    BY <1>4, <1>7 DEF Kept
  <2>2. ASSUME NEW n \in 1 .. k PROVE M!AddReceived(r, ks[m + n], s) = r
    <3>1. cs[n] \in collectors
      BY DEF Ordered
    <3>2. Metric(cs[n], ks[m + n].data, avail)
      BY DEF Added
    <3>3. "interface" \notin DOMAIN ks[m + n].data
      <4>1. CASE cs[n] = "network"
        <5>1. CASE M!Due("network")
          BY <1>7, <3>1, <3>2, <4>1, <5>1 DEF Metric, Network
        <5>2. CASE ~ M!Due("network")
          BY <3>2, <4>1, <5>2, NothingIs DEF Metric
        <5> QED
          BY <5>1, <5>2
      <4>2. CASE cs[n] # "network"
        BY <3>2, <4>2 DEF Metric
      <4> QED
        BY <4>1, <4>2
    <3> QED
      BY <3>3, TellsNothing
  <2>3. M!Received(ks, s) = r
    <3>1. PICK j \in 1 .. k + 1 : j = k + 1 /\ ~ (j <= k)
      OBVIOUS
    <3>2. \A n \in 1 .. k : n < j => M!AddReceived(r, ks[m + n], s) = r
      BY <2>2
    <3>3. \A n \in 1 .. k : n > j => M!AddReceived(r, ks[m + n], s) = r
      BY <2>2
    <3>4. PICK ms : ms = metrics
      OBVIOUS
    <3>5. m = Len(ms) /\ r = M!Received(ms, s) /\ \A n \in 1 .. m : ks[n] = ms[n]
      BY <1>2, <3>4
    <3>6. j <= k => M!AddReceived(r, ks[m + j], s) = r
      BY <3>1
    <3>7. M!Received(ks, s) = IF j <= k THEN r ELSE r
      <4>1. Grows(ms, m, ks, k, s, r, r, j)
        BY <3>1, <3>2, <3>3, <3>5, <3>6 DEF Grows
      <4> QED
        BY <3>1, <4>1, ReceivedGrows
    <3> QED
      BY <3>7
  <2> QED
    BY <1>4, <1>5, <2>1, <2>3 DEF TellsAll
<1> QED
  BY <1>6, <1>7

(* The metrics that collect_all() adds. *)
LEMMA CollectMakes ==
  ASSUME M!IndInv, NEW r, NEW alive, NEW garbled, NEW avail, NEW st,
         M!CollectAll(r, alive, garbled, avail, st)
  PROVE  \E k \in Nat : \E cs :
           /\ Ordered(cs, k)
           /\ \E ns : Joined(metrics, Len(metrics), ns, k, metrics')
           /\ Added(metrics', Len(metrics), k, cs, avail)
           /\ made' = made + k
<1>1. PICK cs : cs = M!SetToSeq(collectors)
  OBVIOUS
<1>2. M!Typed
  BY DEF M!IndInv
<1>3. PICK k \in Nat : /\ cs \in [1 .. k -> collectors] /\ Len(cs) = k
                       /\ \A i, j \in 1 .. k : cs[i] = cs[j] => i = j
                       /\ \A c \in collectors : \E i \in 1 .. k : cs[i] = c
  BY <1>1, <1>2, OrderIs
<1>4. PICK ns : ns = [n \in 1 .. k |->
        [id |-> made + n, name |-> cs[n], data |-> M!Collect(cs[n], alive, garbled, avail, st)]]
  OBVIOUS
<1>5. metrics' = metrics \o ns /\ made' = made + k
  BY <1>1, <1>3, <1>4 DEF M!CollectAll
<1>6. PICK T : T = {ns[n] : n \in 1 .. k}
  OBVIOUS
<1>7. ns \in [1 .. k -> T]
  BY <1>4, <1>6
<1>8. Joined(metrics, Len(metrics), ns, k, metrics')
  <2>1. PICK ms, ks : ms = metrics /\ ks = metrics'
    OBVIOUS
  <2>2. ms \in Seq(M!ToSet(ms)) /\ ks = ms \o ns
    BY <1>2, <1>5, <2>1 DEF M!Typed
  <2>3. Joined(ms, Len(ms), ns, k, ks)
    BY <1>7, <2>2, JoinedIs
  <2> QED
    BY <2>1, <2>3
<1>9. ASSUME NEW n \in 1 .. k
      PROVE  ns[n].id = made + n /\ ns[n].name = cs[n] /\ Metric(cs[n], ns[n].data, avail)
  <2>1. cs[n] \in Configured
    BY <1>2, <1>3 DEF M!Typed
  <2>2. PICK c, d : c = cs[n] /\ d = M!Collect(cs[n], alive, garbled, avail, st)
    OBVIOUS
  <2>3. Metric(c, d, avail)
    BY <2>1, <2>2, CollectIs
  <2>4. ns[n] = [id |-> made + n, name |-> c, data |-> d]
    BY <1>4, <2>2
  <2> QED
    BY <2>2, <2>3, <2>4
<1>10. Added(metrics', Len(metrics), k, cs, avail)
  BY <1>8, <1>9 DEF Joined, Added
<1>11. Ordered(cs, k)
  BY <1>3 DEF Ordered
<1> QED
  BY <1>5, <1>8, <1>10, <1>11

(* The first half of run(). *)
LEMMA CollectKeeps ==
  ASSUME M!IndInv, NEW r, NEW alive, NEW garbled, NEW avail, NEW st,
         M!CollectAll(r, alive, garbled, avail, st) PROVE M!IndInv'
<1>0. PICK k \in Nat : \E cs :
        /\ Ordered(cs, k)
        /\ \E ns : Joined(metrics, Len(metrics), ns, k, metrics')
        /\ Added(metrics', Len(metrics), k, cs, avail)
        /\ made' = made + k
  BY CollectMakes
<1>1. PICK cs :
        /\ Ordered(cs, k)
        /\ \E ns : Joined(metrics, Len(metrics), ns, k, metrics')
        /\ Added(metrics', Len(metrics), k, cs, avail)
        /\ made' = made + k
  BY <1>0
<1>2. PICK m, ms, ks, ns : m = Len(metrics) /\ ms = metrics /\ ks = metrics' /\ Joined(ms, m, ns, k, ks)
  BY <1>1
<1>3. /\ m \in Nat /\ Len(ms) = m /\ DOMAIN ms = 1 .. m
      /\ ks \in Seq(M!ToSet(ks)) /\ Len(ks) = m + k /\ DOMAIN ks = 1 .. m + k
      /\ \A n \in 1 .. m : ks[n] = ms[n]
  BY <1>2 DEF Joined
<1>4. M!Typed
  BY DEF M!IndInv
<1>5. /\ collectors' = collectors /\ rx' = rx /\ exporter' = exporter /\ sent' = sent /\ told' = told
      /\ prev' = Kept(avail)
  BY DEF M!CollectAll, M!Remember, Kept
<1>6. M!Typed'
  <2>1. prev' \in [M!Sources -> 0 .. CounterWord - 1]
    BY <1>4, <1>5 DEF M!Typed, Kept
  <2>2. made' \in Nat
    BY <1>1, <1>4 DEF M!Typed
  <2>3. metrics' \in Seq(M!ToSet(metrics'))
    BY <1>2, <1>3
  <2> QED
    BY <1>4, <1>5, <2>1, <2>2, <2>3 DEF M!Typed, M!Sources, M!ToSet
<1>7. ASSUME NEW n \in 1 .. m + k PROVE Agree(ks[n]) /\ Counts(ks[n])
  <2>1. CASE n <= m
    <3>1. n \in 1 .. m /\ ks[n] = metrics[n] /\ n \in DOMAIN metrics
      BY <1>2, <1>3, <2>1
    <3>2. Agree(metrics[n])
      BY <3>1 DEF M!IndInv, M!LabelsAgree, Agree
    <3>3. Counts(metrics[n])
      BY <3>1 DEF M!IndInv, M!CountsInv, Counts
    <3> QED
      BY <3>1, <3>2, <3>3
  <2>2. CASE n > m
    <3>0. m \in Nat
      BY <1>3
    <3>1. PICK j \in 1 .. k : n = m + j
      BY <1>7, <2>2, <3>0
    <3>2. PICK x : x = ks[n]
      OBVIOUS
    <3>3. Metric(x.name, x.data, avail)
      BY <1>1, <1>2, <3>1, <3>2 DEF Added
    <3>4. Agree(x) /\ Counts(x)
      BY <1>4, <3>3, MetricAgrees
    <3> QED
      BY <3>2, <3>4
  <2> QED
    BY <1>3, <2>1, <2>2
<1>8. M!CountsInv'
  BY <1>2, <1>3, <1>7 DEF M!CountsInv, Counts
<1>9. M!LabelsAgree'
  BY <1>2, <1>3, <1>7 DEF M!LabelsAgree, Agree, M!Nothing, M!DiskFields, M!ProcFields, M!ProcLabels, M!ProcNumbers, M!Junk
<1>10. ASSUME NEW n \in DOMAIN metrics' PROVE metrics'[n].id = made' - Len(metrics') + n
  <2>0. n \in 1 .. m + k /\ m \in Nat /\ made \in Nat /\ Len(metrics') = m + k
    BY <1>2, <1>3, <1>4, <1>10 DEF M!Typed
  <2>1. CASE n <= m
    <3>1. n \in 1 .. m /\ ks[n] = metrics[n] /\ n \in DOMAIN metrics
      BY <1>2, <1>3, <2>0, <2>1
    <3>2. metrics[n].id = made - m + n
      BY <1>2, <3>1 DEF M!IndInv, M!RatesAddUp
    <3> QED
      BY <1>1, <1>2, <2>0, <3>1, <3>2
  <2>2. CASE n > m
    <3>1. PICK j \in 1 .. k : n = m + j
      BY <2>0, <2>2
    <3>2. metrics'[n].id = made + j
      BY <1>1, <1>2, <3>1 DEF Added
    <3> QED
      BY <1>1, <1>2, <2>0, <3>1, <3>2
  <2> QED
    BY <1>3, <2>0, <2>1, <2>2
<1>11. ASSUME exporter, M!Monitored # {}
       PROVE  (told'[M!Survivor] + M!Received(metrics', M!Survivor)) % CounterWord = prev'[M!Survivor]
  <2>1. PICK s : s = M!Survivor
    OBVIOUS
  <2>2. PICK pv : pv = prev'
    OBVIOUS
  <2>3. Added(ks, m, k, cs, avail)
    BY <1>1, <1>2
  <2>4. m = Len(metrics) /\ DOMAIN metrics = 1 .. m /\ \A n \in 1 .. m : ks[n] = metrics[n]
    BY <1>2, <1>3
  <2>5. TellsAll(ks, s, pv[s])
    BY <1>1, <1>3, <1>5, <1>11, <2>1, <2>2, <2>3, <2>4, CollectAdds
  <2> QED
    BY <1>2, <1>5, <2>1, <2>2, <2>5 DEF TellsAll
<1>12. M!RatesAddUp'
  <2>1. CASE exporter
    <3>1. sent + Len(metrics) = made /\ made \in Nat /\ sent \in Nat
      BY <1>4, <2>1 DEF M!IndInv, M!RatesAddUp, M!Typed
    <3>2. sent' + Len(metrics') = made'
      BY <1>1, <1>2, <1>3, <1>5, <3>1
    <3>3. M!Survivor' = M!Survivor /\ M!Monitored' = M!Monitored
      BY DEF M!Survivor, M!Monitored, M!Listed, M!Sources
    <3> QED
      BY <1>5, <1>10, <1>11, <2>1, <3>2, <3>3 DEF M!RatesAddUp
  <2>2. CASE ~ exporter
    <3>1. metrics = << >> /\ collectors = {}
      BY <2>2 DEF M!IndInv, M!RatesAddUp
    <3>2. m = 0 /\ k = 0
      BY <1>1, <1>2, <3>1 DEF Ordered
    <3>3. metrics' = << >>
      BY <1>2, <1>3, <3>2
    <3> QED
      BY <1>5, <1>10, <2>2, <3>1, <3>3 DEF M!RatesAddUp
  <2> QED
    BY <2>1, <2>2
<1> QED
  BY <1>6, <1>8, <1>9, <1>12 DEF M!IndInv

(* The monitor as it starts. *)
LEMMA MonitorInit == ASSUME M!Init PROVE M!IndInv
<1>1. CounterWord \in Nat /\ CounterWord > 0
  BY MonitorAssumption DEF M!Sound
<1>2. metrics = << >> /\ DOMAIN metrics = {} /\ Len(metrics) = 0
  BY DEF M!Init
<1>3. M!Typed
  BY <1>1, <1>2 DEF M!Init, M!Typed
<1>4. ASSUME M!Monitored # {}
      PROVE  (told[M!Survivor] + M!Received(metrics, M!Survivor)) % CounterWord = prev[M!Survivor]
  <2>1. PICK s : s = M!Survivor
    OBVIOUS
  <2>2. s \in M!Sources
    BY <1>4, <2>1, SurvivorThere
  <2>3. told[s] = 0 /\ prev[s] = 0
    BY <2>2 DEF M!Init
  <2>4. M!Received(metrics, s) = 0
    BY <1>2, ReceivedNone
  <2>5. (0 + 0) % CounterWord = 0
    BY <1>1
  <2> QED
    BY <2>1, <2>3, <2>4, <2>5
<1>5. M!RatesAddUp
  BY <1>2, <1>4 DEF M!Init, M!RatesAddUp
<1> QED
  BY <1>2, <1>3, <1>5 DEF M!IndInv, M!CountsInv, M!LabelsAgree

(* Nothing that the invariant speaks of changes. *)
LEMMA MonitorRests ==
  ASSUME M!IndInv, UNCHANGED <<metrics, made, sent, told, prev, exporter, rx, collectors>> PROVE M!IndInv'
<1>1. M!Typed'
  BY DEF M!IndInv, M!Typed, M!Sources, M!ToSet
<1>2. M!CountsInv'
  BY DEF M!IndInv, M!CountsInv
<1>3. M!LabelsAgree'
  BY DEF M!IndInv, M!LabelsAgree, M!Nothing, M!DiskFields, M!ProcFields, M!ProcLabels, M!ProcNumbers, M!Junk
<1>4. M!Survivor' = M!Survivor /\ M!Monitored' = M!Monitored
  BY DEF M!Survivor, M!Monitored, M!Listed, M!Sources
<1>5. M!RatesAddUp'
  BY <1>4 DEF M!IndInv, M!RatesAddUp
<1> QED
  BY <1>1, <1>2, <1>3, <1>5 DEF M!IndInv

(* The second half of run(). *)
LEMMA ExportKeeps == ASSUME M!IndInv, NEW r, M!ExportAll(r) PROVE M!IndInv'
<1>1. CounterWord \in Nat /\ CounterWord > 0
  BY MonitorAssumption DEF M!Sound
<1>2. metrics' = << >> /\ DOMAIN metrics' = {} /\ Len(metrics') = 0
  BY DEF M!ExportAll
<1>3. PICK m \in Nat : m = Len(metrics) /\ DOMAIN metrics = 1 .. m
  BY DEF M!IndInv, M!Typed
<1>4. M!Typed /\ made \in Nat /\ sent \in Nat
  BY DEF M!IndInv, M!Typed
<1>5. /\ collectors' = collectors /\ rx' = rx /\ prev' = prev /\ exporter' = exporter /\ made' = made
      /\ sent' = sent + m
      /\ told' = [i \in M!Sources |-> (told[i] + M!Received(metrics, i)) % CounterWord]
  BY <1>3 DEF M!ExportAll
<1>6. ASSUME NEW i \in M!Sources
      PROVE  told[i] \in Nat /\ M!Received(metrics, i) \in Nat
             /\ (told[i] + M!Received(metrics, i)) % CounterWord \in 0 .. CounterWord - 1
  <2>1. \A n \in 1 .. m : "interface" \in DOMAIN metrics[n].data => metrics[n].data.rx_bytes \in Nat
    BY <1>3 DEF M!IndInv, M!CountsInv
  <2>2. PICK ms : ms = metrics
    OBVIOUS
  <2>3. \A n \in 1 .. m : "interface" \in DOMAIN ms[n].data => ms[n].data.rx_bytes \in Nat
    BY <2>1, <2>2
  <2>4. M!Received(ms, i) \in 0 .. CounterWord - 1
    BY <1>3, <2>2, <2>3, ReceivedType
  <2>5. PICK t \in 0 .. CounterWord - 1 : t = told[i]
    BY <1>4 DEF M!Typed
  <2>6. PICK u \in 0 .. CounterWord - 1 : u = M!Received(metrics, i)
    BY <2>2, <2>4
  <2>7. t + u \in Nat /\ (t + u) % CounterWord \in 0 .. CounterWord - 1
    BY <1>1
  <2> QED
    BY <1>1, <2>5, <2>6, <2>7
<1>7. told' \in [M!Sources -> 0 .. CounterWord - 1]
  BY <1>5, <1>6
<1>8. M!Typed'
  <2>1. sent' \in Nat
    BY <1>4, <1>5
  <2>2. metrics' \in Seq(M!ToSet(metrics'))
    BY <1>2
  <2> QED
    BY <1>4, <1>5, <1>7, <2>1, <2>2 DEF M!Typed, M!Sources, M!ToSet
<1>9. M!Survivor' = M!Survivor /\ M!Monitored' = M!Monitored
  BY DEF M!Survivor, M!Monitored, M!Listed, M!Sources
<1>10. ASSUME exporter, M!Monitored # {}
       PROVE  (told'[M!Survivor] + M!Received(metrics', M!Survivor)) % CounterWord = prev'[M!Survivor]
  <2>1. PICK s : s = M!Survivor
    OBVIOUS
  <2>2. s \in M!Sources
    BY <1>10, <2>1, SurvivorThere
  <2>3. told'[s] = prev[s]
    BY <1>5, <1>10, <2>1, <2>2 DEF M!IndInv, M!RatesAddUp
  <2>4. PICK p \in 0 .. CounterWord - 1 : p = prev[s]
    BY <1>4, <2>2 DEF M!Typed
  <2>5. M!Received(metrics', s) = 0
    BY <1>2, ReceivedNone
  <2>6. (p + 0) % CounterWord = p
    BY <1>1, <2>4
  <2> QED
    BY <1>5, <2>1, <2>3, <2>4, <2>5, <2>6
<1>11. M!RatesAddUp'
  <2>1. CASE exporter
    <3>1. sent + m = made
      BY <1>3, <2>1 DEF M!IndInv, M!RatesAddUp
    <3>2. sent' + Len(metrics') = made'
      BY <1>2, <1>4, <1>5, <3>1
    <3> QED
      BY <1>2, <1>5, <1>9, <1>10, <2>1, <3>2 DEF M!RatesAddUp
  <2>2. CASE ~ exporter
    BY <1>2, <1>5, <2>2 DEF M!IndInv, M!RatesAddUp
  <2> QED
    BY <2>1, <2>2
<1> QED
  BY <1>2, <1>8, <1>11 DEF M!IndInv, M!CountsInv, M!LabelsAgree

(* add_metric(). *)
LEMMA AddKeeps == ASSUME M!IndInv, M!AddMetric PROVE M!IndInv'
<1>1. M!Typed /\ made = 0 /\ sent \in Nat /\ exporter
  BY DEF M!IndInv, M!Typed, M!AddMetric
<1>2. PICK m \in Nat : m = Len(metrics) /\ DOMAIN metrics = 1 .. m
  BY DEF M!IndInv, M!Typed
<1>3. m = 0 /\ sent = 0
  BY <1>1, <1>2 DEF M!IndInv, M!RatesAddUp
<1>4. PICK x : x = [id |-> 1, name |-> "metric", data |-> M!Nothing]
  OBVIOUS
<1>5. metrics = << >>
  BY <1>2, <1>3 DEF M!IndInv, M!Typed
<1>6. /\ collectors' = collectors /\ rx' = rx /\ prev' = prev /\ exporter' = exporter /\ made' = 1
      /\ sent' = sent /\ told' = told /\ metrics' = Append(metrics, x)
  BY <1>1, <1>4 DEF M!AddMetric
<1>7. metrics' = <<x>>
  BY <1>5, <1>6
<1>8. DOMAIN metrics' = {1} /\ Len(metrics') = 1 /\ metrics'[1] = x
  BY <1>7
<1>9. x.id = 1 /\ x.name = "metric" /\ x.data = M!Nothing
  BY <1>4
<1>10. M!Typed'
  <2>1. metrics' \in Seq(M!ToSet(metrics'))
    <3>1. PICK S : S = M!ToSet(metrics')
      OBVIOUS
    <3>2. x \in S
      BY <1>8, <3>1 DEF M!ToSet
    <3>3. <<x>> \in Seq(S)
      BY <3>2
    <3> QED
      BY <1>7, <3>1, <3>3
  <2> QED
    BY <1>1, <1>6, <2>1 DEF M!Typed, M!Sources, M!ToSet
<1>11. M!CountsInv'
  BY <1>8, <1>9, NothingIs DEF M!CountsInv
<1>12. M!LabelsAgree'
  BY <1>8, <1>9 DEF M!LabelsAgree
<1>13. M!Survivor' = M!Survivor /\ M!Monitored' = M!Monitored
  BY DEF M!Survivor, M!Monitored, M!Listed, M!Sources
<1>14. ASSUME M!Monitored # {}
       PROVE  (told'[M!Survivor] + M!Received(metrics', M!Survivor)) % CounterWord = prev'[M!Survivor]
  <2>1. PICK s, ms, ks : s = M!Survivor /\ ms = metrics /\ ks = metrics'
    OBVIOUS
  <2>2. M!Received(ms, s) = 0
    BY <1>5, <2>1, ReceivedNone
  <2>3. "interface" \notin DOMAIN x.data
    BY <1>9, NothingIs
  <2>4. M!AddReceived(0, x, s) = 0
    BY <2>3, TellsNothing
  <2>5. Grows(ms, 0, ks, 1, s, 0, 0, 1)
    <3>1. 0 = Len(ms) /\ Len(ks) = 0 + 1 /\ ks[0 + 1] = x
      BY <1>5, <1>8, <2>1
    <3> QED
      BY <2>2, <2>4, <3>1 DEF Grows
  <2>6. M!Received(ks, s) = 0
    <3>1. PICK z \in Nat, o \in Nat : z = 0 /\ o = 1 /\ o \in 1 .. o + 1
      OBVIOUS
    <3>2. Grows(ms, z, ks, o, s, z, z, o)
      BY <2>5, <3>1
    <3>3. M!Received(ks, s) = IF o <= o THEN z ELSE z
      BY <3>1, <3>2, ReceivedGrows
    <3> QED
      BY <3>1, <3>3
  <2>7. (told[s] + M!Received(ms, s)) % CounterWord = prev[s]
    BY <1>1, <1>14, <2>1 DEF M!IndInv, M!RatesAddUp
  <2> QED
    BY <1>6, <2>1, <2>2, <2>6, <2>7
<1>15. M!RatesAddUp'
  BY <1>1, <1>3, <1>6, <1>8, <1>9, <1>13, <1>14 DEF M!RatesAddUp
<1> QED
  BY <1>10, <1>11, <1>12, <1>15 DEF M!IndInv

(* unregister_collector(). *)
LEMMA UnregisterKeeps == ASSUME M!IndInv, NEW c, M!Unregister(c) PROVE M!IndInv'
<1>1. /\ c \in collectors /\ collectors' = collectors \ {c}
      /\ UNCHANGED <<metrics, made, sent, told, prev, exporter, rx>>
  BY DEF M!Unregister
<1>2. M!Typed'
  BY <1>1 DEF M!IndInv, M!Typed, M!Sources, M!ToSet
<1>3. M!CountsInv'
  BY <1>1 DEF M!IndInv, M!CountsInv
<1>4. M!LabelsAgree'
  BY <1>1 DEF M!IndInv, M!LabelsAgree, M!Nothing, M!DiskFields, M!ProcFields, M!ProcLabels, M!ProcNumbers, M!Junk
<1>5. M!Survivor' = M!Survivor /\ M!Monitored' = M!Monitored
  BY DEF M!Survivor, M!Monitored, M!Listed, M!Sources
<1>6. M!RatesAddUp'
  BY <1>1, <1>5 DEF M!IndInv, M!RatesAddUp
<1> QED
  BY <1>2, <1>3, <1>4, <1>6 DEF M!IndInv

(* The kernel counts an octet. *)
LEMMA ReceiveKeeps == ASSUME M!IndInv, NEW i \in M!Sources, M!Receive(i) PROVE M!IndInv'
<1>0. CounterWord \in Nat /\ CounterWord > 0
  BY MonitorAssumption DEF M!Sound
<1>1. /\ rx' = [rx EXCEPT ![i] = (rx[i] + 1) % CounterWord]
      /\ UNCHANGED <<metrics, made, sent, told, prev, exporter, collectors>>
  BY DEF M!Receive
<1>2. M!Typed'
  <2>1. PICK u \in 0 .. CounterWord - 1 : u = rx[i]
    BY DEF M!IndInv, M!Typed
  <2>2. PICK v : v = (u + 1) % CounterWord
    OBVIOUS
  <2>3. v \in 0 .. CounterWord - 1
    BY <1>0, <2>1, <2>2
  <2>4. rx' = [rx EXCEPT ![i] = v]
    BY <1>1, <2>1, <2>2
  <2>5. rx' \in [M!Sources -> 0 .. CounterWord - 1]
    BY <2>3, <2>4 DEF M!IndInv, M!Typed
  <2> QED
    BY <1>1, <2>5 DEF M!IndInv, M!Typed, M!Sources, M!ToSet
<1>3. M!CountsInv'
  BY <1>1 DEF M!IndInv, M!CountsInv
<1>4. M!LabelsAgree'
  BY <1>1 DEF M!IndInv, M!LabelsAgree, M!Nothing, M!DiskFields, M!ProcFields, M!ProcLabels, M!ProcNumbers, M!Junk
<1>5. M!Survivor' = M!Survivor /\ M!Monitored' = M!Monitored
  BY DEF M!Survivor, M!Monitored, M!Listed, M!Sources
<1>6. M!RatesAddUp'
  BY <1>1, <1>5 DEF M!IndInv, M!RatesAddUp
<1> QED
  BY <1>2, <1>3, <1>4, <1>6 DEF M!IndInv

(* The destructor. *)
LEMMA DestroyKeeps == ASSUME M!IndInv, M!Destroy PROVE M!IndInv'
<1>1. /\ collectors' = {} /\ metrics' = << >> /\ exporter' = FALSE
      /\ UNCHANGED <<made, sent, told, prev, rx>>
  BY DEF M!Destroy
<1>2. DOMAIN metrics' = {} /\ metrics' \in Seq(M!ToSet(metrics'))
  BY <1>1
<1>3. M!Typed'
  BY <1>1, <1>2 DEF M!IndInv, M!Typed, M!Sources, M!ToSet
<1>4. M!RatesAddUp'
  BY <1>1, <1>2 DEF M!RatesAddUp
<1> QED
  BY <1>2, <1>3, <1>4 DEF M!IndInv, M!CountsInv, M!LabelsAgree

(* Every step of the monitor. *)
LEMMA MonitorStep == ASSUME M!IndInv, M!Next PROVE M!IndInv'
<1>1. ASSUME NEW r \in Runners, M!Run(r) PROVE M!IndInv'
  <2>1. ASSUME NEW s \in Situations, M!CollectAll(r, s.alive, s.garbled, s.files, s.state) PROVE M!IndInv'
    BY <2>1, CollectKeeps
  <2>2. CASE M!ExportAll(r)
    BY <2>2, ExportKeeps
  <2> QED
    BY <1>1, <2>1, <2>2 DEF M!Run
<1>2. CASE M!AddMetric
  BY <1>2, AddKeeps
<1>3. ASSUME NEW c \in Configured, M!Unregister(c) PROVE M!IndInv'
  BY <1>3, UnregisterKeeps
<1>4. ASSUME NEW busy \in BOOLEAN, M!Tick(busy) PROVE M!IndInv'
  BY <1>4, MonitorRests DEF M!Tick
<1>5. ASSUME NEW i \in M!Sources, M!Receive(i) PROVE M!IndInv'
  BY <1>5, ReceiveKeeps
<1>6. CASE M!Destroy
  BY <1>6, DestroyKeeps
<1> QED
  BY <1>1, <1>2, <1>3, <1>4, <1>5, <1>6 DEF M!Next

(* MetricsSound: for every number of pool threads, collectors, interfaces, mounts and *)
(* processes and every word, whichever runs of monitor_engine overlap and whatever    *)
(* they fail to read, every metric is exported once and in order, the deltas exported *)
(* of the last interface add up to the last counter read, and the fields of a disk or *)
(* process metric describe the mount or process that it names.                        *)
THEOREM MetricsStaySound == SpecAll => []MetricsSound
<1>1. InitAll => M!IndInv
  BY MonitorInit DEF InitAll
<1>2. M!IndInv /\ [NextAll]_allvars => M!IndInv'
  <2> SUFFICES ASSUME M!IndInv, [NextAll]_allvars PROVE M!IndInv'
    OBVIOUS
  <2>1. CASE M!Next
    BY <2>1, MonitorStep
  <2>2. CASE UNCHANGED mvars
    BY <2>2, MonitorRests DEF mvars
  <2> QED
    BY <2>1, <2>2 DEF NextAll, allvars
<1>3. M!IndInv => MetricsSound
  BY DEF M!IndInv, MetricsSound
<1> QED
  BY <1>1, <1>2, <1>3, PTL DEF SpecAll
=============================================================================
