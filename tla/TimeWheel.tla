----------------------------- MODULE TimeWheel -----------------------------
(***************************************************************************)
(* bee::timewheel (common/timewheel.h, common/timewheel.cpp): timers from a  *)
(* fixed pool, linked into intrusive circular lists.  Any thread, a timer's  *)
(* handler included, adds a timer to the back changelist or marks one for    *)
(* deletion there; each tick swaps the changelists, moves the new timers to  *)
(* their slot or to the hanging list, runs the handlers of the slot that is  *)
(* due and, once per turn of the wheel, regroups the hanging list.           *)
(*                                                                           *)
(* The lists are modelled down to their links, because a timer that is in    *)
(* two lists, or is reused while a list still points at it, is what can go   *)
(* wrong with them.  A step is what runs under one timer's or the            *)
(* changelist's spinlock; a handler is an interval.                          *)
(***************************************************************************)
EXTENDS Integers, Sequences, FiniteSets

CONSTANTS NTimers,    \* poolsize of _timerpool
          Callers,    \* threads that call add_timer and del_timer
          Wheel,      \* the thread inside run(), a caller while in a handler
          N,          \* NEAR_SLOTS
          Timeouts,   \* timeouts in ticks
          Delays,     \* values of the delay argument
          Repeats,    \* values of the repeats argument; negative is forever
          Results,    \* values handlers return
          Word,       \* 2^64: _nexttime - _tickcount is unsigned
          MaxTick,    \* bound on _tickcount
          MaxDrops,   \* bound on timers deleted or dropped by their handler
          Null

ASSUME SlotsAssumption == NTimers \in Nat /\ N \in Nat \ {0}
ASSUME BoundsAssumption == MaxTick \in Nat /\ MaxDrops \in Nat
ASSUME WordAssumption == Word \in Nat /\ Word > N
ASSUME ArgsAssumption == /\ Timeouts \subseteq Nat
                         /\ Repeats \subseteq Int
                         /\ Delays \subseteq BOOLEAN
                         /\ Results \subseteq BOOLEAN
(* Every caller of add_timer() asks for a second or more, which is one tick or     *)
(* more, and _tickcount does not come near the end of its word.                   *)
ASSUME TimeoutsAssumption == Timeouts \subseteq 1 .. Word - 1 /\ MaxTick + N <= Word
ASSUME WheelAssumption == Wheel \notin Callers

Timers == 1 .. NTimers
ASSUME NullAssumption == Null \notin Timers

Near(i) == <<"near", i>>
Hang == <<"hang", 0>>
Change(i) == <<"change", i>>
Active == <<"active", 0>>
Lists == {Near(i) : i \in 0 .. N - 1} \cup {Hang, Active, Change(0), Change(1)}

VARIABLES
  links,     \* [head, count: per list; prev, next: per timer]
  state,     \* timer_node::_state
  timeout, nexttime, repeats,   \* timer_node::_timeout, _nexttime, _repeats
  pool,      \* free slots of _timerpool, the next one to be taken first
  tickcount, \* _tickcount
  frontidx,  \* _frontidx
  wpc,       \* where the wheel is in tick()
  cur, left, \* its position in the list it iterates over, and the turns left
  hand,      \* per caller: the timer add_timer has filled in, or Null
  late,      \* history: timers whose time had passed when they were linked
  drops,     \* history: timers deleted by del_timer or dropped by their handler
  failed     \* an ASSERT has failed, a null pointer was followed or a count wrapped

vars == <<links, state, timeout, nexttime, repeats, pool, tickcount, frontidx, wpc,
          cur, left, hand, late, drops, failed>>
fields == <<state, timeout, nexttime, repeats>>

Front == Change(frontidx)
Back == Change(1 - frontidx)

Init ==
  /\ links = [head |-> [l \in Lists |-> Null], count |-> [l \in Lists |-> 0],
              prev |-> [t \in Timers |-> Null], next |-> [t \in Timers |-> Null]]
  /\ state = [t \in Timers |-> "none"]
  /\ timeout = [t \in Timers |-> 0]
  /\ nexttime = [t \in Timers |-> 0]
  /\ repeats = [t \in Timers |-> 0]
  /\ pool = [i \in Timers |-> i]
  /\ tickcount = 0
  /\ frontidx = 0
  /\ wpc = "switch"
  /\ cur = Null
  /\ left = 0
  /\ hand = [c \in Callers \cup {Wheel} |-> Null]
  /\ late = {}
  /\ drops = 0
  /\ failed = FALSE

(***************************************************************************)
(* timerlist                                                                *)
(***************************************************************************)

PushOK(m, l) == m.head[l] # Null => m.prev[m.head[l]] # Null

PushBack(m, l, t) ==
  LET h == m.head[l] IN
  IF h = Null
    THEN [m EXCEPT !.prev[t] = t, !.next[t] = t, !.head[l] = t, !.count[l] = @ + 1]
    ELSE [m EXCEPT !.prev[t] = m.prev[h], !.next[t] = h, !.next[m.prev[h]] = t,
                   !.prev[h] = t, !.count[l] = @ + 1]

(* The ASSERTs of pop(); a count of zero would wrap, and the next walk over   *)
(* the list would not end.                                                   *)
PopOK(m, l, t) ==
  /\ m.head[l] # Null /\ m.count[l] > 0
  /\ (t = m.head[l] /\ m.count[l] = 1) \/ (m.next[t] # Null /\ m.prev[t] # Null)

(* Mutant: the successor keeps its link to the timer that leaves. *)
PopHalf(m, l, t) ==
  IF t = m.head[l] /\ m.count[l] = 1
    THEN [m EXCEPT !.head[l] = Null, !.count[l] = 0]
    ELSE [m EXCEPT !.next[m.prev[t]] = m.next[t],
                   !.head[l] = IF @ = t THEN m.next[t] ELSE @,
                   !.prev[t] = Null, !.next[t] = Null, !.count[l] = @ - 1]

Pop(m, l, t) ==
  IF t = m.head[l] /\ m.count[l] = 1
    THEN [m EXCEPT !.head[l] = Null, !.count[l] = 0]
    ELSE [m EXCEPT !.prev[m.next[t]] = m.prev[t], !.next[m.prev[t]] = m.next[t],
                   !.head[l] = IF @ = t THEN m.next[t] ELSE @,
                   !.prev[t] = Null, !.next[t] = Null, !.count[l] = @ - 1]

Swap(m, l, k) ==
  [m EXCEPT !.head[l] = m.head[k], !.head[k] = m.head[l],
            !.count[l] = m.count[k], !.count[k] = m.count[l]]

(***************************************************************************)
(* add_timer and del_timer                                                  *)
(***************************************************************************)

(* Handlers call from inside the wheel's thread. *)
MayCall(c) == hand[c] = Null /\ (c = Wheel => wpc = "handler") /\ ~failed

(* Take a slot and fill it in; _tickcount is read without a lock.  The call  *)
(* fails when the pool is empty.                                             *)
AddTimer(c, delay, ticks, n) ==
  LET t == Head(pool) IN
  /\ MayCall(c)
  /\ pool # << >>
  /\ pool' = Tail(pool)
  /\ links' = [links EXCEPT !.prev[t] = Null, !.next[t] = Null]
  /\ state' = [state EXCEPT ![t] = "add"]
  /\ timeout' = [timeout EXCEPT ![t] = ticks]
  /\ nexttime' = [nexttime EXCEPT ![t] = IF delay THEN tickcount + ticks ELSE tickcount]
  /\ repeats' = [repeats EXCEPT ![t] = n]
  /\ hand' = [hand EXCEPT ![c] = t]
  /\ UNCHANGED <<tickcount, frontidx, wpc, cur, left, late, failed, drops>>

(* add_to_changelist(), under _changelist_locker. *)
AddToChangelist(c) ==
  /\ hand[c] # Null /\ ~failed
  /\ failed' = ~PushOK(links, Back)
  /\ links' = IF failed' THEN links ELSE PushBack(links, Back, hand[c])
  /\ hand' = [hand EXCEPT ![c] = Null]
  /\ UNCHANGED <<fields, pool, tickcount, frontidx, wpc, cur, left, late, drops>>

(* Only an active timer can be deleted; its lock is the wheel's while its    *)
(* handler runs.                                                             *)
DelTimer(c, t) ==
  /\ MayCall(c) /\ drops < MaxDrops
  /\ drops' = drops + 1
  /\ state[t] = "active"
  /\ ~(wpc = "handler" /\ cur = t)
  /\ state' = [state EXCEPT ![t] = "del"]
  /\ failed' = ~PushOK(links, Back)
  /\ links' = IF failed' THEN links ELSE PushBack(links, Back, t)
  /\ UNCHANGED <<timeout, nexttime, repeats, pool, tickcount, frontidx, wpc, cur, left,
                 hand, late>>

(***************************************************************************)
(* tick()                                                                   *)
(***************************************************************************)

(* _nexttime - _tickcount, unsigned. *)
Ahead(time) == (time - tickcount) % Word

(* Mutant: a timer exactly one turn ahead goes into a slot. *)
PlaceInclusive(time) ==
  IF Ahead(time) > N THEN Hang
  ELSE Near((IF Ahead(time) > 0 THEN time ELSE tickcount) % N)

(* Where readd_timer() and regroup_timers() put a timer. *)
Place(time) ==
  IF Ahead(time) >= N THEN Hang
  ELSE Near((IF Ahead(time) > 0 THEN time ELSE tickcount) % N)

(* Where remove_timer() looks for it. *)
RemovePlace(time) ==
  IF Ahead(time) >= N THEN Hang
  ELSE Near((IF Ahead(time) > 0 THEN Ahead(time) ELSE tickcount) % N)

(* Mutant: the slot is given back and the timer keeps its state. *)
FreeTimerKeepsState(t) ==
  /\ pool' = <<t>> \o pool
  /\ late' = late \ {t}
  /\ UNCHANGED state

FreeTimer(t) ==
  /\ state' = [state EXCEPT ![t] = "none"]
  /\ pool' = <<t>> \o pool
  /\ late' = late \ {t}

(* readd_timer(t) on the links m. *)
Readd(m, t, time) ==
  /\ failed' = ~PushOK(m, Place(time))
  /\ links' = IF failed' THEN m ELSE PushBack(m, Place(time), t)
  /\ state' = [state EXCEPT ![t] = "active"]
  /\ late' = IF time < tickcount THEN late \cup {t} ELSE late
  /\ UNCHANGED pool

(* switch_changelist() and the start of load_timers(). *)
SwitchChangelist ==
  /\ wpc = "switch" /\ ~failed
  /\ frontidx' = 1 - frontidx
  /\ cur' = links.head[Back]
  /\ left' = links.count[Back]
  /\ wpc' = "load"
  /\ UNCHANGED <<links, fields, pool, tickcount, hand, late, failed, drops>>

(* One turn of the loop over the front changelist. *)
LoadTimer ==
  LET t == cur IN
  /\ wpc = "load" /\ left > 0 /\ cur # Null /\ ~failed
  /\ cur' = links.next[t]
  /\ left' = left - 1
  /\ \/ state[t] = "add" /\ Readd(links, t, nexttime[t])
     \/ /\ state[t] = "del"
        /\ failed' = ~PopOK(links, RemovePlace(nexttime[t]), t)
        /\ links' = IF failed' THEN links ELSE Pop(links, RemovePlace(nexttime[t]), t)
        /\ FreeTimer(t)
     \/ state[t] \notin {"add", "del"} /\ UNCHANGED <<links, state, pool, late, failed>>
  /\ UNCHANGED <<timeout, nexttime, repeats, tickcount, frontidx, wpc, hand, drops>>

(* The changelist is cleared; handle_timer() takes the slot's list. *)
StartHandling ==
  LET s == Near(tickcount % N)
      m == Swap([links EXCEPT !.head[Front] = Null, !.count[Front] = 0,
                              !.head[Active] = Null, !.count[Active] = 0], Active, s)
  IN /\ wpc = "load" /\ left = 0 /\ ~failed
     /\ links' = m
     /\ cur' = m.head[Active]
     /\ left' = m.count[Active]
     /\ wpc' = "handle"
     /\ UNCHANGED <<fields, pool, tickcount, frontidx, hand, late, failed, drops>>

(* Every loop over a list follows the next links as often as the list counts. *)
FollowNull ==
  /\ wpc \in {"load", "handle", "regroup"} /\ left > 0 /\ cur = Null /\ ~failed
  /\ failed' = TRUE
  /\ UNCHANGED <<links, fields, pool, tickcount, frontidx, wpc, cur, left, hand, late, drops>>

(* Lock the timer; an active one's handler is called. *)
LockTimer ==
  /\ wpc = "handle" /\ left > 0 /\ cur # Null /\ ~failed
  /\ IF state[cur] = "active"
       THEN wpc' = "handler" /\ UNCHANGED <<cur, left>>
       ELSE cur' = links.next[cur] /\ left' = left - 1 /\ UNCHANGED wpc
  /\ UNCHANGED <<links, fields, pool, tickcount, frontidx, hand, late, failed, drops>>

(* The handler returns: next is what the timer's link was before the call, and  *)
(* nothing changes it while the timer is locked.  True: take the timer off the  *)
(* list and count it down; it is freed or linked in again.  False: it is freed. *)
HandlerReturns(result) ==
  LET t == cur
      m == Pop(links, Active, t)
      n == IF repeats[t] > 0 THEN repeats[t] - 1 ELSE repeats[t]
      time == nexttime[t] + timeout[t]
  IN /\ wpc = "handler" /\ hand[Wheel] = Null /\ ~failed
     /\ result \/ drops < MaxDrops
     /\ drops' = IF result THEN drops ELSE drops + 1
     /\ cur' = links.next[t]
     /\ left' = left - 1
     /\ wpc' = "handle"
     /\ \/ /\ ~result
           /\ FreeTimer(t)
           /\ UNCHANGED <<links, nexttime, repeats, failed>>
        \/ /\ result /\ ~PopOK(links, Active, t)
           /\ failed' = TRUE
           /\ UNCHANGED <<links, state, pool, late, nexttime, repeats>>
        \/ /\ result /\ PopOK(links, Active, t) /\ n = 0
           /\ links' = m
           /\ repeats' = [repeats EXCEPT ![t] = 0]
           /\ FreeTimer(t)
           /\ UNCHANGED <<nexttime, failed>>
        \/ /\ result /\ PopOK(links, Active, t) /\ n # 0
           /\ repeats' = [repeats EXCEPT ![t] = n]
           /\ nexttime' = [nexttime EXCEPT ![t] = time]
           /\ Readd(m, t, time)
     /\ UNCHANGED <<timeout, tickcount, frontidx, hand>>

(* ++_tickcount; a full turn of the wheel starts regroup_timers(). *)
AdvanceTick ==
  /\ wpc = "handle" /\ left = 0 /\ ~failed
  /\ tickcount < MaxTick
  /\ tickcount' = tickcount + 1
  /\ IF tickcount' % N = 0
       THEN wpc' = "regroup" /\ cur' = links.head[Hang] /\ left' = links.count[Hang]
       ELSE wpc' = "switch" /\ UNCHANGED <<cur, left>>
  /\ UNCHANGED <<links, fields, pool, frontidx, hand, late, failed, drops>>

Regroup ==
  LET t == cur
      m == Pop(links, Hang, t)
      move == Ahead(nexttime[t]) < N
  IN /\ wpc = "regroup" /\ ~failed
     /\ \/ left = 0 /\ wpc' = "switch" /\ UNCHANGED <<links, cur, left, failed>>
        \/ /\ left > 0 /\ cur # Null
           /\ left' = left - 1 /\ cur' = links.next[t]
           /\ failed' = (move /\ ~(PopOK(links, Hang, t) /\ PushOK(m, Place(nexttime[t]))))
           /\ links' = IF move /\ ~failed' THEN PushBack(m, Place(nexttime[t]), t) ELSE links
           /\ UNCHANGED wpc
     /\ UNCHANGED <<fields, pool, tickcount, frontidx, hand, late, drops>>

Tick == SwitchChangelist \/ LoadTimer \/ StartHandling \/ LockTimer \/ FollowNull
        \/ (\E r \in Results : HandlerReturns(r)) \/ AdvanceTick \/ Regroup

Next ==
  \/ \E c \in Callers \cup {Wheel} :
       \/ \E d \in Delays, k \in Timeouts, n \in Repeats : AddTimer(c, d, k, n)
       \/ AddToChangelist(c)
       \/ \E t \in Timers : DelTimer(c, t)
  \/ Tick

Spec == Init /\ [][Next]_vars

-----------------------------------------------------------------------------
LinksType == [head : [Lists -> Timers \cup {Null}], count : [Lists -> Nat],
              prev : [Timers -> Timers \cup {Null}], next : [Timers -> Timers \cup {Null}]]

(* Every variable stays in its range. *)
TypeOK ==
  /\ links \in LinksType
  /\ state \in [Timers -> {"none", "add", "active", "del"}]
  /\ timeout \in [Timers -> Nat] /\ nexttime \in [Timers -> Nat] /\ repeats \in [Timers -> Int]
  /\ pool \in Seq(Timers)
  /\ tickcount \in 0 .. MaxTick /\ frontidx \in {0, 1} /\ left \in Nat
  /\ wpc \in {"switch", "load", "handle", "handler", "regroup"}
  /\ cur \in Timers \cup {Null}
  /\ hand \in [Callers \cup {Wheel} -> Timers \cup {Null}]
  /\ late \in SUBSET Timers /\ drops \in 0 .. MaxDrops /\ failed \in BOOLEAN

(* The timers met in k turns from t along the next links. *)
Walk(t, k) ==
  LET w[i \in 0 .. k] == IF i = 0 THEN t
                         ELSE IF w[i - 1] = Null THEN Null ELSE links.next[w[i - 1]]
  IN w

Members(l) == {Walk(links.head[l], links.count[l])[i] : i \in 0 .. links.count[l] - 1}

(* A circular list of count timers whose links agree in both directions. *)
Circular(l) ==
  LET k == links.count[l]
      w == Walk(links.head[l], k)
  IN /\ links.head[l] = Null <=> k = 0
     /\ k > 0 => /\ Null \notin Members(l)
                 /\ Cardinality(Members(l)) = k
                 /\ w[k] = w[0]
                 /\ \A i \in 0 .. k - 1 : links.prev[w[i + 1]] = w[i]

(* The lists nothing is iterating over. *)
Whole == {Near(i) : i \in 0 .. N - 1} \cup {Hang, Back}

(* The timers the wheel has still to come to in the list it iterates over. *)
Pending == IF wpc \in {"load", "handle", "handler"}
             THEN {Walk(cur, left)[i] : i \in 0 .. left - 1} ELSE {}

(* A timer that has been added is in one list, or about to be put into one.       *)
EachInOneList ==
  \A t \in Timers : state[t] \in {"add", "active"} =>
    Cardinality({l \in Whole : t \in Members(l)})
      + Cardinality({t} \cap Pending)
      + Cardinality({c \in Callers \cup {Wheel} : hand[c] = t}) = 1

(* Until a timer is deleted or its handler returns false, every list is a circle  *)
(* of as many distinct timers as it counts, whatever callers and handlers add     *)
(* meanwhile, no ASSERT of timerlist fails, and no timer is lost or linked twice  *)
(* (push_back, pop; add_timer, readd_timer, load_timers, handle_timer,            *)
(* regroup_timers).                                                              *)
ListsIntact ==
  /\ TypeOK
  /\ drops = 0 => ~failed /\ (\A l \in Whole : Circular(l)) /\ EachInOneList

(* A handler runs in the tick its timer asked for, and no tick passes over a      *)
(* timer that is due: between ticks no active timer's time is behind _tickcount,  *)
(* except one whose time had passed before it was linked in (handle_timer,        *)
(* readd_timer, regroup_timers).                                                 *)
OnTime ==
  drops = 0 =>
    /\ wpc = "handler" => nexttime[cur] = tickcount
    /\ wpc = "switch" => \A t \in Timers :
         state[t] = "active" /\ t \notin late => nexttime[t] >= tickcount

(* The pool and the timers' states agree: a slot is free exactly when its timer   *)
(* has no state, and free once, even after deletions and reuse have damaged the  *)
(* lists, so that no timer is freed twice or handed out while in use (free_timer, *)
(* remove_timer, handle_timer).                                                  *)
PoolSound ==
  /\ \A i, j \in DOMAIN pool : pool[i] = pool[j] => i = j
  /\ \A t \in Timers : state[t] = "none" <=> \E i \in DOMAIN pool : pool[i] = t

(* The inductive invariant of PoolSound: while a handler runs its timer is active, *)
(* for del_timer() waits for the timer's lock.                                     *)
HandlerInv == wpc = "handler" => cur \in Timers /\ state[cur] = "active" /\ left > 0

IndInv == TypeOK /\ PoolSound /\ HandlerInv
=============================================================================
