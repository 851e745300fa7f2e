---------------------------- MODULE ReactorTimer ----------------------------
(***************************************************************************)
(* Timers and signals of a reactor that has no timer thread (io/reactor.cpp,  *)
(* io/event.cpp): add_timer() and del_timer() of other threads through the    *)
(* changelist, the multimap the loop keeps, and the pipe through which a      *)
(* signal handler tells the loop.                                            *)
(*                                                                           *)
(* handle_timer_event() takes a timer out before it tests it, stops at one    *)
(* that is due, which is then nowhere, and runs those that are not due yet.   *)
(* Module Reactor has the changelist's two buffers; here it is the set of the *)
(* events written and not yet loaded.                                        *)
(***************************************************************************)
EXTENDS Integers, Sequences, FiniteSets, SequencesExt

CONSTANTS Timers,     \* timer_event objects
          Timeouts,   \* timeouts asked for, in ticks
          Repeats,    \* repeats asked for; -1: without end
          Signals,    \* signals with a handler
          Timeout,    \* reactor._timeout
          PipeCap,    \* signals the pipe holds
          MaxTime, MaxRaised, MaxRuns, \* bounds: the clock, signals, runs of a timer
          None

VARIABLES
  now,
  tm,      \* timer -> its fields, del: EVENT_STATUS_DEL, state: "none", "live", "freed"
  runs,    \* timer -> times its handler was called
  deleting, \* del_timer() has set the status and not yet written the changelist
  changes, \* _changelist: timers and signals written
  queue,   \* _timer_events: [at, t] by time
  lpc,     \* the loop: "load", "sleep", "timers", "run"
  until,   \* when epoll_wait() returns
  start,   \* nowtime of handle_timer_event()
  cur,     \* the timer it has taken out
  pipe,    \* _signal_pipe
  table,   \* _signal_events
  raised, called, \* signals raised, callbacks called
  broken   \* load_event() read a deleted timer

vars == <<now, tm, runs, deleting, changes, queue, lpc, until, start, cur, pipe, table, raised,
          called, broken>>
loop == <<queue, lpc, until, start, cur, table, called, broken>>
signals == <<pipe, raised>>

Init ==
  /\ now = 0
  /\ tm = [t \in Timers |-> [state |-> "none", del |-> FALSE, delay |-> TRUE, timeout |-> 0,
                             repeats |-> 0, left |-> 0]]
  /\ runs = [t \in Timers |-> 0]
  /\ deleting = {} /\ changes = {}
  /\ queue = <<>> /\ lpc = "load" /\ until = 0 /\ start = 0 /\ cur = None
  /\ pipe = <<>> /\ table = {} /\ raised = 0 /\ called = 0
  /\ broken = FALSE

-----------------------------------------------------------------------------
(* Other threads. *)
AddTimer(t, delay, timeout, repeats) ==
  /\ tm[t].state = "none"
  /\ tm' = [tm EXCEPT ![t] = [state |-> "live", del |-> FALSE, delay |-> delay,
                              timeout |-> timeout, repeats |-> repeats, left |-> repeats]]
  /\ changes' = changes \cup {t}
  /\ UNCHANGED <<now, runs, deleting, loop, signals>>

(* del_timer() once for a timer: the status, then the changelist. *)
DelTimer(t) ==
  /\ tm[t].state = "live" /\ ~tm[t].del
  /\ tm' = [tm EXCEPT ![t].del = TRUE]
  /\ deleting' = deleting \cup {t}
  /\ UNCHANGED <<now, runs, changes, loop, signals>>

DelTimerWrites(t) ==
  /\ t \in deleting
  /\ deleting' = deleting \ {t}
  /\ changes' = changes \cup {t}
  /\ UNCHANGED <<now, tm, runs, loop, signals>>

(* add_signal(): from here on a signal writes to the pipe. *)
AddSignal(s) ==
  /\ s \notin changes \cup table
  /\ changes' = changes \cup {s}
  /\ UNCHANGED <<now, tm, runs, deleting, loop, signals>>

(* sigio_callback(): the pipe does not block, and what does not fit is lost. *)
Signal(s) ==
  /\ s \in changes \cup table /\ raised < MaxRaised
  /\ raised' = raised + 1
  /\ pipe' = IF Len(pipe) < PipeCap THEN Append(pipe, s) ELSE pipe
  /\ UNCHANGED <<now, tm, runs, deleting, changes, loop>>

Tick ==
  /\ now < MaxTime
  /\ now' = now + 1
  /\ UNCHANGED <<tm, runs, deleting, changes, loop, signals>>

-----------------------------------------------------------------------------
(* A multimap: behind those of the same time. *)
Insert(q, at, t) ==
  LET k == Cardinality({i \in DOMAIN q : q[i].at <= at})
  IN SubSeq(q, 1, k) \o <<[at |-> at, t |-> t]>> \o SubSeq(q, k + 1, Len(q))

Expire(t) == IF tm[t].delay THEN now + tm[t].timeout ELSE now

(* The timers of s, one after the other. *)
InsertAll(s) ==
  LET q[n \in 0 .. Len(s)] == IF n = 0 THEN queue ELSE Insert(q[n - 1], Expire(s[n]), s[n])
  IN q[Len(s)]

(* load_event() and add_event_inner(); del_event_inner() does nothing for a timer. *)
Load ==
  LET added == {t \in changes \cap Timers : ~tm[t].del} IN
  /\ lpc = "load"
  /\ queue' = InsertAll(SetToSeq(added))
  /\ tm' = [t \in Timers |-> IF t \in added THEN [tm[t] EXCEPT !.delay = TRUE] ELSE tm[t]]
  /\ table' = table \cup (changes \cap Signals)
  /\ broken' = (\E t \in changes \cap Timers : tm[t].state = "freed")
  /\ changes' = {} /\ lpc' = "sleep"
  /\ until' = now + LET diff == Head(queue').at - now
                    IN IF queue' # <<>> /\ diff > Timeout THEN diff ELSE Timeout
  /\ UNCHANGED <<now, runs, deleting, start, cur, called, signals>>

(* dispatch(): a wakeup, the pipe, or the time; sigio_event reads one signal, and one *)
(* without an event in the table is dropped.                                         *)
Dispatch ==
  /\ lpc = "sleep"
  /\ changes # {} \/ pipe # <<>> \/ now >= until
  /\ IF pipe = <<>> THEN UNCHANGED <<pipe, called>>
     ELSE pipe' = Tail(pipe) /\ called' = called + (IF Head(pipe) \in table THEN 1 ELSE 0)
  /\ lpc' = "timers" /\ start' = now
  /\ UNCHANGED <<now, tm, runs, deleting, changes, queue, until, cur, table, raised, broken>>

(* A turn of handle_timer_event(). *)
TakeTimer ==
  /\ lpc = "timers"
  /\ IF queue = <<>> THEN lpc' = "load" /\ UNCHANGED <<queue, cur, tm>>
     ELSE LET t == Head(queue).t IN
          /\ queue' = Tail(queue)
          /\ IF Head(queue).at <= start THEN lpc' = "load" /\ UNCHANGED <<cur, tm>>
             ELSE IF tm[t].del
             THEN tm' = [tm EXCEPT ![t].state = "freed"] /\ UNCHANGED <<lpc, cur>>
             ELSE lpc' = "run" /\ cur' = t /\ UNCHANGED tm
  /\ UNCHANGED <<now, runs, deleting, changes, until, start, table, called, broken, signals>>

(* Mutant: repeats is tested before it is counted down. *)
HandleEventCountsLate(n, result) ==
  [left |-> IF result /\ n > 0 THEN n - 1 ELSE n, again |-> result /\ n # 0]

(* timer_event::handle_event() for a handler that returns result. *)
HandleEvent(n, result) ==
  LET left == IF result /\ n > 0 THEN n - 1 ELSE n
  IN [left |-> left, again |-> result /\ left # 0]

RunTimer(result) ==
  LET h == HandleEvent(tm[cur].left, result) IN
  /\ lpc = "run" /\ runs[cur] < MaxRuns
  /\ runs' = [runs EXCEPT ![cur] = @ + 1]
  /\ tm' = [tm EXCEPT ![cur].left = h.left]
  /\ changes' = IF h.again THEN changes \cup {cur} ELSE changes
  /\ lpc' = "timers" /\ cur' = None
  /\ UNCHANGED <<now, deleting, queue, until, start, table, called, broken, signals>>

Next ==
  /\ ~broken
  /\ \/ \E t \in Timers, d \in BOOLEAN, to \in Timeouts, n \in Repeats : AddTimer(t, d, to, n)
     \/ \E t \in Timers : DelTimer(t) \/ DelTimerWrites(t)
     \/ \E s \in Signals : AddSignal(s) \/ Signal(s)
     \/ Tick \/ Load \/ Dispatch \/ TakeTimer
     \/ \E result \in BOOLEAN : RunTimer(result)

Spec == Init /\ [][Next]_vars

-----------------------------------------------------------------------------
Places(t) == {i \in DOMAIN queue : queue[i].t = t}

(* However additions, deletions from other threads and runs that put a timer back     *)
(* interleave: a timer waits in one place only, so that it never runs twice for one   *)
(* expiry; one that was deleted is freed at most when it is nowhere in the loop; it    *)
(* runs no more often than was asked; and a callback is only called for a signal that  *)
(* was raised (reactor::handle_timer_event(), load_event(), timer_event::handle_event()). *)
TimersSound ==
  /\ \A t \in Timers :
       /\ \A i, j \in Places(t) : i = j
       /\ t \in changes /\ ~tm[t].del => Places(t) = {} /\ cur # t
       /\ cur = t => Places(t) = {}
       /\ tm[t].state = "freed" => tm[t].del /\ Places(t) = {} /\ cur # t
       /\ tm[t].repeats > 0 => runs[t] <= tm[t].repeats
  /\ called + Len(pipe) <= raised

(***************************************************************************)
(* The inductive invariant of TimersSound.                                   *)
(***************************************************************************)
Entries == [at : Int, t : Timers]

TypeOK ==
  /\ now \in Nat
  /\ tm \in [Timers -> [state : {"none", "live", "freed"}, del : BOOLEAN, delay : BOOLEAN,
                        timeout : Nat, repeats : Int, left : Int]]
  /\ runs \in [Timers -> Nat]
  /\ deleting \in SUBSET Timers /\ changes \in SUBSET (Timers \cup Signals)
  /\ queue \in Seq(Entries)
  /\ lpc \in {"load", "sleep", "timers", "run"}
  /\ cur \in Timers \cup {None} /\ (lpc = "run" <=> cur # None)
  /\ pipe \in Seq(Signals) /\ raised \in Nat /\ called \in Nat

(* A timer nobody has added is nowhere. *)
UnusedInv ==
  \A t \in Timers : tm[t].state = "none" =>
    ~tm[t].del /\ runs[t] = 0 /\ t \notin changes \cup deleting /\ Places(t) = {} /\ cur # t

(* del_timer() writes the changelist for a timer whose status is set. *)
DeletingInv == \A t \in deleting : tm[t].del

(* A timer that will run again has not run as often as was asked. *)
RepeatsInv ==
  \A t \in Timers :
    tm[t].repeats > 0 /\ (Places(t) # {} \/ cur = t \/ (t \in changes /\ ~tm[t].del)) =>
      tm[t].left > 0 /\ runs[t] + tm[t].left = tm[t].repeats

IndInv == TypeOK /\ UnusedInv /\ DeletingInv /\ RepeatsInv /\ TimersSound
=============================================================================
