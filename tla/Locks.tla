------------------------------- MODULE Locks -------------------------------
(***************************************************************************)
(* The locks of thread/lock.h: spinlock, atomic_spinlock, ticket_spinlock,    *)
(* mutex, resursive_mutex and rwlock, taken and given back by scoped guards   *)
(* and by try_lock().                                                        *)
(*                                                                           *)
(* A behaviour is about one lock.  std::mutex, std::recursive_mutex and       *)
(* pthread_rwlock_t are external: owner, depth and mode are what they keep.   *)
(* ticket_spinlock::try_lock() says yes without taking a ticket, and          *)
(* rwlock::try_*lock() do not say whether they succeeded: unsound records     *)
(* that a thread entered that way, and that nothing holds any more.           *)
(***************************************************************************)
EXTENDS Naturals, FiniteSets

CONSTANTS Threads,
          Kinds,    \* kinds of lock considered
          Word,     \* tickets are unsigned numbers below Word
          MaxDepth  \* bound on nested lock() of a recursive mutex

VARIABLES
  kind,
  flag,     \* _atomic, _flag
  serving, next, \* _serving, _next_ticket
  ticket,   \* thread -> the ticket it took
  mode,     \* thread -> "rd" or "wr"
  depth,    \* thread -> lock() calls not yet unlocked
  pc,       \* thread -> "out", "exchange", "load", "wait", "in"
  unsound

vars == <<kind, flag, serving, next, ticket, mode, depth, pc, unsound>>

Spins == kind \in {"spinlock", "atomic_spinlock"}
Blocks == kind \in {"mutex", "recursive", "rwlock"}
In == {t \in Threads : pc[t] = "in"}

Init ==
  /\ kind \in Kinds
  /\ flag = FALSE /\ serving = 0 /\ next = 0
  /\ ticket = [t \in Threads |-> 0]
  /\ mode = [t \in Threads |-> "wr"]
  /\ depth = [t \in Threads |-> 0]
  /\ pc = [t \in Threads |-> "out"]
  /\ unsound = FALSE

Goto(t, l) == pc' = [pc EXCEPT ![t] = l]
Enter(t) == Goto(t, "in") /\ depth' = [depth EXCEPT ![t] = @ + 1]

-----------------------------------------------------------------------------
(* A scoped guard's constructor: lock(), rdlock() or wrlock(). *)
Lock(t, m) ==
  /\ pc[t] = "out" /\ ~unsound
  /\ m = "rd" => kind = "rwlock"
  /\ mode' = [mode EXCEPT ![t] = m]
  /\ IF kind = "ticket"
     THEN ticket' = [ticket EXCEPT ![t] = next] /\ next' = (next + 1) % Word
     ELSE UNCHANGED <<ticket, next>>
  /\ Goto(t, IF Spins THEN "exchange" ELSE "wait")
  /\ UNCHANGED <<kind, flag, serving, depth, unsound>>

(* exchange(true) or test_and_set(): taken, or try again. *)
Exchange(t) ==
  /\ pc[t] = "exchange"
  /\ flag' = TRUE
  /\ IF ~flag THEN Enter(t)
     ELSE Goto(t, IF kind = "spinlock" THEN "load" ELSE "exchange") /\ UNCHANGED depth
  /\ UNCHANGED <<kind, serving, next, ticket, mode, unsound>>

(* The inner loop of spinlock::lock() ends when a load finds it free. *)
Load(t) ==
  /\ pc[t] = "load" /\ ~flag
  /\ Goto(t, "exchange")
  /\ UNCHANGED <<kind, flag, serving, next, ticket, mode, depth, unsound>>

(* ticket_spinlock::lock(), once the number comes up. *)
Serve(t) ==
  /\ kind = "ticket" /\ pc[t] = "wait" /\ serving = ticket[t]
  /\ Enter(t)
  /\ UNCHANGED <<kind, flag, serving, next, ticket, mode, unsound>>

(* External: nobody else in it, or readers only for a reader. *)
Free(t, m) == \A u \in In \ {t} : m = "rd" /\ mode[u] = "rd"

Acquire(t) ==
  /\ Blocks /\ pc[t] = "wait" /\ Free(t, mode[t])
  /\ Enter(t)
  /\ UNCHANGED <<kind, flag, serving, next, ticket, mode, unsound>>

Relock(t) ==
  /\ kind = "recursive" /\ pc[t] = "in" /\ depth[t] < MaxDepth
  /\ depth' = [depth EXCEPT ![t] = @ + 1]
  /\ UNCHANGED <<kind, flag, serving, next, ticket, mode, pc, unsound>>

-----------------------------------------------------------------------------
(* try_lock() of a lock that spins, and of a mutex. *)
TryLock(t) ==
  /\ Spins \/ kind \in {"mutex", "recursive"}
  /\ pc[t] = "out"
  /\ IF Spins THEN ~flag ELSE Free(t, "wr")
  /\ flag' = Spins
  /\ mode' = [mode EXCEPT ![t] = "wr"]
  /\ Enter(t)
  /\ UNCHANGED <<kind, serving, next, ticket, unsound>>

(* try_lock() of a ticket lock, try_rdlock() and try_wrlock(), which return nothing. *)
TryUnsound(t, m) ==
  /\ kind \in {"ticket", "rwlock"} /\ pc[t] = "out"
  /\ IF kind = "ticket" THEN m = "wr" /\ serving = next
     ELSE TRUE
  /\ unsound' = TRUE
  /\ mode' = [mode EXCEPT ![t] = m]
  /\ Enter(t)
  /\ UNCHANGED <<kind, flag, serving, next, ticket>>

(* A guard's destructor: unlock(). *)
Unlock(t) ==
  /\ pc[t] = "in"
  /\ depth' = [depth EXCEPT ![t] = @ - 1]
  /\ IF depth[t] = 1 THEN Goto(t, "out") ELSE UNCHANGED pc
  /\ flag' = FALSE
  /\ serving' = IF kind = "ticket" THEN (serving + 1) % Word ELSE serving
  /\ UNCHANGED <<kind, next, ticket, mode, unsound>>

Next ==
  \E t \in Threads :
    \/ \E m \in {"rd", "wr"} : Lock(t, m) \/ TryUnsound(t, m)
    \/ Exchange(t) \/ Load(t) \/ Serve(t) \/ Acquire(t) \/ Relock(t)
    \/ TryLock(t) \/ Unlock(t)

Spec == Init /\ [][Next]_vars

-----------------------------------------------------------------------------
(* The threads that have a ticket, and how many go before one of them. *)
Queued == {t \in Threads : pc[t] \in {"wait", "in"}}
Ahead(t) == (ticket[t] + Word - serving) % Word

Exclusive == \A t, u \in In : t # u => mode[t] = "rd" /\ mode[u] = "rd"

TicketsInOrder ==
  /\ {Ahead(t) : t \in Queued} = 0 .. Cardinality(Queued) - 1
  /\ next = (serving + Cardinality(Queued)) % Word
  /\ \A t \in In : Ahead(t) = 0

(* Through every interleaving of exchanges, loads, tickets whose number wraps, nested   *)
(* and shared locks, as long as no thread entered by a call that does not take the lock: *)
(* only readers are ever inside together, and the threads that hold or wait for a ticket *)
(* lock have the numbers from _serving up to _next_ticket, each one of its own, so that  *)
(* all of them get in, in the order in which they came (lock(), try_lock(), unlock()).   *)
LocksExclude == unsound \/ (Exclusive /\ (kind = "ticket" => TicketsInOrder))

(***************************************************************************)
(* The inductive invariant of LocksExclude.                                  *)
(***************************************************************************)

TypeOK ==
  /\ serving \in 0 .. Word - 1 /\ next \in 0 .. Word - 1
  /\ ticket \in [Threads -> 0 .. Word - 1] /\ mode \in [Threads -> {"rd", "wr"}]
  /\ depth \in [Threads -> Nat] /\ pc \in [Threads -> {"out", "exchange", "load", "wait", "in"}]
  /\ flag \in BOOLEAN

(* The flag of a lock that spins is set while somebody has it; only a recursive mutex *)
(* is locked twice; no two threads have the same ticket.                              *)
HoldersInv ==
  /\ \A t \in Threads :
       /\ pc[t] \in {"exchange", "load"} => Spins
       /\ pc[t] = "wait" => ~Spins
       /\ pc[t] = "in" => depth[t] > 0 /\ (kind # "recursive" => depth[t] = 1)
       /\ pc[t] # "in" => depth[t] = 0
  /\ Spins => \A t, u \in In : flag /\ t = u
  /\ kind # "rwlock" => \A t \in Threads : mode[t] = "wr"
  /\ kind = "ticket" => \A t, u \in Queued : ticket[t] = ticket[u] => t = u

IndInv == unsound \/ (TypeOK /\ HoldersInv /\ LocksExclude)
=============================================================================
