---------------------------- MODULE LockfreePool ----------------------------
(***************************************************************************)
(* bee::lockfree_objectpool<T, LAZY> (common/objectpool.h): a fixed array of *)
(* slots and a free list that is a stack of slots linked through next, whose *)
(* head {node, counter} is changed by compare-and-swap only.  The timewheel  *)
(* allocates its timers here from any thread and frees them on its own.      *)
(*                                                                           *)
(* Every atomic load, store and compare_exchange is one step.  The weak      *)
(* compare_exchange may fail for no reason.  list is a history variable: the *)
(* free list as the successful compare_exchanges build it.                   *)
(***************************************************************************)
EXTENDS Naturals, Sequences

CONSTANTS Threads,
          Cap,      \* _cap
          Null,     \* nullptr
          MaxCount  \* bound on the head's counter at which a call may start

ASSUME CapAssumption == Cap \in Nat \ {0}
ASSUME NullAssumption == Null \notin Nat
ASSUME MaxCountAssumption == MaxCount \in Nat

Slots == 0 .. Cap - 1
Node == Slots \cup {Null}

VARIABLES
  free,        \* _free: [node |-> head of the list, counter |-> its tag]
  next,        \* next[n]: _pool[n].next
  initialized, \* initialized[n]: _pool[n].initialized as memory holds it
  constructed, \* constructed[n]: T() has been run on _pool[n].obj
  list,        \* history: the free list, first slot first
  out,         \* slots handed out and not given back
  pc,          \* where each thread is in alloc() or free()
  old, nxt,    \* per thread: old_head, and next_node of alloc()
  mine         \* per thread: the slot it has taken or is giving back

vars == <<free, next, initialized, constructed, list, out, pc, old, nxt, mine>>
memory == <<initialized, constructed>>

PC == {"idle", "alloc_next", "alloc_cas", "construct", "free_next", "free_cas"}

(* init(): every slot is linked to the one behind it.  aligned_alloc() does   *)
(* not clear the memory, so initialized is whatever it holds.                *)
Init ==
  /\ free = [node |-> 0, counter |-> 0]
  /\ next = [n \in Slots |-> IF n = Cap - 1 THEN Null ELSE n + 1]
  /\ initialized \in [Slots -> BOOLEAN]
  /\ constructed = [n \in Slots |-> FALSE]
  /\ list = [i \in 1 .. Cap |-> i - 1]
  /\ out = {}
  /\ pc = [t \in Threads |-> "idle"]
  /\ old = [t \in Threads |-> free]
  /\ nxt = [t \in Threads |-> Null]
  /\ mine = [t \in Threads |-> Null]

Goto(t, to) == pc' = [pc EXCEPT ![t] = to]

(***************************************************************************)
(* alloc()                                                                  *)
(***************************************************************************)

AllocLoad(t) ==
  /\ pc[t] = "idle"
  /\ free.counter < MaxCount
  /\ old' = [old EXCEPT ![t] = free]
  /\ Goto(t, "alloc_next")
  /\ UNCHANGED <<free, next, memory, list, out, nxt, mine>>

(* An empty list ends the call. *)
AllocFail(t) ==
  /\ pc[t] = "alloc_next"
  /\ old[t].node = Null
  /\ Goto(t, "idle")
  /\ UNCHANGED <<free, next, memory, list, out, old, nxt, mine>>

(* The link is read although the slot may have left the list meanwhile. *)
AllocNext(t) ==
  /\ pc[t] = "alloc_next"
  /\ old[t].node # Null
  /\ nxt' = [nxt EXCEPT ![t] = next[old[t].node]]
  /\ Goto(t, "alloc_cas")
  /\ UNCHANGED <<free, next, memory, list, out, old, mine>>

(* Mutant: compare_exchange on the node alone, without the counter. *)
AllocCasUntagged(t) ==
  /\ pc[t] = "alloc_cas"
  /\ free.node = old[t].node
  /\ free' = [node |-> nxt[t], counter |-> free.counter + 1]
  /\ list' = Tail(list)
  /\ mine' = [mine EXCEPT ![t] = old[t].node]
  /\ Goto(t, "construct")
  /\ UNCHANGED <<next, memory, out, old, nxt>>

AllocCas(t) ==
  /\ pc[t] = "alloc_cas"
  /\ free = old[t]
  /\ free' = [node |-> nxt[t], counter |-> old[t].counter + 1]
  /\ list' = Tail(list)
  /\ mine' = [mine EXCEPT ![t] = old[t].node]
  /\ Goto(t, "construct")
  /\ UNCHANGED <<next, memory, out, old, nxt>>

(* A failed compare_exchange loads the head again. *)
Retry(t, here, to) ==
  /\ pc[t] = here
  /\ old' = [old EXCEPT ![t] = free]
  /\ Goto(t, to)
  /\ UNCHANGED <<free, next, memory, list, out, nxt, mine>>

AllocRetry(t) == Retry(t, "alloc_cas", "alloc_next")

(* The object is constructed unless the slot says it has been. *)
Construct(t) ==
  LET n == mine[t] IN
  /\ pc[t] = "construct"
  /\ IF initialized[n]
       THEN UNCHANGED memory
       ELSE /\ constructed' = [constructed EXCEPT ![n] = TRUE]
            /\ initialized' = [initialized EXCEPT ![n] = TRUE]
  /\ out' = out \cup {n}
  /\ mine' = [mine EXCEPT ![t] = Null]
  /\ Goto(t, "idle")
  /\ UNCHANGED <<free, next, list, old, nxt>>

(***************************************************************************)
(* free(), by pointer or by index; its caller gives a slot back once         *)
(***************************************************************************)

FreeLoad(t, n) ==
  /\ pc[t] = "idle"
  /\ n \in out
  /\ out' = out \ {n}
  /\ old' = [old EXCEPT ![t] = free]
  /\ mine' = [mine EXCEPT ![t] = n]
  /\ Goto(t, "free_next")
  /\ UNCHANGED <<free, next, memory, list, nxt>>

(* Mutant: the link keeps its old value. *)
FreeNextForgotten(t) ==
  /\ pc[t] = "free_next"
  /\ Goto(t, "free_cas")
  /\ UNCHANGED <<free, next, memory, list, out, old, nxt, mine>>

FreeNext(t) ==
  /\ pc[t] = "free_next"
  /\ next' = [next EXCEPT ![mine[t]] = old[t].node]
  /\ Goto(t, "free_cas")
  /\ UNCHANGED <<free, memory, list, out, old, nxt, mine>>

FreeCas(t) ==
  /\ pc[t] = "free_cas"
  /\ free = old[t]
  /\ free' = [node |-> mine[t], counter |-> old[t].counter + 1]
  /\ list' = <<mine[t]>> \o list
  /\ mine' = [mine EXCEPT ![t] = Null]
  /\ Goto(t, "idle")
  /\ UNCHANGED <<next, memory, out, old, nxt>>

FreeRetry(t) == Retry(t, "free_cas", "free_next")

Next ==
  \E t \in Threads :
    \/ AllocLoad(t) \/ AllocFail(t) \/ AllocNext(t) \/ AllocCas(t) \/ AllocRetry(t)
    \/ Construct(t)
    \/ (\E n \in Slots : FreeLoad(t, n)) \/ FreeNext(t) \/ FreeCas(t) \/ FreeRetry(t)

Spec == Init /\ [][Next]_vars

-----------------------------------------------------------------------------
HeadPtr == [node : Node, counter : Nat]

(* Every variable stays in its range. *)
TypeOK ==
  /\ free \in HeadPtr
  /\ next \in [Slots -> Node]
  /\ initialized \in [Slots -> BOOLEAN]
  /\ constructed \in [Slots -> BOOLEAN]
  /\ list \in Seq(Slots)
  /\ out \in SUBSET Slots
  /\ pc \in [Threads -> PC]
  /\ old \in [Threads -> HeadPtr]
  /\ nxt \in [Threads -> Node]
  /\ mine \in [Threads -> Node]

(* The head and the next links spell the free list, from its first slot to its *)
(* last, although alloc() reads the link of a slot other threads may take and   *)
(* give back meanwhile: the counter keeps a stale link from becoming the head   *)
(* (objectpool.h alloc, free).                                                  *)
ListIntact ==
  /\ free.node = IF list = << >> THEN Null ELSE list[1]
  /\ \A i \in 1 .. Len(list) :
       next[list[i]] = IF i = Len(list) THEN Null ELSE list[i + 1]

(* A slot is in one place: once in the free list, with one thread inside        *)
(* alloc() or free(), or handed out.  No slot is handed out twice, and none is  *)
(* lost (objectpool.h alloc, free).                                             *)
InList(n) == \E i \in 1 .. Len(list) : list[i] = n
Taken(n) == \E t \in Threads : mine[t] = n

OnePlace ==
  /\ \A i, j \in 1 .. Len(list) : list[i] = list[j] => i = j
  /\ \A t, u \in Threads : mine[t] = mine[u] /\ mine[t] # Null => t = u
  /\ \A n \in Slots :
       /\ InList(n) => ~Taken(n) /\ n \notin out
       /\ Taken(n) => n \notin out
       /\ InList(n) \/ Taken(n) \/ n \in out
-----------------------------------------------------------------------------
(* What makes ListIntact and OnePlace inductive: a thread that still sees the   *)
(* counter it loaded sees the head it loaded, with the link it read.            *)
HoldInv == \A t \in Threads :
  mine[t] # Null <=> pc[t] \in {"construct", "free_next", "free_cas"}

SeenInv == \A t \in Threads :
  /\ old[t].counter <= free.counter
  /\ old[t].counter = free.counter => old[t] = free
  /\ pc[t] = "alloc_cas" => old[t].node # Null
  /\ pc[t] = "alloc_cas" /\ old[t] = free => nxt[t] = next[old[t].node]
  /\ pc[t] = "free_cas" => next[mine[t]] = old[t].node

IndInv == TypeOK /\ ListIntact /\ OnePlace /\ HoldInv /\ SeenInv
=============================================================================
