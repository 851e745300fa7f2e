----------------------------- MODULE ObjectPool -----------------------------
(***************************************************************************)
(* The object pool with a lock (common/objectpool.h, objectpool<T>): nodes    *)
(* linked into a free list, objects made on first use and kept, and a map     *)
(* from objects to nodes.  Every operation is one section of _locker.         *)
(*                                                                           *)
(* free(T* ) erases the object from the map and alloc() only enters it when    *)
(* the object is new, so the second free of an object is ignored; destroy()   *)
(* follows _next from node to node, which only visits each node while the     *)
(* links are the ones init() made.                                           *)
(***************************************************************************)
EXTENDS Integers, FiniteSets

CONSTANTS Cap, Null

Nodes == 0 .. Cap - 1

VARIABLES
  up,       \* _pool is there
  free,     \* _free
  next,     \* node -> _next
  size,     \* _size
  objs,     \* nodes whose _obj has been made
  known,    \* nodes whose object is in _obj_map
  held,     \* nodes that callers have
  ignored,  \* nodes whose free was ignored
  broken    \* a null node was followed

vars == <<up, free, next, size, objs, known, held, ignored, broken>>

Init ==
  /\ up = FALSE /\ free = Null /\ size = 0
  /\ next = [n \in Nodes |-> Null]
  /\ objs = {} /\ known = {} /\ held = {} /\ ignored = {} /\ broken = FALSE

InitPool ==
  /\ ~up /\ ~broken
  /\ up' = TRUE /\ free' = 0 /\ size' = 0
  /\ next' = [n \in Nodes |-> IF n = Cap - 1 THEN Null ELSE n + 1]
  /\ UNCHANGED <<objs, known, held, ignored, broken>>

(* A pool that is full returns -1. *)
Alloc ==
  /\ up /\ ~broken /\ size < Cap
  /\ IF free = Null THEN broken' = TRUE /\ UNCHANGED <<free, size, objs, known, held>>
     ELSE /\ free' = next[free] /\ size' = size + 1
          /\ objs' = objs \cup {free}
          /\ known' = IF free \in objs THEN known ELSE known \cup {free}
          /\ held' = held \cup {free}
          /\ UNCHANGED broken
  /\ UNCHANGED <<up, next, ignored>>

(* Mutant: the node becomes the first without a link to the one before. *)
PushUnlinked(n) ==
  free' = n /\ size' = size - 1 /\ UNCHANGED next

Push(n) ==
  /\ next' = [next EXCEPT ![n] = free]
  /\ free' = n /\ size' = size - 1

(* free(T* ) *)
FreeObject(n) ==
  /\ up /\ ~broken /\ n \in held
  /\ held' = held \ {n}
  /\ IF n \in known THEN Push(n) /\ known' = known \ {n} /\ UNCHANGED ignored
     ELSE ignored' = ignored \cup {n} /\ UNCHANGED <<next, free, size, known>>
  /\ UNCHANGED <<up, objs, broken>>

(* free(size_t) *)
FreeIndex(n) ==
  /\ up /\ ~broken /\ n \in held
  /\ held' = held \ {n}
  /\ known' = known \ {n}
  /\ Push(n)
  /\ UNCHANGED <<up, objs, ignored, broken>>

(* The node reached from n by k links; Null once the list has ended. *)
Reached(n, k) ==
  LET r[i \in 0 .. k] == IF i = 0 THEN n ELSE IF r[i - 1] = Null THEN Null ELSE next[r[i - 1]]
  IN r[k]

Destroy ==
  /\ up /\ ~broken /\ held = {}
  /\ up' = FALSE /\ free' = Null /\ size' = 0
  /\ next' = [n \in Nodes |-> Null]
  /\ objs' = {} /\ known' = {} /\ ignored' = {}
  /\ broken' = (\E k \in 0 .. Cap - 1 : Reached(0, k) = Null)
  /\ UNCHANGED held

Next ==
  \/ InitPool \/ Alloc \/ Destroy
  \/ \E n \in Nodes : FreeObject(n) \/ FreeIndex(n)

Spec == Init /\ [][Next]_vars

-----------------------------------------------------------------------------
(* s is the free list, from _free on. *)
FreeList(s) ==
  /\ free = IF size = Cap THEN Null ELSE s[1]
  /\ \A i \in DOMAIN s : next[s[i]] = IF i = Cap - size THEN Null ELSE s[i + 1]
  /\ \A i, j \in DOMAIN s : s[i] = s[j] => i = j

(* For callers who give each object back once, by pointer or by index in any mixture:    *)
(* the free list and _size agree, the list ends and holds no node twice, and the nodes   *)
(* outside it are those in use and those whose free was ignored, so nothing is handed    *)
(* out twice (objectpool::alloc(), free()).                                             *)
NodesAccounted ==
  up /\ ~broken =>
    /\ size \in 0 .. Cap
    /\ \E s \in [1 .. Cap - size -> Nodes] :
         FreeList(s) /\ Nodes \ {s[i] : i \in DOMAIN s} = held \cup ignored

(* What the induction needs besides: callers hold nodes whose free is still to come, _size *)
(* counts the nodes outside the list, and a pool that is down has none.                    *)
TypeOK ==
  /\ up \in BOOLEAN /\ broken \in BOOLEAN
  /\ next \in [Nodes -> Nodes \cup {Null}]
  /\ held \in SUBSET Nodes /\ ignored \in SUBSET Nodes
CountInv == size = Cardinality(held \cup ignored) /\ held \cap ignored = {}
IndInv == TypeOK /\ (broken \/ CountInv) /\ (up \/ broken \/ held \cup ignored = {}) /\ NodesAccounted
=============================================================================
