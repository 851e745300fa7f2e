------------------------- MODULE LockfreePool_proof -------------------------
(***************************************************************************)
(* Proofs about LockfreePool for any number of threads and slots: the free   *)
(* list survives concurrent alloc() and free(), and a slot is never handed   *)
(* out twice or lost.  Then the other utilities of MCLockfreePool: the       *)
(* command line's aliases, the observers, the locked pool and the balancer.  *)
(***************************************************************************)
EXTENDS MCLockfreePool, FiniteSetTheorems, SequenceTheorems, TLAPS

USE CapAssumption, NullAssumption

(* The head's slot leaves the list. *)
LEMMA TailFacts ==
  ASSUME NEW s \in Seq(Slots), s # << >>
  PROVE  /\ Tail(s) \in Seq(Slots)
         /\ Len(Tail(s)) = Len(s) - 1
         /\ \A i \in 1 .. Len(s) - 1 : Tail(s)[i] = s[i + 1]
         /\ Len(s) \in Nat \ {0}
  OBVIOUS

(* A slot goes to the front of the list. *)
LEMMA ConsFacts ==
  ASSUME NEW s \in Seq(Slots), NEW n \in Slots
  PROVE  /\ <<n>> \o s \in Seq(Slots)
         /\ Len(<<n>> \o s) = Len(s) + 1
         /\ (<<n>> \o s)[1] = n
         /\ \A i \in 2 .. Len(s) + 1 : (<<n>> \o s)[i] = s[i - 1]
         /\ Len(s) \in Nat
  OBVIOUS

(* The pool init() builds satisfies the invariant. *)
LEMMA InitInv == Init => IndInv
<1> SUFFICES ASSUME Init PROVE IndInv
  OBVIOUS
<1>1. list \in Seq(Slots) /\ Len(list) = Cap /\ \A i \in 1 .. Cap : list[i] = i - 1
  BY DEF Init, Slots
<1>2. TypeOK
  BY <1>1 DEF Init, TypeOK, HeadPtr, Node, Slots, PC
<1>3. ListIntact
  BY <1>1 DEF Init, ListIntact, Slots
<1>4. OnePlace
  <2>1. \A n \in Slots : InList(n)
    <3> SUFFICES ASSUME NEW n \in Slots PROVE InList(n)
      OBVIOUS
    <3>1. n + 1 \in 1 .. Len(list) /\ list[n + 1] = n
      BY <1>1 DEF Slots
    <3> QED BY <3>1 DEF InList
  <2>2. \A n \in Slots : ~Taken(n)
    BY DEF Init, Taken, Slots
  <2> QED BY <1>1, <2>1, <2>2 DEF OnePlace, Init
<1>5. HoldInv /\ SeenInv
  BY DEF Init, HoldInv, SeenInv
<1> QED BY <1>2, <1>3, <1>4, <1>5 DEF IndInv

(* Every step keeps the invariant. *)
LEMMA NextInv == IndInv /\ [Next]_vars => IndInv'
<1> SUFFICES ASSUME IndInv, [Next]_vars PROVE IndInv'
  OBVIOUS
<1> USE DEF IndInv
<1>0. CASE UNCHANGED vars
  <2>1. TypeOK' /\ ListIntact' /\ HoldInv' /\ SeenInv'
    BY <1>0 DEF vars, TypeOK, ListIntact, HoldInv, SeenInv
  <2>2. OnePlace'
    BY <1>0 DEF vars, OnePlace, InList, Taken
  <2> QED BY <2>1, <2>2
<1>1. ASSUME NEW t \in Threads, AllocLoad(t) PROVE IndInv'
  <2>1. TypeOK' /\ ListIntact' /\ HoldInv' /\ SeenInv'
    BY <1>1 DEF AllocLoad, memory, Goto, PC, TypeOK, HeadPtr, ListIntact, HoldInv, SeenInv
  <2>2. OnePlace'
    BY <1>1 DEF AllocLoad, OnePlace, InList, Taken
  <2> QED BY <2>1, <2>2
<1>2. ASSUME NEW t \in Threads, AllocFail(t) PROVE IndInv'
  <2>1. TypeOK' /\ ListIntact' /\ HoldInv' /\ SeenInv'
    BY <1>2 DEF AllocFail, memory, Goto, PC, TypeOK, ListIntact, HoldInv, SeenInv
  <2>2. OnePlace'
    BY <1>2 DEF AllocFail, OnePlace, InList, Taken
  <2> QED BY <2>1, <2>2
<1>3. ASSUME NEW t \in Threads, AllocNext(t) PROVE IndInv'
  <2>1. TypeOK' /\ ListIntact' /\ HoldInv' /\ SeenInv'
    BY <1>3 DEF AllocNext, memory, Goto, PC, TypeOK, HeadPtr, Node, ListIntact, HoldInv, SeenInv
  <2>2. OnePlace'
    BY <1>3 DEF AllocNext, OnePlace, InList, Taken
  <2> QED BY <2>1, <2>2
<1>4. ASSUME NEW t \in Threads, AllocCas(t) PROVE IndInv'
  <2> DEFINE n == old[t].node
  <2>1. /\ n \in Slots /\ list # << >> /\ n = list[1]
        /\ nxt[t] = next[n]
        /\ mine[t] = Null
    BY <1>4 DEF AllocCas, TypeOK, HeadPtr, Node, SeenInv, ListIntact, HoldInv
  <2>2. /\ list' \in Seq(Slots) /\ Len(list') = Len(list) - 1
        /\ \A i \in 1 .. Len(list) - 1 : list'[i] = list[i + 1]
        /\ Len(list) \in Nat \ {0}
    BY <1>4, <2>1, TailFacts DEF AllocCas, TypeOK
  <2>3. TypeOK'
    BY <1>4, <2>1, <2>2 DEF AllocCas, memory, Goto, PC, TypeOK, HeadPtr, Node
  <2>4. ListIntact'
    <3>1. next' = next /\ free'.node = next[list[1]]
      BY <1>4, <2>1 DEF AllocCas
    <3>2. free'.node = IF list' = << >> THEN Null ELSE list'[1]
      BY <2>1, <2>2, <3>1 DEF ListIntact, TypeOK
    <3>3. \A i \in 1 .. Len(list') :
            next[list'[i]] = IF i = Len(list') THEN Null ELSE list'[i + 1]
      BY <2>2 DEF ListIntact
    <3> QED BY <3>1, <3>2, <3>3 DEF ListIntact
  <2>5. OnePlace'
    <3>1. out' = out /\ mine' = [mine EXCEPT ![t] = n]
      BY <1>4 DEF AllocCas
    <3>2. \A i, j \in 1 .. Len(list') : list'[i] = list'[j] => i = j
      BY <2>2 DEF OnePlace
    <3>3. \A m \in Slots : InList(m)' <=> InList(m) /\ m # n
      <4> SUFFICES ASSUME NEW m \in Slots PROVE InList(m)' <=> InList(m) /\ m # n
        OBVIOUS
      <4>1. ASSUME InList(m)' PROVE InList(m) /\ m # n
        <5>1. PICK i \in 1 .. Len(list') : list'[i] = m
          BY <4>1 DEF InList
        <5>2. i + 1 \in 1 .. Len(list) /\ list[i + 1] = m /\ 1 \in 1 .. Len(list)
          BY <2>2, <5>1
        <5> QED BY <2>1, <5>2 DEF InList, OnePlace
      <4>2. ASSUME InList(m), m # n PROVE InList(m)'
        <5>1. PICK i \in 1 .. Len(list) : list[i] = m
          BY <4>2 DEF InList
        <5>2. i - 1 \in 1 .. Len(list') /\ list'[i - 1] = m
          BY <2>1, <2>2, <4>2, <5>1
        <5> QED BY <5>2 DEF InList
      <4> QED BY <4>1, <4>2
    <3>4. InList(n)
      BY <2>1, <2>2 DEF InList
    <3>5. ~Taken(n) /\ n \notin out
      BY <2>1, <3>4 DEF OnePlace
    <3>6. \A m \in Slots : Taken(m)' <=> Taken(m) \/ m = n
      BY <2>1, <3>1, NullAssumption DEF Taken, TypeOK, Slots
    <3>7. \A u, v \in Threads : mine'[u] = mine'[v] /\ mine'[u] # Null => u = v
      BY <2>1, <3>1, <3>5 DEF OnePlace, Taken, TypeOK
    <3> QED BY <3>1, <3>2, <3>3, <3>5, <3>6, <3>7 DEF OnePlace
  <2>6. HoldInv'
    BY <1>4, <2>1 DEF AllocCas, Goto, TypeOK, HoldInv, Slots
  <2>7. SeenInv'
    BY <1>4, <2>1 DEF AllocCas, Goto, TypeOK, HeadPtr, HoldInv, SeenInv
  <2> QED BY <2>3, <2>4, <2>5, <2>6, <2>7
<1>5. ASSUME NEW t \in Threads, AllocRetry(t) PROVE IndInv'
  <2>1. TypeOK' /\ ListIntact' /\ HoldInv' /\ SeenInv'
    BY <1>5 DEF AllocRetry, Retry, memory, Goto, PC, TypeOK, HeadPtr, ListIntact, HoldInv,
       SeenInv
  <2>2. OnePlace'
    BY <1>5 DEF AllocRetry, Retry, OnePlace, InList, Taken
  <2> QED BY <2>1, <2>2
<1>6. ASSUME NEW t \in Threads, Construct(t) PROVE IndInv'
  <2> DEFINE n == mine[t]
  <2>1. n \in Slots /\ Taken(n) /\ n \notin out
    BY <1>6 DEF Construct, TypeOK, Node, HoldInv, OnePlace, Taken
  <2>2. TypeOK'
    BY <1>6, <2>1 DEF Construct, memory, Goto, PC, TypeOK, Node
  <2>3. ListIntact' /\ HoldInv' /\ SeenInv'
    BY <1>6 DEF Construct, Goto, TypeOK, ListIntact, HoldInv, SeenInv
  <2>4. OnePlace'
    <3>1. /\ out' = out \cup {n} /\ mine' = [mine EXCEPT ![t] = Null]
          /\ list' = list
      BY <1>6 DEF Construct
    <3>2. \A m \in Slots : InList(m)' <=> InList(m)
      BY <3>1 DEF InList
    <3>3. \A m \in Slots : Taken(m)' <=> Taken(m) /\ m # n
      BY <2>1, <3>1, NullAssumption DEF Taken, TypeOK, OnePlace, Slots
    <3>4. \A u, v \in Threads : mine'[u] = mine'[v] /\ mine'[u] # Null => u = v
      BY <3>1 DEF OnePlace, TypeOK
    <3> QED BY <2>1, <3>1, <3>2, <3>3, <3>4 DEF OnePlace
  <2> QED BY <2>2, <2>3, <2>4
<1>7. ASSUME NEW t \in Threads, NEW n \in Slots, FreeLoad(t, n) PROVE IndInv'
  <2>1. TypeOK' /\ ListIntact' /\ HoldInv' /\ SeenInv'
    BY <1>7 DEF FreeLoad, memory, Goto, PC, TypeOK, HeadPtr, Node, ListIntact, HoldInv,
       SeenInv, Slots
  <2>2. OnePlace'
    <3>1. /\ n \in out /\ out' = out \ {n} /\ mine' = [mine EXCEPT ![t] = n]
          /\ list' = list /\ mine[t] = Null
      BY <1>7 DEF FreeLoad, HoldInv
    <3>2. \A m \in Slots : InList(m)' <=> InList(m)
      BY <3>1 DEF InList
    <3>3. \A m \in Slots : Taken(m)' <=> Taken(m) \/ m = n
      BY <3>1, NullAssumption DEF Taken, TypeOK, Slots
    <3>4. \A u, v \in Threads : mine'[u] = mine'[v] /\ mine'[u] # Null => u = v
      BY <3>1 DEF OnePlace, Taken, TypeOK
    <3> QED BY <3>1, <3>2, <3>3, <3>4 DEF OnePlace
  <2> QED BY <2>1, <2>2
<1>8. ASSUME NEW t \in Threads, FreeNext(t) PROVE IndInv'
  <2> DEFINE n == mine[t]
  <2>1. n \in Slots /\ Taken(n) /\ ~InList(n)
    BY <1>8 DEF FreeNext, TypeOK, Node, HoldInv, OnePlace, Taken
  <2>2. next' = [next EXCEPT ![n] = old[t].node] /\ list' = list /\ free' = free
    BY <1>8 DEF FreeNext
  <2>3. TypeOK'
    BY <1>8, <2>1 DEF FreeNext, memory, Goto, PC, TypeOK, HeadPtr
  <2>4. ListIntact'
    <3>1. \A i \in 1 .. Len(list) : list[i] # n /\ list[i] \in Slots
      BY <2>1 DEF InList, TypeOK
    <3> QED BY <2>1, <2>2, <3>1 DEF ListIntact, TypeOK
  <2>5. OnePlace'
    BY <1>8 DEF FreeNext, OnePlace, InList, Taken
  <2>6. HoldInv'
    BY <1>8 DEF FreeNext, Goto, TypeOK, HoldInv
  <2>7. SeenInv'
    <3> SUFFICES ASSUME NEW u \in Threads
                 PROVE  /\ old'[u].counter <= free'.counter
                        /\ old'[u].counter = free'.counter => old'[u] = free'
                        /\ pc'[u] = "alloc_cas" => old'[u].node # Null
                        /\ pc'[u] = "alloc_cas" /\ old'[u] = free' =>
                             nxt'[u] = next'[old'[u].node]
                        /\ pc'[u] = "free_cas" => next'[mine'[u]] = old'[u].node
      BY DEF SeenInv
    <3>1. old' = old /\ nxt' = nxt /\ mine' = mine
      BY <1>8 DEF FreeNext
    <3>2. /\ old'[u].counter <= free'.counter
          /\ old'[u].counter = free'.counter => old'[u] = free'
          /\ pc'[u] = "alloc_cas" => old'[u].node # Null /\ pc[u] = "alloc_cas"
      BY <1>8, <2>2, <3>1 DEF FreeNext, Goto, TypeOK, SeenInv
    <3>3. ASSUME pc'[u] = "alloc_cas", old'[u] = free'
          PROVE  nxt'[u] = next'[old'[u].node]
      <4>1. free.node # Null /\ list # << >> /\ free.node = list[1]
        BY <2>2, <3>1, <3>2, <3>3 DEF ListIntact
      <4>2. 1 \in 1 .. Len(list)
        BY <4>1 DEF TypeOK
      <4>3. free.node # n
        BY <2>1, <4>1, <4>2 DEF InList
      <4>4. free.node \in Slots
        BY <4>1 DEF TypeOK, HeadPtr, Node
      <4> QED BY <2>2, <3>1, <3>2, <3>3, <4>3, <4>4 DEF SeenInv, TypeOK
    <3>4. ASSUME pc'[u] = "free_cas" PROVE next'[mine'[u]] = old'[u].node
      <4>1. CASE u = t
        BY <2>1, <2>2, <3>1, <4>1 DEF TypeOK
      <4>2. CASE u # t
        <5>1. pc[u] = "free_cas" /\ mine[u] \in Slots /\ mine[u] # n
          BY <1>8, <3>4, <4>2, <2>1 DEF FreeNext, Goto, TypeOK, Node, HoldInv, OnePlace
        <5> QED BY <2>2, <3>1, <5>1 DEF SeenInv, TypeOK
      <4> QED BY <4>1, <4>2
    <3> QED BY <3>2, <3>3, <3>4
  <2> QED BY <2>3, <2>4, <2>5, <2>6, <2>7
<1>9. ASSUME NEW t \in Threads, FreeCas(t) PROVE IndInv'
  <2> DEFINE n == mine[t]
  <2>1. n \in Slots /\ Taken(n) /\ ~InList(n) /\ n \notin out
    BY <1>9 DEF FreeCas, TypeOK, Node, HoldInv, OnePlace, Taken
  <2>2. /\ next' = next /\ out' = out /\ mine' = [mine EXCEPT ![t] = Null]
        /\ free'.node = n /\ next[n] = free.node
    BY <1>9 DEF FreeCas, SeenInv
  <2>3. /\ list' \in Seq(Slots) /\ Len(list') = Len(list) + 1
        /\ list'[1] = n
        /\ \A i \in 2 .. Len(list) + 1 : list'[i] = list[i - 1]
        /\ Len(list) \in Nat
    BY <1>9, <2>1, ConsFacts DEF FreeCas, TypeOK
  <2>4. TypeOK'
    BY <1>9, <2>1, <2>3 DEF FreeCas, memory, Goto, PC, TypeOK, HeadPtr, Node
  <2>5. ListIntact'
    <3>1. list' # << >>
      BY <2>3
    <3>2. next[list'[1]] = IF Len(list') = 1 THEN Null ELSE list'[2]
      <4>1. CASE list = << >>
        BY <2>2, <2>3, <4>1 DEF ListIntact
      <4>2. CASE list # << >>
        <5>1. Len(list) > 0
          BY <4>2 DEF TypeOK
        <5>2. 2 \in 2 .. Len(list) + 1
          BY <2>3, <5>1
        <5>3. list'[2] = list[2 - 1]
          BY <2>3, <5>2
        <5>4. 2 - 1 = 1
          OBVIOUS
        <5> QED BY <2>2, <2>3, <4>2, <5>1, <5>3, <5>4 DEF ListIntact
      <4> QED BY <4>1, <4>2
    <3>3. ASSUME NEW i \in 2 .. Len(list')
          PROVE  next[list'[i]] = IF i = Len(list') THEN Null ELSE list'[i + 1]
      <4>1. i - 1 \in 1 .. Len(list) /\ list'[i] = list[i - 1]
        BY <2>3
      <4>2. next[list[i - 1]] = IF i - 1 = Len(list) THEN Null ELSE list[(i - 1) + 1]
        BY <4>1 DEF ListIntact
      <4>3. (i - 1) + 1 = i /\ (i + 1) - 1 = i
        BY <4>1
      <4>4. CASE i = Len(list')
        BY <2>3, <4>1, <4>2, <4>4
      <4>5. CASE i # Len(list')
        <5>1. i + 1 \in 2 .. Len(list) + 1
          BY <2>3, <4>5
        <5>2. list'[i + 1] = list[(i + 1) - 1]
          BY <2>3, <5>1
        <5>3. i - 1 # Len(list)
          BY <2>3, <4>5
        <5> QED BY <4>1, <4>2, <4>3, <4>5, <5>2, <5>3
      <4> QED BY <4>4, <4>5
    <3> QED BY <2>2, <2>3, <3>1, <3>2, <3>3 DEF ListIntact
  <2>6. OnePlace'
    <3>1. \A m \in Slots : InList(m)' <=> InList(m) \/ m = n
      <4> SUFFICES ASSUME NEW m \in Slots PROVE InList(m)' <=> InList(m) \/ m = n
        OBVIOUS
      <4>1. ASSUME InList(m)' PROVE InList(m) \/ m = n
        <5>1. PICK i \in 1 .. Len(list') : list'[i] = m
          BY <4>1 DEF InList
        <5>2. CASE i = 1
          BY <2>3, <5>1, <5>2
        <5>3. CASE i # 1
          <6>1. i - 1 \in 1 .. Len(list) /\ list[i - 1] = m
            BY <2>3, <5>1, <5>3
          <6> QED BY <6>1 DEF InList
        <5> QED BY <5>2, <5>3
      <4>2. ASSUME InList(m) PROVE InList(m)'
        <5>1. PICK i \in 1 .. Len(list) : list[i] = m
          BY <4>2 DEF InList
        <5>2. i + 1 \in 1 .. Len(list') /\ list'[i + 1] = m
          BY <2>3, <5>1
        <5> QED BY <5>2 DEF InList
      <4>3. ASSUME m = n PROVE InList(m)'
        <5>1. 1 \in 1 .. Len(list')
          BY <2>3
        <5> QED BY <2>3, <4>3, <5>1 DEF InList
      <4> QED BY <4>1, <4>2, <4>3
    <3>2. \A i, j \in 1 .. Len(list') : list'[i] = list'[j] => i = j
      <4> SUFFICES ASSUME NEW i \in 1 .. Len(list'), NEW j \in 1 .. Len(list'),
                          list'[i] = list'[j]
                   PROVE  i = j
        OBVIOUS
      <4>1. \A k \in 2 .. Len(list') : list'[k] # n
        <5> SUFFICES ASSUME NEW k \in 2 .. Len(list') PROVE list'[k] # n
          OBVIOUS
        <5>1. k - 1 \in 1 .. Len(list) /\ list'[k] = list[k - 1]
          BY <2>3
        <5> QED BY <2>1, <5>1 DEF InList
      <4>2. CASE i = 1 \/ j = 1
        BY <2>3, <4>1, <4>2
      <4>3. CASE i # 1 /\ j # 1
        <5>1. /\ i - 1 \in 1 .. Len(list) /\ list'[i] = list[i - 1]
              /\ j - 1 \in 1 .. Len(list) /\ list'[j] = list[j - 1]
          BY <2>3, <4>3
        <5>2. i - 1 = j - 1
          BY <5>1 DEF OnePlace
        <5> QED BY <5>2
      <4> QED BY <4>2, <4>3
    <3>3. \A m \in Slots : Taken(m)' <=> Taken(m) /\ m # n
      BY <2>1, <2>2, NullAssumption DEF Taken, TypeOK, OnePlace, Slots
    <3>4. \A u, v \in Threads : mine'[u] = mine'[v] /\ mine'[u] # Null => u = v
      BY <2>2 DEF OnePlace, TypeOK
    <3> QED BY <2>1, <2>2, <3>1, <3>2, <3>3, <3>4 DEF OnePlace
  <2>7. HoldInv'
    BY <1>9 DEF FreeCas, Goto, TypeOK, HoldInv
  <2>8. SeenInv'
    BY <1>9, <2>2 DEF FreeCas, Goto, TypeOK, HeadPtr, HoldInv, SeenInv
  <2> QED BY <2>4, <2>5, <2>6, <2>7, <2>8
<1>10. ASSUME NEW t \in Threads, FreeRetry(t) PROVE IndInv'
  <2>1. TypeOK' /\ ListIntact' /\ HoldInv' /\ SeenInv'
    BY <1>10 DEF FreeRetry, Retry, memory, Goto, PC, TypeOK, HeadPtr, ListIntact, HoldInv,
       SeenInv
  <2>2. OnePlace'
    BY <1>10 DEF FreeRetry, Retry, OnePlace, InList, Taken
  <2> QED BY <2>1, <2>2
<1> QED BY <1>0, <1>1, <1>2, <1>3, <1>4, <1>5, <1>6, <1>7, <1>8, <1>9, <1>10
        DEF Next

(* IndInv holds in every reachable state. *)
THEOREM Inductive == Spec => []IndInv
<1>1. Init => IndInv
  BY InitInv
<1>2. IndInv /\ [Next]_vars => IndInv'
  BY NextInv
<1> QED BY <1>1, <1>2, PTL DEF Spec

(* Every variable keeps its range, for any number of threads and slots. *)
THEOREM TypeCorrect == Spec => []TypeOK
<1>1. IndInv => TypeOK
  BY DEF IndInv
<1> QED BY <1>1, Inductive, PTL

(* The free list is intact in every reachable state: the tagged head makes      *)
(* alloc() safe against the reuse of a slot it has looked at (objectpool.h).    *)
THEOREM FreeListIntact == Spec => []ListIntact
<1>1. IndInv => ListIntact
  BY DEF IndInv
<1> QED BY <1>1, Inductive, PTL

(* No slot is ever in two places, so no object is handed out twice, and none    *)
(* leaks (objectpool.h alloc, free).                                            *)
THEOREM SlotsAccounted == Spec => []OnePlace
<1>1. IndInv => OnePlace
  BY DEF IndInv
<1> QED BY <1>1, Inductive, PTL

(***************************************************************************)
(* The command line's aliases, for any names, lines and scripts.             *)
(***************************************************************************)

(* The tables with a command or an alias more. *)
LEMMA WithFacts ==
  ASSUME NEW f, NEW ks, NEW v
  PROVE  /\ DOMAIN C!With(f, ks, v) = ks \cup DOMAIN f
         /\ \A k \in ks : C!With(f, ks, v)[k] = v
         /\ \A k \in DOMAIN f \ ks : C!With(f, ks, v)[k] = f[k]
  BY DEF C!With

(* add_command() enters the aliases with the command that lists them; one that is refused *)
(* changes nothing.                                                                      *)
LEMMA RegisterFacts ==
  ASSUME NEW cs, NEW al, NEW name, NEW c, "aliases" \in DOMAIN c, NEW as
  PROVE  LET st == C!Register([cmds |-> cs, alias |-> al], name, c, as) IN
         /\ (\A a \in DOMAIN al : \E n \in DOMAIN cs : a \in cs[n].aliases)
              => \A a \in DOMAIN st.alias : \E n \in DOMAIN st.cmds : a \in st.cmds[n].aliases
         /\ (\A n \in DOMAIN cs : "aliases" \in DOMAIN cs[n])
              => \A n \in DOMAIN st.cmds : "aliases" \in DOMAIN st.cmds[n]
<1> DEFINE before == [cmds |-> cs, alias |-> al]
           st == C!Register(before, name, c, as)
<1>1. before.cmds = cs /\ before.alias = al
  OBVIOUS
<1>2. CASE name \in DOMAIN cs
  <2>1. st = before
    BY <1>1, <1>2 DEF C!Register, C!Has
  <2> QED
    BY <1>1, <2>1
<1>3. CASE name \notin DOMAIN cs
  <2> DEFINE taken == {i \in DOMAIN as : C!Has(al, as[i]) \/ \E j \in 1 .. i - 1 : as[j] = as[i]}
             new == {as[i] : i \in {i \in DOMAIN as : \A j \in 1 .. i : j \notin taken}}
             cc == [c EXCEPT !.aliases = new]
             cs2 == C!With(cs, {name}, cc)
             al2 == C!With(al, new, name)
  <2>1. st = [cmds |-> cs2, alias |-> al2]
    BY <1>1, <1>3 DEF C!Register, C!Has
  <2> HIDE DEF new, taken
  <2>2. cc.aliases = new /\ "aliases" \in DOMAIN cc
    OBVIOUS
  <2> HIDE DEF cc
  <2>3. /\ DOMAIN cs2 = {name} \cup DOMAIN cs /\ cs2[name] = cc
        /\ \A n \in DOMAIN cs : cs2[n] = cs[n]
    BY <1>3 DEF C!With
  <2>4. DOMAIN al2 = new \cup DOMAIN al
    BY WithFacts
  <2> HIDE DEF cs2, al2
  <2>5. st.cmds = cs2 /\ st.alias = al2
    BY <2>1
  <2> HIDE DEF st
  <2>6. ASSUME \A a \in DOMAIN al : \E n \in DOMAIN cs : a \in cs[n].aliases
        PROVE  \A a \in DOMAIN al2 : \E n \in DOMAIN cs2 : a \in cs2[n].aliases
    BY <2>2, <2>3, <2>4, <2>6
  <2>7. ASSUME \A n \in DOMAIN cs : "aliases" \in DOMAIN cs[n]
        PROVE  \A n \in DOMAIN cs2 : "aliases" \in DOMAIN cs2[n]
    BY <2>2, <2>3, <2>7
  <2>8. /\ (\A a \in DOMAIN al : \E n \in DOMAIN cs : a \in cs[n].aliases)
              => \A a \in DOMAIN st.alias : \E n \in DOMAIN st.cmds : a \in st.cmds[n].aliases
        /\ (\A n \in DOMAIN cs : "aliases" \in DOMAIN cs[n])
              => \A n \in DOMAIN st.cmds : "aliases" \in DOMAIN st.cmds[n]
    BY <2>5, <2>6, <2>7
  <2> QED
    BY <2>8 DEF st
<1> QED
  BY <1>2, <1>3

(* A command object lists its aliases. *)
LEMMA CommandLists == \A init, result : "aliases" \in DOMAIN C!Command(init, result)
  BY DEF C!Command

(* The constructor registers help and quit. *)
LEMMA InitAliases == C!Init => C!AliasesOwned /\ C!CommandsList
<1> SUFFICES ASSUME C!Init PROVE C!AliasesOwned /\ C!CommandsList
  OBVIOUS
<1> DEFINE none == [cmds |-> << >>, alias |-> << >>]
           one == C!Register(none, "help", C!Command(FALSE, "OK"), <<"h">>)
           two == C!Register(one, "quit", C!Command(TRUE, "QUIT"), <<"q", "quit">>)
<1>1. cmds = two.cmds /\ alias = two.alias
  BY DEF C!Init
<1>2. PICK c1, c2 : c1 = C!Command(FALSE, "OK") /\ c2 = C!Command(TRUE, "QUIT")
  OBVIOUS
<1>3. "aliases" \in DOMAIN c1 /\ "aliases" \in DOMAIN c2
  BY <1>2, CommandLists
<1>4. /\ \A a \in DOMAIN << >> : \E n \in DOMAIN << >> : a \in << >>[n].aliases
      /\ \A n \in DOMAIN << >> : "aliases" \in DOMAIN << >>[n]
  OBVIOUS
<1>5. one = C!Register(none, "help", c1, <<"h">>) /\ two = C!Register(one, "quit", c2, <<"q", "quit">>)
  BY <1>2
<1>6. /\ \A a \in DOMAIN one.alias : \E n \in DOMAIN one.cmds : a \in one.cmds[n].aliases
      /\ \A n \in DOMAIN one.cmds : "aliases" \in DOMAIN one.cmds[n]
  BY <1>3, <1>4, <1>5, RegisterFacts
<1>7. one = [cmds |-> one.cmds, alias |-> one.alias]
  BY DEF C!Register
<1>8. PICK oc, oa, o : o = one /\ oc = one.cmds /\ oa = one.alias
  OBVIOUS
<1>9. two = C!Register([cmds |-> oc, alias |-> oa], "quit", c2, <<"q", "quit">>)
  BY <1>5, <1>7, <1>8
<1> HIDE DEF one, two
<1>10. /\ \A a \in DOMAIN two.alias : \E n \in DOMAIN two.cmds : a \in two.cmds[n].aliases
       /\ \A n \in DOMAIN two.cmds : "aliases" \in DOMAIN two.cmds[n]
  BY <1>3, <1>6, <1>8, <1>9, RegisterFacts
<1> QED
  BY <1>1, <1>10 DEF C!AliasesOwned, C!CommandsList

(* A command changed in place, its aliases left alone. *)
LEMMA OtherFields ==
  ASSUME C!AliasesOwned, C!CommandsList, UNCHANGED alias, DOMAIN cmds' = DOMAIN cmds,
         \A n \in DOMAIN cmds : cmds'[n].aliases = cmds[n].aliases /\ "aliases" \in DOMAIN cmds'[n]
  PROVE  C!AliasesOwned' /\ C!CommandsList'
  BY DEF C!AliasesOwned, C!CommandsList

(* Every command keeps the aliases with the commands that list them. *)
LEMMA AliasesStep ==
  ASSUME C!AliasesOwned, C!CommandsList, C!Next
  PROVE  C!AliasesOwned' /\ C!CommandsList'
<1>1. ASSUME NEW name, NEW as, C!AddCommand(name, as)
      PROVE  C!AliasesOwned' /\ C!CommandsList'
  <2>1. PICK c : c = C!Command(TRUE, "OK")
    OBVIOUS
  <2> DEFINE st == C!Register([cmds |-> cmds, alias |-> alias], name, c, as)
  <2>2. "aliases" \in DOMAIN c
    BY <2>1, CommandLists
  <2>3. cmds' = st.cmds /\ alias' = st.alias
    BY <1>1, <2>1 DEF C!AddCommand
  <2>4. /\ \A a \in DOMAIN st.alias : \E n \in DOMAIN st.cmds : a \in st.cmds[n].aliases
        /\ \A n \in DOMAIN st.cmds : "aliases" \in DOMAIN st.cmds[n]
    BY <2>2, RegisterFacts DEF C!AliasesOwned, C!CommandsList
  <2> HIDE DEF st
  <2> QED
    BY <2>3, <2>4 DEF C!AliasesOwned, C!CommandsList
<1>2. ASSUME NEW name, C!RemoveCommand(name)
      PROVE  C!AliasesOwned' /\ C!CommandsList'
  <2>1. PICK n : n = C!Resolve(name)
    OBVIOUS
  <2>2. alias' = C!Without(alias, cmds[n].aliases) /\ cmds' = C!Without(cmds, {n})
    BY <1>2, <2>1 DEF C!RemoveCommand
  <2>3. /\ DOMAIN alias' = DOMAIN alias \ cmds[n].aliases
        /\ DOMAIN cmds' = DOMAIN cmds \ {n} /\ \A k \in DOMAIN cmds \ {n} : cmds'[k] = cmds[k]
    BY <2>2 DEF C!Without
  <2> QED
    BY <2>3 DEF C!AliasesOwned, C!CommandsList
<1>3. ASSUME NEW name, NEW a, C!AddAlias(name, a)
      PROVE  C!AliasesOwned' /\ C!CommandsList'
  <2>1. PICK n : n = C!Resolve(name)
    OBVIOUS
  <2>2. /\ n \in DOMAIN cmds /\ alias' = C!With(alias, {a}, name)
        /\ cmds' = [cmds EXCEPT ![n].aliases = @ \cup {a}]
    BY <1>3, <2>1 DEF C!AddAlias, C!Has
  <2>3. DOMAIN alias' = {a} \cup DOMAIN alias
    BY <2>2, WithFacts
  <2>4. /\ DOMAIN cmds' = DOMAIN cmds /\ \A k \in DOMAIN cmds \ {n} : cmds'[k] = cmds[k]
        /\ cmds'[n] = [cmds[n] EXCEPT !.aliases = @ \cup {a}]
    BY <2>2
  <2>5. cmds'[n].aliases = cmds[n].aliases \cup {a} /\ "aliases" \in DOMAIN cmds'[n]
    BY <2>2, <2>4 DEF C!CommandsList
  <2> QED
    BY <2>2, <2>3, <2>4, <2>5 DEF C!AliasesOwned, C!CommandsList
<1>4. ASSUME NEW name, NEW a, C!RemoveAlias(name, a)
      PROVE  C!AliasesOwned' /\ C!CommandsList'
  <2>2. /\ name \in DOMAIN cmds /\ alias' = C!Without(alias, {a})
        /\ cmds' = [cmds EXCEPT ![name].aliases = @ \ {a}]
    BY <1>4 DEF C!RemoveAlias, C!Has
  <2>3. DOMAIN alias' = DOMAIN alias \ {a}
    BY <2>2 DEF C!Without
  <2>4. /\ DOMAIN cmds' = DOMAIN cmds /\ \A k \in DOMAIN cmds \ {name} : cmds'[k] = cmds[k]
        /\ cmds'[name] = [cmds[name] EXCEPT !.aliases = @ \ {a}]
    BY <2>2
  <2>5. cmds'[name].aliases = cmds[name].aliases \ {a} /\ "aliases" \in DOMAIN cmds'[name]
    BY <2>2, <2>4 DEF C!CommandsList
  <2> QED
    BY <2>2, <2>3, <2>4, <2>5 DEF C!AliasesOwned, C!CommandsList
<1>o. ASSUME NEW name \in DOMAIN cmds, NEW r, cmds' = [cmds EXCEPT ![name] = r], UNCHANGED alias,
             r.aliases = cmds[name].aliases, "aliases" \in DOMAIN r
      PROVE  C!AliasesOwned' /\ C!CommandsList'
  BY <1>o, OtherFields DEF C!CommandsList
<1>5. ASSUME NEW name, C!AddOption(name)
      PROVE  C!AliasesOwned' /\ C!CommandsList'
  <2>1. PICK c, id, os, ls :
          /\ c = cmds[name] /\ name \in DOMAIN cmds /\ UNCHANGED alias
          /\ cmds' = [cmds EXCEPT ![name].n = id, ![name].opts = os, ![name].linked = ls]
    BY <1>5 DEF C!AddOption, C!Has
  <2> DEFINE r == [c EXCEPT !.n = id, !.opts = os, !.linked = ls]
  <2>2. cmds' = [cmds EXCEPT ![name] = r]
    BY <2>1
  <2>3. r.aliases = c.aliases /\ "aliases" \in DOMAIN r
    BY <2>1 DEF C!CommandsList
  <2> HIDE DEF r
  <2> QED
    BY <1>o, <2>1, <2>2, <2>3
<1>6. ASSUME NEW name, NEW o, C!RemoveOption(name, o)
      PROVE  C!AliasesOwned' /\ C!CommandsList'
  <2>1. PICK c, os, ls :
          /\ c = cmds[name] /\ name \in DOMAIN cmds /\ UNCHANGED alias
          /\ cmds' = [cmds EXCEPT ![name].linked = ls, ![name].opts = os]
    BY <1>6 DEF C!RemoveOption, C!Has
  <2> DEFINE r == [c EXCEPT !.linked = ls, !.opts = os]
  <2>2. cmds' = [cmds EXCEPT ![name] = r]
    BY <2>1
  <2>3. r.aliases = c.aliases /\ "aliases" \in DOMAIN r
    BY <2>1 DEF C!CommandsList
  <2> HIDE DEF r
  <2> QED
    BY <1>o, <2>1, <2>2, <2>3
<1>7. ASSUME NEW name, NEW s, C!AddSubcommand(name, s) \/ C!RemoveSubcommand(name, s)
      PROVE  C!AliasesOwned' /\ C!CommandsList'
  <2>1. PICK c, ss :
          /\ c = cmds[name] /\ name \in DOMAIN cmds /\ UNCHANGED alias
          /\ cmds' = [cmds EXCEPT ![name].subs = ss]
    BY <1>7 DEF C!AddSubcommand, C!RemoveSubcommand, C!Has
  <2> DEFINE r == [c EXCEPT !.subs = ss]
  <2>2. cmds' = [cmds EXCEPT ![name] = r]
    BY <2>1
  <2>3. r.aliases = c.aliases /\ "aliases" \in DOMAIN r
    BY <2>1 DEF C!CommandsList
  <2> HIDE DEF r
  <2> QED
    BY <1>o, <2>1, <2>2, <2>3
<1>8. ASSUME UNCHANGED <<cmds, alias>>
      PROVE  C!AliasesOwned' /\ C!CommandsList'
  BY <1>8 DEF C!AliasesOwned, C!CommandsList
<1>9. CASE \/ \E line \in Lines : C!ReadLine(line)
           \/ \E lines \in Scripts : C!ExecuteFile(lines)
           \/ \E tokens \in Lines, k \in 1 .. 2, prefix \in {Names, C!Opts \cup Subs} : C!Complete(tokens, k, prefix)
           \/ C!NextMatch
  <2>1. UNCHANGED <<cmds, alias>>
    BY <1>9 DEF C!ReadLine, C!ExecuteFile, C!Complete, C!NextMatch
  <2> QED
    BY <1>8, <2>1
<1> QED
  BY <1>1, <1>2, <1>3, <1>4, <1>5, <1>6, <1>7, <1>9 DEF C!Next

(* AliasesOwned for any names: an alias goes when its command does (command_line::remove_command()). *)
THEOREM AliasesStayOwned == SpecAll => []AliasesOwned
<1>1. InitAll => C!AliasesOwned /\ C!CommandsList
  BY InitAliases DEF InitAll
<1>2. C!AliasesOwned /\ C!CommandsList /\ [NextAll]_allvars => (C!AliasesOwned /\ C!CommandsList)'
  <2> SUFFICES ASSUME C!AliasesOwned, C!CommandsList, [NextAll]_allvars
               PROVE  (C!AliasesOwned /\ C!CommandsList)'
    OBVIOUS
  <2>1. CASE C!Next
    BY <2>1, AliasesStep
  <2>2. CASE UNCHANGED cvars
    BY <2>2 DEF cvars, C!AliasesOwned, C!CommandsList
  <2> QED
    BY <2>1, <2>2 DEF NextAll, allvars
<1> QED
  BY <1>1, <1>2, PTL DEF SpecAll, AliasesOwned

(***************************************************************************)
(* The other utilities of the run: observers, the load balancer and the pool *)
(* with a lock, each with an invariant of its own.                           *)
(***************************************************************************)

(* The observers, for any tokens and notifiers. *)
LEMMA TokensFollow == O!IndInv => O!TokensSound
<1> SUFFICES ASSUME O!IndInv, NEW id \in 0 .. nextId - 1
             PROVE  Cardinality(O!Owners(id)) <= 1
  BY DEF O!IndInv, O!OwnersInv, O!TokensSound, O!Cardinality, Cardinality
<1>1. CASE O!Owners(id) = {}
  BY <1>1, FS_EmptySet
<1>2. CASE O!Owners(id) # {}
  <2>1. PICK k : k \in O!Owners(id)
    BY <1>2
  <2>2. O!Owners(id) = {k}
    BY <2>1 DEF O!IndInv, O!OwnersInv, O!Owners
  <2>3. Cardinality({k}) = 1
    BY FS_Singleton
  <2> QED
    BY <2>2, <2>3
<1> QED
  BY <1>1, <1>2

(* What a move leaves behind keeps its id and stands for nothing. *)
LEMMA MovedToken ==
  ASSUME NEW r \in [id : Nat, subject : BOOLEAN]
  PROVE  /\ [r EXCEPT !.subject = FALSE] \in [id : Nat, subject : BOOLEAN]
         /\ [r EXCEPT !.subject = FALSE].id = r.id
         /\ [r EXCEPT !.subject = FALSE].subject = FALSE
  OBVIOUS

(* Nothing is registered at first. *)
LEMMA ObserverInit == O!Init => O!IndInv
<1> SUFFICES ASSUME O!Init PROVE O!IndInv
  OBVIOUS
<1>1. \A k \in Tokens : token[k] = None
  BY DEF O!Init
<1>2. O!TypeOK
  BY DEF O!Init, O!TypeOK
<1>3. O!OwnersInv
  BY <1>1 DEF O!Init, O!OwnersInv, O!Owners
<1> QED
  BY <1>2, <1>3 DEF O!IndInv

(* A registration gives its id to one token, the destructor takes it back, and a move      *)
(* hands it on: then the target's own registration has no token any more.                 *)
LEMMA ObserverStep ==
  ASSUME O!IndInv, O!Next
  PROVE  O!IndInv'
<1> USE DEF O!IndInv, O!TypeOK
<1>1. ASSUME NEW k \in Tokens, O!Register(k)
      PROVE  O!IndInv'
  <2> USE <1>1 DEF O!Register
  <2>r. PICK r : r = [id |-> nextId, subject |-> TRUE]
    OBVIOUS
  <2>s. r \in [id : Nat, subject : BOOLEAN] /\ r.id = nextId /\ r.subject = TRUE
    BY <2>r
  <2>t. token' = [token EXCEPT ![k] = r]
    BY <2>r
  <2>1. O!TypeOK'
    BY <2>s, <2>t
  <2>2. /\ token'[k] # None /\ token'[k].subject /\ token'[k].id = nextId
        /\ \A l \in Tokens : l # k => token'[l] = token[l]
        /\ token[k] = None
    BY <2>1, <2>s, <2>t, NoneAssumption
  <2>3. \A l \in Tokens : l # k /\ token[l] # None => token[l].id # nextId /\ token[l].id \in Nat
    BY DEF O!OwnersInv
  <2>n. PICK n \in Nat : n = nextId
    OBVIOUS
  <2>4. O!Owners(n)' = {k}
    BY <2>2, <2>3, <2>n DEF O!Owners
  <2>5. \A id \in 0 .. nextId - 1 : O!Owners(id)' = O!Owners(id)
    BY <2>2 DEF O!Owners
  <2>6. n \notin orphans
    BY <2>n
  <2>7. \A m \in Tokens : token'[m] # None => token'[m].id < nextId'
    BY <2>2, <2>1 DEF O!OwnersInv
  <2>8. \A m, l \in Tokens :
          token'[m] # None /\ token'[m].subject /\ token'[l] # None /\ token'[l].subject
            /\ token'[m].id = token'[l].id => m = l
    BY <2>2, <2>3 DEF O!OwnersInv
  <2>9. \A id \in orphans' : O!Owners(id)' = {}
    BY <2>5 DEF O!OwnersInv
  <2>10. \A id \in 0 .. nextId' - 1 : id \in callbacks' <=> O!Owners(id)' # {} \/ id \in orphans'
    <3> SUFFICES ASSUME NEW id \in 0 .. nextId
                 PROVE  id \in callbacks' <=> O!Owners(id)' # {} \/ id \in orphans
      OBVIOUS
    <3>1. CASE id = n
      BY <2>4, <2>n, <3>1
    <3>2. CASE id # n
      BY <2>5, <2>n, <3>2 DEF O!OwnersInv
    <3> QED
      BY <3>1, <3>2
  <2>11. O!OwnersInv'
    BY <2>7, <2>8, <2>9, <2>10 DEF O!OwnersInv
  <2> QED
    BY <2>1, <2>11
<1>2. ASSUME NEW k \in Tokens, O!Destroy(k)
      PROVE  O!IndInv'
  <2> USE <1>2 DEF O!Destroy
  <2>1. O!TypeOK'
    OBVIOUS
  <2>2. token'[k] = None /\ token[k] # None /\ \A l \in Tokens : l # k => token'[l] = token[l]
    OBVIOUS
  <2>3. CASE token[k].subject
    <3>1. O!Owners(token[k].id) = {k} /\ token[k].id \notin orphans
      BY <2>3 DEF O!Owners, O!OwnersInv
    <3>2. \A id \in 0 .. nextId - 1 : O!Owners(id)' = O!Owners(id) \ {k}
      BY <2>2 DEF O!Owners
    <3>3. \A id \in 0 .. nextId - 1 : id # token[k].id => k \notin O!Owners(id)
      BY DEF O!Owners
    <3>4. callbacks' = callbacks \ {token[k].id}
      BY <2>3
    <3>5. O!OwnersInv'
      BY <2>2, <3>1, <3>2, <3>3, <3>4 DEF O!OwnersInv
    <3> QED
      BY <2>1, <3>5
  <2>4. CASE ~token[k].subject
    <3>1. \A id \in 0 .. nextId - 1 : O!Owners(id)' = O!Owners(id)
      BY <2>2, <2>4 DEF O!Owners
    <3>2. O!OwnersInv'
      BY <2>2, <2>4, <3>1 DEF O!OwnersInv
    <3> QED
      BY <2>1, <3>2
  <2> QED
    BY <2>3, <2>4
<1>3. ASSUME NEW k \in Tokens, NEW l \in Tokens, O!Move(k, l)
      PROVE  O!IndInv'
  <2> USE <1>3 DEF O!Move
  <2>0. /\ k # l /\ token[k] # None /\ token[k] \in [id : Nat, subject : BOOLEAN]
    OBVIOUS
  <2>m. PICK r \in [id : Nat, subject : BOOLEAN] :
          r = O!MovedFrom(k) /\ r.id = token[k].id /\ r.subject = FALSE
    BY <2>0, MovedToken DEF O!MovedFrom
  <2>1. O!TypeOK'
    <3>1. token' \in [Tokens -> [id : Nat, subject : BOOLEAN] \cup {None}]
      <4>1. token' = [token EXCEPT ![l] = token[k], ![k] = r]
        BY <2>m
      <4> QED
        BY <2>0, <2>m, <4>1
    <3>2. orphans' \subseteq 0 .. nextId - 1
      <4>1. token[l] # None => token[l].id \in 0 .. nextId - 1
        BY DEF O!OwnersInv
      <4> QED
        BY <4>1
    <3> QED
      BY <3>1, <3>2
  <2>2. /\ token'[k] = r /\ token'[l] = token[k]
        /\ \A m \in Tokens : m # k /\ m # l => token'[m] = token[m]
    BY <2>0, <2>m
  <2>3. token'[k].id = token[k].id /\ token'[k].subject = FALSE
    BY <2>2, <2>m
  <2>4. ASSUME NEW id \in 0 .. nextId - 1
        PROVE  \A m \in Tokens : m \in O!Owners(id)' <=>
                 m # k /\ (IF m = l THEN k \in O!Owners(id) ELSE m \in O!Owners(id))
    BY <2>0, <2>2, <2>3 DEF O!Owners
  <2>5. ASSUME NEW id \in 0 .. nextId - 1, k \in O!Owners(id)
        PROVE  O!Owners(id) = {k} /\ O!Owners(id)' = {l} /\ id \notin orphans
    <3>1. O!Owners(id) = {k} /\ id \notin orphans
      BY <2>5 DEF O!Owners, O!OwnersInv
    <3>2. O!Owners(id)' \subseteq Tokens
      BY DEF O!Owners
    <3> QED
      BY <2>0, <2>4, <3>1, <3>2
  <2>6. ASSUME NEW id \in 0 .. nextId - 1, l \in O!Owners(id)
        PROVE  O!Owners(id) = {l} /\ O!Owners(id)' = {} /\ orphans' = orphans \cup {id}
    <3>1. O!Owners(id) = {l} /\ orphans' = orphans \cup {id}
      BY <2>6 DEF O!Owners, O!OwnersInv
    <3>2. O!Owners(id)' \subseteq Tokens
      BY DEF O!Owners
    <3> QED
      BY <2>0, <2>4, <3>1, <3>2
  <2>7. ASSUME NEW id \in 0 .. nextId - 1, k \notin O!Owners(id), l \notin O!Owners(id)
        PROVE  O!Owners(id)' = O!Owners(id) /\ (id \in orphans' <=> id \in orphans)
    <3>1. O!Owners(id)' \subseteq Tokens /\ O!Owners(id) \subseteq Tokens
      BY DEF O!Owners
    <3>2. O!Owners(id)' = O!Owners(id)
      BY <2>4, <2>7, <3>1
    <3>3. id \in orphans' <=> id \in orphans
      BY <2>7 DEF O!Owners
    <3> QED
      BY <3>2, <3>3
  <2>8. \A m \in Tokens : token'[m] # None => token'[m].id < nextId'
    BY <2>0, <2>2, <2>3 DEF O!OwnersInv
  <2>9. \A m, n \in Tokens :
          token'[m] # None /\ token'[m].subject /\ token'[n] # None /\ token'[n].subject
            /\ token'[m].id = token'[n].id => m = n
    BY <2>0, <2>2, <2>3 DEF O!OwnersInv
  <2>10. \A id \in orphans' : O!Owners(id)' = {}
    <3> SUFFICES ASSUME NEW id \in orphans' PROVE O!Owners(id)' = {}
      OBVIOUS
    <3>1. id \in 0 .. nextId - 1
      BY <2>1
    <3>2. CASE l \in O!Owners(id)
      BY <2>6, <3>1, <3>2
    <3>3. CASE l \notin O!Owners(id)
      <4>1. id \in orphans
        BY <3>1, <3>3 DEF O!Owners, O!OwnersInv
      <4> QED
        BY <2>5, <2>7, <3>1, <3>3, <4>1 DEF O!OwnersInv
    <3> QED
      BY <3>2, <3>3
  <2>11. \A id \in 0 .. nextId' - 1 : id \in callbacks' <=> O!Owners(id)' # {} \/ id \in orphans'
    <3> SUFFICES ASSUME NEW id \in 0 .. nextId - 1
                 PROVE  id \in callbacks <=> O!Owners(id)' # {} \/ id \in orphans'
      OBVIOUS
    <3>1. id \in callbacks <=> O!Owners(id) # {} \/ id \in orphans
      BY DEF O!OwnersInv
    <3> QED
      BY <2>5, <2>6, <2>7, <3>1
  <2>12. O!OwnersInv'
    BY <2>8, <2>9, <2>10, <2>11 DEF O!OwnersInv
  <2> QED
    BY <2>1, <2>12
<1>4. CASE \E n \in Notifiers :
             O!Notify(n) \/ O!NotifyReturns(n) \/ \E id \in 0 .. MaxIds - 1 : O!Call(n, id)
  <2>1. UNCHANGED <<callbacks, nextId, token, orphans>>
    BY <1>4 DEF O!Notify, O!NotifyReturns, O!Call
  <2> QED
    BY <2>1 DEF O!OwnersInv, O!Owners
<1> QED
  BY <1>1, <1>2, <1>3, <1>4 DEF O!Next

(***************************************************************************)
(* The pool with a lock, for any number of nodes.                            *)
(***************************************************************************)
(* The sets of nodes are finite. *)
LEMMA NodeCounts ==
  /\ \A S : P!Cardinality(S) = Cardinality(S)
  /\ \A S \in SUBSET P!Nodes : IsFiniteSet(S)
<1>1. \A S : P!Cardinality(S) = Cardinality(S)
  BY DEF P!Cardinality, Cardinality
<1>2. IsFiniteSet(P!Nodes)
  BY CapAssumption, FS_Interval DEF P!Nodes
<1> QED
  BY <1>1, <1>2, FS_Subset

(* Before init() there are no nodes to account for. *)
LEMMA NodesInit == P!Init => P!IndInv
<1> SUFFICES ASSUME P!Init PROVE P!IndInv
  OBVIOUS
<1>1. P!TypeOK /\ P!NodesAccounted
  BY DEF P!Init, P!TypeOK, P!NodesAccounted
<1>2. pheld \cup pignored = {} /\ pheld \cap pignored = {} /\ psize = 0
  BY DEF P!Init
<1>3. P!CountInv
  BY <1>2, NodeCounts, FS_EmptySet DEF P!CountInv
<1> QED
  BY <1>1, <1>2, <1>3 DEF P!IndInv

(* init() links the nodes in order. *)
LEMMA InitPoolStep == P!IndInv /\ P!InitPool => P!IndInv'
<1> SUFFICES ASSUME P!IndInv, P!InitPool PROVE P!IndInv'
  OBVIOUS
<1> USE CapAssumption, NullAssumption DEF P!InitPool
<1>1. P!TypeOK'
  BY DEF P!IndInv, P!TypeOK, P!Nodes
<1>2. pheld \cup pignored = {} /\ pheld \cap pignored = {}
  BY DEF P!IndInv, P!TypeOK
<1>3. P!CountInv'
  BY <1>2, NodeCounts, FS_EmptySet DEF P!CountInv
<1>4. P!NodesAccounted'
  <2> DEFINE s == [i \in 1 .. Cap |-> i - 1]
  <2>1. s \in [1 .. Cap - psize' -> P!Nodes]
    BY DEF P!Nodes
  <2>2. {s[i] : i \in DOMAIN s} = P!Nodes
    <3>1. \A n \in P!Nodes : n + 1 \in DOMAIN s /\ s[n + 1] = n
      BY DEF P!Nodes
    <3> QED
      BY <2>1, <3>1
  <2>3. P!FreeList(s)'
    BY DEF P!FreeList, P!Nodes
  <2> QED
    BY <1>2, <2>1, <2>2, <2>3 DEF P!NodesAccounted
<1> QED
  BY <1>1, <1>3, <1>4 DEF P!IndInv

(* alloc() takes the first node of the list. *)
LEMMA AllocStep == P!IndInv /\ P!Alloc => P!IndInv'
<1> SUFFICES ASSUME P!IndInv, P!Alloc PROVE P!IndInv'
  OBVIOUS
<1> USE CapAssumption, NullAssumption DEF P!Alloc
<1>1. psize \in 0 .. Cap - 1 /\ ~pbroken /\ pup
  BY DEF P!IndInv, P!NodesAccounted
<1>2. PICK s \in [1 .. Cap - psize -> P!Nodes] :
        P!FreeList(s) /\ P!Nodes \ {s[i] : i \in DOMAIN s} = pheld \cup pignored
  BY <1>1 DEF P!IndInv, P!NodesAccounted
<1>3. pfree = s[1] /\ s[1] \in P!Nodes /\ pfree # Null /\ 1 \in DOMAIN s
  BY <1>1, <1>2 DEF P!FreeList, P!Nodes
<1>4. /\ psize' = psize + 1 /\ pheld' = pheld \cup {s[1]} /\ pfree' = pnext[s[1]]
      /\ UNCHANGED <<pup, pnext, pignored, pbroken>>
  BY <1>3
<1>5. s[1] \notin pheld \cup pignored
  BY <1>2, <1>3
<1>6. P!TypeOK'
  BY <1>3, <1>4 DEF P!IndInv, P!TypeOK
<1>7. P!CountInv'
  <2>1. pheld \cup pignored \in SUBSET P!Nodes
    BY DEF P!IndInv, P!TypeOK
  <2>2. pheld' \cup pignored' = (pheld \cup pignored) \cup {s[1]}
    BY <1>4
  <2>3. Cardinality((pheld \cup pignored) \cup {s[1]}) = Cardinality(pheld \cup pignored) + 1
    BY <1>5, <2>1, NodeCounts, FS_AddElement
  <2>4. psize = Cardinality(pheld \cup pignored) /\ pheld \cap pignored = {}
    BY <1>1, NodeCounts DEF P!IndInv, P!CountInv
  <2> QED
    BY <1>4, <1>5, <2>2, <2>3, <2>4, NodeCounts DEF P!CountInv
<1>8. P!NodesAccounted'
  <2>0. PICK r : r = [i \in 1 .. Cap - psize - 1 |-> s[i + 1]]
    OBVIOUS
  <2>1. r \in [1 .. Cap - psize' -> P!Nodes] /\ psize' \in 0 .. Cap
    BY <1>1, <1>4, <2>0
  <2>2. \A i \in DOMAIN s : i # 1 => i - 1 \in DOMAIN r /\ r[i - 1] = s[i]
    BY <1>1, <2>0
  <2>3. \A i \in DOMAIN r : i + 1 \in DOMAIN s /\ r[i] = s[i + 1] /\ i + 1 # 1
    BY <1>1, <2>0
  <2>4. \A i, j \in DOMAIN s : s[i] = s[j] => i = j
    BY <1>2 DEF P!FreeList
  <2>5. {r[i] : i \in DOMAIN r} = {s[i] : i \in DOMAIN s} \ {s[1]}
    <3>1. ASSUME NEW x \in {r[i] : i \in DOMAIN r}
          PROVE  x \in {s[i] : i \in DOMAIN s} \ {s[1]}
      BY <1>3, <2>3, <2>4
    <3>2. ASSUME NEW x \in {s[i] : i \in DOMAIN s} \ {s[1]}
          PROVE  x \in {r[i] : i \in DOMAIN r}
      BY <2>2
    <3> QED
      BY <3>1, <3>2
  <2>6. P!FreeList(r)'
    <3>1. \A i \in DOMAIN s : pnext[s[i]] = IF i = Cap - psize THEN Null ELSE s[i + 1]
      BY <1>2 DEF P!FreeList
    <3>2. pfree' = IF psize' = Cap THEN Null ELSE r[1]
      BY <1>1, <1>3, <1>4, <2>0, <3>1
    <3>3. \A i \in DOMAIN r : pnext'[r[i]] = IF i = Cap - psize' THEN Null ELSE r[i + 1]
      BY <1>1, <1>4, <2>0, <2>3, <3>1
    <3>4. \A i, j \in DOMAIN r : r[i] = r[j] => i = j
      BY <1>1, <2>0, <2>3, <2>4
    <3> QED
      BY <3>2, <3>3, <3>4 DEF P!FreeList
  <2>7. P!Nodes \ {r[i] : i \in DOMAIN r} = pheld' \cup pignored'
    BY <1>2, <1>3, <1>4, <2>5
  <2> QED
    BY <2>1, <2>6, <2>7 DEF P!NodesAccounted
<1> QED
  BY <1>1, <1>4, <1>6, <1>7, <1>8 DEF P!IndInv

(* A node given back goes to the front. *)
LEMMA PushStep ==
  ASSUME P!IndInv, pup, ~pbroken, NEW n \in pheld, pheld' = pheld \ {n}, P!Push(n),
         UNCHANGED <<pup, pignored, pbroken>>
  PROVE  P!IndInv'
<1> USE CapAssumption, NullAssumption DEF P!Push
<1>1. psize \in 0 .. Cap
  BY DEF P!IndInv, P!NodesAccounted
<1>2. PICK s \in [1 .. Cap - psize -> P!Nodes] :
        P!FreeList(s) /\ P!Nodes \ {s[i] : i \in DOMAIN s} = pheld \cup pignored
  BY DEF P!IndInv, P!NodesAccounted
<1>3. pheld \cap pignored = {} /\ n \in P!Nodes /\ n \notin {s[i] : i \in DOMAIN s}
  BY <1>2 DEF P!IndInv, P!TypeOK, P!CountInv
<1>4. pfree \in P!Nodes \cup {Null}
  BY <1>1, <1>2 DEF P!FreeList
<1>5. P!TypeOK'
  BY <1>3, <1>4 DEF P!IndInv, P!TypeOK
<1>6. P!CountInv' /\ psize \in 1 .. Cap
  <2>1. pheld \cup pignored \in SUBSET P!Nodes
    BY DEF P!IndInv, P!TypeOK
  <2>2. pheld' \cup pignored' = (pheld \cup pignored) \ {n}
    BY <1>3
  <2>3. Cardinality((pheld \cup pignored) \ {n}) = Cardinality(pheld \cup pignored) - 1
    BY <2>1, NodeCounts, FS_RemoveElement
  <2>4. psize = Cardinality(pheld \cup pignored)
    BY NodeCounts DEF P!IndInv, P!CountInv
  <2>5. psize # 0
    <3>1. IsFiniteSet(pheld \cup pignored) /\ pheld \cup pignored # {}
      BY <2>1, NodeCounts
    <3> QED
      BY <2>4, <3>1, FS_EmptySet
  <2>6. psize \in 1 .. Cap
    BY <1>1, <2>5
  <2>7. psize' = Cardinality(pheld' \cup pignored')
    BY <2>2, <2>3, <2>4
  <2>8. P!Cardinality(pheld \cup pignored)' = Cardinality(pheld' \cup pignored')
    BY NodeCounts
  <2>9. pheld' \cap pignored' = {}
    BY <1>3
  <2> QED
    BY <2>6, <2>7, <2>8, <2>9 DEF P!CountInv
<1>7. P!NodesAccounted'
  <2>0. PICK r : r = [i \in 1 .. Cap - psize + 1 |-> IF i = 1 THEN n ELSE s[i - 1]]
    OBVIOUS
  <2>1. r \in [1 .. Cap - psize' -> P!Nodes] /\ psize' \in 0 .. Cap - 1 /\ psize' = psize - 1
    BY <1>3, <1>6, <2>0
  <2>2. \A i \in DOMAIN s : i + 1 \in DOMAIN r /\ r[i + 1] = s[i]
    BY <1>1, <2>0
  <2>3. 1 \in DOMAIN r /\ r[1] = n /\ \A i \in DOMAIN r : i # 1 => i - 1 \in DOMAIN s /\ r[i] = s[i - 1]
    BY <1>1, <2>0
  <2>4. \A i, j \in DOMAIN s : s[i] = s[j] => i = j
    BY <1>2 DEF P!FreeList
  <2>5. {r[i] : i \in DOMAIN r} = {s[i] : i \in DOMAIN s} \cup {n}
    <3>1. ASSUME NEW x \in {r[i] : i \in DOMAIN r}
          PROVE  x \in {s[i] : i \in DOMAIN s} \cup {n}
      BY <2>3
    <3>2. ASSUME NEW x \in {s[i] : i \in DOMAIN s} \cup {n}
          PROVE  x \in {r[i] : i \in DOMAIN r}
      BY <2>2, <2>3
    <3> QED
      BY <3>1, <3>2
  <2>6. P!FreeList(r)'
    <3>1. \A i \in DOMAIN s : pnext[s[i]] = IF i = Cap - psize THEN Null ELSE s[i + 1]
      BY <1>2 DEF P!FreeList
    <3>2. pfree' = IF psize' = Cap THEN Null ELSE r[1]
      BY <2>1, <2>3
    <3>3. ASSUME NEW i \in DOMAIN r
          PROVE  pnext'[r[i]] = IF i = Cap - psize' THEN Null ELSE r[i + 1]
      <4>1. CASE i = 1
        <5>1. pnext'[n] = pfree
          BY <1>3 DEF P!IndInv, P!TypeOK
        <5>2. pfree = IF psize = Cap THEN Null ELSE s[1]
          BY <1>2 DEF P!FreeList
        <5> QED
          BY <1>1, <1>6, <2>0, <2>1, <2>3, <4>1, <5>1, <5>2
      <4>2. CASE i # 1
        <5>1. r[i] = s[i - 1] /\ i - 1 \in DOMAIN s /\ s[i - 1] # n /\ i \in 1 .. Cap - psize + 1
          BY <1>3, <2>0, <2>3, <4>2
        <5>2. pnext'[r[i]] = pnext[s[i - 1]]
          BY <5>1 DEF P!IndInv, P!TypeOK
        <5>3. pnext[s[i - 1]] = IF i - 1 = Cap - psize THEN Null ELSE s[i]
          BY <3>1, <5>1
        <5>4. i - 1 # Cap - psize => r[i + 1] = s[i]
          BY <1>1, <2>0, <5>1, <4>2
        <5> QED
          BY <1>1, <2>1, <5>1, <5>2, <5>3, <5>4
      <4> QED
        BY <4>1, <4>2
    <3>4. \A i, j \in DOMAIN r : r[i] = r[j] => i = j
      BY <1>1, <1>3, <2>0, <2>3, <2>4
    <3> QED
      BY <3>2, <3>3, <3>4 DEF P!FreeList
  <2>7. P!Nodes \ {r[i] : i \in DOMAIN r} = pheld' \cup pignored'
    BY <1>2, <1>3, <2>5
  <2> QED
    BY <2>1, <2>6, <2>7 DEF P!NodesAccounted
<1> QED
  BY <1>5, <1>6, <1>7 DEF P!IndInv

(* Every operation of the locked pool keeps its invariant. *)
LEMMA NodesStep == P!IndInv /\ P!Next => P!IndInv'
<1> SUFFICES ASSUME P!IndInv, P!Next PROVE P!IndInv'
  OBVIOUS
<1>1. CASE P!Destroy
  <2>1. /\ ~pup' /\ pheld' = {} /\ pignored' = {} /\ psize' = 0 /\ pbroken' \in BOOLEAN
        /\ pnext' = [n \in P!Nodes |-> Null]
    BY <1>1 DEF P!Destroy
  <2>2. P!TypeOK'
    BY <1>1, <2>1 DEF P!TypeOK, P!Destroy
  <2>3. P!CountInv'
    BY <2>1, NodeCounts, FS_EmptySet DEF P!CountInv
  <2> QED
    BY <2>1, <2>2, <2>3 DEF P!IndInv, P!NodesAccounted
<1>2. ASSUME NEW n \in P!Nodes, P!FreeObject(n)
      PROVE  P!IndInv'
  <2>1. CASE n \in pknown
    BY <1>2, <2>1, PushStep DEF P!FreeObject
  <2>2. CASE n \notin pknown
    <3>1. /\ pheld' = pheld \ {n} /\ pignored' = pignored \cup {n} /\ n \in pheld
          /\ UNCHANGED <<pup, pbroken, pnext, pfree, psize>>
      BY <1>2, <2>2 DEF P!FreeObject
    <3>2. pheld' \cup pignored' = pheld \cup pignored
      BY <3>1
    <3>3. P!TypeOK' /\ (P!CountInv => P!CountInv')
      BY <1>2, <3>1, <3>2 DEF P!IndInv, P!TypeOK, P!CountInv
    <3>4. P!NodesAccounted'
      BY <3>1, <3>2 DEF P!IndInv, P!NodesAccounted, P!FreeList
    <3> QED
      BY <3>1, <3>2, <3>3, <3>4 DEF P!IndInv
  <2> QED
    BY <2>1, <2>2
<1>3. ASSUME NEW n \in P!Nodes, P!FreeIndex(n)
      PROVE  P!IndInv'
  BY <1>3, PushStep DEF P!FreeIndex
<1> QED
  BY <1>1, <1>2, <1>3, InitPoolStep, AllocStep DEF P!Next

(***************************************************************************)
(* The load balancer, for any resources.                                     *)
(***************************************************************************)

(* Division gives the one remainder. *)
LEMMA OneRemainder ==
  ASSUME NEW a \in Nat, NEW n \in Nat \ {0}, NEW q \in Int, NEW r \in 0 .. n - 1, a = n * q + r
  PROVE  a % n = r
  OBVIOUS

(* The counter of a round and its next value. *)
LEMMA RoundStep ==
  ASSUME NEW a \in Nat, NEW n \in Nat \ {0}
  PROVE  /\ a % n \in 0 .. n - 1 /\ 0 % n = 0
         /\ (a + 1) % n = IF (a % n) + 1 = n THEN 0 ELSE (a % n) + 1
<1>1. a % n \in 0 .. n - 1 /\ 0 % n = 0 /\ a \div n \in Int
  OBVIOUS
<1>2. a = n * (a \div n) + (a % n)
  OBVIOUS
<1>3. PICK q \in Int, r \in 0 .. n - 1 : q = a \div n /\ r = a % n /\ a = n * q + r
  BY <1>1, <1>2
<1>4. a + 1 \in Nat
  OBVIOUS
<1>5. CASE r + 1 = n
  <2>1. a + 1 = n * q + n
    BY <1>3, <1>5
  <2>2. n * q + n = n * (q + 1)
    OBVIOUS
  <2>3. PICK p \in Int, t \in 0 .. n - 1 : t = 0 /\ a + 1 = n * p + t
    <3>1. q + 1 \in Int /\ a + 1 = n * (q + 1) /\ 0 \in 0 .. n - 1
      BY <1>4, <2>1, <2>2
    <3>2. PICK p \in Int : a + 1 = n * p
      BY <3>1
    <3> QED
      BY <3>1, <3>2
  <2>4. (a + 1) % n = 0
    BY <1>4, <2>3, OneRemainder
  <2> QED
    BY <1>1, <1>3, <1>5, <2>4
<1>6. CASE r + 1 # n
  <2>1. a + 1 = n * q + (r + 1) /\ r + 1 \in 0 .. n - 1
    BY <1>3, <1>6
  <2>2. (a + 1) % n = r + 1
    BY <1>4, <2>1, OneRemainder
  <2> QED
    BY <1>1, <1>3, <1>6, <2>2
<1> QED
  BY <1>5, <1>6

(* A selection more counts for the entry it gave. *)
LEMMA PickCounts ==
  ASSUME NEW s \in Seq(Nat), NEW k \in Nat, NEW i \in Nat
  PROVE  /\ Cardinality({p \in DOMAIN s : s[p] = i}) \in Nat
         /\ Cardinality({p \in DOMAIN Append(s, k) : Append(s, k)[p] = i})
              = IF i = k THEN Cardinality({p \in DOMAIN s : s[p] = i}) + 1
                ELSE Cardinality({p \in DOMAIN s : s[p] = i})
<1> DEFINE S == {p \in DOMAIN s : s[p] = i}
           T == {p \in DOMAIN Append(s, k) : Append(s, k)[p] = i}
           n == Len(s) + 1
<1>1. IsFiniteSet(DOMAIN s) /\ S \in SUBSET DOMAIN s
  BY FS_Interval
<1>2. IsFiniteSet(S)
  BY <1>1, FS_Subset
<1>3. Cardinality(S) \in Nat
  BY <1>2, FS_CardinalityType
<1>4. n \notin S
  OBVIOUS
<1>5. T = IF i = k THEN S \cup {n} ELSE S
  OBVIOUS
<1>6. Cardinality(S \cup {n}) = Cardinality(S) + 1
  BY <1>2, <1>4, FS_AddElement
<1> HIDE DEF S, T, n
<1>7. Cardinality(S) \in Nat /\ Cardinality(T) = IF i = k THEN Cardinality(S) + 1 ELSE Cardinality(S)
  BY <1>3, <1>5, <1>6
<1> QED
  BY <1>7 DEF S, T, n

(* Round robin gives the next entry; a change starts the round again. *)
LEMMA BalanceStep ==
  ASSUME B!IndInv, B!Next
  PROVE  B!IndInv'
<1> DEFINE Count(s, i) == Cardinality({p \in DOMAIN s : s[p] = i})
<1>c. /\ \A i : B!Given(i) = Count(picks, i)
      /\ \A i : B!Given(i)' = Count(picks', i)
  BY DEF B!Given, B!Cardinality, Cardinality
<1>1. ASSUME NEW rs \in Seq(Resources), NEW s \in B!Strategies \cup {None}, B!Change(rs, s)
      PROVE  B!IndInv'
  <2>1. resources' = rs /\ strategy' = s /\ bindex' = B!Update(s, bindex) /\ picks' = <<>>
    BY <1>1 DEF B!Change
  <2>2. B!TypeOK'
    BY <1>1, <2>1 DEF B!IndInv, B!TypeOK, B!Update
  <2>3. ASSUME strategy' = "round_robin"
        PROVE  \A i \in DOMAIN resources' :
                 B!Given(i)' = IF i <= bindex' % Len(resources') THEN 0 + 1 ELSE 0
    <3> SUFFICES ASSUME NEW i \in DOMAIN rs
                 PROVE  B!Given(i)' = IF i <= 0 % Len(rs) THEN 0 + 1 ELSE 0
      BY <2>1, <2>3 DEF B!Update
    <3>1. Len(rs) \in Nat \ {0} /\ i \in 1 .. Len(rs)
      OBVIOUS
    <3>2. 0 % Len(rs) = 0
      BY <3>1, RoundStep
    <3>3. {p \in DOMAIN picks' : picks'[p] = i} = {}
      BY <2>1
    <3> QED
      BY <1>c, <3>1, <3>2, <3>3, FS_EmptySet
  <2>4. B!RoundInv'
    <3>1. 0 \in 0 .. Len(picks')
      BY <2>1
    <3> QED
      BY <2>3, <3>1 DEF B!RoundInv
  <2> QED
    BY <2>2, <2>4 DEF B!IndInv
<1>2. ASSUME NEW r \in Resources, B!AddResources(<<r>>) \/ B!AddResources(<<r, r>>)
      PROVE  B!IndInv'
  <2>1. /\ resources \o <<r>> \in Seq(Resources) /\ resources \o <<r, r>> \in Seq(Resources)
        /\ strategy \in B!Strategies \cup {None}
    BY DEF B!IndInv, B!TypeOK
  <2> QED
    BY <1>1, <1>2, <2>1 DEF B!AddResources
<1>3. ASSUME NEW r \in Resources, B!DelResource(r)
      PROVE  B!IndInv'
  <2>1. PICK i \in DOMAIN resources : B!Change(B!RemoveAt(resources, i), strategy)
    BY <1>3 DEF B!DelResource
  <2>2. B!RemoveAt(resources, i) \in Seq(Resources)
    <3>1. i \in 1 .. Len(resources) /\ Len(resources) \in Nat /\ resources \in Seq(Resources)
      BY DEF B!IndInv, B!TypeOK
    <3>2. /\ SubSeq(resources, 1, i - 1) \in Seq(Resources)
          /\ SubSeq(resources, i + 1, Len(resources)) \in Seq(Resources)
      BY <3>1, SubSeqProperties
    <3> QED
      BY <3>2 DEF B!RemoveAt
  <2>3. strategy \in B!Strategies \cup {None}
    BY DEF B!IndInv, B!TypeOK
  <2> QED
    BY <1>1, <2>1, <2>2, <2>3
<1>4. ASSUME NEW s \in B!Strategies, B!SetStrategy(s)
      PROVE  B!IndInv'
  BY <1>1, <1>4 DEF B!SetStrategy, B!IndInv, B!TypeOK
<1>5. ASSUME NEW r \in Resources, B!Close(r)
      PROVE  B!IndInv'
  <2>1. UNCHANGED <<resources, strategy, bindex, picks>>
    BY <1>5 DEF B!Close
  <2>2. \A i : B!Given(i)' = B!Given(i)
    BY <1>c, <2>1
  <2>3. B!TypeOK' /\ B!RoundInv'
    BY <2>1, <2>2 DEF B!IndInv, B!TypeOK, B!RoundInv
  <2> QED
    BY <2>3 DEF B!IndInv
<1>6. CASE B!GetNext
  <2>1. UNCHANGED <<resources, strategy>>
    BY <1>6 DEF B!GetNext
  <2>2. CASE strategy = None \/ resources = <<>>
    <3>1. UNCHANGED <<bindex, picks>>
      BY <1>6, <2>2 DEF B!GetNext
    <3>2. \A i : B!Given(i)' = B!Given(i)
      BY <1>c, <3>1
    <3>3. B!TypeOK' /\ B!RoundInv'
      BY <2>1, <3>1, <3>2 DEF B!IndInv, B!TypeOK, B!RoundInv
    <3> QED
      BY <3>3 DEF B!IndInv
  <2>3. CASE strategy # None /\ resources # <<>> /\ strategy # "round_robin"
    <3>1. bindex' = bindex /\ \E k \in DOMAIN resources : picks' = Append(picks, k)
      <4>1. strategy = "random" \/ strategy = "least_connections"
        BY <2>3 DEF B!IndInv, B!TypeOK, B!Strategies
      <4>2. CASE strategy = "random"
        BY <1>6, <2>3, <4>2 DEF B!GetNext, B!RandomPick
      <4>3. CASE strategy = "least_connections"
        BY <1>6, <2>3, <4>3 DEF B!GetNext, B!LeastConnections
      <4> QED
        BY <4>1, <4>2, <4>3
    <3>2. \A k \in DOMAIN resources : k \in Nat
      BY DEF B!IndInv, B!TypeOK
    <3>3. B!TypeOK'
      BY <2>1, <3>1, <3>2 DEF B!IndInv, B!TypeOK
    <3>4. B!RoundInv'
      BY <2>1, <2>3 DEF B!RoundInv
    <3> QED
      BY <3>3, <3>4 DEF B!IndInv
  <2>4. CASE resources # <<>> /\ strategy = "round_robin"
    <3>0. strategy # None
      BY <2>4, NoneAssumption DEF B!Strategies
    <3>1. Len(resources) \in Nat \ {0} /\ DOMAIN resources = 1 .. Len(resources)
          /\ bindex \in Nat /\ picks \in Seq(Nat)
      BY <2>4 DEF B!IndInv, B!TypeOK
    <3>n. PICK n \in Nat \ {0} : n = Len(resources)
      BY <3>1
    <3>m. PICK m \in 0 .. n - 1 : m = bindex % n
      BY <3>1, RoundStep
    <3>2. m \in Nat /\ m < n /\ n = Len(resources) /\ m = bindex % n
      BY <3>n, <3>m
    <3>3. picks' = Append(picks, m + 1) /\ bindex' = bindex + 1
      BY <1>6, <2>4, <3>0, <3>2 DEF B!GetNext, B!RoundRobin
    <3>4. bindex' % n = IF m + 1 = n THEN 0 ELSE m + 1
      BY <3>1, <3>2, <3>3, RoundStep
    <3>5. PICK turns \in 0 .. Len(picks) : \A i \in 1 .. n :
            B!Given(i) = IF i <= m THEN turns + 1 ELSE turns
      BY <2>4, <3>1, <3>2 DEF B!IndInv, B!RoundInv
    <3>6. \A i \in 1 .. n : B!Given(i)' = IF i = m + 1 THEN B!Given(i) + 1 ELSE B!Given(i)
      <4> SUFFICES ASSUME NEW i \in 1 .. n
                   PROVE  B!Given(i)' = IF i = m + 1 THEN B!Given(i) + 1 ELSE B!Given(i)
        OBVIOUS
      <4>1. Count(Append(picks, m + 1), i) = IF i = m + 1 THEN Count(picks, i) + 1 ELSE Count(picks, i)
        <5>1. PICK k \in Nat : k = m + 1
          BY <3>2
        <5>2. i \in Nat
          BY <3>2
        <5>3. Count(Append(picks, k), i) = IF i = k THEN Count(picks, i) + 1 ELSE Count(picks, i)
          BY <3>1, <5>2, PickCounts, ZenonT(30)
        <5> QED
          BY <5>1, <5>3
      <4>2. B!Given(i)' = Count(Append(picks, m + 1), i)
        BY <1>c, <3>3
      <4> QED
        BY <1>c, <4>1, <4>2
    <3>7. picks' \in Seq(Nat) /\ Len(picks') = Len(picks) + 1 /\ Len(picks) \in Nat
      BY <3>1, <3>2, <3>3
    <3>8. \E t \in 0 .. Len(picks') : \A i \in 1 .. n :
            B!Given(i)' = IF i <= bindex' % n THEN t + 1 ELSE t
      <4>1. CASE m + 1 = n
        <5>1. \A i \in 1 .. n : B!Given(i)' = IF i <= 0 THEN turns + 1 + 1 ELSE turns + 1
          BY <3>2, <3>5, <3>6, <4>1
        <5>2. turns + 1 \in 0 .. Len(picks')
          BY <3>5, <3>7
        <5> QED
          BY <3>4, <4>1, <5>1, <5>2
      <4>2. CASE m + 1 # n
        <5>1. \A i \in 1 .. n : B!Given(i)' = IF i <= m + 1 THEN turns + 1 ELSE turns
          BY <3>2, <3>5, <3>6, <4>2
        <5>2. turns \in 0 .. Len(picks')
          BY <3>5, <3>7
        <5> QED
          BY <3>4, <4>2, <5>1, <5>2
      <4> QED
        BY <4>1, <4>2
    <3>9. B!TypeOK'
      BY <2>1, <3>1, <3>3, <3>7 DEF B!IndInv, B!TypeOK
    <3>10. B!RoundInv'
      BY <2>1, <3>1, <3>2, <3>8 DEF B!RoundInv
    <3> QED
      BY <3>9, <3>10 DEF B!IndInv
  <2> QED
    BY <2>2, <2>3, <2>4
<1> QED
  BY <1>2, <1>3, <1>4, <1>5, <1>6 DEF B!Next

(* No resources, and no round begun. *)
LEMMA BalanceInit == B!Init => B!IndInv
<1> SUFFICES ASSUME B!Init PROVE B!IndInv
  OBVIOUS
<1>1. B!TypeOK
  BY DEF B!Init, B!TypeOK, B!Strategies, B!CreateLoadBalancer
<1>2. B!RoundInv
  BY DEF B!Init, B!RoundInv
<1> QED
  BY <1>1, <1>2 DEF B!IndInv

(* The entries of a round differ by the one turn. *)
LEMMA SharesFollow == B!IndInv => B!SharesEven
  BY DEF B!IndInv, B!RoundInv, B!SharesEven

(* UtilitiesSound for any resources, tokens, notifiers and nodes: round robin shares evenly  *)
(* (load_balance.h), a callback is registered as long as its one token stands               *)
(* (observer.h), and every node of the locked pool is on the free list, in use or ignored   *)
(* (objectpool.h).                                                                          *)
THEOREM UtilitiesStaySound == SpecAll => []UtilitiesSound
<1> DEFINE Inv == B!IndInv /\ O!IndInv /\ P!IndInv
<1>1. InitAll => Inv
  BY BalanceInit, ObserverInit, NodesInit DEF InitAll
<1>2. Inv /\ [NextAll]_allvars => Inv'
  <2> SUFFICES ASSUME Inv, [NextAll]_allvars PROVE Inv'
    OBVIOUS
  <2>1. ASSUME UNCHANGED bvars PROVE B!IndInv'
    BY <2>1 DEF bvars, B!IndInv, B!TypeOK, B!RoundInv, B!Given
  <2>2. ASSUME UNCHANGED ovars PROVE O!IndInv'
    BY <2>2 DEF ovars, O!IndInv, O!TypeOK, O!OwnersInv, O!Owners
  <2>3. ASSUME UNCHANGED pvars PROVE P!IndInv'
    BY <2>3 DEF pvars, P!IndInv, P!TypeOK, P!CountInv, P!NodesAccounted, P!FreeList
  <2>4. /\ B!Next \/ UNCHANGED bvars
        /\ O!Next \/ UNCHANGED ovars
        /\ P!Next \/ UNCHANGED pvars
    BY DEF NextAll, allvars
  <2> QED
    BY <2>1, <2>2, <2>3, <2>4, BalanceStep, ObserverStep, NodesStep
<1>3. Inv => UtilitiesSound
  BY SharesFollow, TokensFollow DEF P!IndInv, UtilitiesSound
<1> QED
  BY <1>1, <1>2, <1>3, PTL DEF SpecAll
=============================================================================
