-------------------------- MODULE ThreadPool_proof --------------------------
(***************************************************************************)
(* Proofs about ThreadPool for any number of groups, workers, adders and     *)
(* tasks, with and without stealing, and queues of any bound; and about the  *)
(* locks and the asynchronous pool, as MCThreadPool instantiates them, for    *)
(* any number of threads, tasks, tickets and kinds of lock.                  *)
(***************************************************************************)
EXTENDS MCThreadPool, FiniteSetTheorems, SequenceTheorems, TLAPS

-----------------------------------------------------------------------------
(* Queues as the sets of what is in them. *)

(* push_back() adds its argument. *)
LEMMA RangeAppend ==
  ASSUME NEW S, NEW s \in Seq(S), NEW e \in S
  PROVE  /\ Append(s, e) \in Seq(S)
         /\ Range(Append(s, e)) = Range(s) \cup {e}
         /\ IsInjective(s) /\ e \notin Range(s) => IsInjective(Append(s, e))
<1>1. /\ Append(s, e) \in Seq(S) /\ Len(Append(s, e)) = Len(s) + 1
      /\ DOMAIN Append(s, e) = 1 .. Len(s) + 1 /\ DOMAIN s = 1 .. Len(s) /\ Len(s) \in Nat
      /\ \A i \in 1 .. Len(s) : Append(s, e)[i] = s[i]
      /\ Append(s, e)[Len(s) + 1] = e
  BY AppendProperties, LenProperties
<1> DEFINE t == Append(s, e)
           n == Len(s)
<1> HIDE DEF t, n
<1>2. /\ DOMAIN t = 1 .. n + 1 /\ DOMAIN s = 1 .. n /\ n \in Nat
      /\ \A i \in 1 .. n : t[i] = s[i]
      /\ t[n + 1] = e
  BY <1>1 DEF t, n
<1>3. Range(t) = Range(s) \cup {e}
  <2>1. ASSUME NEW x \in Range(t) PROVE x \in Range(s) \cup {e}
    <3>1. PICK i \in 1 .. n + 1 : x = t[i]
      BY <1>2, <2>1 DEF Range
    <3>2. i = n + 1 \/ i \in 1 .. n
      BY <1>2
    <3> QED
      BY <1>2, <3>1, <3>2 DEF Range
  <2>2. ASSUME NEW x \in Range(s) PROVE x \in Range(t)
    <3>1. PICK i \in 1 .. n : x = s[i]
      BY <1>2, <2>2 DEF Range
    <3>2. i \in 1 .. n + 1
      BY <1>2
    <3> QED
      BY <1>2, <3>1, <3>2 DEF Range
  <2>3. e \in Range(t)
    <3>1. n + 1 \in 1 .. n + 1
      BY <1>2
    <3> QED
      BY <1>2, <3>1 DEF Range
  <2> QED
    BY <2>1, <2>2, <2>3
<1>4. ASSUME IsInjective(s), e \notin Range(s) PROVE IsInjective(t)
  <2>1. SUFFICES ASSUME NEW i \in 1 .. n + 1, NEW j \in 1 .. n + 1, t[i] = t[j]
                 PROVE  i = j
    BY <1>2 DEF IsInjective
  <2>2. \A k \in 1 .. n : s[k] # e
    BY <1>2, <1>4 DEF Range
  <2>3. (i = n + 1 \/ i \in 1 .. n) /\ (j = n + 1 \/ j \in 1 .. n)
    BY <1>2
  <2> QED
    BY <1>2, <1>4, <2>1, <2>2, <2>3 DEF IsInjective
<1> QED
  BY <1>1, <1>3, <1>4 DEF t

(* pop_front() of a queue that holds nothing twice takes its front away. *)
LEMMA RangeTail ==
  ASSUME NEW S, NEW s \in Seq(S), s # << >>, IsInjective(s)
  PROVE  /\ Tail(s) \in Seq(S) /\ Head(s) \in S
         /\ Head(s) \in Range(s)
         /\ Range(Tail(s)) = Range(s) \ {Head(s)}
         /\ IsInjective(Tail(s))
<1>1. /\ Tail(s) \in Seq(S) /\ Head(s) \in S /\ Head(s) = s[1]
      /\ Len(Tail(s)) = Len(s) - 1 /\ Len(s) \in Nat \ {0}
      /\ DOMAIN s = 1 .. Len(s) /\ DOMAIN Tail(s) = 1 .. Len(Tail(s))
      /\ \A i \in 1 .. Len(Tail(s)) : Tail(s)[i] = s[i + 1]
  BY HeadTailProperties, LenProperties, EmptySeq
<1> DEFINE t == Tail(s)
           n == Len(s)
<1> HIDE DEF t, n
<1>2. /\ n \in Nat \ {0} /\ DOMAIN s = 1 .. n /\ DOMAIN t = 1 .. n - 1
      /\ \A i \in 1 .. n - 1 : t[i] = s[i + 1]
  BY <1>1 DEF t, n
<1>3. \A i, j \in 1 .. n : s[i] = s[j] => i = j
  BY <1>2 DEF IsInjective
<1>4. s[1] \in Range(s)
  <2>1. 1 \in 1 .. n
    BY <1>2
  <2> QED
    BY <1>2, <2>1 DEF Range
<1>5. Range(t) = Range(s) \ {s[1]}
  <2>1. ASSUME NEW x \in Range(t) PROVE x \in Range(s) /\ x # s[1]
    <3>1. PICK i \in 1 .. n - 1 : x = t[i]
      BY <1>2, <2>1 DEF Range
    <3>2. i + 1 \in 1 .. n /\ 1 \in 1 .. n /\ i + 1 # 1
      BY <1>2
    <3>3. x = s[i + 1]
      BY <1>2, <3>1
    <3> QED
      BY <1>2, <1>3, <3>2, <3>3 DEF Range
  <2>2. ASSUME NEW x \in Range(s), x # s[1] PROVE x \in Range(t)
    <3>1. PICK i \in 1 .. n : x = s[i]
      BY <1>2, <2>2 DEF Range
    <3>2. i - 1 \in 1 .. n - 1 /\ (i - 1) + 1 = i
      BY <1>2, <2>2, <3>1
    <3>3. t[i - 1] = x
      BY <1>2, <3>1, <3>2
    <3> QED
      BY <1>2, <3>2, <3>3 DEF Range
  <2> QED
    BY <2>1, <2>2
<1>6. IsInjective(t)
  <2>1. SUFFICES ASSUME NEW i \in 1 .. n - 1, NEW j \in 1 .. n - 1, t[i] = t[j]
                 PROVE  i = j
    BY <1>2 DEF IsInjective
  <2>2. i + 1 \in 1 .. n /\ j + 1 \in 1 .. n /\ s[i + 1] = s[j + 1]
    BY <1>2, <2>1
  <2>3. i + 1 = j + 1
    BY <1>3, <2>2
  <2> QED
    BY <2>3
<1> QED
  BY <1>1, <1>4, <1>5, <1>6 DEF t

(* An empty queue holds nothing. *)
LEMMA RangeEmpty == Range(<< >>) = {} /\ IsInjective(<< >>)
  BY DEF Range, IsInjective

-----------------------------------------------------------------------------
(* start() has built the groups, nothing is queued. *)
LEMMA InitIndInv == Init => IndInv
<1> SUFFICES ASSUME Init PROVE IndInv
  OBVIOUS
<1> USE NGroupsAssumption, GroupOfAssumption
<1>0. << >> \in Seq(Tasks) /\ 0 \in Groups
  BY EmptySeq DEF Groups
<1>1. TypeOK
  <2>1. queue \in [Groups -> Seq(Tasks)] /\ ess \in [Workers -> Seq(Tasks)]
    BY <1>0 DEF Init
  <2>2. /\ wpc \in [Workers -> {"top", "steal", "relock", "wait", "run", "running", "after",
                                "exited"}]
        /\ wtask \in [Workers -> Tasks \cup {NoTask}]
        /\ apc \in [Adders -> {"idle", "adding", "undefined"}]
        /\ atask \in [Adders -> Tasks \cup {NoTask}]
        /\ agroup \in [Adders -> Groups]
    BY <1>0 DEF Init
  <2>3. /\ gstop \in [Groups -> BOOLEAN] /\ alive \in [Groups -> BOOLEAN]
        /\ cond \in [Groups -> SUBSET (Workers \cup {Stopper})]
        /\ busy \in [Groups -> Nat] /\ runs \in [Tasks -> Nat] /\ destroyed \in [Tasks -> Nat]
    BY DEF Init
  <2> QED
    BY <1>0, <2>1, <2>2, <2>3 DEF Init, TypeOK
<1>2. /\ \A g \in Groups : queue[g] = << >>
      /\ \A w \in Workers : ess[w] = << >> /\ wtask[w] = NoTask /\ wpc[w] = "top"
  BY DEF Init
<1>3. QueuesInjective /\ OwnersApart
  BY <1>2, RangeEmpty DEF QueuesInjective, OwnersApart
<1>4. OutcomeCounts
  <2>1. \A t \in Tasks : ~Held(t)
    BY <1>2, RangeEmpty, NoTaskAssumption DEF Held
  <2> QED
    BY <2>1 DEF Init, OutcomeCounts
<1>5. NotYetOwned
  <2>1. \A t \in Tasks : Child[t] # NoTask => Child[t] \in Tasks
    BY ChildAssumption
  <2> QED
    BY <2>1 DEF Init, NotYetOwned
<1>6. WorkerInv
  <2>1. ASSUME NEW g \in Groups
        PROVE  {w \in Workers : GroupOf[w] = g /\ wpc[w] = "running"} = {}
    BY <1>2
  <2> QED
    BY <1>2, <2>1, FS_EmptySet DEF Init, WorkerInv
<1>7. StopInv
  <2>1. \A w \in Workers : ~(GroupOf[w] < 0)
    BY DEF Groups
  <2> QED
    BY <1>2, <2>1 DEF Init, StopInv
<1> QED
  BY <1>1, <1>3, <1>4, <1>5, <1>6, <1>7 DEF IndInv

-----------------------------------------------------------------------------
(* Who has which task. *)

Ledger == QueuesInjective /\ OwnersApart /\ OutcomeCounts

(* A step that moves no task leaves the ledger as it was. *)
LEMMA NoMove ==
  ASSUME Ledger, UNCHANGED <<queue, ess, wtask, accepted, runs, destroyed>>
  PROVE  Ledger'
  BY DEF Ledger, QueuesInjective, OwnersApart, OutcomeCounts, Held

(* A worker without a task takes the front of a group's queue, its own or      *)
(* another's (the worker loop, try_steal_one).                                 *)
LEMMA PopQueue ==
  ASSUME TypeOK, Ledger, NEW w \in Workers, NEW g \in Groups,
         wtask[w] = NoTask, queue[g] # << >>,
         wtask' = [wtask EXCEPT ![w] = Head(queue[g])],
         queue' = [queue EXCEPT ![g] = Tail(@)],
         UNCHANGED <<ess, accepted, runs, destroyed>>
  PROVE  Ledger' /\ queue' \in [Groups -> Seq(Tasks)] /\ Head(queue[g]) \in Tasks
<1> DEFINE h == Head(queue[g])
<1>0. queue \in [Groups -> Seq(Tasks)] /\ wtask \in [Workers -> Tasks \cup {NoTask}]
  BY DEF TypeOK
<1>1. /\ Tail(queue[g]) \in Seq(Tasks) /\ h \in Tasks /\ h \in Range(queue[g])
      /\ Range(Tail(queue[g])) = Range(queue[g]) \ {h} /\ IsInjective(Tail(queue[g]))
  BY <1>0, RangeTail DEF Ledger, QueuesInjective
<1> HIDE DEF h
<1>2. /\ queue' \in [Groups -> Seq(Tasks)] /\ queue'[g] = Tail(queue[g])
      /\ \A f \in Groups : f # g => queue'[f] = queue[f]
  BY <1>0, <1>1
<1>3. wtask'[w] = h /\ \A v \in Workers : v # w => wtask'[v] = wtask[v]
  BY <1>0 DEF h
<1>4. h # NoTask
  BY <1>1, NoTaskAssumption
<1>5. /\ \A f \in Groups : Range(queue'[f]) = Range(queue[f]) \ {h}
      /\ \A v \in Workers : h \notin Range(ess[v])
      /\ \A v \in Workers : wtask[v] # h
  BY <1>1, <1>2 DEF Ledger, OwnersApart
<1>6. QueuesInjective'
  BY <1>1, <1>2 DEF Ledger, QueuesInjective
<1>7. OwnersApart'
  <2>0. OwnersApart
    BY DEF Ledger
  <2>1. /\ \A f, k \in Groups : f # k => Range(queue'[f]) \cap Range(queue'[k]) = {}
        /\ \A u, v \in Workers : u # v => Range(ess'[u]) \cap Range(ess'[v]) = {}
        /\ \A f \in Groups, v \in Workers : Range(queue'[f]) \cap Range(ess'[v]) = {}
    BY <1>5, <2>0 DEF OwnersApart
  <2>2. \A u, v \in Workers : u # v /\ wtask'[u] # NoTask => wtask'[u] # wtask'[v]
    BY <1>3, <1>4, <1>5, <2>0 DEF OwnersApart
  <2>3. \A f \in Groups, v \in Workers : wtask'[v] \notin Range(queue'[f])
    BY <1>3, <1>5, <2>0, ZenonT(30) DEF OwnersApart
  <2>4. \A u, v \in Workers : wtask'[v] \notin Range(ess'[u])
    BY <1>3, <1>5, <2>0 DEF OwnersApart
  <2> QED
    BY <2>1, <2>2, <2>3, <2>4 DEF OwnersApart
<1>8. \A t \in Tasks : Held(t)' <=> Held(t)
  BY <1>1, <1>3, <1>5, NoTaskAssumption DEF Held
<1>9. OutcomeCounts'
  BY <1>8 DEF Ledger, OutcomeCounts
<1> QED
  BY <1>1, <1>2, <1>6, <1>7, <1>9 DEF Ledger, h

(* A worker without a task takes the front of its own essential queue. *)
LEMMA PopEssential ==
  ASSUME TypeOK, Ledger, NEW w \in Workers,
         wtask[w] = NoTask, ess[w] # << >>,
         wtask' = [wtask EXCEPT ![w] = Head(ess[w])],
         ess' = [ess EXCEPT ![w] = Tail(@)],
         UNCHANGED <<queue, accepted, runs, destroyed>>
  PROVE  Ledger' /\ ess' \in [Workers -> Seq(Tasks)] /\ Head(ess[w]) \in Tasks
<1> DEFINE h == Head(ess[w])
<1>0. ess \in [Workers -> Seq(Tasks)] /\ wtask \in [Workers -> Tasks \cup {NoTask}]
  BY DEF TypeOK
<1>1. /\ Tail(ess[w]) \in Seq(Tasks) /\ h \in Tasks /\ h \in Range(ess[w])
      /\ Range(Tail(ess[w])) = Range(ess[w]) \ {h} /\ IsInjective(Tail(ess[w]))
  BY <1>0, RangeTail DEF Ledger, QueuesInjective
<1> HIDE DEF h
<1>2. /\ ess' \in [Workers -> Seq(Tasks)] /\ ess'[w] = Tail(ess[w])
      /\ \A v \in Workers : v # w => ess'[v] = ess[v]
  BY <1>0, <1>1
<1>3. wtask'[w] = h /\ \A v \in Workers : v # w => wtask'[v] = wtask[v]
  BY <1>0 DEF h
<1>4. h # NoTask
  BY <1>1, NoTaskAssumption
<1>5. /\ \A v \in Workers : Range(ess'[v]) = Range(ess[v]) \ {h}
      /\ \A f \in Groups : h \notin Range(queue[f])
      /\ \A v \in Workers : wtask[v] # h
  BY <1>1, <1>2 DEF Ledger, OwnersApart
<1>6. QueuesInjective'
  BY <1>1, <1>2 DEF Ledger, QueuesInjective
<1>7. OwnersApart'
  <2>0. OwnersApart
    BY DEF Ledger
  <2>1. /\ \A f, k \in Groups : f # k => Range(queue'[f]) \cap Range(queue'[k]) = {}
        /\ \A u, v \in Workers : u # v => Range(ess'[u]) \cap Range(ess'[v]) = {}
        /\ \A f \in Groups, v \in Workers : Range(queue'[f]) \cap Range(ess'[v]) = {}
    BY <1>5, <2>0 DEF OwnersApart
  <2>2. \A u, v \in Workers : u # v /\ wtask'[u] # NoTask => wtask'[u] # wtask'[v]
    BY <1>3, <1>4, <1>5, <2>0 DEF OwnersApart
  <2>3. \A f \in Groups, v \in Workers : wtask'[v] \notin Range(queue'[f])
    BY <1>3, <1>5, <2>0 DEF OwnersApart
  <2>4. \A u, v \in Workers : wtask'[v] \notin Range(ess'[u])
    BY <1>3, <1>5, <2>0, ZenonT(30) DEF OwnersApart
  <2> QED
    BY <2>1, <2>2, <2>3, <2>4 DEF OwnersApart
<1>8. \A t \in Tasks : Held(t)' <=> Held(t)
  BY <1>1, <1>3, <1>5, NoTaskAssumption DEF Held
<1>9. OutcomeCounts'
  BY <1>8 DEF Ledger, OutcomeCounts
<1> QED
  BY <1>1, <1>2, <1>6, <1>7, <1>9 DEF Ledger, h

(* A task nobody has had before goes to the back of a queue (add_task). *)
LEMMA PushQueue ==
  ASSUME TypeOK, Ledger, NEW g \in Groups, NEW t \in Tasks,
         t \notin accepted, destroyed[t] = 0,
         queue' = [queue EXCEPT ![g] = Append(@, t)],
         accepted' = accepted \cup {t},
         UNCHANGED <<ess, wtask, runs, destroyed>>
  PROVE  Ledger' /\ queue' \in [Groups -> Seq(Tasks)]
<1>0. queue \in [Groups -> Seq(Tasks)] /\ QueuesInjective /\ OwnersApart /\ OutcomeCounts
  BY DEF TypeOK, Ledger
<1>1. ~Held(t)
  BY <1>0 DEF OutcomeCounts
<1>2. /\ Append(queue[g], t) \in Seq(Tasks)
      /\ Range(Append(queue[g], t)) = Range(queue[g]) \cup {t}
      /\ IsInjective(Append(queue[g], t))
  BY <1>0, <1>1, RangeAppend DEF QueuesInjective, Held
<1>3. /\ queue' \in [Groups -> Seq(Tasks)] /\ queue'[g] = Append(queue[g], t)
      /\ \A f \in Groups : f # g => queue'[f] = queue[f]
  BY <1>0, <1>2
<1>4. /\ \A f \in Groups : t \notin Range(queue[f])
      /\ \A w \in Workers : t \notin Range(ess[w]) /\ wtask[w] # t
  BY <1>1 DEF Held
<1>5. QueuesInjective'
  BY <1>0, <1>2, <1>3 DEF QueuesInjective
<1>6. OwnersApart'
  <2>1. /\ \A f, k \in Groups : f # k => Range(queue'[f]) \cap Range(queue'[k]) = {}
        /\ \A f \in Groups, v \in Workers : Range(queue'[f]) \cap Range(ess'[v]) = {}
    BY <1>0, <1>2, <1>3, <1>4 DEF OwnersApart
  <2>2. \A f \in Groups, v \in Workers : wtask'[v] \notin Range(queue'[f])
    BY <1>0, <1>2, <1>3, <1>4 DEF OwnersApart
  <2> QED
    BY <1>0, <2>1, <2>2 DEF OwnersApart
<1>7. \A u \in Tasks : Held(u)' <=> Held(u) \/ u = t
  BY <1>2, <1>3 DEF Held
<1>8. OutcomeCounts'
  BY <1>0, <1>7 DEF OutcomeCounts
<1> QED
  BY <1>3, <1>5, <1>6, <1>8 DEF Ledger

(* A task nobody has is destroyed when it is refused. *)
LEMMA Refused ==
  ASSUME TypeOK, Ledger, NEW t \in Tasks, t \notin accepted,
         destroyed' = [destroyed EXCEPT ![t] = @ + 1],
         UNCHANGED <<queue, ess, wtask, accepted, runs>>
  PROVE  Ledger' /\ destroyed' \in [Tasks -> Nat]
<1>0. destroyed \in [Tasks -> Nat] /\ QueuesInjective /\ OwnersApart /\ OutcomeCounts
  BY DEF TypeOK, Ledger
<1>1. destroyed' \in [Tasks -> Nat] /\ \A u \in Tasks : u # t => destroyed'[u] = destroyed[u]
  BY <1>0
<1>2. \A u \in Tasks : Held(u)' <=> Held(u)
  BY DEF Held
<1>3. OutcomeCounts'
  BY <1>0, <1>1, <1>2 DEF OutcomeCounts
<1> QED
  BY <1>0, <1>1, <1>3 DEF Ledger, QueuesInjective, OwnersApart

(* A task that has been run is destroyed with its last owner; the essential    *)
(* task it added gets its first owner, or none at all once the pool stops.     *)
LEMMA FinishKeeps ==
  ASSUME TypeOK, Ledger, NotYetOwned, NEW w \in Workers, wtask[w] # NoTask, FinishRun(w)
  PROVE  /\ Ledger' /\ ess' \in [Workers -> Seq(Tasks)]
         /\ runs' \in [Tasks -> Nat] /\ destroyed' \in [Tasks -> Nat]
         /\ accepted' \in SUBSET Tasks
<1> DEFINE t == wtask[w]
           c == Child[t]
<1>0. /\ ess \in [Workers -> Seq(Tasks)] /\ wtask \in [Workers -> Tasks \cup {NoTask}]
      /\ runs \in [Tasks -> Nat] /\ destroyed \in [Tasks -> Nat] /\ accepted \in SUBSET Tasks
      /\ QueuesInjective /\ OwnersApart /\ OutcomeCounts
  BY DEF TypeOK, Ledger
<1>1. t \in Tasks /\ Held(t)
  BY <1>0 DEF Held
<1>2. t \in accepted /\ destroyed[t] = 0 /\ runs[t] = 0
  BY <1>0, <1>1 DEF OutcomeCounts
<1>3. c # NoTask => c \in Tasks /\ c \notin accepted /\ destroyed[c] = 0 /\ c # t
  BY <1>1, <1>2, ChildAssumption DEF NotYetOwned
<1> HIDE DEF t, c
<1>4. /\ runs' = [runs EXCEPT ![t] = @ + 1]
      /\ wtask' = [wtask EXCEPT ![w] = NoTask] /\ queue' = queue
      /\ \/ c = NoTask /\ destroyed' = [destroyed EXCEPT ![t] = @ + 1] /\ UNCHANGED <<ess, accepted>>
         \/ /\ c # NoTask
            /\ destroyed' = [destroyed EXCEPT ![t] = @ + 1, ![c] = @ + 1]
            /\ UNCHANGED <<ess, accepted>>
         \/ /\ c # NoTask
            /\ ess' = [ess EXCEPT ![w] = Append(@, c)] /\ accepted' = accepted \cup {c}
            /\ destroyed' = [destroyed EXCEPT ![t] = @ + 1]
  BY DEF FinishRun, Destroy, t, c
<1>5. /\ wtask'[w] = NoTask /\ \A v \in Workers : v # w => wtask'[v] = wtask[v]
      /\ \A v \in Workers : v # w => wtask[v] # t
  BY <1>0, <1>1, <1>4, NoTaskAssumption DEF OwnersApart, t
<1>6. /\ runs' \in [Tasks -> Nat] /\ runs'[t] = 1
      /\ \A u \in Tasks : u # t => runs'[u] = runs[u]
  BY <1>0, <1>1, <1>2, <1>4
<1>7. /\ destroyed' \in [Tasks -> Nat] /\ destroyed'[t] = 1
      /\ \A u \in Tasks : u # t /\ u # c => destroyed'[u] = destroyed[u]
  <2>1. \/ destroyed' = [destroyed EXCEPT ![t] = @ + 1]
        \/ c # NoTask /\ destroyed' = [destroyed EXCEPT ![t] = @ + 1, ![c] = @ + 1]
    BY <1>4
  <2>2. CASE destroyed' = [destroyed EXCEPT ![t] = @ + 1]
    BY <1>0, <1>1, <1>2, <2>2
  <2>3. CASE c # NoTask /\ destroyed' = [destroyed EXCEPT ![t] = @ + 1, ![c] = @ + 1]
    BY <1>0, <1>1, <1>2, <1>3, <2>3
  <2> QED
    BY <2>1, <2>2, <2>3
<1>8. CASE UNCHANGED <<ess, accepted>>
  <2>1. \A u \in Tasks : Held(u)' <=> Held(u) /\ u # t
    <3>1. \A v \in Workers : t \notin Range(ess[v])
      BY <1>0 DEF OwnersApart, t
    <3>2. \A g \in Groups : t \notin Range(queue[g])
      BY <1>0 DEF OwnersApart, t
    <3>3. wtask[w] = t
      BY DEF t
    <3> QED
      BY <1>4, <1>5, <1>8, <3>1, <3>2, <3>3, NoTaskAssumption DEF Held
  <2>2. OutcomeCounts'
    <3> SUFFICES ASSUME NEW u \in Tasks
                 PROVE  /\ Held(u)' <=> u \in accepted' /\ destroyed'[u] = 0
                        /\ u \in accepted' => destroyed'[u] \in {0, 1} /\ runs'[u] = destroyed'[u]
                        /\ u \notin accepted' => runs'[u] = 0
      BY DEF OutcomeCounts
    <3>0. /\ Held(u) <=> u \in accepted /\ destroyed[u] = 0
          /\ u \in accepted => destroyed[u] \in {0, 1} /\ runs[u] = destroyed[u]
          /\ u \notin accepted => runs[u] = 0
      BY <1>0 DEF OutcomeCounts
    <3>1. CASE u = t
      BY <1>2, <1>6, <1>7, <1>8, <2>1, <3>1
    <3>2. CASE u # t /\ u = c
      <4>1. c # NoTask
        BY <3>2, NoTaskAssumption
      <4> QED
        BY <1>3, <1>6, <1>8, <2>1, <3>0, <3>2, <4>1
    <3>3. CASE u # t /\ u # c
      BY <1>6, <1>7, <1>8, <2>1, <3>0, <3>3
    <3> QED
      BY <3>1, <3>2, <3>3
  <2>3. \A g \in Groups, v \in Workers : wtask'[v] \notin Range(queue[g])
    <3>1. ASSUME NEW g \in Groups PROVE NoTask \notin Range(queue[g])
      BY NoTaskAssumption, RangeOfSeq DEF TypeOK
    <3> QED
      BY <1>0, <1>5, <3>1 DEF OwnersApart
  <2>4. \A u, v \in Workers : wtask'[v] \notin Range(ess[u])
    <3>1. ASSUME NEW u \in Workers PROVE NoTask \notin Range(ess[u])
      BY NoTaskAssumption, RangeOfSeq DEF TypeOK
    <3> QED
      BY <1>0, <1>5, <3>1 DEF OwnersApart
  <2>5. OwnersApart'
    BY <1>0, <1>4, <1>5, <1>8, <2>3, <2>4 DEF OwnersApart
  <2> QED
    BY <1>0, <1>4, <1>6, <1>7, <1>8, <2>2, <2>5 DEF Ledger, QueuesInjective
<1>9. CASE /\ c # NoTask
           /\ ess' = [ess EXCEPT ![w] = Append(@, c)] /\ accepted' = accepted \cup {c}
           /\ destroyed' = [destroyed EXCEPT ![t] = @ + 1]
  <2>0. ~Held(c) /\ c \in Tasks /\ c # t
    BY <1>0, <1>3, <1>9 DEF OutcomeCounts
  <2>1. /\ \A f \in Groups : c \notin Range(queue[f])
        /\ \A v \in Workers : c \notin Range(ess[v]) /\ wtask[v] # c
    BY <2>0 DEF Held
  <2>2. /\ Append(ess[w], c) \in Seq(Tasks)
        /\ Range(Append(ess[w], c)) = Range(ess[w]) \cup {c}
        /\ IsInjective(Append(ess[w], c))
    BY <1>0, <2>0, <2>1, RangeAppend DEF QueuesInjective
  <2>3. /\ ess' \in [Workers -> Seq(Tasks)] /\ ess'[w] = Append(ess[w], c)
        /\ \A v \in Workers : v # w => ess'[v] = ess[v]
    BY <1>0, <1>9, <2>2
  <2>4. QueuesInjective'
    BY <1>0, <1>4, <2>2, <2>3 DEF QueuesInjective
  <2>5. /\ \A g \in Groups : NoTask \notin Range(queue[g])
        /\ \A v \in Workers : NoTask \notin Range(ess[v])
    BY NoTaskAssumption, RangeOfSeq DEF TypeOK
  <2>6. OwnersApart'
    <3>0. /\ \A v \in Workers : Range(ess'[v]) = IF v = w THEN Range(ess[v]) \cup {c} ELSE Range(ess[v])
          /\ queue' = queue
      BY <1>4, <2>2, <2>3
    <3>1. /\ \A u, v \in Workers : u # v => Range(ess'[u]) \cap Range(ess'[v]) = {}
          /\ \A f \in Groups, v \in Workers : Range(queue'[f]) \cap Range(ess'[v]) = {}
      <4>1. /\ \A u, v \in Workers : u # v => Range(ess[u]) \cap Range(ess[v]) = {}
            /\ \A f \in Groups, v \in Workers : Range(queue[f]) \cap Range(ess[v]) = {}
        BY <1>0 DEF OwnersApart
      <4>2. ASSUME NEW u \in Workers, NEW v \in Workers, u # v
            PROVE  Range(ess'[u]) \cap Range(ess'[v]) = {}
        <5>0. Range(ess[u]) \cap Range(ess[v]) = {} /\ c \notin Range(ess[u]) /\ c \notin Range(ess[v])
          BY <2>1, <4>1, <4>2
        <5>1. \/ Range(ess'[u]) = Range(ess[u]) \cup {c} /\ Range(ess'[v]) = Range(ess[v])
              \/ Range(ess'[u]) = Range(ess[u]) /\ Range(ess'[v]) = Range(ess[v]) \cup {c}
              \/ Range(ess'[u]) = Range(ess[u]) /\ Range(ess'[v]) = Range(ess[v])
          BY <3>0, <4>2
        <5> QED
          BY <5>0, <5>1
      <4>3. ASSUME NEW f \in Groups, NEW v \in Workers
            PROVE  Range(queue'[f]) \cap Range(ess'[v]) = {}
        BY <2>1, <3>0, <4>1
      <4> QED
        BY <4>2, <4>3
    <3>2. \A u, v \in Workers : u # v /\ wtask'[u] # NoTask => wtask'[u] # wtask'[v]
      BY <1>0, <1>5 DEF OwnersApart
    <3>3. \A f \in Groups, v \in Workers : wtask'[v] \notin Range(queue'[f])
      BY <1>0, <1>4, <1>5, <2>5 DEF OwnersApart
    <3>4. \A u, v \in Workers : wtask'[v] \notin Range(ess'[u])
      <4>1. \A u, v \in Workers : wtask'[v] \notin Range(ess[u])
        BY <1>0, <1>5, <2>5 DEF OwnersApart
      <4>2. \A v \in Workers : wtask'[v] # c
        BY <1>5, <1>9, <2>1
      <4> QED
        BY <3>0, <4>1, <4>2
    <3> QED
      BY <1>0, <1>4, <3>1, <3>2, <3>3, <3>4 DEF OwnersApart
  <2>7. \A u \in Tasks : Held(u)' <=> (Held(u) /\ u # t) \/ u = c
    <3>1. /\ \A v \in Workers : t \notin Range(ess[v])
          /\ \A g \in Groups : t \notin Range(queue[g])
          /\ wtask[w] = t
      BY <1>0 DEF OwnersApart, t
    <3> QED
      BY <1>4, <1>5, <2>2, <2>3, <3>1, NoTaskAssumption, ZenonT(30) DEF Held
  <2>8. destroyed'[c] = 0 /\ runs'[c] = 0
    BY <1>0, <1>1, <1>3, <1>6, <1>9, <2>0 DEF OutcomeCounts
  <2>9. OutcomeCounts'
    BY <1>0, <1>1, <1>2, <1>6, <1>7, <1>9, <2>0, <2>7, <2>8 DEF OutcomeCounts
  <2> QED
    BY <1>0, <1>6, <1>7, <1>9, <2>0, <2>3, <2>4, <2>6, <2>9 DEF Ledger
<1> QED
  BY <1>4, <1>8, <1>9

(* The variables that say who has which task, in range. *)
LedgerOK ==
  /\ Ledger
  /\ queue \in [Groups -> Seq(Tasks)] /\ ess \in [Workers -> Seq(Tasks)]
  /\ wtask \in [Workers -> Tasks \cup {NoTask}] /\ accepted \in SUBSET Tasks
  /\ runs \in [Tasks -> Nat] /\ destroyed \in [Tasks -> Nat]

(* A worker under its group's lock. *)
LEMMA TakeKeeps ==
  ASSUME TypeOK, Ledger, NEW w \in Workers, wtask[w] = NoTask, Take(w),
         UNCHANGED <<accepted, runs, destroyed>>
  PROVE  LedgerOK'
<1> USE GroupOfAssumption
<1>1. CASE ess[w] # << >>
  <2>1. /\ wtask' = [wtask EXCEPT ![w] = Head(ess[w])] /\ queue' = queue
        /\ ess' = [ess EXCEPT ![w] = Tail(@)]
    BY <1>1 DEF Take
  <2>2. Ledger' /\ ess' \in [Workers -> Seq(Tasks)] /\ Head(ess[w]) \in Tasks
    BY <1>1, <2>1, PopEssential
  <2> QED
    BY <2>1, <2>2 DEF LedgerOK, TypeOK
<1>2. CASE ess[w] = << >>
  <2>1. /\ wtask' = [wtask EXCEPT ![w] = Head(queue[GroupOf[w]])] /\ ess' = ess
        /\ queue' = [queue EXCEPT ![GroupOf[w]] = Tail(@)] /\ queue[GroupOf[w]] # << >>
    BY <1>2 DEF Take, HasTask
  <2>2. /\ Ledger' /\ queue' \in [Groups -> Seq(Tasks)] /\ Head(queue[GroupOf[w]]) \in Tasks
    BY <2>1, PopQueue
  <2> QED
    BY <2>1, <2>2 DEF LedgerOK, TypeOK
<1> QED
  BY <1>1, <1>2

(* Every step keeps the ledger. *)
LEMMA LedgerStep ==
  ASSUME IndInv, [Next]_vars
  PROVE  LedgerOK'
<1> USE DEF wvars, avars, svars
<1>0. TypeOK /\ Ledger /\ NotYetOwned /\ WorkerInv /\ LedgerOK
  BY DEF IndInv, Ledger, LedgerOK, TypeOK
<1>a. ASSUME UNCHANGED <<queue, ess, wtask, accepted, runs, destroyed>> PROVE LedgerOK'
  BY <1>0, <1>a, NoMove DEF LedgerOK
<1>1. ASSUME NEW w \in Workers, Look(w) \/ Recheck(w) PROVE LedgerOK'
  <2>1. wtask[w] = NoTask /\ UNCHANGED <<accepted, runs, destroyed>>
    BY <1>0, <1>1 DEF Look, Recheck, WorkerInv
  <2>2. Take(w) \/ UNCHANGED <<queue, ess, wtask>>
    BY <1>1 DEF Look, Recheck, Exit, GoStealing, Sleep
  <2> QED
    BY <1>0, <1>a, <2>1, <2>2, TakeKeeps
<1>2. ASSUME NEW w \in Workers, NEW g \in Groups, StealFrom(w, g) PROVE LedgerOK'
  <2>1. /\ wtask[w] = NoTask /\ queue[g] # << >>
        /\ wtask' = [wtask EXCEPT ![w] = Head(queue[g])]
        /\ queue' = [queue EXCEPT ![g] = Tail(@)]
        /\ UNCHANGED <<ess, accepted, runs, destroyed>>
    BY <1>0, <1>2 DEF StealFrom, WorkerInv
  <2>2. Ledger' /\ queue' \in [Groups -> Seq(Tasks)] /\ Head(queue[g]) \in Tasks
    BY <1>0, <2>1, PopQueue
  <2> QED
    BY <1>0, <2>1, <2>2 DEF LedgerOK
<1>3. ASSUME NEW w \in Workers, StealNothing(w) \/ Run(w) \/ AfterRun(w) PROVE LedgerOK'
  BY <1>a, <1>3 DEF StealNothing, Run, AfterRun
<1>4. ASSUME NEW w \in Workers, FinishRun(w) PROVE LedgerOK'
  <2>1. wtask[w] # NoTask /\ queue' = queue /\ wtask' = [wtask EXCEPT ![w] = NoTask]
    BY <1>0, <1>4 DEF FinishRun, WorkerInv
  <2> QED
    BY <1>0, <1>4, <2>1, FinishKeeps DEF LedgerOK
<1>5. ASSUME NEW a \in Adders, Push(a) PROVE LedgerOK'
  <2>1. /\ agroup[a] \in Groups /\ atask[a] \in Tasks
        /\ atask[a] \notin accepted /\ destroyed[atask[a]] = 0
    BY <1>0, <1>5 DEF Push, NotYetOwned, TypeOK
  <2>2. CASE /\ queue' = [queue EXCEPT ![agroup[a]] = Append(@, atask[a])]
             /\ accepted' = accepted \cup {atask[a]}
             /\ UNCHANGED <<ess, wtask, runs, destroyed>>
    BY <1>0, <2>1, <2>2, PushQueue DEF LedgerOK
  <2>3. CASE /\ destroyed' = [destroyed EXCEPT ![atask[a]] = @ + 1]
             /\ UNCHANGED <<queue, ess, wtask, accepted, runs>>
    BY <1>0, <2>1, <2>3, Refused DEF LedgerOK
  <2> QED
    BY <1>5, <2>2, <2>3 DEF Push, Destroy
<1>6. ASSUME NEW a \in Adders, NEW t \in Tasks, NEW g \in Groups, Submit(a, t, g) PROVE LedgerOK'
  <2>1. CASE destroyed' = destroyed
    BY <1>6, <1>a, <2>1 DEF Submit
  <2>2. CASE destroyed' = [destroyed EXCEPT ![t] = @ + 1]
    <3>1. t \notin accepted /\ UNCHANGED <<queue, ess, wtask, accepted, runs>>
      BY <1>6 DEF Submit
    <3> QED
      BY <1>0, <2>2, <3>1, Refused DEF LedgerOK
  <2> QED
    BY <1>6, <2>1, <2>2 DEF Submit, Destroy
<1>7. CASE \/ \E a \in Adders : PushToDeleted(a)
           \/ WaitForAllDone \/ SetGroupStop \/ NotifyStopped \/ JoinGroup \/ Stop
           \/ \E g \in Groups : SpuriousWakeup(g)
  BY <1>a, <1>7 DEF PushToDeleted, WaitForAllDone, SetGroupStop, NotifyStopped, JoinGroup,
                    Stop, SpuriousWakeup
<1>8. CASE UNCHANGED vars
  BY <1>a, <1>8 DEF vars
<1> QED
  BY <1>1, <1>2, <1>3, <1>4, <1>5, <1>6, <1>7, <1>8 DEF Next, WorkerStep, PushStep, StopStep

-----------------------------------------------------------------------------
(* Tasks on their way in stay out of everybody's hands. *)
LEMMA NotYetStep ==
  ASSUME IndInv, [Next]_vars
  PROVE  NotYetOwned'
<1> USE DEF wvars, avars, svars
<1>0. TypeOK /\ NotYetOwned /\ WorkerInv /\ OutcomeCounts
  BY DEF IndInv
<1>a. \A t \in Tasks : Child[t] # NoTask => Child[t] \in Children /\ Child[t] \in Tasks
  BY ChildAssumption DEF Children
<1>b. ASSUME UNCHANGED <<avars, accepted, runs, destroyed>> PROVE NotYetOwned'
  BY <1>0, <1>b DEF NotYetOwned
<1>1. ASSUME NEW w \in Workers, FinishRun(w) PROVE NotYetOwned'
  <2> DEFINE t == wtask[w]
             c == Child[t]
  <2>1. t \in Tasks /\ Held(t) /\ t \in accepted /\ runs[t] = 0
    BY <1>0, <1>1 DEF FinishRun, WorkerInv, TypeOK, Held, OutcomeCounts
  <2>2. c # NoTask => c \in Children /\ c \in Tasks
    BY <1>a, <2>1
  <2> HIDE DEF t, c
  <2>3. /\ runs' = [runs EXCEPT ![t] = @ + 1] /\ UNCHANGED avars
        /\ accepted' = accepted \/ (c # NoTask /\ accepted' = accepted \cup {c})
        /\ \/ destroyed' = [destroyed EXCEPT ![t] = @ + 1]
           \/ c # NoTask /\ destroyed' = [destroyed EXCEPT ![t] = @ + 1, ![c] = @ + 1]
    BY <1>1 DEF FinishRun, Destroy, t, c
  <2>4. /\ runs'[t] = runs[t] + 1 /\ \A u \in Tasks : u # t => runs'[u] = runs[u]
        /\ \A u \in Tasks : u # t /\ u # c => destroyed'[u] = destroyed[u]
    BY <1>0, <2>1, <2>2, <2>3 DEF TypeOK
  <2>5. ASSUME NEW a \in Adders
        PROVE  /\ apc'[a] = "adding" => atask'[a] # NoTask
               /\ atask'[a] # NoTask => /\ atask'[a] \notin accepted' \cup Children
                                        /\ destroyed'[atask'[a]] = 0
                                        /\ \A b \in Adders : b # a => atask'[b] # atask'[a]
    <3>0. UNCHANGED <<apc, atask>>
      BY <2>3
    <3>1. CASE atask[a] = NoTask
      BY <1>0, <3>0, <3>1 DEF NotYetOwned
    <3>2. CASE atask[a] # NoTask
      <4>1. /\ atask[a] \in Tasks /\ atask[a] \notin accepted \cup Children /\ destroyed[atask[a]] = 0
            /\ \A b \in Adders : b # a => atask[b] # atask[a]
        BY <1>0, <3>2 DEF NotYetOwned, TypeOK
      <4>2. atask[a] # t
        BY <2>1, <4>1
      <4>3. c # NoTask => atask[a] # c
        BY <2>2, <4>1
      <4>4. atask[a] # c
        BY <3>2, <4>3
      <4>5. atask[a] \notin accepted'
        BY <2>3, <4>1, <4>4
      <4> QED
        BY <2>4, <3>0, <3>2, <4>1, <4>2, <4>4, <4>5
    <3> QED
      BY <3>1, <3>2
  <2>6. ASSUME NEW u \in Tasks, Child[u] # NoTask,
               Child[u] \in accepted' \/ destroyed'[Child[u]] # 0
        PROVE  runs'[u] # 0
    <3>1. CASE u = t
      BY <2>1, <2>4, <3>1
    <3>2. CASE u # t
      <4>1. Child[u] # c
        BY <2>1, <2>6, <3>2, OneParentAssumption DEF c
      <4>2. Child[u] \in accepted \/ destroyed[Child[u]] # 0
        <5>1. CASE Child[u] = t
          BY <2>1, <5>1
        <5>2. CASE Child[u] # t
          BY <1>a, <2>3, <2>4, <2>6, <4>1, <5>2
        <5> QED
          BY <5>1, <5>2
      <4>3. runs[u] # 0
        BY <1>0, <2>6, <4>2 DEF NotYetOwned
      <4> QED
        BY <2>4, <3>2, <4>3
    <3> QED
      BY <3>1, <3>2
  <2> QED
    BY <2>5, <2>6 DEF NotYetOwned
<1>2. ASSUME NEW a \in Adders, Push(a) PROVE NotYetOwned'
  <2> DEFINE t == atask[a]
  <2>1. t \in Tasks /\ t \notin Children /\ \A b \in Adders : b # a => atask[b] # t
    BY <1>0, <1>2 DEF Push, NotYetOwned, TypeOK
  <2> HIDE DEF t
  <2>2. /\ accepted' \in {accepted, accepted \cup {t}} /\ runs' = runs
        /\ destroyed' = destroyed \/ destroyed' = [destroyed EXCEPT ![t] = @ + 1]
        /\ apc' = [apc EXCEPT ![a] = "idle"] /\ atask' = [atask EXCEPT ![a] = NoTask]
    BY <1>2 DEF Push, Destroy, t
  <2>3. /\ \A u \in Tasks : u # t => destroyed'[u] = destroyed[u]
        /\ apc'[a] = "idle" /\ atask'[a] = NoTask
        /\ \A b \in Adders : b # a => apc'[b] = apc[b] /\ atask'[b] = atask[b]
    BY <1>0, <2>1, <2>2 DEF TypeOK
  <2>4. \A u \in Tasks : Child[u] # NoTask => Child[u] # t /\ destroyed'[Child[u]] = destroyed[Child[u]]
    BY <1>a, <2>1, <2>3
  <2>5. \A b \in Adders : b # a /\ atask[b] # NoTask => destroyed'[atask[b]] = destroyed[atask[b]]
    BY <1>0, <2>1, <2>3 DEF TypeOK
  <2>6. ASSUME NEW b \in Adders
        PROVE  /\ apc'[b] = "adding" => atask'[b] # NoTask
               /\ atask'[b] # NoTask => /\ atask'[b] \notin accepted' \cup Children
                                        /\ destroyed'[atask'[b]] = 0
                                        /\ \A d \in Adders : d # b => atask'[d] # atask'[b]
    <3>1. CASE b = a
      BY <2>3, <3>1
    <3>2. CASE b # a
      BY <1>0, <2>1, <2>2, <2>3, <2>5, <3>2 DEF NotYetOwned
    <3> QED
      BY <3>1, <3>2
  <2>7. ASSUME NEW u \in Tasks, Child[u] # NoTask,
               Child[u] \in accepted' \/ destroyed'[Child[u]] # 0
        PROVE  runs'[u] # 0
    BY <1>0, <2>2, <2>4, <2>7 DEF NotYetOwned
  <2> QED
    BY <2>6, <2>7 DEF NotYetOwned
<1>3. ASSUME NEW a \in Adders, NEW t \in Tasks, NEW g \in Groups, Submit(a, t, g) PROVE NotYetOwned'
  <2>1. /\ t \notin Children \cup accepted /\ destroyed[t] = 0 /\ \A b \in Adders : atask[b] # t
        /\ UNCHANGED <<accepted, runs>>
    BY <1>3 DEF Submit
  <2>2. CASE pool_stop
    <3>1. destroyed' = [destroyed EXCEPT ![t] = @ + 1] /\ UNCHANGED avars
      BY <1>3, <2>2 DEF Submit, Destroy
    <3>2. \A u \in Tasks : u # t => destroyed'[u] = destroyed[u]
      BY <1>0, <3>1 DEF TypeOK
    <3>3. /\ \A u \in Tasks : Child[u] # NoTask => destroyed'[Child[u]] = destroyed[Child[u]]
          /\ \A b \in Adders : atask[b] # NoTask => destroyed'[atask[b]] = destroyed[atask[b]]
      BY <1>0, <1>a, <2>1, <3>2 DEF TypeOK
    <3> QED
      BY <1>0, <2>1, <3>1, <3>3 DEF NotYetOwned
  <2>3. CASE ~pool_stop
    <3>1. /\ apc' = [apc EXCEPT ![a] = "adding"] /\ atask' = [atask EXCEPT ![a] = t]
          /\ destroyed' = destroyed /\ apc[a] = "idle"
      BY <1>3, <2>3 DEF Submit
    <3>2. /\ apc'[a] = "adding" /\ atask'[a] = t /\ t # NoTask
          /\ \A b \in Adders : b # a => apc'[b] = apc[b] /\ atask'[b] = atask[b]
      BY <1>0, <3>1, NoTaskAssumption DEF TypeOK
    <3>3. ASSUME NEW b \in Adders
          PROVE  /\ apc'[b] = "adding" => atask'[b] # NoTask
                 /\ atask'[b] # NoTask => /\ atask'[b] \notin accepted' \cup Children
                                          /\ destroyed'[atask'[b]] = 0
                                          /\ \A d \in Adders : d # b => atask'[d] # atask'[b]
      BY <1>0, <2>1, <3>1, <3>2 DEF NotYetOwned
    <3> QED
      BY <1>0, <2>1, <3>1, <3>3 DEF NotYetOwned
  <2> QED
    BY <2>2, <2>3
<1>4. ASSUME NEW a \in Adders, PushToDeleted(a) PROVE NotYetOwned'
  <2>1. /\ UNCHANGED <<atask, accepted, runs, destroyed>>
        /\ \A b \in Adders : apc'[b] = "adding" => apc[b] = "adding"
    BY <1>0, <1>4 DEF PushToDeleted, TypeOK
  <2> QED
    BY <1>0, <2>1 DEF NotYetOwned
<1>5. ASSUME NEW w \in Workers,
             \/ Look(w) \/ StealNothing(w) \/ Recheck(w) \/ Run(w) \/ AfterRun(w)
             \/ \E g \in Groups : StealFrom(w, g)
      PROVE  NotYetOwned'
  BY <1>b, <1>5 DEF Look, StealNothing, Recheck, Run, AfterRun, StealFrom
<1>6. CASE \/ WaitForAllDone \/ SetGroupStop \/ NotifyStopped \/ JoinGroup \/ Stop
           \/ \E g \in Groups : SpuriousWakeup(g)
  BY <1>b, <1>6 DEF WaitForAllDone, SetGroupStop, NotifyStopped, JoinGroup, Stop, SpuriousWakeup
<1>7. CASE UNCHANGED vars
  BY <1>b, <1>7 DEF vars
<1> QED
  BY <1>1, <1>2, <1>3, <1>4, <1>5, <1>6, <1>7 DEF Next, WorkerStep, PushStep, StopStep

-----------------------------------------------------------------------------
(* The workers. *)

Running(g) == {w \in Workers : GroupOf[w] = g /\ wpc[w] = "running"}

(* _busy goes up and down with the workers that run a task. *)
LEMMA WorkerInvStep ==
  ASSUME IndInv, [Next]_vars
  PROVE  WorkerInv' /\ busy' \in [Groups -> Nat]
<1> USE GroupOfAssumption, WorkersAssumption DEF wvars, avars, svars
<1>0. TypeOK /\ WorkerInv /\ LedgerOK
  BY DEF IndInv, Ledger, LedgerOK, TypeOK
<1>a. \A g \in Groups : IsFiniteSet(Running(g)) /\ busy[g] = Cardinality(Running(g)) /\ busy[g] \in Nat
  <2>1. \A g \in Groups : Running(g) \in SUBSET Workers
    BY DEF Running
  <2> QED
    BY <1>0, <2>1, FS_Subset DEF WorkerInv, TypeOK, Running
<1>b. ASSUME busy' = busy, \A g \in Groups : Running(g)' = Running(g)
      PROVE  /\ \A g \in Groups : busy'[g] = Cardinality(Running(g)')
             /\ busy' \in [Groups -> Nat]
  BY <1>0, <1>a, <1>b DEF TypeOK
<1>c. ASSUME \A w \in Workers : wtask'[w] # NoTask <=> wpc'[w] \in {"run", "running"},
             \A g \in Groups : busy'[g] = Cardinality(Running(g)'),
             busy' \in [Groups -> Nat]
      PROVE  WorkerInv' /\ busy' \in [Groups -> Nat]
  BY <1>c DEF WorkerInv, Running
<1>d. ASSUME UNCHANGED <<wpc, wtask, busy>> PROVE WorkerInv' /\ busy' \in [Groups -> Nat]
  BY <1>0, <1>d DEF WorkerInv, TypeOK
<1>1. ASSUME NEW w \in Workers, Look(w) \/ Recheck(w) \/ StealNothing(w) \/ AfterRun(w)
                                \/ \E g \in Groups : StealFrom(w, g)
      PROVE  WorkerInv' /\ busy' \in [Groups -> Nat]
  <2>1. /\ wpc[w] \notin {"run", "running"} /\ busy' = busy
        /\ \/ /\ wpc' = [wpc EXCEPT ![w] = "run"]
              /\ \/ ess[w] # << >> /\ wtask' = [wtask EXCEPT ![w] = Head(ess[w])]
                 \/ \E g \in Groups : queue[g] # << >> /\ wtask' = [wtask EXCEPT ![w] = Head(queue[g])]
           \/ /\ \E to \in {"exited", "wait", "steal", "relock", "top"} : wpc' = [wpc EXCEPT ![w] = to]
              /\ wtask' = wtask
    BY <1>1 DEF Look, Recheck, StealNothing, AfterRun, StealFrom, Take, Exit, GoStealing, Sleep,
                GotoW, HasTask
  <2>2. /\ wpc'[w] # "running" /\ \A v \in Workers : v # w => wpc'[v] = wpc[v]
    BY <1>0, <2>1 DEF TypeOK
  <2>3. \A g \in Groups : Running(g)' = Running(g)
    BY <2>1, <2>2 DEF Running
  <2>4. \A v \in Workers : wtask'[v] # NoTask <=> wpc'[v] \in {"run", "running"}
    <3>1. CASE wpc' = [wpc EXCEPT ![w] = "run"]
      <4>0. ASSUME NEW q \in Seq(Tasks), q # << >> PROVE Head(q) # NoTask
        BY <4>0, NoTaskAssumption, HeadTailProperties
      <4>1. \E h : h # NoTask /\ wtask' = [wtask EXCEPT ![w] = h]
        <5>1. wtask' # wtask \/ wtask' = wtask
          OBVIOUS
        <5>2. "run" \notin {"exited", "wait", "steal", "relock", "top"}
          OBVIOUS
        <5>3. wpc'[w] = "run"
          BY <1>0, <3>1 DEF TypeOK
        <5>4. ASSUME NEW to \in {"exited", "wait", "steal", "relock", "top"}, wpc' = [wpc EXCEPT ![w] = to]
              PROVE  FALSE
          BY <1>0, <5>2, <5>3, <5>4 DEF TypeOK
        <5>5. \/ ess[w] # << >> /\ wtask' = [wtask EXCEPT ![w] = Head(ess[w])]
              \/ \E g \in Groups : queue[g] # << >> /\ wtask' = [wtask EXCEPT ![w] = Head(queue[g])]
          BY <2>1, <5>4
        <5> QED
          BY <1>0, <4>0, <5>5 DEF TypeOK
      <4> QED
        BY <1>0, <2>2, <3>1, <4>1 DEF TypeOK, WorkerInv
    <3>2. CASE /\ \E to \in {"exited", "wait", "steal", "relock", "top"} : wpc' = [wpc EXCEPT ![w] = to]
               /\ wtask' = wtask
      BY <1>0, <2>1, <2>2, <3>2 DEF TypeOK, WorkerInv
    <3> QED
      BY <2>1, <3>1, <3>2
  <2> QED
    BY <1>b, <1>c, <2>1, <2>3, <2>4
<1>2. ASSUME NEW w \in Workers, Run(w) PROVE WorkerInv' /\ busy' \in [Groups -> Nat]
  <2> DEFINE k == GroupOf[w]
  <2>0. k \in Groups
    OBVIOUS
  <2>1. /\ wpc[w] = "run" /\ wpc' = [wpc EXCEPT ![w] = "running"] /\ wtask' = wtask
        /\ busy' = [busy EXCEPT ![k] = @ + 1]
    BY <1>2 DEF Run, GotoW
  <2>2. /\ wpc'[w] = "running" /\ \A v \in Workers : v # w => wpc'[v] = wpc[v]
        /\ \A v \in Workers : wtask'[v] # NoTask <=> wpc'[v] \in {"run", "running"}
    BY <1>0, <2>1 DEF TypeOK, WorkerInv
  <2>3. /\ w \notin Running(k) /\ Running(k)' = Running(k) \cup {w}
        /\ \A g \in Groups : g # k => Running(g)' = Running(g)
    BY <2>1, <2>2 DEF Running
  <2>4. Cardinality(Running(k)') = Cardinality(Running(k)) + 1
    BY <1>a, <2>0, <2>3, FS_AddElement
  <2>5. busy' \in [Groups -> Nat] /\ \A g \in Groups : busy'[g] = Cardinality(Running(g)')
    <3> HIDE DEF k
    <3>1. busy'[k] = busy[k] + 1 /\ \A g \in Groups : g # k => busy'[g] = busy[g]
      BY <1>0, <2>0, <2>1 DEF TypeOK
    <3>2. \A g \in Groups : busy'[g] = Cardinality(Running(g)') /\ busy'[g] \in Nat
      <4>1. busy'[k] = Cardinality(Running(k)') /\ busy'[k] \in Nat
        BY <1>a, <2>0, <2>4, <3>1
      <4>2. \A g \in Groups : g # k => busy'[g] = Cardinality(Running(g)') /\ busy'[g] \in Nat
        BY <1>a, <2>3, <3>1
      <4> QED
        BY <4>1, <4>2
    <3>3. busy' = [g \in Groups |-> busy'[g]]
      BY <1>0, <2>1 DEF TypeOK
    <3> QED
      BY <3>2, <3>3
  <2> QED
    BY <1>c, <2>2, <2>5
<1>3. ASSUME NEW w \in Workers, FinishRun(w) PROVE WorkerInv' /\ busy' \in [Groups -> Nat]
  <2> DEFINE k == GroupOf[w]
  <2>0. k \in Groups
    OBVIOUS
  <2>1. /\ wpc[w] = "running" /\ wpc' = [wpc EXCEPT ![w] = "after"]
        /\ wtask' = [wtask EXCEPT ![w] = NoTask] /\ busy' = [busy EXCEPT ![k] = @ - 1]
    BY <1>3 DEF FinishRun, GotoW
  <2>2. /\ wpc'[w] = "after" /\ \A v \in Workers : v # w => wpc'[v] = wpc[v]
        /\ \A v \in Workers : wtask'[v] # NoTask <=> wpc'[v] \in {"run", "running"}
    BY <1>0, <2>1 DEF TypeOK, WorkerInv
  <2>3. /\ w \in Running(k) /\ Running(k)' = Running(k) \ {w}
        /\ \A g \in Groups : g # k => Running(g)' = Running(g)
    BY <2>1, <2>2 DEF Running
  <2>4. /\ Cardinality(Running(k)') = Cardinality(Running(k)) - 1
        /\ Cardinality(Running(k)') \in Nat
    BY <1>a, <2>0, <2>3, FS_RemoveElement, FS_CardinalityType
  <2>5. busy' \in [Groups -> Nat] /\ \A g \in Groups : busy'[g] = Cardinality(Running(g)')
    <3> HIDE DEF k
    <3>1. busy'[k] = busy[k] - 1 /\ \A g \in Groups : g # k => busy'[g] = busy[g]
      BY <1>0, <2>0, <2>1 DEF TypeOK
    <3>2. \A g \in Groups : busy'[g] = Cardinality(Running(g)') /\ busy'[g] \in Nat
      <4>1. busy'[k] = Cardinality(Running(k)') /\ busy'[k] \in Nat
        BY <1>a, <2>0, <2>4, <3>1
      <4>2. \A g \in Groups : g # k => busy'[g] = Cardinality(Running(g)') /\ busy'[g] \in Nat
        BY <1>a, <2>3, <3>1
      <4> QED
        BY <4>1, <4>2
    <3>3. busy' = [g \in Groups |-> busy'[g]]
      BY <1>0, <2>1 DEF TypeOK
    <3> QED
      BY <3>2, <3>3
  <2> QED
    BY <1>c, <2>2, <2>5
<1>4. CASE \/ \E a \in Adders : Push(a) \/ PushToDeleted(a)
           \/ \E a \in Adders, t \in Tasks, g \in Groups : Submit(a, t, g)
           \/ WaitForAllDone \/ SetGroupStop \/ NotifyStopped \/ JoinGroup \/ Stop
           \/ \E g \in Groups : SpuriousWakeup(g)
  BY <1>d, <1>4 DEF Push, PushToDeleted, Submit, WaitForAllDone, SetGroupStop, NotifyStopped,
                    JoinGroup, Stop, SpuriousWakeup
<1>5. CASE UNCHANGED vars
  BY <1>d, <1>5 DEF vars
<1> QED
  BY <1>1, <1>2, <1>3, <1>4, <1>5 DEF Next, WorkerStep, PushStep, StopStep

(* Every step keeps the variables in range. *)
LEMMA TypeStep ==
  ASSUME IndInv, [Next]_vars
  PROVE  TypeOK'
<1> USE DEF wvars, avars, svars
<1>0. TypeOK
  BY DEF IndInv
<1>1. /\ queue' \in [Groups -> Seq(Tasks)] /\ ess' \in [Workers -> Seq(Tasks)]
      /\ wtask' \in [Workers -> Tasks \cup {NoTask}] /\ accepted' \in SUBSET Tasks
      /\ runs' \in [Tasks -> Nat] /\ destroyed' \in [Tasks -> Nat]
      /\ busy' \in [Groups -> Nat]
  BY LedgerStep, WorkerInvStep DEF LedgerOK
<1> DEFINE StopOK == /\ gstop \in [Groups -> BOOLEAN] /\ alive \in [Groups -> BOOLEAN]
                     /\ pool_stop \in BOOLEAN /\ sg \in Groups
                     /\ spc \in {"idle", "drain", "wait", "destroy", "notify", "join", "done"}
           AdderOK == /\ apc \in [Adders -> {"idle", "adding", "undefined"}]
                      /\ atask \in [Adders -> Tasks \cup {NoTask}]
                      /\ agroup \in [Adders -> Groups]
           WaitOK == /\ cond \in [Groups -> SUBSET (Workers \cup {Stopper})]
                     /\ wpc \in [Workers -> {"top", "steal", "relock", "wait", "run", "running",
                                             "after", "exited"}]
<1>a. StopOK /\ AdderOK /\ WaitOK /\ is_steal \in Steals
  BY <1>0 DEF TypeOK
<1>2. is_steal' \in Steals
  BY <1>a DEF Next, WorkerStep, PushStep, StopStep, vars
<1> SUFFICES StopOK' /\ AdderOK' /\ WaitOK'
  BY <1>1, <1>2 DEF TypeOK
<1>b. ASSUME NEW g \in Groups, NotifyOne(g) \/ NotifyAll(g)
      PROVE  cond' \in [Groups -> SUBSET (Workers \cup {Stopper})]
  BY <1>a, <1>b DEF NotifyOne, NotifyAll
<1>3. ASSUME NEW w \in Workers, WorkerStep(w) PROVE StopOK' /\ AdderOK' /\ WaitOK'
  <2>1. UNCHANGED <<svars, avars>>
    BY <1>3 DEF WorkerStep, Look, StealFrom, StealNothing, Recheck, Run, FinishRun, AfterRun
  <2>2. wpc' \in [Workers -> {"top", "steal", "relock", "wait", "run", "running", "after",
                              "exited"}]
    BY <1>a, <1>3 DEF WorkerStep, Look, StealFrom, StealNothing, Recheck, Run, FinishRun, AfterRun,
                      Take, Exit, Sleep, GoStealing, GotoW
  <2>3. \/ cond' = cond
        \/ cond' = [cond EXCEPT ![GroupOf[w]] = @ \cup {w}]
        \/ \E g \in Groups : NotifyOne(g) \/ NotifyAll(g)
    BY <1>3, GroupOfAssumption
       DEF WorkerStep, Look, StealFrom, StealNothing, Recheck, Run, FinishRun, AfterRun,
           Take, Exit, Sleep, GoStealing
  <2>4. cond' \in [Groups -> SUBSET (Workers \cup {Stopper})]
    BY <1>a, <1>b, <2>3
  <2> QED
    BY <1>a, <2>1, <2>2, <2>4
<1>4. ASSUME NEW a \in Adders, PushStep(a) PROVE StopOK' /\ AdderOK' /\ WaitOK'
  <2>1. UNCHANGED <<svars, wpc>>
    BY <1>4 DEF PushStep, Push, PushToDeleted
  <2>2. AdderOK'
    BY <1>a, <1>4 DEF PushStep, Push, PushToDeleted
  <2>3. cond' = cond \/ NotifyOne(agroup[a])
    BY <1>4 DEF PushStep, Push, PushToDeleted
  <2>4. agroup[a] \in Groups
    BY <1>a
  <2> QED
    BY <1>a, <1>b, <2>1, <2>2, <2>3, <2>4
<1>5. CASE StopStep
  <2>1. UNCHANGED <<avars, wpc>>
    BY <1>5 DEF StopStep, WaitForAllDone, SetGroupStop, NotifyStopped, JoinGroup
  <2>2. \/ cond' = cond \/ NotifyAll(sg)
        \/ cond' = [cond EXCEPT ![sg] = @ \cup {Stopper}]
    BY <1>5 DEF StopStep, WaitForAllDone, SetGroupStop, NotifyStopped, JoinGroup
  <2>3. cond' \in [Groups -> SUBSET (Workers \cup {Stopper})]
    BY <1>a, <1>b, <2>2
  <2>4. sg' \in Groups
    <3>1. sg' = sg \/ (sg + 1 < NGroups /\ sg' = sg + 1)
      BY <1>5 DEF StopStep, WaitForAllDone, SetGroupStop, NotifyStopped, JoinGroup
    <3> QED
      BY <1>a, <3>1, NGroupsAssumption DEF Groups
  <2>5. /\ gstop' \in [Groups -> BOOLEAN] /\ alive' \in [Groups -> BOOLEAN] /\ pool_stop' = pool_stop
        /\ spc' \in {"idle", "drain", "wait", "destroy", "notify", "join", "done"}
    BY <1>a, <1>5 DEF StopStep, WaitForAllDone, SetGroupStop, NotifyStopped, JoinGroup
  <2> QED
    BY <1>a, <2>1, <2>3, <2>4, <2>5
<1>6. ASSUME NEW a \in Adders, NEW t \in Tasks, NEW g \in Groups, Submit(a, t, g)
      PROVE  StopOK' /\ AdderOK' /\ WaitOK'
  <2>1. UNCHANGED <<svars, wpc, cond>>
    BY <1>6 DEF Submit
  <2>2. AdderOK'
    BY <1>a, <1>6 DEF Submit
  <2> QED
    BY <1>a, <2>1, <2>2
<1>7. CASE Stop
  BY <1>a, <1>7 DEF Stop
<1>8. ASSUME NEW g \in Groups, SpuriousWakeup(g) PROVE StopOK' /\ AdderOK' /\ WaitOK'
  BY <1>a, <1>b, <1>8 DEF SpuriousWakeup, NotifyOne
<1>9. CASE UNCHANGED vars
  BY <1>a, <1>9 DEF vars
<1> HIDE DEF StopOK, AdderOK, WaitOK
<1> QED
  BY <1>3, <1>4, <1>5, <1>6, <1>7, <1>8, <1>9 DEF Next

(* A worker that has ended leaves nothing behind, and nothing is queued for    *)
(* it afterwards.                                                              *)
LEMMA StopInvStep ==
  ASSUME IndInv, [Next]_vars
  PROVE  StopInv'
<1> USE GroupOfAssumption, NGroupsAssumption DEF wvars, avars, svars
<1>0. TypeOK /\ StopInv /\ WorkerInv
  BY DEF IndInv
<1>a. ASSUME UNCHANGED <<queue, ess, wpc, gstop, sg, spc>> PROVE StopInv'
  BY <1>0, <1>a DEF StopInv
<1>1. ASSUME NEW w \in Workers, WorkerStep(w) PROVE StopInv'
  <2>1. UNCHANGED <<gstop, sg, spc>>
    BY <1>1 DEF WorkerStep, Look, StealFrom, StealNothing, Recheck, Run, FinishRun, AfterRun
  <2>2. /\ wpc[w] # "exited" /\ \A v \in Workers : v # w => wpc'[v] = wpc[v]
        /\ wpc'[w] = "exited" => Exit(w)
    BY <1>0, <1>1 DEF TypeOK, WorkerStep, Look, StealFrom, StealNothing, Recheck, Run, FinishRun,
                      AfterRun, Take, Exit, Sleep, GoStealing, GotoW
  <2>3. \A v \in Workers : v # w => ess'[v] = ess[v]
    BY <1>0, <1>1 DEF TypeOK, WorkerStep, Look, StealFrom, StealNothing, Recheck, Run, FinishRun,
                      AfterRun, Take, Exit, Sleep, GoStealing
  <2>4. \A g \in Groups : queue[g] = << >> => queue'[g] = << >>
    <3>1. \/ queue' = queue
          \/ \E g \in Groups : queue[g] # << >> /\ queue' = [queue EXCEPT ![g] = Tail(@)]
      BY <1>1 DEF WorkerStep, Look, StealFrom, StealNothing, Recheck, Run, FinishRun,
                  AfterRun, Take, Exit, Sleep, GoStealing, HasTask
    <3> QED
      BY <1>0, <3>1 DEF TypeOK
  <2>5. ASSUME NEW v \in Workers, wpc'[v] = "exited"
        PROVE  gstop'[GroupOf[v]] /\ ess'[v] = << >> /\ queue'[GroupOf[v]] = << >>
    <3>1. CASE v = w
      BY <2>1, <2>2, <2>5, <3>1 DEF Exit, HasTask
    <3>2. CASE v # w
      <4>1. wpc[v] = "exited"
        BY <2>2, <2>5, <3>2
      <4>2. gstop[GroupOf[v]] /\ ess[v] = << >> /\ queue[GroupOf[v]] = << >>
        BY <1>0, <4>1 DEF StopInv
      <4> QED
        BY <2>1, <2>3, <2>4, <3>2, <4>2
    <3> QED
      BY <3>1, <3>2
  <2>6. \A v \in Workers : GroupOf[v] < sg' \/ spc' = "done" => wpc'[v] = "exited"
    BY <1>0, <2>1, <2>2 DEF StopInv
  <2> QED
    BY <2>5, <2>6 DEF StopInv
<1>2. ASSUME NEW a \in Adders, PushStep(a) PROVE StopInv'
  <2>1. UNCHANGED <<ess, wpc, gstop, sg, spc>>
    BY <1>2 DEF PushStep, Push, PushToDeleted
  <2>2. agroup[a] \in Groups
    BY <1>0 DEF TypeOK
  <2>3. \/ queue' = queue
        \/ ~gstop[agroup[a]] /\ queue' = [queue EXCEPT ![agroup[a]] = Append(@, atask[a])]
    BY <1>2 DEF PushStep, Push, PushToDeleted
  <2>4. \A g \in Groups : gstop[g] => queue'[g] = queue[g]
    BY <1>0, <2>2, <2>3 DEF TypeOK
  <2> QED
    BY <1>0, <2>1, <2>4 DEF StopInv
<1>3. CASE SetGroupStop
  <2>1. /\ UNCHANGED <<queue, ess, wpc, sg>> /\ spc' = "notify"
        /\ \A g \in Groups : gstop[g] => gstop'[g]
    BY <1>0, <1>3 DEF SetGroupStop, TypeOK
  <2> QED
    BY <1>0, <2>1 DEF StopInv
<1>4. CASE JoinGroup
  <2>1. /\ UNCHANGED <<queue, ess, wpc, gstop>> /\ sg \in Groups
        /\ \A w \in Workers : GroupOf[w] = sg => wpc[w] = "exited"
        /\ \/ sg' = sg + 1 /\ spc' # "done"
           \/ ~(sg + 1 < NGroups) /\ sg' = sg
    BY <1>0, <1>4 DEF JoinGroup, TypeOK
  <2>2. \A w \in Workers : GroupOf[w] < sg' \/ spc' = "done" => GroupOf[w] < sg \/ GroupOf[w] = sg
    BY <2>1 DEF Groups
  <2> QED
    BY <1>0, <2>1, <2>2 DEF StopInv
<1>5. CASE Stop \/ WaitForAllDone \/ NotifyStopped
  <2>1. UNCHANGED <<queue, ess, wpc, gstop, sg>> /\ spc' # "done"
    BY <1>5 DEF Stop, WaitForAllDone, NotifyStopped
  <2> QED
    BY <1>0, <2>1 DEF StopInv
<1>6. CASE \/ \E a \in Adders, t \in Tasks, g \in Groups : Submit(a, t, g)
           \/ \E g \in Groups : SpuriousWakeup(g)
  BY <1>a, <1>6 DEF Submit, SpuriousWakeup
<1>7. CASE UNCHANGED vars
  BY <1>a, <1>7 DEF vars
<1> QED
  BY <1>1, <1>2, <1>3, <1>4, <1>5, <1>6, <1>7 DEF Next, StopStep

(* IndInv is kept by every step. *)
LEMMA IndInvStep == IndInv /\ [Next]_vars => IndInv'
  BY TypeStep, LedgerStep, NotYetStep, WorkerInvStep, StopInvStep DEF IndInv, LedgerOK, Ledger

-----------------------------------------------------------------------------
(* The places of Holders(t), spelt out. *)
LEMMA HoldersIs ==
  ASSUME NEW t
  PROVE  \A p : p \in Holders(t) <=>
           \/ \E g \in Groups : \E i \in InSeq(t, queue[g]) : p = <<"group", g, i>>
           \/ \E w \in Workers : \E i \in InSeq(t, ess[w]) : p = <<"worker", w, i>>
           \/ \E w \in Workers : wtask[w] = t /\ p = <<"run", w, 0>>
<1> DEFINE A == UNION {{<<"group", g, i>> : i \in InSeq(t, queue[g])} : g \in Groups}
           B == UNION {{<<"worker", w, i>> : i \in InSeq(t, ess[w])} : w \in Workers}
           C == {<<"run", w, 0>> : w \in {u \in Workers : wtask[u] = t}}
<1>1. \A p : p \in C <=> \E w \in Workers : wtask[w] = t /\ p = <<"run", w, 0>>
  BY Zenon
<1>2. \A p : p \in A <=> \E g \in Groups : \E i \in InSeq(t, queue[g]) : p = <<"group", g, i>>
  OBVIOUS
<1>3. \A p : p \in B <=> \E w \in Workers : \E i \in InSeq(t, ess[w]) : p = <<"worker", w, i>>
  OBVIOUS
<1>4. Holders(t) = A \cup B \cup C
  BY Zenon DEF Holders
<1> HIDE DEF A, B, C
<1>5. \A p : p \in Holders(t) <=> p \in A \/ p \in B \/ p \in C
  BY <1>4
<1> QED
  BY <1>1, <1>2, <1>3, <1>5, Zenon

(* Counting the places that have a task: one when it is Held, none otherwise. *)
LEMMA HoldersCounted ==
  ASSUME IndInv, NEW t \in Tasks
  PROVE  Cardinality(Holders(t)) = IF Held(t) THEN 1 ELSE 0
<1>0. TypeOK /\ QueuesInjective /\ OwnersApart /\ t # NoTask
  BY NoTaskAssumption DEF IndInv
<1>1. CASE ~Held(t)
  <2>1. Holders(t) = {}
    BY <1>1 DEF Holders, Held, InSeq, Range
  <2> QED
    BY <1>1, <2>1, FS_EmptySet
<1>2. ASSUME NEW g \in Groups, t \in Range(queue[g])
      PROVE  \E p : Holders(t) = {p}
  <2>1. PICK i \in DOMAIN queue[g] : queue[g][i] = t
    BY <1>2 DEF Range
  <2>2. \A h \in Groups : \A j \in DOMAIN queue[h] : queue[h][j] = t => h = g /\ j = i
    <3>1. \A h \in Groups : h # g => t \notin Range(queue[h])
      BY <1>0, <1>2 DEF OwnersApart
    <3> QED
      BY <1>0, <2>1, <3>1 DEF QueuesInjective, IsInjective, Range
  <2>3. \A w \in Workers : InSeq(t, ess[w]) = {} /\ wtask[w] # t
    BY <1>0, <1>2 DEF OwnersApart, InSeq, Range
  <2>4. \A p : p \in Holders(t) <=> p = <<"group", g, i>>
    <3>1. \A h \in Groups : \A j \in InSeq(t, queue[h]) : h = g /\ j = i
      BY <2>2 DEF InSeq
    <3>2. i \in InSeq(t, queue[g])
      BY <2>1 DEF InSeq
    <3> QED
      BY <2>3, <3>1, <3>2, HoldersIs
  <2>5. \A p : p \in Holders(t) <=> p \in {<<"group", g, i>>}
    BY <2>4
  <2> QED
    BY <2>5
<1>3. ASSUME NEW w \in Workers, t \in Range(ess[w])
      PROVE  \E p : Holders(t) = {p}
  <2>1. PICK i \in DOMAIN ess[w] : ess[w][i] = t
    BY <1>3 DEF Range
  <2>2. \A v \in Workers : \A j \in DOMAIN ess[v] : ess[v][j] = t => v = w /\ j = i
    <3>1. \A v \in Workers : v # w => t \notin Range(ess[v])
      BY <1>0, <1>3 DEF OwnersApart
    <3> QED
      BY <1>0, <2>1, <3>1 DEF QueuesInjective, IsInjective, Range
  <2>3. /\ \A g \in Groups : InSeq(t, queue[g]) = {}
        /\ \A v \in Workers : wtask[v] # t
    BY <1>0, <1>3 DEF OwnersApart, InSeq, Range
  <2>4. \A p : p \in Holders(t) <=> p = <<"worker", w, i>>
    <3>1. \A v \in Workers : \A j \in InSeq(t, ess[v]) : v = w /\ j = i
      BY <2>2 DEF InSeq
    <3>2. i \in InSeq(t, ess[w])
      BY <2>1 DEF InSeq
    <3> QED
      BY <2>3, <3>1, <3>2, HoldersIs
  <2>5. \A p : p \in Holders(t) <=> p \in {<<"worker", w, i>>}
    BY <2>4
  <2> QED
    BY <2>5
<1>4. ASSUME NEW w \in Workers, wtask[w] = t
      PROVE  \E p : Holders(t) = {p}
  <2>1. /\ \A g \in Groups : InSeq(t, queue[g]) = {}
        /\ \A v \in Workers : InSeq(t, ess[v]) = {}
        /\ \A v \in Workers : wtask[v] = t => v = w
    BY <1>0, <1>4 DEF OwnersApart, InSeq, Range
  <2>2. \A p : p \in Holders(t) <=> p = <<"run", w, 0>>
    BY <1>4, <2>1, HoldersIs
  <2>3. \A p : p \in Holders(t) <=> p \in {<<"run", w, 0>>}
    BY <2>2
  <2> QED
    BY <2>3
<1>5. CASE Held(t)
  <2>1. \E p : Holders(t) = {p}
    BY <1>2, <1>3, <1>4, <1>5 DEF Held
  <2> QED
    BY <1>5, <2>1, FS_Singleton
<1> QED
  BY <1>1, <1>5

(* An accepted task has one owner until it is destroyed, is destroyed once and *)
(* run once, stolen or not, in every group and every essential queue.          *)
THEOREM TasksOwnedOnce == Spec => []OneOwner
<1>1. ASSUME IndInv PROVE OneOwner
  <2> SUFFICES ASSUME NEW t \in accepted
               PROVE  Cardinality(Holders(t)) + destroyed[t] = 1 /\ runs[t] = destroyed[t]
    BY <1>1 DEF OneOwner, IndInv
  <2>1. t \in Tasks
    BY <1>1 DEF IndInv, TypeOK
  <2>2. /\ Held(t) <=> destroyed[t] = 0
        /\ destroyed[t] \in {0, 1} /\ runs[t] = destroyed[t]
    BY <1>1, <2>1 DEF IndInv, OutcomeCounts
  <2>3. Cardinality(Holders(t)) = IF Held(t) THEN 1 ELSE 0
    BY <1>1, <2>1, HoldersCounted
  <2> QED
    BY <2>2, <2>3
<1> QED
  BY <1>1, InitIndInv, IndInvStep, PTL DEF Spec

(* stop() returns only when everything the pool accepted has been run and      *)
(* destroyed, however add_task(), stealing and the stop interleave.            *)
THEOREM StopLosesNothing == Spec => []StopDrains
<1>1. ASSUME IndInv PROVE StopDrains
  <2> SUFFICES ASSUME spc = "done", NEW t \in accepted
               PROVE  runs[t] = 1 /\ destroyed[t] = 1
    BY DEF StopDrains
  <2>1. \A w \in Workers : wpc[w] = "exited" /\ ess[w] = << >> /\ queue[GroupOf[w]] = << >>
    BY <1>1 DEF IndInv, StopInv
  <2>2. \A g \in Groups : queue[g] = << >>
    BY <2>1, WorkersAssumption
  <2>3. t \in Tasks /\ \A w \in Workers : wtask[w] = NoTask
    BY <1>1, <2>1 DEF IndInv, TypeOK, WorkerInv
  <2>4. ~Held(t)
    BY <2>1, <2>2, <2>3, RangeEmpty, NoTaskAssumption DEF Held
  <2> QED
    BY <1>1, <2>3, <2>4 DEF IndInv, OutcomeCounts
<1> QED
  BY <1>1, InitIndInv, IndInvStep, PTL DEF Spec

(***************************************************************************)
(* The locks.                                                                *)
(***************************************************************************)

(* Locks and AsyncPool count sets as FiniteSets does. *)
LEMMA SameCount == \A S : K!Cardinality(S) = Cardinality(S) /\ F!Cardinality(S) = Cardinality(S)
  BY DEF K!Cardinality, F!Cardinality, Cardinality

(* Tickets are counted modulo Word: numbers that pass it once. *)
LEMMA TicketsWrap ==
  /\ \A a, b \in 0 .. Word - 1 : (a + Word - b) % Word = IF b <= a THEN a - b ELSE a + Word - b
  /\ \A a \in 0 .. Word - 1, n \in 0 .. Word : (a + n) % Word = IF a + n < Word THEN a + n ELSE a + n - Word
  /\ \A a \in 0 .. Word - 1 : (a + 1) % Word = IF a = Word - 1 THEN 0 ELSE a + 1
<1>0. Word \in Nat \ {0}
  BY LocksAssumption
<1>1. \A x \in 0 .. 2 * Word - 1 : x % Word = IF x < Word THEN x ELSE x - Word
  BY <1>0
<1>2. \A a, b \in 0 .. Word - 1 : a + Word - b \in 0 .. 2 * Word - 1
  BY <1>0
<1>3. \A a, b \in 0 .. Word - 1 : (a + Word - b < Word <=> ~(b <= a)) /\ a + Word - b - Word = a - b
  BY <1>0
<1>4. \A a \in 0 .. Word - 1, n \in 0 .. Word : a + n \in 0 .. 2 * Word - 1
  BY <1>0
<1>5. \A a \in 0 .. Word - 1 : /\ a + 1 \in 0 .. 2 * Word - 1 /\ (a + 1 < Word <=> a # Word - 1)
                               /\ a = Word - 1 => a + 1 - Word = 0
  BY <1>0
<1>6. ASSUME NEW a \in 0 .. Word - 1, NEW b \in 0 .. Word - 1
      PROVE  (a + Word - b) % Word = IF b <= a THEN a - b ELSE a + Word - b
  <2> DEFINE x == a + Word - b
  <2>1. x \in 0 .. 2 * Word - 1 /\ (x < Word <=> ~(b <= a)) /\ x - Word = a - b
    BY <1>0, <1>2, <1>3
  <2> HIDE DEF x
  <2>2. x % Word = IF x < Word THEN x ELSE x - Word
    BY <1>1, <2>1
  <2> QED
    BY <1>0, <2>1, <2>2 DEF x
<1>7. ASSUME NEW a \in 0 .. Word - 1, NEW n \in 0 .. Word
      PROVE  (a + n) % Word = IF a + n < Word THEN a + n ELSE a + n - Word
  <2> DEFINE x == a + n
  <2>1. x \in 0 .. 2 * Word - 1
    BY <1>4
  <2> HIDE DEF x
  <2>2. x % Word = IF x < Word THEN x ELSE x - Word
    BY <1>1, <2>1
  <2> QED
    BY <1>0, <2>2 DEF x
<1>8. ASSUME NEW a \in 0 .. Word - 1 PROVE (a + 1) % Word = IF a = Word - 1 THEN 0 ELSE a + 1
  <2> DEFINE x == a + 1
  <2>1. x \in 0 .. 2 * Word - 1 /\ (x < Word <=> a # Word - 1) /\ (a = Word - 1 => x - Word = 0)
    BY <1>0, <1>5
  <2> HIDE DEF x
  <2>2. x % Word = IF x < Word THEN x ELSE x - Word
    BY <1>1, <2>1
  <2> QED
    BY <1>0, <2>1, <2>2 DEF x
<1> QED
  BY <1>6, <1>7, <1>8

(* The number of threads with a ticket. *)
LEMMA QueuedFinite ==
  /\ IsFiniteSet(K!Queued) /\ Cardinality(K!Queued) \in 0 .. Word
  /\ \A t \in Lockers \ K!Queued :
       /\ Cardinality(K!Queued \cup {t}) = Cardinality(K!Queued) + 1
       /\ Cardinality(K!Queued) + 1 \in 0 .. Word
  /\ \A t \in K!Queued : Cardinality(K!Queued \ {t}) = Cardinality(K!Queued) - 1
<1>0. IsFiniteSet(Lockers) /\ Word \in Nat /\ Cardinality(Lockers) <= Word
  BY LocksAssumption
<1> DEFINE Q == K!Queued
<1>1. Q \subseteq Lockers
  BY DEF K!Queued
<1> HIDE DEF Q
<1>2. \A S : S \subseteq Lockers => IsFiniteSet(S) /\ Cardinality(S) \in Nat /\ Cardinality(S) <= Cardinality(Lockers)
  BY <1>0, FS_Subset, FS_CardinalityType
<1>3. \A S : S \subseteq Lockers => Cardinality(S) \in 0 .. Word
  BY <1>0, <1>2, FS_CardinalityType
<1>4. ASSUME NEW t \in Lockers \ Q
      PROVE  Cardinality(Q \cup {t}) = Cardinality(Q) + 1 /\ Cardinality(Q) + 1 \in 0 .. Word
  <2>1. Cardinality(Q \cup {t}) = Cardinality(Q) + 1
    BY <1>1, <1>2, FS_AddElement
  <2>2. Cardinality(Q \cup {t}) \in 0 .. Word
    BY <1>1, <1>3
  <2> QED
    BY <2>1, <2>2
<1>5. \A t \in Q : Cardinality(Q \ {t}) = Cardinality(Q) - 1
  BY <1>1, <1>2, FS_RemoveElement
<1> QED
  BY <1>1, <1>2, <1>3, <1>4, <1>5 DEF Q

(* Nobody has a lock at first. *)
LEMMA InitLocks == K!Init => K!IndInv
<1> SUFFICES ASSUME K!Init PROVE K!IndInv
  OBVIOUS
<1>0. Word \in Nat \ {0}
  BY LocksAssumption
<1>1. K!TypeOK
  <2>1. 0 \in 0 .. Word - 1
    BY <1>0
  <2> QED
    BY <2>1 DEF K!Init, K!TypeOK
<1>2. K!In = {} /\ K!Queued = {}
  BY DEF K!Init, K!In, K!Queued
<1>3. K!HoldersInv
  BY <1>2 DEF K!Init, K!HoldersInv
<1>4. Cardinality({}) = 0 /\ 0 % Word = 0
  BY <1>0, FS_EmptySet
<1>5. {K!Ahead(t) : t \in K!Queued} = 0 .. Cardinality(K!Queued) - 1
  <2>1. {K!Ahead(t) : t \in K!Queued} = {}
    BY <1>2
  <2>2. 0 .. 0 - 1 = {}
    OBVIOUS
  <2> QED
    BY <1>2, <1>4, <2>1, <2>2
<1>6. next = (serving + Cardinality(K!Queued)) % Word
  BY <1>2, <1>4 DEF K!Init
<1>7. K!LocksExclude
  <2>1. K!Exclusive
    BY <1>2 DEF K!Exclusive
  <2>2. K!TicketsInOrder
    BY <1>2, <1>5, <1>6, SameCount DEF K!TicketsInOrder
  <2> QED
    BY <2>1, <2>2 DEF K!LocksExclude
<1> QED
  BY <1>1, <1>3, <1>7 DEF K!IndInv


(* Which thread an action moves. *)
LEMMA MoveIs ==
  ASSUME NEW t \in Lockers, NEW l, DOMAIN pc = Lockers, pc' = [pc EXCEPT ![t] = l]
  PROVE  /\ \A u \in Lockers : pc'[u] = IF u = t THEN l ELSE pc[u]
         /\ l = "in" => K!In' = K!In \cup {t}
         /\ l # "in" => K!In' = K!In \ {t}
         /\ l \in {"wait", "in"} => K!Queued' = K!Queued \cup {t}
         /\ l \notin {"wait", "in"} => K!Queued' = K!Queued \ {t}
<1>1. \A u \in Lockers : pc'[u] = IF u = t THEN l ELSE pc[u]
  OBVIOUS
<1> QED
  BY <1>1 DEF K!In, K!Queued

(* A ticket lock: a thread takes a ticket, gets in, and calls the next. *)
LEMMA TicketStep ==
  ASSUME K!TypeOK, K!HoldersInv, K!TicketsInOrder, kind = "ticket", ~unsound, ~unsound', K!Next
  PROVE  /\ K!TicketsInOrder'
         /\ \A t, u \in K!Queued' : ticket'[t] = ticket'[u] => t = u
         /\ \A t, u \in K!In' : t = u
<1> DEFINE n == Cardinality(K!Queued)
           D(a, b) == IF b <= a THEN a - b ELSE a + Word - b
<1>0. /\ Word \in Nat \ {0} /\ n \in 0 .. Word /\ ~K!Spins /\ ~K!Blocks
      /\ DOMAIN pc = Lockers /\ K!In \subseteq K!Queued /\ K!Queued \subseteq Lockers
      /\ serving \in 0 .. Word - 1 /\ next \in 0 .. Word - 1
      /\ \A u \in Lockers : ticket[u] \in 0 .. Word - 1
  BY LocksAssumption, QueuedFinite DEF K!Spins, K!Blocks, K!In, K!Queued, K!TypeOK
<1>1. \A u \in Lockers : K!Ahead(u) = D(ticket[u], serving)
  BY <1>0, TicketsWrap DEF K!Ahead
<1>2. \A t, u \in K!Queued : ticket[t] = ticket[u] => t = u
  BY DEF K!HoldersInv
<1>3. /\ {K!Ahead(u) : u \in K!Queued} = 0 .. n - 1
      /\ next = IF serving + n < Word THEN serving + n ELSE serving + n - Word
      /\ \A u \in K!In : K!Ahead(u) = 0
  <2>1. next = (serving + n) % Word /\ {K!Ahead(u) : u \in K!Queued} = 0 .. n - 1
    BY SameCount DEF K!TicketsInOrder
  <2>2. \A x \in 0 .. Word : (serving + x) % Word = IF serving + x < Word THEN serving + x ELSE serving + x - Word
    BY <1>0, TicketsWrap
  <2>3. (serving + n) % Word = IF serving + n < Word THEN serving + n ELSE serving + n - Word
    BY <1>0, <2>2
  <2> QED
    BY <2>1, <2>3 DEF K!TicketsInOrder
<1>4. \A t, u \in K!In : t = u
  <2>1. \A u \in K!In : ticket[u] = serving
    BY <1>0, <1>1, <1>3
  <2> QED
    BY <1>0, <1>2, <2>1
<1>5. PICK t \in Lockers : (\E m \in {"rd", "wr"} : K!Lock(t, m)) \/ K!Serve(t) \/ K!Unlock(t)
  BY <1>0 DEF K!Next, K!TryUnsound, K!Exchange, K!Load, K!Acquire, K!Relock, K!TryLock, K!HoldersInv
<1> SUFFICES /\ K!TicketsInOrder'
             /\ \A v, u \in K!Queued' : ticket'[v] = ticket'[u] => v = u
             /\ \A v, u \in K!In' : v = u
  OBVIOUS
<1>6. ASSUME NEW m \in {"rd", "wr"}, K!Lock(t, m)
      PROVE  /\ K!TicketsInOrder'
             /\ \A v, u \in K!Queued' : ticket'[v] = ticket'[u] => v = u
             /\ \A v, u \in K!In' : v = u
  <2>1. /\ pc[t] = "out" /\ pc' = [pc EXCEPT ![t] = "wait"] /\ serving' = serving
        /\ ticket' = [ticket EXCEPT ![t] = next] /\ next' = (next + 1) % Word
    BY <1>0, <1>6 DEF K!Lock, K!Goto
  <2>2. K!In' = K!In \ {t} /\ K!Queued' = K!Queued \cup {t} /\ t \notin K!Queued /\ t \notin K!In
    <3>1. t \notin K!Queued /\ t \notin K!In
      BY <2>1 DEF K!Queued, K!In
    <3> QED
      BY <1>0, <2>1, <3>1, MoveIs
  <2>3. Cardinality(K!Queued') = n + 1 /\ n + 1 \in 0 .. Word
    BY <2>2, QueuedFinite
  <2>4. \A u \in Lockers : ticket'[u] = IF u = t THEN next ELSE ticket[u]
    BY <2>1 DEF K!TypeOK
  <2>5. \A u \in Lockers : K!Ahead(u)' = D(ticket'[u], serving)
    <3>1. \A u \in Lockers : ticket'[u] \in 0 .. Word - 1 /\ K!Ahead(u)' = (ticket'[u] + Word - serving) % Word
      BY <1>0, <2>1, <2>4 DEF K!Ahead
    <3> QED
      BY <1>0, <3>1, TicketsWrap
  <2>6. D(next, serving) = n
    BY <1>0, <1>3, <2>3
  <2>7. \A u \in K!Queued : K!Ahead(u)' = K!Ahead(u)
    BY <1>0, <1>1, <2>2, <2>4, <2>5
  <2>8. K!Ahead(t)' = n
    BY <2>4, <2>5, <2>6
  <2>9. {K!Ahead(u)' : u \in K!Queued'} = 0 .. (n + 1) - 1
    <3>1. {K!Ahead(u)' : u \in K!Queued'} = {K!Ahead(u) : u \in K!Queued} \cup {n}
      <4> HIDE DEF n
      <4> QED
        BY <2>2, <2>7, <2>8
    <3>2. (0 .. n - 1) \cup {n} = 0 .. (n + 1) - 1
      BY <1>0
    <3> QED
      BY <1>3, <3>1, <3>2
  <2>10. next' = (serving' + (n + 1)) % Word
    <3>1. next' = IF next = Word - 1 THEN 0 ELSE next + 1
      BY <1>0, <2>1, TicketsWrap
    <3>2. (serving + (n + 1)) % Word = IF serving + (n + 1) < Word THEN serving + (n + 1) ELSE serving + (n + 1) - Word
      BY <1>0, <2>3, TicketsWrap
    <3> QED
      BY <1>0, <1>3, <2>1, <2>3, <3>1, <3>2
  <2>11. \A v, u \in K!Queued' : ticket'[v] = ticket'[u] => v = u
    <3>1. \A u \in K!Queued : ticket[u] # next
      <4>1. \A u \in K!Queued : K!Ahead(u) \in 0 .. n - 1
        BY <1>3
      <4>2. n \notin 0 .. n - 1
        BY <1>0
      <4> QED
        BY <1>0, <1>1, <2>6, <4>1, <4>2
    <3> QED
      BY <1>0, <1>2, <2>2, <2>4, <3>1
  <2>12. \A u \in K!In' : K!Ahead(u)' = 0
    BY <1>0, <1>3, <2>2, <2>7
  <2> QED
    BY <1>4, <2>2, <2>3, <2>9, <2>10, <2>11, <2>12, SameCount DEF K!TicketsInOrder
<1>7. ASSUME K!Serve(t)
      PROVE  /\ K!TicketsInOrder'
             /\ \A v, u \in K!Queued' : ticket'[v] = ticket'[u] => v = u
             /\ \A v, u \in K!In' : v = u
  <2>1. /\ pc[t] = "wait" /\ pc' = [pc EXCEPT ![t] = "in"] /\ serving' = serving /\ serving = ticket[t]
        /\ ticket' = ticket /\ next' = next
    BY <1>7 DEF K!Serve, K!Enter, K!Goto
  <2>2. K!In' = K!In \cup {t} /\ K!Queued' = K!Queued /\ t \in K!Queued
    <3>1. t \in K!Queued
      BY <2>1 DEF K!Queued
    <3>2. K!In' = K!In \cup {t} /\ K!Queued' = K!Queued \cup {t}
      BY <1>0, <2>1, MoveIs
    <3> QED
      BY <3>1, <3>2
  <2>3. \A u : K!Ahead(u)' = K!Ahead(u)
    BY <2>1 DEF K!Ahead
  <2>4. K!Ahead(t) = 0
    BY <1>0, <1>1, <2>1
  <2>5. \A u \in K!In' : u = t
    <3>1. \A u \in K!In : ticket[u] = serving
      BY <1>0, <1>1, <1>3
    <3> QED
      BY <1>0, <1>2, <2>1, <2>2, <3>1
  <2>6. {K!Ahead(u)' : u \in K!Queued'} = {K!Ahead(u) : u \in K!Queued}
    BY <2>2, <2>3
  <2> QED
    BY <1>2, <1>3, <2>1, <2>2, <2>3, <2>4, <2>5, <2>6 DEF K!TicketsInOrder
<1>8. ASSUME K!Unlock(t)
      PROVE  /\ K!TicketsInOrder'
             /\ \A v, u \in K!Queued' : ticket'[v] = ticket'[u] => v = u
             /\ \A v, u \in K!In' : v = u
  <2>1. /\ pc[t] = "in" /\ pc' = [pc EXCEPT ![t] = "out"] /\ serving' = (serving + 1) % Word
        /\ ticket' = ticket /\ next' = next
    BY <1>8 DEF K!Unlock, K!Goto, K!HoldersInv
  <2>2. t \in K!In /\ t \in K!Queued
    BY <2>1 DEF K!In, K!Queued
  <2>3. K!In' = K!In \ {t} /\ K!Queued' = K!Queued \ {t}
    BY <1>0, <2>1, MoveIs
  <2>4. Cardinality(K!Queued') = n - 1
    BY <2>2, <2>3, QueuedFinite
  <2>5. \A u : u \notin K!In'
    BY <1>4, <2>2, <2>3
  <2>6. serving' = (IF serving = Word - 1 THEN 0 ELSE serving + 1) /\ serving' \in 0 .. Word - 1
    BY <1>0, <2>1, TicketsWrap
  <2>7. ticket[t] = serving /\ n > 0
    <3>1. K!Ahead(t) = 0 /\ K!Ahead(t) \in 0 .. n - 1
      BY <1>3, <2>2
    <3> QED
      BY <1>0, <1>1, <3>1
  <2>8. \A u \in K!Queued' : K!Ahead(u) # 0
    <3>1. \A u \in K!Queued' : ticket[u] # serving
      BY <1>2, <2>2, <2>3, <2>7
    <3> QED
      BY <1>0, <1>1, <2>3, <3>1
  <2>9. \A u \in K!Queued' : K!Ahead(u)' = K!Ahead(u) - 1
    <3>1. \A u \in Lockers : K!Ahead(u)' = D(ticket[u], serving')
      BY <1>0, <2>1, <2>6, TicketsWrap DEF K!Ahead
    <3>2. \A x \in 0 .. Word - 1 : D(x, serving) # 0 => D(x, serving') = D(x, serving) - 1
      BY <1>0, <2>6
    <3> QED
      BY <1>0, <1>1, <2>3, <2>8, <3>1, <3>2
  <2>10. {K!Ahead(u)' : u \in K!Queued'} = 0 .. (n - 1) - 1
    <3>1. \A u \in K!Queued' : K!Ahead(u)' \in 0 .. (n - 1) - 1
      <4>1. \A u \in K!Queued' : K!Ahead(u) \in 0 .. n - 1
        BY <1>3, <2>3
      <4> QED
        BY <1>0, <2>8, <2>9, <4>1
    <3>2. ASSUME NEW x \in 0 .. (n - 1) - 1 PROVE \E u \in K!Queued' : K!Ahead(u)' = x
      <4>1. x + 1 \in 0 .. n - 1 /\ x + 1 # 0 /\ (x + 1) - 1 = x
        BY <1>0
      <4>2. PICK u \in K!Queued : K!Ahead(u) = x + 1
        BY <1>3, <4>1
      <4>3. u # t
        BY <1>3, <2>2, <4>1, <4>2
      <4> QED
        BY <2>3, <2>9, <4>1, <4>2, <4>3
    <3> HIDE DEF n
    <3> QED
      BY <3>1, <3>2
  <2>11. next' = (serving' + (n - 1)) % Word
    <3>1. n - 1 \in 0 .. Word
      BY <1>0, <2>7
    <3>2. (serving' + (n - 1)) % Word
             = IF serving' + (n - 1) < Word THEN serving' + (n - 1) ELSE serving' + (n - 1) - Word
      BY <2>6, <3>1, TicketsWrap
    <3> QED
      BY <1>0, <1>3, <2>1, <2>6, <2>7, <3>1, <3>2
  <2> QED
    BY <1>2, <2>1, <2>3, <2>4, <2>5, <2>10, <2>11, SameCount DEF K!TicketsInOrder
<1> QED
  BY <1>5, <1>6, <1>7, <1>8

(* One step of a thread on a lock of any kind. *)
LEMMA LockerStep ==
  ASSUME K!TypeOK, K!HoldersInv, K!LocksExclude, ~unsound, ~unsound', K!Next
  PROVE  K!TypeOK' /\ K!HoldersInv' /\ K!LocksExclude'
<1>0. /\ Word \in Nat \ {0} /\ DOMAIN pc = Lockers /\ DOMAIN depth = Lockers
      /\ K!Exclusive /\ (kind = "ticket" => K!TicketsInOrder)
  BY LocksAssumption DEF K!TypeOK, K!LocksExclude
<1>1. PICK t \in Lockers :
        \/ \E m \in {"rd", "wr"} : K!Lock(t, m)
        \/ K!Exchange(t) \/ K!Load(t) \/ K!Serve(t) \/ K!Acquire(t) \/ K!Relock(t)
        \/ K!TryLock(t) \/ K!Unlock(t)
  BY DEF K!Next, K!TryUnsound
<1>2. kind' = kind /\ (K!Spins' <=> K!Spins)
  BY <1>1 DEF K!Lock, K!Exchange, K!Load, K!Serve, K!Acquire, K!Relock, K!TryLock, K!Unlock, K!Spins
<1>3. kind = "ticket" =>
        /\ K!TicketsInOrder'
        /\ \A v, u \in K!Queued' : ticket'[v] = ticket'[u] => v = u
        /\ \A v, u \in K!In' : v = u
  BY <1>0, TicketStep
<1> DEFINE Rest == /\ K!TypeOK'
                   /\ \A u \in Lockers :
                        /\ pc'[u] \in {"exchange", "load"} => K!Spins
                        /\ pc'[u] = "wait" => ~K!Spins
                        /\ pc'[u] = "in" => depth'[u] > 0 /\ (kind # "recursive" => depth'[u] = 1)
                        /\ pc'[u] # "in" => depth'[u] = 0
                   /\ kind # "rwlock" => \A u \in Lockers : mode'[u] = "wr"
                   /\ K!Spins => \A v, u \in K!In' : flag' /\ v = u
                   /\ \A v, u \in K!In' : v # u /\ kind # "ticket" => mode'[v] = "rd" /\ mode'[u] = "rd"
<1> SUFFICES Rest
  <2>1. K!HoldersInv'
    BY <1>2, <1>3 DEF K!HoldersInv
  <2>2. K!Exclusive'
    BY <1>2, <1>3 DEF K!Exclusive
  <2> QED
    BY <1>2, <1>3, <2>1, <2>2 DEF K!LocksExclude
<1>4. ASSUME NEW m \in {"rd", "wr"}, K!Lock(t, m) PROVE Rest
  <2>1. /\ pc[t] = "out" /\ depth' = depth /\ flag' = flag /\ serving' = serving
        /\ mode' = [mode EXCEPT ![t] = m] /\ (m = "rd" => kind = "rwlock")
    BY <1>4 DEF K!Lock
  <2> DEFINE l == IF K!Spins THEN "exchange" ELSE "wait"
  <2>2. pc' = [pc EXCEPT ![t] = l]
    BY <1>4 DEF K!Lock, K!Goto
  <2>3. /\ \A u \in Lockers : pc'[u] = IF u = t THEN l ELSE pc[u]
        /\ K!In' = K!In /\ t \notin K!In
    BY <1>0, <2>1, <2>2 DEF K!In
  <2>4. \A u \in Lockers : mode'[u] = IF u = t THEN m ELSE mode[u]
    BY <2>1 DEF K!TypeOK
  <2>5. K!TypeOK'
    <3>1. ticket' \in [Lockers -> 0 .. Word - 1] /\ next' \in 0 .. Word - 1
      BY <1>0, <1>4 DEF K!Lock, K!TypeOK
    <3>2. pc' \in [Lockers -> {"out", "exchange", "load", "wait", "in"}] /\ mode' \in [Lockers -> {"rd", "wr"}]
      BY <2>1, <2>2 DEF K!TypeOK
    <3> QED
      BY <2>1, <3>1, <3>2 DEF K!TypeOK
  <2>6. \A u \in K!In : u \in Lockers /\ u # t
    BY <2>3 DEF K!In
  <2> QED
    BY <1>0, <2>1, <2>3, <2>4, <2>5, <2>6 DEF K!HoldersInv, K!Exclusive
<1>5. ASSUME NEW l, pc' = [pc EXCEPT ![t] = l], l \in {"exchange", "load"}, pc[t] \in {"exchange", "load"},
             flag' \in BOOLEAN, K!In # {} => flag' = flag,
             UNCHANGED <<serving, next, ticket, mode, depth>>
      PROVE  Rest
  <2>1. \A u \in Lockers : pc'[u] = IF u = t THEN l ELSE pc[u]
    BY <1>0, <1>5
  <2>2. K!In' = K!In
    BY <1>5, <2>1 DEF K!In
  <2>3. K!TypeOK'
    BY <1>5 DEF K!TypeOK
  <2>4. \A u \in K!In : u \in Lockers
    BY DEF K!In
  <2> QED
    BY <1>0, <1>5, <2>1, <2>2, <2>3, <2>4 DEF K!HoldersInv, K!Exclusive
(* The ways in. *)
<1>6. ASSUME NEW m \in {"rd", "wr"}, pc[t] # "in", K!Enter(t), mode' = [mode EXCEPT ![t] = m],
             kind # "rwlock" => m = "wr", flag' \in BOOLEAN, K!Spins => flag' /\ K!In = {},
             kind # "ticket" => K!Free(t, m), UNCHANGED <<serving, next, ticket>>
      PROVE  Rest
  <2>1. /\ \A u \in Lockers : pc'[u] = IF u = t THEN "in" ELSE pc[u]
        /\ \A u \in Lockers : depth'[u] = IF u = t THEN depth[u] + 1 ELSE depth[u]
        /\ \A u \in Lockers : mode'[u] = IF u = t THEN m ELSE mode[u]
    BY <1>0, <1>6 DEF K!Enter, K!Goto, K!TypeOK
  <2>2. K!In' = K!In \cup {t} /\ t \notin K!In
    BY <1>6, <2>1 DEF K!In
  <2>3. K!TypeOK'
    BY <1>6 DEF K!TypeOK, K!Enter, K!Goto
  <2>4. depth[t] = 0 /\ depth'[t] = 1
    BY <1>6, <2>1 DEF K!HoldersInv
  <2>5. \A u \in K!In : u \in Lockers /\ u # t
    BY <2>2 DEF K!In
  <2>6. \A v, u \in K!In' : v # u /\ kind # "ticket" => mode'[v] = "rd" /\ mode'[u] = "rd"
    BY <1>0, <1>6, <2>1, <2>2, <2>5 DEF K!Exclusive, K!Free
  <2> QED
    BY <1>6, <2>1, <2>2, <2>3, <2>4, <2>5, <2>6 DEF K!HoldersInv
<1>7. CASE K!Exchange(t)
  <2>1. CASE flag
    BY <1>5, <1>7, <2>1 DEF K!Exchange, K!Goto
  <2>2. CASE ~flag
    <3>1. K!Spins /\ K!In = {} /\ mode[t] \in {"rd", "wr"} /\ mode = [mode EXCEPT ![t] = mode[t]]
      BY <1>7, <2>2 DEF K!Exchange, K!HoldersInv, K!TypeOK
    <3>2. kind # "rwlock" => mode[t] = "wr"
      BY DEF K!HoldersInv
    <3>3. K!Free(t, mode[t])
      BY <3>1 DEF K!Free
    <3> QED
      BY <1>6, <1>7, <2>2, <3>1, <3>2, <3>3 DEF K!Exchange
  <2> QED
    BY <2>1, <2>2 DEF K!TypeOK
<1>8. CASE K!Load(t)
  BY <1>5, <1>8 DEF K!Load, K!Goto, K!TypeOK
<1>9. CASE K!Serve(t) \/ K!Acquire(t)
  <2>1. mode[t] \in {"rd", "wr"} /\ mode = [mode EXCEPT ![t] = mode[t]] /\ flag \in BOOLEAN
    BY DEF K!TypeOK
  <2>2. /\ kind # "rwlock" => mode[t] = "wr"
        /\ pc[t] = "wait" /\ ~K!Spins
    BY <1>9 DEF K!HoldersInv, K!Serve, K!Acquire
  <2>3. /\ kind # "ticket" => K!Free(t, mode[t])
        /\ K!Enter(t) /\ UNCHANGED <<flag, serving, next, ticket, mode>>
    BY <1>9 DEF K!Serve, K!Acquire
  <2> QED
    BY <1>6, <2>1, <2>2, <2>3
<1>10. CASE K!TryLock(t)
  <2>1. /\ K!Enter(t) /\ pc[t] # "in" /\ mode' = [mode EXCEPT ![t] = "wr"] /\ flag' = K!Spins
        /\ UNCHANGED <<serving, next, ticket>> /\ (K!Spins => ~flag) /\ (~K!Spins => K!Free(t, "wr"))
    BY <1>10 DEF K!TryLock
  <2>2. K!Spins => K!In = {}
    BY <2>1 DEF K!HoldersInv
  <2>3. K!Free(t, "wr") /\ flag' \in BOOLEAN
    BY <2>1, <2>2 DEF K!Free, K!Spins
  <2> QED
    BY <1>6, <2>1, <2>2, <2>3
<1>11. CASE K!Relock(t)
  <2>1. /\ kind = "recursive" /\ pc[t] = "in" /\ UNCHANGED <<flag, serving, next, ticket, mode, pc>>
        /\ \A u \in Lockers : depth'[u] = IF u = t THEN depth[u] + 1 ELSE depth[u]
    BY <1>0, <1>11 DEF K!Relock
  <2>2. K!TypeOK'
    BY <1>11 DEF K!Relock, K!TypeOK
  <2>3. K!In' = K!In
    BY <2>1 DEF K!In
  <2>4. \A u \in Lockers : depth[u] \in Nat
    BY DEF K!TypeOK
  <2> QED
    BY <1>0, <2>1, <2>2, <2>3, <2>4 DEF K!HoldersInv, K!Exclusive
<1>12. CASE K!Unlock(t)
  <2> DEFINE l == IF depth[t] = 1 THEN "out" ELSE "in"
  <2>1. /\ pc[t] = "in" /\ depth[t] \in Nat /\ depth[t] > 0 /\ flag' = FALSE
        /\ (kind # "recursive" => depth[t] = 1)
    BY <1>12 DEF K!Unlock, K!HoldersInv, K!TypeOK
  <2>2. /\ \A u \in Lockers : depth'[u] = IF u = t THEN depth[u] - 1 ELSE depth[u]
        /\ \A u \in Lockers : pc'[u] = IF u = t THEN l ELSE pc[u]
        /\ UNCHANGED <<next, ticket, mode>>
    BY <1>0, <1>12, <2>1 DEF K!Unlock, K!Goto
  <2>3. K!TypeOK'
    <3>1. serving' \in 0 .. Word - 1
      BY <1>0, <1>12 DEF K!Unlock, K!TypeOK
    <3>2. depth' \in [Lockers -> Nat]
      <4>1. depth[t] - 1 \in Nat
        BY <2>1
      <4> QED
        BY <1>12, <4>1 DEF K!Unlock, K!TypeOK
    <3>3. pc' \in [Lockers -> {"out", "exchange", "load", "wait", "in"}]
      BY <1>12 DEF K!Unlock, K!TypeOK, K!Goto
    <3> QED
      BY <2>1, <2>2, <3>1, <3>2, <3>3 DEF K!TypeOK
  <2>4. K!In' \subseteq K!In /\ (depth[t] = 1 => t \notin K!In') /\ t \in K!In
    BY <2>1, <2>2 DEF K!In
  <2>5. K!Spins => depth[t] = 1 /\ K!In' = {}
    BY <2>1, <2>4 DEF K!HoldersInv, K!Spins
  <2>6. \A u \in Lockers :
          /\ pc'[u] = "in" => depth'[u] > 0 /\ (kind # "recursive" => depth'[u] = 1)
          /\ pc'[u] # "in" => depth'[u] = 0
    BY <2>1, <2>2 DEF K!HoldersInv
  <2> QED
    BY <1>0, <2>1, <2>2, <2>3, <2>4, <2>5, <2>6 DEF K!HoldersInv, K!Exclusive
<1> QED
  BY <1>1, <1>4, <1>7, <1>8, <1>9, <1>10, <1>11, <1>12

(* The invariant of the locks is kept by every step. *)
LEMMA LocksStep == K!IndInv /\ [K!Next]_kvars => K!IndInv'
<1> SUFFICES ASSUME K!IndInv, [K!Next]_kvars PROVE K!IndInv'
  OBVIOUS
<1>1. CASE UNCHANGED kvars
  BY <1>1 DEF kvars, K!IndInv, K!TypeOK, K!HoldersInv, K!LocksExclude, K!Exclusive, K!TicketsInOrder,
              K!Queued, K!In, K!Ahead, K!Spins
<1>2. CASE K!Next
  <2>1. unsound' = unsound \/ unsound' = TRUE
    BY <1>2 DEF K!Next, K!Lock, K!TryUnsound, K!Exchange, K!Load, K!Serve, K!Acquire, K!Relock, K!TryLock,
                K!Unlock
  <2> QED
    BY <1>2, <2>1, LockerStep DEF K!IndInv
<1> QED
  BY <1>1, <1>2

(***************************************************************************)
(* The asynchronous pool.                                                    *)
(***************************************************************************)

(* A pool starts with idle workers and no tasks. *)
LEMMA InitAsync == F!Init => F!IndInv
<1> SUFFICES ASSUME F!Init PROVE F!IndInv
  OBVIOUS
<1>1. F!WorkersInv
  <2>1. F!Running = {} /\ Cardinality({}) = 0
    BY FS_EmptySet DEF F!Init, F!Running
  <2> QED
    BY <2>1, SameCount DEF F!Init, F!WorkersInv
<1>2. F!PlacesInv
  BY DEF F!Init, F!PlacesInv
<1> QED
  BY <1>1, <1>2 DEF F!IndInv

(* _busy counts the workers that run a task. *)
LEMMA RunningCount ==
  ASSUME NEW w \in AsyncWorkers
  PROVE  /\ w \notin F!Running => Cardinality(F!Running \cup {w}) = Cardinality(F!Running) + 1
         /\ w \in F!Running => Cardinality(F!Running \ {w}) = Cardinality(F!Running) - 1
<1>1. F!Running \subseteq AsyncWorkers /\ IsFiniteSet(AsyncWorkers)
  BY AsyncAssumption DEF F!Running
<1>2. IsFiniteSet(F!Running)
  BY <1>1, FS_Subset
<1> QED
  BY <1>2, FS_AddElement, FS_RemoveElement

(* What the workers do keeps WorkersInv. *)
LEMMA WorkersStep ==
  ASSUME F!IndInv, F!Next
  PROVE  F!WorkersInv'
<1>0. F!WorkersInv /\ Waiter \notin AsyncWorkers /\ None \notin AsyncTasks
  BY AsyncAssumption DEF F!IndInv
<1>t. /\ ajob \in [AsyncWorkers -> AsyncTasks \cup {None}]
      /\ awpc \in [AsyncWorkers -> {"lock", "asleep", "taken", "running", "after", "exited"}]
      /\ DOMAIN awpc = AsyncWorkers
  BY <1>0 DEF F!WorkersInv
<1>b. abusy = Cardinality(F!Running)
  BY <1>0, SameCount DEF F!WorkersInv
<1>c. ASSUME abusy' = Cardinality(F!Running') PROVE abusy' = F!Cardinality(F!Running')
  BY <1>c, SameCount
(* Steps that leave the workers as they are. *)
<1>1. ASSUME UNCHANGED <<awpc, ajob, abusy>>, acond' \cap AsyncWorkers = acond \cap AsyncWorkers,
             aspc' \in {"idle", "notify", "join", "done"}, aspc' # "idle" => astop',
             aspc' = "done" => \A w \in AsyncWorkers : awpc[w] = "exited",
             aspc' \in {"join", "done"} => aspc \in {"join", "done"},
             F!MayExit => F!MayExit'
      PROVE  F!WorkersInv'
  <2>1. F!Running' = F!Running
    BY <1>1 DEF F!Running
  <2>2. abusy' = F!Cardinality(F!Running')
    BY <1>1, <1>b, <1>c, <2>1
  <2> HIDE DEF F!MayExit
  <2> QED
    BY <1>0, <1>1, <2>2 DEF F!WorkersInv
<1>2. /\ \A w \in AsyncWorkers : awpc[w] = "exited" => F!MayExit
      /\ aspc \in {"idle", "notify", "join", "done"}
  BY <1>0 DEF F!WorkersInv
(* One worker moves and the queue and stop() stay. *)
<1>3. ASSUME NEW w \in AsyncWorkers, NEW l \in {"lock", "asleep", "taken", "running", "after", "exited"},
             awpc' = [awpc EXCEPT ![w] = l], aspc' = aspc, astop' = astop,
             awpc[w] # "asleep", awpc[w] # "exited",
             acond' = IF l = "asleep" THEN acond \cup {w} ELSE acond,
             l = "asleep" => ~astop, l = "exited" => F!MayExit',
             \A v \in AsyncWorkers : awpc[v] = "exited" => F!MayExit',
             ajob' \in [AsyncWorkers -> AsyncTasks \cup {None}],
             \A v \in AsyncWorkers \ {w} : ajob'[v] = ajob[v],
             ajob'[w] # None <=> l \in {"taken", "running"},
             abusy' = Cardinality(F!Running')
      PROVE  F!WorkersInv'
  <2>1. \A v \in AsyncWorkers : awpc'[v] = IF v = w THEN l ELSE awpc[v]
    BY <1>3, <1>t
  <2>2. awpc' \in [AsyncWorkers -> {"lock", "asleep", "taken", "running", "after", "exited"}]
    BY <1>3, <1>t
  <2>3. aspc # "done"
    BY <1>0, <1>3 DEF F!WorkersInv
  <2>4. aspc = "join" => astop
    BY <1>0 DEF F!WorkersInv
  <2>5. ASSUME NEW v \in AsyncWorkers
        PROVE  /\ awpc'[v] = "asleep" <=> v \in acond'
               /\ ajob'[v] # None <=> awpc'[v] \in {"taken", "running"}
               /\ awpc'[v] = "exited" => F!MayExit'
               /\ aspc' \in {"join", "done"} => awpc'[v] # "asleep"
    <3>1. /\ awpc[v] = "asleep" <=> v \in acond
          /\ ajob[v] # None <=> awpc[v] \in {"taken", "running"}
          /\ aspc \in {"join", "done"} => awpc[v] # "asleep"
      BY <1>0 DEF F!WorkersInv
    <3>2. v = w => v \notin acond
      BY <1>3, <3>1
    <3> QED
      BY <1>3, <2>1, <2>3, <2>4, <3>1, <3>2
  <2>6. aspc' \in {"idle", "notify", "join", "done"} /\ (aspc' # "idle" => astop')
    BY <1>0, <1>3 DEF F!WorkersInv
  <2>7. abusy' = F!Cardinality(F!Running')
    BY <1>3, <1>c
  <2> QED
    BY <1>3, <2>2, <2>3, <2>5, <2>6, <2>7 DEF F!WorkersInv
<1>4. ASSUME NEW w \in AsyncWorkers, F!Exit(w) PROVE F!WorkersInv'
  <2>1. /\ awpc[w] = "lock" /\ F!MayExit /\ awpc' = [awpc EXCEPT ![w] = "exited"]
        /\ UNCHANGED <<atasks, astop, abusy, acond, ajob, aspc>>
    BY <1>4 DEF F!Exit
  <2>2. F!MayExit'
    BY <2>1 DEF F!MayExit
  <2>3. abusy' = Cardinality(F!Running')
    <3>a. \A v \in AsyncWorkers : awpc'[v] = IF v = w THEN "exited" ELSE awpc[v]
      BY <1>t, <2>1
    <3>1. F!Running' = F!Running
      BY <2>1, <3>a DEF F!Running
    <3> QED
      BY <1>b, <2>1, <3>1
  <2>4. ajob[w] = None
    BY <1>0, <2>1 DEF F!WorkersInv
  <2> QED
    BY <1>3, <1>t, <2>1, <2>2, <2>3, <2>4
<1>5. ASSUME NEW w \in AsyncWorkers, F!Take(w) PROVE F!WorkersInv'
  <2>1. /\ awpc[w] = "lock" /\ atasks # << >> /\ awpc' = [awpc EXCEPT ![w] = "taken"]
        /\ ajob' = [ajob EXCEPT ![w] = Head(atasks)]
        /\ UNCHANGED <<astop, abusy, acond, aspc>>
    BY <1>5 DEF F!Take
  <2>2. \A v \in AsyncWorkers : awpc[v] # "exited"
    BY <1>2, <2>1 DEF F!MayExit
  <2>3. Head(atasks) \in AsyncTasks
    <3>1. atasks \in Seq(aaccepted) /\ aaccepted \subseteq AsyncTasks
      BY DEF F!IndInv, F!PlacesInv
    <3> QED
      BY <2>1, <3>1
  <2>4. abusy' = Cardinality(F!Running')
    <3>a. \A v \in AsyncWorkers : awpc'[v] = IF v = w THEN "taken" ELSE awpc[v]
      BY <1>t, <2>1
    <3>1. F!Running' = F!Running
      BY <2>1, <3>a DEF F!Running
    <3> QED
      BY <1>b, <2>1, <3>1
  <2>5. /\ ajob' \in [AsyncWorkers -> AsyncTasks \cup {None}] /\ ajob'[w] # None
        /\ \A v \in AsyncWorkers \ {w} : ajob'[v] = ajob[v]
    BY <1>0, <1>t, <2>1, <2>3
  <2> QED
    BY <1>3, <2>1, <2>2, <2>4, <2>5
<1>6. ASSUME NEW w \in AsyncWorkers, F!Sleep(w) PROVE F!WorkersInv'
  <2>1. /\ awpc[w] = "lock" /\ ~astop /\ awpc' = [awpc EXCEPT ![w] = "asleep"]
        /\ acond' = acond \cup {w} /\ UNCHANGED <<atasks, astop, abusy, ajob, aspc>>
    BY <1>6 DEF F!Sleep
  <2>2. F!MayExit' <=> F!MayExit
    BY <2>1 DEF F!MayExit
  <2>3. abusy' = Cardinality(F!Running')
    <3>a. \A v \in AsyncWorkers : awpc'[v] = IF v = w THEN "asleep" ELSE awpc[v]
      BY <1>t, <2>1
    <3>1. F!Running' = F!Running
      BY <2>1, <3>a DEF F!Running
    <3> QED
      BY <1>b, <2>1, <3>1
  <2>4. ajob[w] = None
    BY <1>0, <2>1 DEF F!WorkersInv
  <2> QED
    BY <1>2, <1>3, <1>t, <2>1, <2>2, <2>3, <2>4
<1>7. ASSUME NEW w \in AsyncWorkers, F!Start(w) PROVE F!WorkersInv'
  <2>1. /\ awpc[w] = "taken" /\ awpc' = [awpc EXCEPT ![w] = "running"] /\ abusy' = abusy + 1
        /\ UNCHANGED <<atasks, astop, acond, ajob, aspc>>
    BY <1>7 DEF F!Start
  <2>2. F!MayExit' <=> F!MayExit
    BY <2>1 DEF F!MayExit
  <2>3. abusy' = Cardinality(F!Running')
    <3>a. \A v \in AsyncWorkers : awpc'[v] = IF v = w THEN "running" ELSE awpc[v]
      BY <1>t, <2>1
    <3>b. F!Running' = F!Running \cup {w} /\ w \notin F!Running
      BY <2>1, <3>a DEF F!Running
    <3>1. Cardinality(F!Running') = Cardinality(F!Running) + 1
      BY <3>b, RunningCount
    <3> QED
      BY <1>b, <2>1, <3>1
  <2>4. ajob[w] # None
    BY <1>0, <2>1 DEF F!WorkersInv
  <2> QED
    BY <1>2, <1>3, <1>t, <2>1, <2>2, <2>3, <2>4
<1>8. ASSUME NEW w \in AsyncWorkers, F!Finish(w) PROVE F!WorkersInv'
  <2>1. /\ awpc[w] = "running" /\ awpc' = [awpc EXCEPT ![w] = "after"] /\ abusy' = abusy - 1
        /\ ajob' = [ajob EXCEPT ![w] = None] /\ UNCHANGED <<atasks, astop, acond, aspc>>
    BY <1>8 DEF F!Finish
  <2>2. F!MayExit' <=> F!MayExit
    BY <2>1 DEF F!MayExit
  <2>3. abusy' = Cardinality(F!Running')
    <3>a. \A v \in AsyncWorkers : awpc'[v] = IF v = w THEN "after" ELSE awpc[v]
      BY <1>t, <2>1
    <3>b. F!Running' = F!Running \ {w} /\ w \in F!Running
      BY <2>1, <3>a DEF F!Running
    <3>1. Cardinality(F!Running') = Cardinality(F!Running) - 1
      BY <3>b, RunningCount
    <3> QED
      BY <1>b, <2>1, <3>1
  <2>4. /\ ajob' \in [AsyncWorkers -> AsyncTasks \cup {None}] /\ ajob'[w] = None
        /\ \A v \in AsyncWorkers \ {w} : ajob'[v] = ajob[v]
    BY <1>t, <2>1
  <2> QED
    BY <1>2, <1>3, <2>1, <2>2, <2>3, <2>4
(* Sleepers are woken, and with them a worker that is through with its task. *)
<1>9. ASSUME NEW ts, ts \subseteq acond, NEW x, x \in ts \/ x \notin AsyncWorkers \/ awpc[x] = "after",
             acond' = acond \ ts,
             awpc' = [v \in AsyncWorkers |-> IF v = x \/ v \in ts THEN "lock" ELSE awpc[v]],
             UNCHANGED <<atasks, astop, abusy, ajob>>,
             aspc' = aspc \/ (aspc = "notify" /\ aspc' = "join" /\ ts = acond)
      PROVE  F!WorkersInv'
  <2>1. /\ \A v \in AsyncWorkers : awpc'[v] = IF v = x \/ v \in ts THEN "lock" ELSE awpc[v]
        /\ awpc' \in [AsyncWorkers -> {"lock", "asleep", "taken", "running", "after", "exited"}]
    BY <1>9, <1>t
  <2>2. \A v \in AsyncWorkers : v \in acond => awpc[v] = "asleep"
    BY <1>0 DEF F!WorkersInv
  <2>3. F!Running' = F!Running
    BY <1>9, <2>1, <2>2 DEF F!Running
  <2>4. abusy' = F!Cardinality(F!Running')
    BY <1>9, <1>b, <1>c, <2>3
  <2>5. F!MayExit' <=> F!MayExit
    BY <1>9 DEF F!MayExit
  <2>6. ASSUME NEW v \in AsyncWorkers
        PROVE  /\ awpc'[v] = "asleep" <=> v \in acond'
               /\ ajob'[v] # None <=> awpc'[v] \in {"taken", "running"}
               /\ awpc'[v] = "exited" => F!MayExit'
               /\ aspc' = "done" => awpc'[v] = "exited"
               /\ aspc' \in {"join", "done"} => awpc'[v] # "asleep"
    <3>1. /\ awpc[v] = "asleep" <=> v \in acond
          /\ ajob[v] # None <=> awpc[v] \in {"taken", "running"}
          /\ aspc = "done" => awpc[v] = "exited"
          /\ aspc \in {"join", "done"} => awpc[v] # "asleep"
      BY <1>0 DEF F!WorkersInv
    <3> QED
      BY <1>2, <1>9, <2>1, <2>2, <2>5, <3>1
  <2>7. aspc' \in {"idle", "notify", "join", "done"} /\ (aspc' # "idle" => astop')
    BY <1>0, <1>9 DEF F!WorkersInv
  <2>8. ajob' \in [AsyncWorkers -> AsyncTasks \cup {None}]
    BY <1>9, <1>t
  <2> QED
    BY <2>1, <2>4, <2>6, <2>7, <2>8 DEF F!WorkersInv
<1>10. ASSUME NEW ts, ts \subseteq acond, F!Wake(ts), UNCHANGED <<atasks, astop, abusy, ajob>>,
              aspc' = aspc \/ (aspc = "notify" /\ aspc' = "join" /\ ts = acond)
       PROVE  F!WorkersInv'
  <2>1. awpc' = [v \in AsyncWorkers |-> IF v = Waiter \/ v \in ts THEN "lock" ELSE awpc[v]]
    BY <1>0, <1>10 DEF F!Wake
  <2> QED
    BY <1>0, <1>9, <1>10, <2>1 DEF F!Wake
<1>11. ASSUME NEW w \in AsyncWorkers, F!After(w) PROVE F!WorkersInv'
  <2> DEFINE ts == IF abusy = 0 /\ atasks = << >> THEN acond ELSE {}
  <2>1. /\ awpc[w] = "after" /\ ts \subseteq acond /\ acond' = acond \ ts
        /\ awpc' = [v \in AsyncWorkers |-> IF v = w \/ v \in ts THEN "lock" ELSE awpc[v]]
        /\ UNCHANGED <<atasks, astop, abusy, ajob, aspc>>
    BY <1>11 DEF F!After
  <2> HIDE DEF ts
  <2> QED
    BY <1>9, <2>1
<1>12. ASSUME NEW t \in AsyncWorkers \cup {Waiter}, F!Spurious(t) PROVE F!WorkersInv'
  BY <1>10, <1>12 DEF F!Spurious
<1>13. ASSUME F!NotifyOne PROVE F!WorkersInv'
  <2>1. CASE acond = {}
    BY <1>1, <1>13, <2>1, <1>0 DEF F!NotifyOne, F!MayExit, F!WorkersInv
  <2>2. CASE acond # {}
    BY <1>10, <1>13, <2>2 DEF F!NotifyOne
  <2> QED
    BY <2>1, <2>2
<1>14. ASSUME F!NotifyAll PROVE F!WorkersInv'
  BY <1>10, <1>14 DEF F!NotifyAll
<1>15. ASSUME NEW t \in AsyncTasks, F!AddTask(t) PROVE F!WorkersInv'
  BY <1>0, <1>1, <1>15 DEF F!AddTask, F!MayExit, F!WorkersInv
<1>16. ASSUME F!WaitForAllDone \/ F!WaiterLooks \/ F!WaitTimesOut PROVE F!WorkersInv'
  BY <1>0, <1>1, <1>16 DEF F!WaitForAllDone, F!WaiterLooks, F!WaitTimesOut, F!MayExit, F!WorkersInv
<1>17. ASSUME F!SetStop \/ F!Join PROVE F!WorkersInv'
  BY <1>0, <1>1, <1>17 DEF F!SetStop, F!Join, F!MayExit, F!WorkersInv
<1> QED
  BY <1>4, <1>5, <1>6, <1>7, <1>8, <1>11, <1>12, <1>13, <1>14, <1>15, <1>16, <1>17 DEF F!Next

(* add_task(), the worker that takes a task and the one that finishes it move it to    *)
(* its next place.                                                                    *)
LEMMA PlacesStep ==
  ASSUME F!IndInv, F!Next
  PROVE  F!PlacesInv'
<1>0. F!PlacesInv /\ None \notin AsyncTasks
  BY AsyncAssumption DEF F!IndInv
<1>t. /\ ajob \in [AsyncWorkers -> AsyncTasks \cup {None}] /\ aaccepted \subseteq AsyncTasks
      /\ atasks \in Seq(aaccepted) /\ Len(atasks) \in Nat /\ DOMAIN atasks = 1 .. Len(atasks)
      /\ \A i \in DOMAIN atasks : atasks[i] \in aaccepted
      /\ \A w \in AsyncWorkers : awpc[w] = "lock" => ajob[w] = None
      /\ \A w \in AsyncWorkers : awpc[w] = "running" => ajob[w] # None
  BY DEF F!IndInv, F!PlacesInv, F!WorkersInv
<1>1. ASSUME UNCHANGED <<atasks, ajob, aaccepted, aready>> PROVE F!PlacesInv'
  BY <1>0, <1>1 DEF F!PlacesInv
<1>2. ASSUME NEW t \in AsyncTasks, F!AddTask(t) PROVE F!PlacesInv'
  <2> DEFINE s == Append(atasks, t)
             m == Len(atasks)
  <2>1. /\ t \notin aaccepted /\ atasks' = s /\ aaccepted' = aaccepted \cup {t}
        /\ UNCHANGED <<ajob, aready>>
    BY <1>2 DEF F!AddTask
  <2>2. /\ s \in Seq(aaccepted \cup {t}) /\ DOMAIN s = 1 .. m + 1
        /\ \A i \in 1 .. m : s[i] = atasks[i]
        /\ s[m + 1] = t
    BY <1>t
  <2>3. \A i \in 1 .. m + 1 : i \in 1 .. m \/ i = m + 1
    BY <1>t
  <2>4. m + 1 \in 1 .. m + 1 /\ (\A i \in 1 .. m : i \in 1 .. m + 1) /\ DOMAIN atasks = 1 .. m
    BY <1>t
  <2> HIDE DEF s, m
  <2>5. \A i \in 1 .. m : atasks[i] # t /\ atasks[i] \in aaccepted
    BY <1>t, <2>1, <2>4
  <2>6. \A w \in AsyncWorkers : ajob[w] # t
    BY <1>0, <1>2, <2>1 DEF F!PlacesInv
  <2>7. t \notin aready
    BY <1>0, <2>1 DEF F!PlacesInv
  <2>8. \A i \in DOMAIN s : s[i] \notin aready /\ \A w \in AsyncWorkers : ajob[w] # s[i]
    BY <1>0, <2>2, <2>3, <2>4, <2>6, <2>7 DEF F!PlacesInv
  <2>9. \A i, j \in DOMAIN s : s[i] = s[j] => i = j
    BY <1>0, <2>2, <2>3, <2>4, <2>5 DEF F!PlacesInv
  <2>10. \A u \in aaccepted \cup {t} :
           u \in aready \/ (\E i \in DOMAIN s : s[i] = u) \/ \E w \in AsyncWorkers : ajob[w] = u
    BY <1>0, <2>2, <2>4 DEF F!PlacesInv
  <2> QED
    BY <1>0, <1>t, <2>1, <2>2, <2>8, <2>9, <2>10 DEF F!PlacesInv
<1>3. ASSUME NEW w \in AsyncWorkers, F!Take(w) PROVE F!PlacesInv'
  <2> DEFINE s == Tail(atasks)
             m == Len(atasks)
             h == Head(atasks)
  <2>1. /\ awpc[w] = "lock" /\ atasks # << >> /\ atasks' = s /\ ajob' = [ajob EXCEPT ![w] = h]
        /\ UNCHANGED <<aaccepted, aready>>
    BY <1>3 DEF F!Take
  <2>2. /\ s \in Seq(aaccepted) /\ DOMAIN s = 1 .. m - 1 /\ h = atasks[1] /\ m > 0
        /\ \A i \in 1 .. m - 1 : s[i] = atasks[i + 1]
    BY <1>t, <2>1
  <2>3. /\ 1 \in 1 .. m
        /\ \A i \in 1 .. m - 1 : i + 1 \in 1 .. m /\ i + 1 # 1
        /\ \A i \in 1 .. m : i = 1 \/ (i - 1 \in 1 .. m - 1 /\ (i - 1) + 1 = i)
        /\ \A i, j \in 1 .. m - 1 : i + 1 = j + 1 => i = j
        /\ DOMAIN atasks = 1 .. m
    BY <1>t, <2>2
  <2> HIDE DEF s, m, h
  <2>4. \A v \in AsyncWorkers : ajob'[v] = IF v = w THEN h ELSE ajob[v]
    BY <1>t, <2>1
  <2>5. /\ h \in aaccepted /\ h \notin aready /\ \A v \in AsyncWorkers : ajob[v] # h
    BY <1>0, <1>t, <2>2, <2>3 DEF F!PlacesInv
  <2>6. \A i \in DOMAIN s : s[i] # h /\ s[i] \notin aready /\ \A v \in AsyncWorkers : ajob[v] # s[i]
    BY <1>0, <2>2, <2>3 DEF F!PlacesInv
  <2>7. \A i, j \in DOMAIN s : s[i] = s[j] => i = j
    BY <1>0, <2>2, <2>3 DEF F!PlacesInv
  <2>8. ASSUME NEW u \in aaccepted
        PROVE  u \in aready \/ (\E i \in DOMAIN s : s[i] = u) \/ \E v \in AsyncWorkers : ajob'[v] = u
    <3>1. CASE \E i \in DOMAIN atasks : atasks[i] = u
      BY <2>2, <2>3, <2>4, <3>1
    <3>2. CASE \E v \in AsyncWorkers : ajob[v] = u
      <4>1. ajob[w] = None /\ u # None
        BY <1>0, <1>t, <2>1
      <4> QED
        BY <2>4, <3>2, <4>1
    <3> QED
      BY <1>0, <3>1, <3>2 DEF F!PlacesInv
  <2>9. /\ \A v \in AsyncWorkers : ajob'[v] # None => ajob'[v] \in aaccepted \ aready
        /\ \A i \in DOMAIN s : s[i] \notin aready /\ \A v \in AsyncWorkers : ajob'[v] # s[i]
        /\ \A v, x \in AsyncWorkers : ajob'[v] = ajob'[x] /\ ajob'[v] # None => v = x
    BY <1>0, <2>4, <2>5, <2>6 DEF F!PlacesInv
  <2> QED
    BY <1>0, <2>1, <2>2, <2>7, <2>8, <2>9 DEF F!PlacesInv
<1>4. ASSUME NEW w \in AsyncWorkers, F!Finish(w) PROVE F!PlacesInv'
  <2>1. /\ awpc[w] = "running" /\ aready' = aready \cup {ajob[w]} /\ ajob' = [ajob EXCEPT ![w] = None]
        /\ UNCHANGED <<atasks, aaccepted>>
    BY <1>4 DEF F!Finish
  <2>2. \A v \in AsyncWorkers : ajob'[v] = IF v = w THEN None ELSE ajob[v]
    BY <1>t, <2>1
  <2>3. ajob[w] # None /\ ajob[w] \in aaccepted /\ \A i \in DOMAIN atasks : atasks[i] # ajob[w] /\ atasks[i] # None
    BY <1>0, <1>t, <2>1 DEF F!PlacesInv
  <2> QED
    BY <1>0, <2>1, <2>2, <2>3 DEF F!PlacesInv
<1>5. CASE \E w \in AsyncWorkers : F!Exit(w) \/ F!Sleep(w) \/ F!Start(w) \/ F!After(w)
  BY <1>1, <1>5 DEF F!Exit, F!Sleep, F!Start, F!After
<1>6. CASE \/ \E t \in AsyncWorkers \cup {Waiter} : F!Spurious(t)
           \/ F!NotifyOne \/ F!WaitForAllDone \/ F!WaiterLooks \/ F!WaitTimesOut
           \/ F!SetStop \/ F!NotifyAll \/ F!Join
  BY <1>1, <1>6 DEF F!Spurious, F!NotifyOne, F!WaitForAllDone, F!WaiterLooks, F!WaitTimesOut,
                    F!SetStop, F!NotifyAll, F!Join
<1> QED
  BY <1>2, <1>3, <1>4, <1>5, <1>6 DEF F!Next

(* An accepted task is counted once. *)
LEMMA FuturesCounted == F!IndInv => F!FuturesKept
<1> SUFFICES ASSUME F!IndInv PROVE F!FuturesKept
  OBVIOUS
<1>0. F!WorkersInv /\ F!PlacesInv /\ AsyncWorkers # {}
  BY AsyncAssumption DEF F!IndInv
<1>1. Cardinality({}) = 0 /\ \A x : Cardinality({x}) = 1
  BY FS_EmptySet, FS_Singleton
<1>2. ASSUME NEW t \in aaccepted
      PROVE  Cardinality({i \in DOMAIN atasks : atasks[i] = t})
               + Cardinality({w \in AsyncWorkers : ajob[w] = t}) + Cardinality({t} \cap aready) = 1
  <2> DEFINE A == {i \in DOMAIN atasks : atasks[i] = t}
             B == {w \in AsyncWorkers : ajob[w] = t}
             C == {t} \cap aready
  <2>0. t # None
    BY <1>0, AsyncAssumption DEF F!PlacesInv
  <2>1. ASSUME t \in aready PROVE A = {} /\ B = {} /\ C = {t}
    BY <1>0, <2>0, <2>1 DEF F!PlacesInv
  <2>2. ASSUME NEW i \in DOMAIN atasks, atasks[i] = t PROVE A = {i} /\ B = {} /\ C = {}
    BY <1>0, <2>0, <2>2 DEF F!PlacesInv
  <2>3. ASSUME NEW w \in AsyncWorkers, ajob[w] = t PROVE A = {} /\ B = {w} /\ C = {}
    BY <1>0, <2>0, <2>3 DEF F!PlacesInv
  <2> HIDE DEF A, B, C
  <2>4. Cardinality(A) + Cardinality(B) + Cardinality(C) = 1
    <3>1. \A i \in DOMAIN atasks : atasks[i] = t =>
             Cardinality(A) = 1 /\ Cardinality(B) = 0 /\ Cardinality(C) = 0
      BY <1>1, <2>2
    <3>2. \A w \in AsyncWorkers : ajob[w] = t =>
             Cardinality(A) = 0 /\ Cardinality(B) = 1 /\ Cardinality(C) = 0
      BY <1>1, <2>3
    <3>3. t \in aready => Cardinality(A) = 0 /\ Cardinality(B) = 0 /\ Cardinality(C) = 1
      BY <1>1, <2>1
    <3>4. t \in aready \/ (\E i \in DOMAIN atasks : atasks[i] = t) \/ \E w \in AsyncWorkers : ajob[w] = t
      BY <1>0 DEF F!PlacesInv
    <3> QED
      BY <3>1, <3>2, <3>3, <3>4
  <2> QED
    BY <2>4 DEF A, B, C
<1>3. aspc = "done" => aready = aaccepted
  <2> SUFFICES ASSUME aspc = "done" PROVE aready = aaccepted
    OBVIOUS
  <2>1. \A w \in AsyncWorkers : awpc[w] = "exited"
    BY <1>0 DEF F!WorkersInv
  <2>2. atasks = << >> /\ \A w \in AsyncWorkers : ajob[w] = None
    BY <1>0, <2>1 DEF F!WorkersInv, F!MayExit
  <2>3. \A t \in aaccepted : t \in aready
    BY <1>0, <2>2, AsyncAssumption DEF F!PlacesInv
  <2> QED
    BY <1>0, <2>3 DEF F!PlacesInv
<1>4. \A t \in aaccepted :
        F!Cardinality({i \in DOMAIN atasks : atasks[i] = t})
          + F!Cardinality({w \in AsyncWorkers : ajob[w] = t}) + F!Cardinality({t} \cap aready) = 1
  BY <1>2, SameCount
<1>5. aspc \in {"join", "done"} => \A w \in AsyncWorkers : awpc[w] # "asleep"
  BY <1>0 DEF F!WorkersInv
<1>6. abusy = F!Cardinality({w \in AsyncWorkers : awpc[w] = "running"})
  BY <1>0 DEF F!WorkersInv, F!Running
<1> QED
  BY <1>3, <1>4, <1>5, <1>6 DEF F!FuturesKept

(* The pool's invariant is kept by every step. *)
LEMMA AsyncStep == F!IndInv /\ [F!Next]_fvars => F!IndInv'
<1> SUFFICES ASSUME F!IndInv, [F!Next]_fvars PROVE F!IndInv'
  OBVIOUS
<1>1. CASE UNCHANGED fvars
  BY <1>1 DEF fvars, F!IndInv, F!WorkersInv, F!PlacesInv, F!MayExit, F!Running
<1>2. CASE F!Next
  BY <1>2, WorkersStep, PlacesStep DEF F!IndInv
<1> QED
  BY <1>1, <1>2

(* Whatever the threads do: only readers share a lock, tickets are served in order and  *)
(* none is lost when their number wraps, and every task that the asynchronous pool took *)
(* has its future set once, at the latest when stop() returns (lock.h,                  *)
(* async_threadpool.h).                                                                 *)
THEOREM ThreadsStaySound == InitAll /\ [][NextAll]_allvars => []ThreadsSound
<1>1. InitAll => K!IndInv /\ F!IndInv
  BY InitLocks, InitAsync DEF InitAll
<1>2. (K!IndInv /\ F!IndInv) /\ [NextAll]_allvars => (K!IndInv /\ F!IndInv)'
  <2>1. [NextAll]_allvars => [K!Next]_kvars /\ [F!Next]_fvars
    BY DEF NextAll, allvars, kvars, fvars
  <2> QED
    BY <2>1, LocksStep, AsyncStep
<1>3. K!IndInv /\ F!IndInv => ThreadsSound
  BY FuturesCounted DEF K!IndInv, K!LocksExclude, ThreadsSound
<1> QED
  BY <1>1, <1>2, <1>3, PTL
=============================================================================
