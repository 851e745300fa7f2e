----------------------------- MODULE Rpc_proof -----------------------------
(***************************************************************************)
(* Proofs about Rpc for any number of calls and pool threads and any         *)
(* timeout, the swapped arguments of set_timeout_timer() included, and about *)
(* the HTTP server and client, as MCRpc instantiates them, for any number of *)
(* requests, sessions, servlets and pool threads.                            *)
(***************************************************************************)
EXTENDS MCRpc, FiniteSetTheorems, SequenceTheorems, WellFoundedInduction, TLAPS

(* The static table of calls starts empty: the invariant holds. *)
LEMMA InitIndInv == Init => IndInv
<1> SUFFICES ASSUME Init PROVE IndInv
  OBVIOUS
<1> USE BoundsAssumption, NoCallAssumption DEF Calls
<1>1. TypeOK
  BY DEF Init, TypeOK
<1>2. OwnersApart
  BY DEF Init, OwnersApart
<1>3. OutcomeCounts
  BY DEF Init, OutcomeCounts, Owned
<1> QED
  BY <1>1, <1>2, <1>3 DEF IndInv

(* Every step keeps the variables in range; a timer set for the wrong call     *)
(* still holds a number.                                                       *)
LEMMA TypeStep ==
  ASSUME TypeOK, [Next]_vars
  PROVE  TypeOK'
<1> USE DEF TypeOK, history
<1>0. NoCall \notin Calls /\ Calls \subseteq Nat
  BY NoCallAssumption, BoundsAssumption DEF Calls
<1>1. CASE Register
  BY <1>0, <1>1, BoundsAssumption, SMTT(30) DEF Register, Calls
<1>2. ASSUME NEW i \in Calls, Arm(i) PROVE TypeOK'
  <2>1. \A tm \in timers' : tm.key \in Nat /\ tm.at \in Nat
    BY <1>0, <1>2, TimeoutAssumption DEF Arm, SetTimeoutTimer
  <2> QED
    BY <1>2, <2>1 DEF Arm
<1>3. ASSUME NEW i \in Calls, SendRequest(i) \/ Serve(i) PROVE TypeOK'
  BY <1>3 DEF SendRequest, Serve
<1>4. ASSUME NEW th \in Threads, NEW i \in Calls, TakeAnswer(th, i) PROVE TypeOK'
  BY <1>4 DEF TakeAnswer
<1>5. ASSUME NEW th \in Threads, FinishAnswer(th) PROVE TypeOK'
  <2>1. hold[th] \in Calls
    BY <1>5 DEF FinishAnswer
  <2>2. client' \in [Calls -> Nat] /\ freed' \in [Calls -> Nat]
    BY <1>5, <2>1 DEF FinishAnswer
  <2> QED
    BY <1>5, <2>2 DEF FinishAnswer
<1>6. ASSUME NEW tm \in timers, FireTimer(tm) PROVE TypeOK'
  BY <1>6 DEF FireTimer
<1>7. CASE FinishTimer
  <2>1. timeouts' \in [Calls -> Nat] /\ freed' \in [Calls -> Nat]
    BY <1>7 DEF FinishTimer
  <2> QED
    BY <1>7, <2>1 DEF FinishTimer
<1>8. CASE Tick
  <2>1. now' \in Nat
    BY <1>8 DEF Tick
  <2> QED
    BY <1>8, <2>1 DEF Tick
<1>9. CASE UNCHANGED vars
  BY <1>9 DEF vars
<1> QED
  BY <1>1, <1>2, <1>3, <1>4, <1>5, <1>6, <1>7, <1>8, <1>9
     DEF Next, CallStep, PoolStep, TimerStep

(* A call changes hands under _locker: whoever takes it out of the table is    *)
(* the only one that has it (TakeAnswer, FireTimer), and a call enters the     *)
(* table once, with a trace id nobody has had (Register).                      *)
LEMMA OwnersStep ==
  ASSUME IndInv, [Next]_vars
  PROVE  OwnersApart'
<1> USE BoundsAssumption, NoCallAssumption DEF Calls, history, OwnersApart
<1>0. TypeOK /\ OwnersApart /\ OutcomeCounts
  BY DEF IndInv
<1>1. CASE Register
  <2>1. ~Owned(next_traceid + 1)
    BY <1>0, <1>1 DEF OutcomeCounts, Register, TypeOK
  <2> QED
    BY <1>0, <1>1, <2>1 DEF Owned, Register, TypeOK
<1>2. ASSUME NEW i \in Calls, CallStep(i) \/ Serve(i) PROVE OwnersApart'
  BY <1>0, <1>2 DEF CallStep, Arm, SendRequest, Serve
<1>3. ASSUME NEW th \in Threads, NEW i \in Calls, TakeAnswer(th, i) PROVE OwnersApart'
  BY <1>0, <1>3 DEF TakeAnswer, TypeOK
<1>4. ASSUME NEW th \in Threads, FinishAnswer(th) PROVE OwnersApart'
  <2>1. \A u \in Threads : hold'[u] = IF u = th THEN NoCall ELSE hold[u]
    BY <1>0, <1>4 DEF FinishAnswer, TypeOK
  <2>2. UNCHANGED <<rpcs, thold>>
    BY <1>4 DEF FinishAnswer
  <2>3. NoCall \notin rpcs
    <3>1. NoCall \notin 1 .. MaxCalls
      OBVIOUS
    <3>2. rpcs \subseteq 1 .. MaxCalls
      BY <1>0 DEF TypeOK
    <3> QED
      BY <3>1, <3>2
  <2> QED
    BY <1>0, <2>1, <2>2, <2>3
<1>5. ASSUME NEW tm \in timers, FireTimer(tm) PROVE OwnersApart'
  BY <1>0, <1>5 DEF FireTimer, TypeOK
<1>6. CASE FinishTimer
  BY <1>0, <1>6, SMTT(30) DEF FinishTimer, TypeOK
<1>7. CASE Tick \/ UNCHANGED vars
  BY <1>0, <1>7 DEF Tick, vars
<1> QED
  BY <1>1, <1>2, <1>3, <1>4, <1>5, <1>6, <1>7 DEF Next, PoolStep, TimerStep

(* A callback runs, and the call is deleted, only by whoever has it; it has    *)
(* it no longer afterwards.                                                    *)
LEMMA CountsStep ==
  ASSUME IndInv, [Next]_vars
  PROVE  OutcomeCounts'
<1> USE BoundsAssumption, NoCallAssumption DEF Calls, history, Owned
<1>0. TypeOK /\ OwnersApart /\ OutcomeCounts
  BY DEF IndInv
<1> SUFFICES ASSUME NEW j \in Calls
             PROVE  /\ Owned(j)' <=> (j <= next_traceid /\ freed[j] = 0)'
                    /\ freed'[j] = 0 \/ (freed'[j] = 1 /\ j <= next_traceid')
                    /\ client'[j] + timeouts'[j] = freed'[j]
  BY DEF OutcomeCounts
<1>a. /\ Owned(j) <=> (j <= next_traceid /\ freed[j] = 0)
      /\ freed[j] = 0 \/ (freed[j] = 1 /\ j <= next_traceid)
      /\ client[j] + timeouts[j] = freed[j]
  BY <1>0 DEF OutcomeCounts
<1>b. client[j] \in Nat /\ timeouts[j] \in Nat /\ freed[j] \in Nat
  BY <1>0 DEF TypeOK
<1>1. CASE Register
  BY <1>0, <1>1, <1>a, <1>b, SMTT(30) DEF Register, TypeOK
<1>2. ASSUME NEW i \in Calls, CallStep(i) \/ Serve(i)
      PROVE  UNCHANGED <<next_traceid, rpcs, hold, thold, client, timeouts, freed>>
  BY <1>2 DEF CallStep, Arm, SendRequest, Serve
<1>3. ASSUME NEW th \in Threads, NEW i \in Calls, TakeAnswer(th, i)
      PROVE  /\ Owned(j)' <=> Owned(j)
             /\ UNCHANGED <<next_traceid, client, timeouts, freed>>
  BY <1>0, <1>3 DEF TakeAnswer, TypeOK
<1>4. ASSUME NEW th \in Threads, FinishAnswer(th)
      PROVE  /\ next_traceid' = next_traceid /\ timeouts' = timeouts
             /\ IF hold[th] = j
                  THEN Owned(j) /\ ~Owned(j)' /\ client'[j] = client[j] + 1 /\ freed'[j] = freed[j] + 1
                  ELSE (Owned(j)' <=> Owned(j)) /\ client'[j] = client[j] /\ freed'[j] = freed[j]
  <2>1. hold[th] \in Calls /\ j # NoCall
    BY <1>0, <1>4, SMTT(30) DEF FinishAnswer, TypeOK
  <2>2. /\ client'[j] = IF hold[th] = j THEN client[j] + 1 ELSE client[j]
        /\ freed'[j] = IF hold[th] = j THEN freed[j] + 1 ELSE freed[j]
    BY <1>0, <1>4, <2>1 DEF FinishAnswer, TypeOK
  <2>3. \A u \in Threads : hold'[u] = IF u = th THEN NoCall ELSE hold[u]
    BY <1>0, <1>4 DEF FinishAnswer, TypeOK
  <2>4. UNCHANGED <<next_traceid, timeouts, rpcs, thold>>
    BY <1>4 DEF FinishAnswer
  <2>5. /\ hold[th] = j => Owned(j) /\ ~Owned(j)'
        /\ hold[th] # j => (Owned(j)' <=> Owned(j))
    BY <1>0, <2>1, <2>3, <2>4 DEF OwnersApart
  <2> QED
    BY <2>2, <2>4, <2>5
<1>5. ASSUME NEW tm \in timers, FireTimer(tm)
      PROVE  /\ Owned(j)' <=> Owned(j)
             /\ UNCHANGED <<next_traceid, client, timeouts, freed>>
  BY <1>0, <1>5, SMTT(30) DEF FireTimer, TypeOK
<1>6. ASSUME FinishTimer
      PROVE  /\ next_traceid' = next_traceid /\ client' = client
             /\ IF thold = j
                  THEN Owned(j) /\ ~Owned(j)' /\ timeouts'[j] = timeouts[j] + 1 /\ freed'[j] = freed[j] + 1
                  ELSE (Owned(j)' <=> Owned(j)) /\ timeouts'[j] = timeouts[j] /\ freed'[j] = freed[j]
  BY <1>0, <1>6, SMTT(30) DEF FinishTimer, TypeOK, OwnersApart
<1>7. CASE Tick \/ UNCHANGED vars
  BY <1>7, <1>a DEF Tick, vars
<1>8. CASE \E i \in Calls : CallStep(i) \/ Serve(i)
  BY <1>2, <1>8, <1>a
<1>9. CASE (\E th \in Threads, i \in Calls : TakeAnswer(th, i)) \/ \E tm \in timers : FireTimer(tm)
  BY <1>3, <1>5, <1>9, <1>a
<1>10. CASE \E th \in Threads : FinishAnswer(th)
  BY <1>4, <1>10, <1>a, <1>b
<1>11. CASE FinishTimer
  BY <1>6, <1>11, <1>a, <1>b
<1> HIDE DEF Owned
<1> QED
  BY <1>1, <1>7, <1>8, <1>9, <1>10, <1>11 DEF Next, PoolStep, TimerStep

(* IndInv is kept by every step. *)
LEMMA IndInvStep == IndInv /\ [Next]_vars => IndInv'
  BY TypeStep, OwnersStep, CountsStep DEF IndInv

(* Counting the owners of a call: with OwnersApart there is at most one, and   *)
(* exactly one when the call is Owned.                                         *)
LEMMA OwnersCounted ==
  ASSUME IndInv, NEW i \in Calls
  PROVE  LET owners == {<<"table", x>> : x \in rpcs \cap {i}}
                       \cup {<<"pool", th>> : th \in {u \in Threads : hold[u] = i}}
                       \cup {<<"timer", x>> : x \in {thold} \cap {i}}
         IN  Cardinality(owners) = (IF Owned(i) THEN 1 ELSE 0)
<1> DEFINE A == {<<"table", x>> : x \in rpcs \cap {i}}
           B == {<<"pool", th>> : th \in {u \in Threads : hold[u] = i}}
           C == {<<"timer", x>> : x \in {thold} \cap {i}}
<1>0. OwnersApart /\ i # NoCall
  BY NoCallAssumption, BoundsAssumption DEF IndInv, Calls
<1>1. CASE i \in rpcs
  <2>1. A \cup B \cup C = {<<"table", i>>}
    BY <1>0, <1>1 DEF OwnersApart
  <2> QED
    BY <1>1, <2>1, FS_Singleton DEF Owned
<1>2. CASE i \notin rpcs /\ thold = i
  <2>1. A \cup B \cup C = {<<"timer", i>>}
    BY <1>0, <1>2 DEF OwnersApart
  <2> QED
    BY <1>2, <2>1, FS_Singleton DEF Owned
<1>3. ASSUME i \notin rpcs, thold # i, NEW t \in Threads, hold[t] = i
      PROVE  Cardinality(A \cup B \cup C) = (IF Owned(i) THEN 1 ELSE 0)
  <2>1. A \cup B \cup C = {<<"pool", t>>}
    BY <1>0, <1>3 DEF OwnersApart
  <2> QED
    BY <1>3, <2>1, FS_Singleton DEF Owned
<1>4. CASE ~Owned(i)
  <2>1. A \cup B \cup C = {}
    BY <1>4 DEF Owned
  <2> QED
    BY <1>4, <2>1, FS_EmptySet
<1> QED
  BY <1>1, <1>2, <1>3, <1>4 DEF Owned

(* The inductive invariant gives the property the runs check. *)
LEMMA IndInvOneOutcome == IndInv => OneOutcome
<1> SUFFICES ASSUME IndInv PROVE OneOutcome
  OBVIOUS
<1> DEFINE owners(i) == {<<"table", x>> : x \in rpcs \cap {i}}
                        \cup {<<"pool", th>> : th \in {u \in Threads : hold[u] = i}}
                        \cup {<<"timer", x>> : x \in {thold} \cap {i}}
<1>1. ASSUME NEW i \in Calls
      PROVE  /\ Cardinality(owners(i)) + freed[i] = (IF i <= next_traceid THEN 1 ELSE 0)
             /\ client[i] + timeouts[i] = freed[i]
  <2>1. Cardinality(owners(i)) = (IF Owned(i) THEN 1 ELSE 0)
    BY OwnersCounted
  <2>2. /\ Owned(i) <=> (i <= next_traceid /\ freed[i] = 0)
        /\ freed[i] = 0 \/ (freed[i] = 1 /\ i <= next_traceid)
        /\ client[i] + timeouts[i] = freed[i]
    BY DEF IndInv, OutcomeCounts
  <2> HIDE DEF owners
  <2> QED
    BY <2>1, <2>2
<1> QED
  BY <1>1 DEF OneOutcome, IndInv

(* Every call ends at most once, by its answer or its timeout but not both,    *)
(* and has one owner until it is deleted, however the answer, the timer and    *)
(* lost messages interleave (rpc::run, rpc::set_timeout_timer).                *)
THEOREM CallsEndOnce == Spec => []OneOutcome
<1>1. Init => IndInv
  BY InitIndInv
<1>2. IndInv /\ [Next]_vars => IndInv'
  BY IndInvStep
<1>3. IndInv => OneOutcome
  BY IndInvOneOutcome
<1> QED
  BY <1>1, <1>2, <1>3, PTL DEF Spec

(***************************************************************************)
(* The HTTP server.                                                          *)
(***************************************************************************)

(* What Append and Tail make of a sequence of its own elements. *)
LEMMA OwnAppend ==
  ASSUME NEW s, s \in Seq(S!Range(s)), NEW x
  PROVE  /\ Append(s, x) \in Seq(S!Range(Append(s, x)))
         /\ Len(s) \in Nat /\ DOMAIN s = 1 .. Len(s)
         /\ Len(Append(s, x)) = Len(s) + 1 /\ DOMAIN Append(s, x) = 1 .. Len(s) + 1
         /\ \A i \in 1 .. Len(s) : Append(s, x)[i] = s[i]
         /\ Append(s, x)[Len(s) + 1] = x
<1> DEFINE E == S!Range(s) \cup {x}
           a == Append(s, x)
<1>1. s \in Seq(E) /\ x \in E
  BY DEF S!Range
<1> HIDE DEF E
<1>2. /\ Len(s) \in Nat /\ DOMAIN s = 1 .. Len(s) /\ a \in Seq(E)
      /\ Len(a) = Len(s) + 1 /\ DOMAIN a = 1 .. Len(s) + 1
      /\ \A i \in 1 .. Len(s) : a[i] = s[i]
      /\ a[Len(s) + 1] = x
  BY <1>1
<1> HIDE DEF a
<1>3. a \in Seq(S!Range(a))
  <2>1. a \in [1 .. Len(a) -> S!Range(a)] /\ Len(a) \in Nat
    BY <1>2 DEF S!Range
  <2> QED
    BY <2>1
<1> QED
  BY <1>2, <1>3 DEF a

(* A sequence of its own elements, without the first. *)
LEMMA OwnTail ==
  ASSUME NEW s, s \in Seq(S!Range(s)), s # << >>
  PROVE  /\ Tail(s) \in Seq(S!Range(Tail(s)))
         /\ Len(s) \in Nat /\ Len(s) > 0 /\ DOMAIN s = 1 .. Len(s) /\ Head(s) = s[1]
         /\ DOMAIN Tail(s) = 1 .. Len(s) - 1
         /\ \A i \in 1 .. Len(s) - 1 : Tail(s)[i] = s[i + 1]
<1> DEFINE E == S!Range(s)
           a == Tail(s)
<1>1. s \in Seq(E)
  OBVIOUS
<1> HIDE DEF E
<1>2. /\ Len(s) \in Nat /\ Len(s) > 0 /\ DOMAIN s = 1 .. Len(s) /\ Head(s) = s[1]
      /\ a \in Seq(E) /\ Len(a) = Len(s) - 1 /\ DOMAIN a = 1 .. Len(s) - 1
      /\ \A i \in 1 .. Len(s) - 1 : a[i] = s[i + 1]
  BY <1>1
<1> HIDE DEF a
<1>3. a \in Seq(S!Range(a))
  <2>1. a \in [1 .. Len(a) -> S!Range(a)] /\ Len(a) \in Nat
    BY <1>2 DEF S!Range
  <2> QED
    BY <2>1
<1> QED
  BY <1>2, <1>3 DEF a

(* No request is there at the start. *)
LEMMA InitServer == S!Init => S!IndInv
<1> SUFFICES ASSUME S!Init, MaxRequests \in Nat PROVE S!IndInv
  BY ServerAssumption
<1>1. /\ nextid = 0 /\ squeue = << >> /\ shand = [t \in Threads |-> None]
      /\ sanswers = [id \in 1 .. MaxRequests |-> << >>] /\ served = << >>
  BY DEF S!Init
<1>2. << >> \in Seq(S!Range(<< >>)) /\ Len(<< >>) = 0 /\ DOMAIN << >> = {}
  OBVIOUS
<1>3. S!IdsInv
  BY <1>1, <1>2 DEF S!IdsInv
<1>4. S!CopiesInv /\ S!RespondsOnce
  BY <1>1, <1>2 DEF S!CopiesInv, S!RespondsOnce
<1> QED
  BY <1>3, <1>4 DEF S!IndInv

(* The responses of servlet srv to one request: a reply, an error, or a reply    *)
(* and then an error.                                                            *)
Fits(a, srv) ==
  /\ Len(a) <= 2
  /\ \A n \in 1 .. Len(a) : a[n].srv = srv
  /\ Len(a) = 2 => a[1].status = "ok" /\ a[2].status = "error"

(* Nothing, a response, and an error after a reply. *)
LEMMA FitsShort ==
  ASSUME NEW x, NEW y, x.srv = y.srv, x.status = "ok", y.status = "error"
  PROVE  /\ Fits(<< >>, x.srv) /\ Fits(Append(<< >>, x), x.srv) /\ Fits(Append(<< >>, y), x.srv)
         /\ Fits(Append(Append(<< >>, x), y), x.srv)
<1>1. << >> \in Seq({x, y}) /\ Len(<< >>) = 0
  OBVIOUS
<1>2. ASSUME NEW z \in {x, y}
      PROVE  /\ Append(<< >>, z) \in Seq({x, y}) /\ Len(Append(<< >>, z)) = 1
             /\ Append(<< >>, z)[1] = z
  BY <1>1
<1> DEFINE a == Append(<< >>, x)
           b == Append(a, y)
<1>3. a \in Seq({x, y}) /\ Len(a) = 1 /\ a[1] = x
  BY <1>2
<1> HIDE DEF a
<1>4. Len(b) = 2 /\ b[1] = x /\ b[2] = y
  <2>1. /\ Len(b) = Len(a) + 1 /\ b[Len(a) + 1] = y
        /\ \A i \in 1 .. Len(a) : b[i] = a[i]
    <3> DEFINE E == {x, y}
    <3>1. a \in Seq(E) /\ y \in E
      BY <1>3
    <3> HIDE DEF E
    <3> QED
      BY <3>1
  <2> QED
    BY <1>3, <2>1
<1> HIDE DEF b
<1>5. ASSUME NEW w, NEW k \in 0 .. 2, Len(w) = k, \A n \in 1 .. k : w[n] \in {x, y},
             k = 2 => w[1] = x /\ w[2] = y
      PROVE  Fits(w, x.srv)
  BY <1>5 DEF Fits
<1>6. \A n \in 1 .. 2 : n = 1 \/ n = 2
  OBVIOUS
<1>7. Fits(<< >>, x.srv)
  BY <1>1, <1>5
<1>8. ASSUME NEW z \in {x, y} PROVE Fits(Append(<< >>, z), x.srv)
  <2>1. \A n \in 1 .. 1 : n = 1
    OBVIOUS
  <2> QED
    BY <1>2, <1>5, <2>1
<1>9. Fits(b, x.srv)
  BY <1>4, <1>5, <1>6
<1> QED
  BY <1>7, <1>8, <1>9 DEF a, b

(* run(): the servlet's request leaves _http_tasks at most, and its responses    *)
(* fit.                                                                          *)
LEMMA RunIs ==
  ASSUME NEW t \in Threads, NEW replies \in 0 .. S!MaxReplies, NEW fails \in BOOLEAN,
         NEW lost \in S!Failures, S!Run(t, replies, fails, lost),
         shand[t].id \in tasks, shand[t].id \in DOMAIN sanswers, sanswers[shand[t].id] = << >>
  PROVE  /\ shand[t] # None /\ shand' = [shand EXCEPT ![t] = None]
         /\ UNCHANGED <<nextid, squeue, served>>
         /\ tasks' = tasks \/ tasks' = tasks \ {shand[t].id}
         /\ DOMAIN sanswers' = DOMAIN sanswers
         /\ \A i \in DOMAIN sanswers \ {shand[t].id} : sanswers'[i] = sanswers[i]
         /\ Fits(sanswers'[shand[t].id], shand[t].srv)
<1> DEFINE task == shand[t]
           st == [tasks |-> tasks, answers |-> sanswers, lost |-> lost]
           less == [tasks |-> tasks \ {task.id}, answers |-> sanswers, lost |-> lost]
           ok == [srv |-> task.srv, status |-> "ok"]
           error == [srv |-> task.srv, status |-> "error"]
           Is(s, T, a) == /\ DOMAIN s = {"tasks", "answers", "lost"} /\ s.tasks = T
                          /\ DOMAIN s.answers = DOMAIN sanswers /\ s.answers[task.id] = a
                          /\ \A i \in DOMAIN sanswers \ {task.id} : s.answers[i] = sanswers[i]
<1>1. ASSUME NEW T, NEW a, NEW status, NEW s, Is(s, T, a)
      PROVE  \/ Is(S!Respond(s, task, status), T, a)
             \/ Is(S!Respond(s, task, status), T, Append(a, [srv |-> task.srv, status |-> status]))
  <2> DEFINE r == [srv |-> task.srv, status |-> status]
             e == [s EXCEPT !.answers[task.id] = Append(@, r)]
  <2>1. Is(e, T, Append(a, r))
    <3> HIDE DEF r
    <3> QED
      BY <1>1
  <2>2. S!Respond(s, task, status) \in {s, e}
    BY DEF S!Respond
  <2> HIDE DEF e, Is
  <2> QED
    BY <1>1, <2>1, <2>2
<1>2. Is(st, tasks, << >>) /\ Is(less, tasks \ {task.id}, << >>)
  OBVIOUS
<1>3. S!FinishTask(st, task) = S!Respond(less, task, "ok")
  BY DEF S!FinishTask
<1>4. \A s, T, a : Is(s, T, a) => s.tasks = T /\ s.answers[task.id] = a
  OBVIOUS
<1> DEFINE once == S!FinishTask(st, task)
<1>6. Is(once, tasks \ {task.id}, << >>) \/ Is(once, tasks \ {task.id}, Append(<< >>, ok))
  <2>1. \/ Is(S!Respond(less, task, "ok"), tasks \ {task.id}, << >>)
        \/ Is(S!Respond(less, task, "ok"), tasks \ {task.id}, Append(<< >>, ok))
    <3> HIDE DEF Is, less
    <3> QED
      BY <1>1, <1>2, Zenon
  <2> HIDE DEF Is, less, ok
  <2> QED
    BY <1>3, <2>1
<1>7. S!FinishTask(once, task) = once
  <2>1. task.id \notin once.tasks
    <3> HIDE DEF once, Is
    <3> QED
      BY <1>4, <1>6
  <2> HIDE DEF once
  <2> QED
    BY <2>1 DEF S!FinishTask
<1>8. PICK replied : /\ replied \in {st, once}
                     /\ \/ tasks' = replied.tasks /\ sanswers' = replied.answers
                        \/ /\ tasks' = S!Respond(replied, task, "error").tasks
                           /\ sanswers' = S!Respond(replied, task, "error").answers
  <2>1. PICK x : /\ x \in {st, once, S!FinishTask(once, task)}
                 /\ tasks' = (IF fails THEN S!Respond(x, task, "error") ELSE x).tasks
                 /\ sanswers' = (IF fails THEN S!Respond(x, task, "error") ELSE x).answers
    BY DEF S!Run
  <2> HIDE DEF st, once
  <2> QED
    BY <1>7, <2>1
<1>9. PICK T \in {tasks, tasks \ {task.id}}, a \in {<< >>, Append(<< >>, ok)} : Is(replied, T, a)
  <2> HIDE DEF Is, once, st, ok
  <2> QED
    BY <1>2, <1>6, <1>8
<1>10. PICK s : /\ tasks' = s.tasks /\ sanswers' = s.answers
                /\ Is(s, T, a) \/ Is(s, T, Append(a, error))
  <2>1. \/ Is(S!Respond(replied, task, "error"), T, a)
        \/ Is(S!Respond(replied, task, "error"), T, Append(a, error))
    <3> HIDE DEF Is
    <3> QED
      BY <1>1, <1>9, Zenon
  <2> HIDE DEF Is, error
  <2> QED
    BY <1>8, <1>9, <2>1
<1>11. sanswers'[task.id] \in {a, Append(a, error)}
  <2> HIDE DEF ok, error
  <2> QED
    BY <1>10
<1>12. /\ DOMAIN sanswers' = DOMAIN sanswers /\ tasks' = T
       /\ \A i \in DOMAIN sanswers \ {task.id} : sanswers'[i] = sanswers[i]
  BY <1>10
<1>13. /\ ok.srv = task.srv /\ ok.status = "ok" /\ error.srv = task.srv /\ error.status = "error"
  OBVIOUS
<1>14. /\ task # None /\ shand' = [shand EXCEPT ![t] = None]
       /\ UNCHANGED <<nextid, squeue, served>>
  BY DEF S!Run
<1> HIDE DEF ok, error, Is
<1>15. Fits(sanswers'[task.id], task.srv)
  <2>1. /\ Fits(<< >>, ok.srv) /\ Fits(Append(<< >>, ok), ok.srv) /\ Fits(Append(<< >>, error), ok.srv)
        /\ Fits(Append(Append(<< >>, ok), error), ok.srv)
    BY <1>13, FitsShort
  <2> QED
    BY <1>9, <1>11, <1>13, <2>1
<1> QED
  BY <1>9, <1>12, <1>14, <1>15

(* A request comes in: a new id, a copy of its servlet at the end of the queue. *)
LEMMA HandleRequestStep ==
  ASSUME S!IndInv, NEW sid, NEW srv, NEW p, nextid < MaxRequests,
         nextid' = nextid + 1, tasks' = tasks \cup {nextid'},
         squeue' = Append(squeue, [id |-> nextid', sid |-> sid, srv |-> srv, path |-> p]),
         served' = Append(served, [sid |-> sid, srv |-> srv]), UNCHANGED <<shand, sanswers>>
  PROVE  S!IndInv'
<1> DEFINE y == [sid |-> sid, srv |-> srv]
<1>0. S!IdsInv /\ S!CopiesInv /\ S!RespondsOnce /\ MaxRequests \in Nat
  BY ServerAssumption DEF S!IndInv
<1>1. PICK k, x : nextid' = k /\ x = [id |-> k, sid |-> sid, srv |-> srv, path |-> p]
  OBVIOUS
<1>2. /\ x.id = k /\ x.srv = y.srv
      /\ squeue' = Append(squeue, x) /\ served' = Append(served, y)
  BY <1>1
<1> HIDE DEF y
<1>3. /\ nextid \in Nat /\ k \in 0 .. MaxRequests /\ k \in 1 .. MaxRequests
      /\ nextid < k /\ k = nextid + 1
  BY <1>0, <1>1 DEF S!IdsInv
<1>4. /\ squeue' \in Seq(S!Range(squeue')) /\ Len(squeue) \in Nat
      /\ DOMAIN squeue = 1 .. Len(squeue) /\ DOMAIN squeue' = 1 .. Len(squeue) + 1
      /\ \A i \in DOMAIN squeue : squeue'[i] = squeue[i]
      /\ squeue'[Len(squeue) + 1] = x
  <2>1. squeue \in Seq(S!Range(squeue))
    BY <1>0 DEF S!IdsInv
  <2> DEFINE a == Append(squeue, x)
  <2>2. /\ a \in Seq(S!Range(a))
        /\ Len(squeue) \in Nat /\ DOMAIN squeue = 1 .. Len(squeue)
        /\ Len(a) = Len(squeue) + 1 /\ DOMAIN a = 1 .. Len(squeue) + 1
        /\ \A i \in 1 .. Len(squeue) : a[i] = squeue[i]
        /\ a[Len(squeue) + 1] = x
    BY <2>1, OwnAppend, Zenon
  <2>3. a = squeue'
    BY <1>2
  <2> HIDE DEF a
  <2> QED
    BY <2>2, <2>3, Zenon
<1>5. /\ served' \in Seq(S!Range(served')) /\ Len(served') = k
      /\ DOMAIN served = 1 .. nextid /\ DOMAIN served' = 1 .. k
      /\ \A i \in 1 .. nextid : served'[i] = served[i]
      /\ served'[k] = y
  <2>1. served \in Seq(S!Range(served)) /\ Len(served) = nextid
    BY <1>0 DEF S!IdsInv
  <2> DEFINE a == Append(served, y)
  <2>2. /\ a \in Seq(S!Range(a))
        /\ Len(served) \in Nat /\ DOMAIN served = 1 .. Len(served)
        /\ Len(a) = Len(served) + 1 /\ DOMAIN a = 1 .. Len(served) + 1
        /\ \A i \in 1 .. Len(served) : a[i] = served[i]
        /\ a[Len(served) + 1] = y
    BY <2>1, OwnAppend, Zenon
  <2>3. a = served' /\ k = Len(served) + 1
    BY <1>2, <1>3, <2>1
  <2> HIDE DEF a
  <2> QED
    BY <2>1, <2>2, <2>3, Zenon
<1>6. \A i \in DOMAIN squeue' : i \in DOMAIN squeue \/ i = Len(squeue) + 1
  BY <1>4
<1>7. S!IdsInv'
  <2>1. \A id \in 1 .. MaxRequests : id > k => id > nextid
    BY <1>3
  <2>2. shand' = shand /\ sanswers' = sanswers
    OBVIOUS
  <2>3. /\ DOMAIN shand = Threads /\ DOMAIN sanswers = 1 .. MaxRequests
        /\ \A id \in 1 .. MaxRequests : id > nextid => sanswers[id] = << >>
    BY <1>0 DEF S!IdsInv
  <2> QED
    BY <1>1, <1>3, <1>4, <1>5, <2>1, <2>2, <2>3, Zenon DEF S!IdsInv
<1> DEFINE Disp(e) == e.id \in 1 .. k /\ e.srv = served'[e.id].srv
<1>8. \A e : S!Dispatched(e) => Disp(e) /\ e.id # k
  <2>1. \A i \in 1 .. nextid : i \in 1 .. k /\ i # k
    BY <1>3
  <2> QED
    BY <1>5, <2>1 DEF S!Dispatched
<1>9. Disp(x)
  <2>1. k \in 1 .. k
    BY <1>3
  <2> QED
    BY <1>2, <1>5, <2>1
<1> HIDE DEF Disp
<1>10. S!CopiesInv'
  <2>1. \A m \in DOMAIN squeue : S!Dispatched(squeue[m])
    BY <1>0 DEF S!CopiesInv
  <2>2. \A t \in Threads : shand[t] # None => S!Dispatched(shand[t])
    BY <1>0 DEF S!CopiesInv
  <2>3. \A m \in DOMAIN squeue' : Disp(squeue'[m])
    BY <1>4, <1>6, <1>8, <1>9, <2>1
  <2>4. \A t \in Threads : shand[t] # None => Disp(shand[t]) /\ shand[t].id # k
    BY <1>8, <2>2
  <2>5. \A m, n \in DOMAIN squeue' : squeue'[m].id = squeue'[n].id => m = n
    <3>1. \A m \in DOMAIN squeue : squeue[m].id # k
      BY <1>8, <2>1
    <3> QED
      BY <1>0, <1>2, <1>4, <1>6, <3>1 DEF S!CopiesInv
  <2>6. \A t \in Threads : shand[t] # None => \A n \in DOMAIN squeue' : squeue'[n].id # shand[t].id
    BY <1>0, <1>2, <1>4, <1>6, <2>4 DEF S!CopiesInv
  <2>7. \A t, u \in Threads : shand[t] # None /\ shand[u] # None /\ shand[t].id = shand[u].id => t = u
    BY <1>0 DEF S!CopiesInv
  <2>8. shand' = shand /\ nextid' = k
    BY <1>1
  <2>9. /\ \A m \in DOMAIN squeue' : squeue'[m].id \in 1 .. nextid' /\ squeue'[m].srv = served'[squeue'[m].id].srv
        /\ \A t \in Threads : shand'[t] # None =>
             shand'[t].id \in 1 .. nextid' /\ shand'[t].srv = served'[shand'[t].id].srv
    BY <2>3, <2>4, <2>8 DEF Disp
  <2>10. /\ \A t, u \in Threads :
              shand'[t] # None /\ shand'[u] # None /\ shand'[t].id = shand'[u].id => t = u
         /\ \A t \in Threads :
              shand'[t] # None => \A n \in DOMAIN squeue' : squeue'[n].id # shand'[t].id
    BY <2>6, <2>7, <2>8
  <2> QED
    BY <2>5, <2>9, <2>10, Zenon DEF S!CopiesInv, S!Dispatched
<1>11. S!RespondsOnce'
  <2>1. ASSUME NEW id \in 1 .. MaxRequests, NEW n \in 1 .. Len(sanswers[id])
        PROVE  id \in DOMAIN served' /\ sanswers[id][n].srv = served'[id].srv
    <3>1. id \in DOMAIN served /\ sanswers[id][n].srv = served[id].srv
      BY <1>0, <2>1 DEF S!RespondsOnce
    <3>2. id \in 1 .. k
      BY <1>3, <1>5, <3>1
    <3> QED
      BY <1>5, <3>1, <3>2
  <2>2. \A n \in DOMAIN squeue' : squeue'[n].id \in tasks' /\ sanswers[squeue'[n].id] = << >>
    <3>1. sanswers[k] = << >>
      BY <1>0, <1>3 DEF S!IdsInv
    <3> QED
      BY <1>0, <1>1, <1>2, <1>4, <1>6, <3>1 DEF S!RespondsOnce
  <2> QED
    BY <1>0, <2>1, <2>2 DEF S!RespondsOnce
<1> QED
  BY <1>7, <1>10, <1>11 DEF S!IndInv

(* A thread takes the first copy of the queue. *)
LEMMA TakeStep == ASSUME S!IndInv, NEW t \in Threads, S!Take(t) PROVE S!IndInv'
<1>0. S!IdsInv /\ S!CopiesInv /\ S!RespondsOnce
  BY DEF S!IndInv
<1>1. /\ shand[t] = None /\ squeue # << >> /\ shand' = [shand EXCEPT ![t] = Head(squeue)]
      /\ squeue' = Tail(squeue) /\ UNCHANGED <<nextid, tasks, sanswers, served>>
  BY DEF S!Take
<1>2. /\ squeue' \in Seq(S!Range(squeue')) /\ Len(squeue) \in Nat /\ Len(squeue) > 0
      /\ DOMAIN squeue = 1 .. Len(squeue) /\ Head(squeue) = squeue[1]
      /\ DOMAIN squeue' = 1 .. Len(squeue) - 1
      /\ \A i \in DOMAIN squeue' : squeue'[i] = squeue[i + 1]
  <2>1. squeue \in Seq(S!Range(squeue)) /\ squeue # << >>
    BY <1>0, <1>1 DEF S!IdsInv
  <2> DEFINE a == Tail(squeue)
  <2>2. /\ a \in Seq(S!Range(a)) /\ Len(squeue) \in Nat /\ Len(squeue) > 0
        /\ DOMAIN squeue = 1 .. Len(squeue) /\ Head(squeue) = squeue[1]
        /\ DOMAIN a = 1 .. Len(squeue) - 1
        /\ \A i \in 1 .. Len(squeue) - 1 : a[i] = squeue[i + 1]
    BY <2>1, OwnTail, Zenon
  <2>3. a = squeue'
    BY <1>1
  <2> HIDE DEF a
  <2> QED
    BY <2>2, <2>3, Zenon
<1>3. \A i \in DOMAIN squeue' : i + 1 \in DOMAIN squeue /\ i + 1 # 1 /\ i \in Int
  BY <1>2
<1>4. 1 \in DOMAIN squeue
  BY <1>2
<1>5. \A u \in Threads : shand'[u] = IF u = t THEN squeue[1] ELSE shand[u]
  BY <1>0, <1>1, <1>2 DEF S!IdsInv
<1>6. S!IdsInv'
  BY <1>0, <1>1, <1>2 DEF S!IdsInv
<1>7. S!RespondsOnce'
  BY <1>0, <1>1, <1>2, <1>3, <1>4, <1>5 DEF S!RespondsOnce
<1>8. S!CopiesInv'
  <2>1. /\ \A m \in DOMAIN squeue' : S!Dispatched(squeue'[m])
        /\ \A u \in Threads : shand'[u] # None => S!Dispatched(shand'[u])
    BY <1>0, <1>2, <1>3, <1>4, <1>5 DEF S!CopiesInv
  <2>2. \A e : S!Dispatched(e)' <=> S!Dispatched(e)
    BY <1>1 DEF S!Dispatched
  <2>3. \A m, n \in DOMAIN squeue' : squeue'[m].id = squeue'[n].id => m = n
    <3>1. \A m, n \in DOMAIN squeue' : m + 1 = n + 1 => m = n
      BY <1>3
    <3> QED
      BY <1>0, <1>2, <1>3, <3>1 DEF S!CopiesInv
  <2>4. \A u, v \in Threads : shand'[u] # None /\ shand'[v] # None /\ shand'[u].id = shand'[v].id
                                => u = v
    BY <1>0, <1>4, <1>5 DEF S!CopiesInv
  <2>5. \A u \in Threads : shand'[u] # None => \A n \in DOMAIN squeue' : squeue'[n].id # shand'[u].id
    BY <1>0, <1>2, <1>3, <1>4, <1>5 DEF S!CopiesInv
  <2> QED
    BY <1>1, <2>1, <2>2, <2>3, <2>4, <2>5 DEF S!CopiesInv, S!Dispatched
<1> QED
  BY <1>6, <1>7, <1>8 DEF S!IndInv

(* run(), whatever the servlet does, and the copy is deleted. *)
LEMMA RunStep ==
  ASSUME S!IndInv, NEW t \in Threads, NEW replies \in 0 .. S!MaxReplies, NEW fails \in BOOLEAN,
         NEW lost \in S!Failures, S!Run(t, replies, fails, lost)
  PROVE  S!IndInv'
<1> DEFINE task == shand[t]
<1>0. S!IdsInv /\ S!CopiesInv /\ S!RespondsOnce
  BY DEF S!IndInv
<1>1. task # None
  BY DEF S!Run
<1>2. /\ task.id \in tasks /\ sanswers[task.id] = << >> /\ S!Dispatched(task)
  BY <1>0, <1>1 DEF S!RespondsOnce, S!CopiesInv
<1>6. task.id \in 1 .. MaxRequests /\ task.id \in 1 .. nextid /\ task.id \in DOMAIN served
  BY <1>0, <1>2, ServerAssumption DEF S!Dispatched, S!IdsInv
<1>3. /\ shand' = [shand EXCEPT ![t] = None] /\ UNCHANGED <<nextid, squeue, served>>
      /\ tasks' = tasks \/ tasks' = tasks \ {task.id}
      /\ DOMAIN sanswers' = DOMAIN sanswers
      /\ \A i \in DOMAIN sanswers \ {task.id} : sanswers'[i] = sanswers[i]
      /\ Fits(sanswers'[task.id], task.srv)
  <2>1. task.id \in DOMAIN sanswers
    BY <1>0, <1>6 DEF S!IdsInv
  <2> QED
    BY <1>2, <2>1, RunIs
<1>4. \A u \in Threads : shand'[u] = IF u = t THEN None ELSE shand[u]
  BY <1>0, <1>3 DEF S!IdsInv
<1>5. /\ \A n \in DOMAIN squeue : squeue[n].id # task.id
      /\ \A u \in Threads : u # t /\ shand[u] # None => shand[u].id # task.id
  BY <1>0, <1>1 DEF S!CopiesInv
<1> DEFINE id0 == task.id
<1>7. /\ DOMAIN sanswers' = 1 .. MaxRequests
      /\ \A i \in 1 .. MaxRequests : i # id0 => sanswers'[i] = sanswers[i]
      /\ Fits(sanswers'[id0], served[id0].srv)
  <2>1. task.srv = served[id0].srv
    BY <1>2 DEF S!Dispatched
  <2>2. DOMAIN sanswers = 1 .. MaxRequests
    BY <1>0 DEF S!IdsInv
  <2>3. Fits(sanswers'[id0], served[id0].srv)
    BY <1>3, <2>1
  <2> QED
    BY <1>3, <2>2, <2>3
<1> HIDE DEF id0
<1>8. S!IdsInv'
  <2>1. \A id \in 1 .. MaxRequests : id > nextid => id # id0
    BY <1>0, <1>6 DEF S!IdsInv, id0
  <2> QED
    BY <1>0, <1>3, <1>7, <2>1 DEF S!IdsInv
<1>9. S!RespondsOnce'
  <2>1. ASSUME NEW id \in 1 .. MaxRequests
        PROVE  /\ Len(sanswers'[id]) <= 2
               /\ \A n \in 1 .. Len(sanswers'[id]) :
                    id \in DOMAIN served /\ sanswers'[id][n].srv = served[id].srv
               /\ Len(sanswers'[id]) = 2 => /\ sanswers'[id][1].status = "ok"
                                            /\ sanswers'[id][2].status = "error"
    <3>1. CASE id = id0
      BY <1>6, <1>7, <3>1 DEF id0, Fits
    <3>2. CASE id # id0
      BY <1>0, <1>7, <3>2 DEF S!RespondsOnce
    <3> QED
      BY <3>1, <3>2
  <2>2. ASSUME NEW e, S!Dispatched(e), e.id # id0, e.id \in tasks, sanswers[e.id] = << >>
        PROVE  e.id \in tasks' /\ sanswers'[e.id] = << >>
    <3>1. e.id \in 1 .. MaxRequests
      BY <1>0, <2>2, ServerAssumption DEF S!Dispatched, S!IdsInv
    <3> QED
      BY <1>3, <1>7, <2>2, <3>1 DEF id0
  <2>3. \A n \in DOMAIN squeue : squeue[n].id \in tasks' /\ sanswers'[squeue[n].id] = << >>
    <3>1. \A n \in DOMAIN squeue : /\ S!Dispatched(squeue[n]) /\ squeue[n].id # id0
                                   /\ squeue[n].id \in tasks /\ sanswers[squeue[n].id] = << >>
      BY <1>0, <1>5 DEF S!CopiesInv, S!RespondsOnce, id0
    <3> QED
      BY <2>2, <3>1
  <2>4. \A u \in Threads : u # t /\ shand[u] # None
                              => shand[u].id \in tasks' /\ sanswers'[shand[u].id] = << >>
    <3>1. \A u \in Threads : u # t /\ shand[u] # None =>
             /\ S!Dispatched(shand[u]) /\ shand[u].id # id0
             /\ shand[u].id \in tasks /\ sanswers[shand[u].id] = << >>
      BY <1>0, <1>5 DEF S!CopiesInv, S!RespondsOnce, id0
    <3> QED
      BY <2>2, <3>1
  <2> QED
    BY <1>3, <1>4, <2>1, <2>3, <2>4 DEF S!RespondsOnce
<1>10. S!CopiesInv'
  BY <1>0, <1>3, <1>4 DEF S!CopiesInv, S!Dispatched
<1> QED
  BY <1>8, <1>9, <1>10 DEF S!IndInv

(* The server's invariant is kept by every step of the server. *)
LEMMA ServerStep == S!IndInv /\ [S!Next]_svars => S!IndInv'
<1> SUFFICES ASSUME S!IndInv, [S!Next]_svars PROVE S!IndInv'
  OBVIOUS
<1>1. ASSUME UNCHANGED <<nextid, tasks, squeue, shand, sanswers, served>> PROVE S!IndInv'
  BY <1>1, SMTT(30) DEF S!IndInv, S!IdsInv, S!CopiesInv, S!Dispatched, S!RespondsOnce, S!Range
<1>2. CASE \/ \E p \in Paths, srv \in Servlets : S!AddServlet(p, srv)
           \/ \E g \in Patterns, srv \in Servlets : S!AddGlob(g, srv)
           \/ \E p \in Paths : S!DelServlet(p)
           \/ \E g \in Patterns : S!DelGlob(g)
           \/ \E sid \in ServerSids : S!DelSession(sid)
  <2>1. UNCHANGED <<nextid, tasks, squeue, shand, sanswers, served>>
    BY <1>2 DEF S!AddServlet, S!AddGlob, S!DelServlet, S!DelGlob, S!DelSession, S!Changing
  <2> QED
    BY <1>1, <2>1
<1>3. ASSUME NEW sid \in ServerSids, NEW p \in Paths, S!HandleRequest(sid, p) PROVE S!IndInv'
  <2>1. CASE S!Matched(p) = None
    BY <1>1, <1>3, <2>1 DEF S!HandleRequest
  <2>2. CASE S!Matched(p) # None
    BY <1>3, <2>2, HandleRequestStep DEF S!HandleRequest
  <2> QED
    BY <2>1, <2>2
<1>4. ASSUME NEW t \in Threads, S!Take(t) PROVE S!IndInv'
  BY <1>4, TakeStep
<1>5. ASSUME NEW t \in Threads, NEW replies \in 0 .. S!MaxReplies, NEW fails \in BOOLEAN,
             NEW lost \in S!Failures, S!Run(t, replies, fails, lost)
      PROVE  S!IndInv'
  BY <1>5, RunStep
<1>6. CASE UNCHANGED svars
  BY <1>1, <1>6 DEF svars
<1> QED
  BY <1>2, <1>3, <1>4, <1>5, <1>6 DEF S!Next

(* A request is answered by the servlet that matched it when it came in,        *)
(* whatever is registered or taken away meanwhile: one reply, however often     *)
(* that servlet replies, and after it at most the error of a servlet that       *)
(* failed too, for any number of requests, sessions and threads.                *)
THEOREM RequestsAnsweredOnce == InitAll /\ [][NextAll]_allvars => []RespondsOnce
<1>1. InitAll => S!IndInv
  BY InitServer DEF InitAll
<1>2. S!IndInv /\ [NextAll]_allvars => S!IndInv'
  <2>1. [NextAll]_allvars => [S!Next]_svars
    BY DEF NextAll, allvars, svars
  <2> QED
    BY <2>1, ServerStep
<1>3. S!IndInv => RespondsOnce
  BY DEF S!IndInv, RespondsOnce
<1> QED
  BY <1>1, <1>2, <1>3, PTL

(***************************************************************************)
(* The HTTP client (HttpClient), for any number of requests and connections. *)
(***************************************************************************)

(* Among some numbers there is a least one. *)
LEMMA LeastNumber ==
  ASSUME NEW X, X \subseteq Nat, X # {}
  PROVE  \E x \in X : \A y \in X : x <= y
<1> DEFINE R == OpToRel(<, Nat)
<1>1. IsWellFoundedOn(R, Nat)
  BY NatLessThanWellFounded
<1>2. \E x \in X : \A y \in X : ~(<<y, x>> \in R)
  BY <1>1, WFMin
<1>3. \A x, y \in Nat : y < x => <<y, x>> \in R
  BY DEF OpToRel
<1>4. PICK x \in X : \A y \in X : ~(<<y, x>> \in R)
  BY <1>2
<1> HIDE DEF R
<1>5. ASSUME NEW y \in X PROVE x <= y
  <2>1. x \in Nat /\ y \in Nat /\ ~(y < x)
    BY <1>3, <1>4, <1>5
  <2> QED
    BY <2>1
<1> QED
  BY <1>4, <1>5

(* Induction: a set that has 0, and the next of each of its numbers, has them all. *)
LEMMA AllNumbers ==
  ASSUME NEW X, 0 \in X, \A n \in Nat : n \in X => n + 1 \in X
  PROVE  Nat \subseteq X
<1> SUFFICES ASSUME NEW n \in Nat, n \notin X PROVE FALSE
  OBVIOUS
<1>1. PICK x \in Nat \ X : \A y \in Nat \ X : x <= y
  <2>1. Nat \ X \subseteq Nat /\ Nat \ X # {}
    OBVIOUS
  <2> QED
    BY <2>1, LeastNumber
<1>2. x # 0
  OBVIOUS
<1>3. x - 1 \in Nat /\ (x - 1) + 1 = x
  BY <1>2
<1> QED
  BY <1>1, <1>3

(* What is done n times over, starting with x, and stays in D. *)
Iterates(D, F, x, n) ==
  \E g \in [0 .. n -> D] : g[0] = x /\ \A i \in 1 .. n : g[i] = F[g[i - 1]]

(* There is such a thing for every function on D. *)
LEMMA Iterated ==
  ASSUME NEW D, NEW F \in [D -> D], NEW x \in D, NEW n \in Nat
  PROVE  Iterates(D, F, x, n)
<1> DEFINE X == {k \in Nat : Iterates(D, F, x, k)}
<1> USE DEF Iterates
<1>1. 0 \in X
  <2>1. [i \in 0 .. 0 |-> x] \in [0 .. 0 -> D]
    OBVIOUS
  <2>2. /\ [i \in 0 .. 0 |-> x][0] = x
        /\ \A i \in 1 .. 0 : [j \in 0 .. 0 |-> x][i] = F[[j \in 0 .. 0 |-> x][i - 1]]
    OBVIOUS
  <2> QED
    BY <2>1, <2>2
<1>2. ASSUME NEW k \in Nat, k \in X PROVE k + 1 \in X
  <2>1. PICK g \in [0 .. k -> D] : g[0] = x /\ \A i \in 1 .. k : g[i] = F[g[i - 1]]
    BY <1>2
  <2> DEFINE hh == [i \in 0 .. k + 1 |-> IF i = k + 1 THEN F[g[k]] ELSE g[i]]
  <2>2. hh \in [0 .. k + 1 -> D]
    BY <2>1
  <2>3. hh[0] = x /\ \A i \in 1 .. k + 1 : hh[i] = F[hh[i - 1]]
    BY <2>1
  <2> QED
    BY <2>2, <2>3
<1>3. Nat \subseteq X
  <2> HIDE DEF X
  <2> QED
    BY <1>1, <1>2, AllNumbers
<1> QED
  BY <1>3

(* A request whose time is up goes from the tasks to the pool. *)
LEMMA CheckTimeoutsSound ==
  ASSUME NEW n \in Nat, NEW h \in Nat, NEW done, NEW d \in H!Sound(n, h, done)
  PROVE  H!CheckTimeouts(d) \in H!Sound(n, h, done)
<1> DEFINE e == H!CheckTimeouts(d)
           late == {id \in d.tasks : hnow >= d.deadline[id]}
           given == {[id |-> id, of |-> NoTask] : id \in late}
<1>1. d \in H!ClientStates /\ H!Consistent(d, n, h, done)
  BY DEF H!Sound
<1>2. given \subseteq [id : H!Ids, of : H!Ids \cup {NoTask}]
  BY <1>1 DEF H!ClientStates
<1>3. e = [d EXCEPT !.tasks = d.tasks \ late, !.pool = d.pool \cup given]
  BY DEF H!CheckTimeouts
<1> HIDE DEF e
<1>4. /\ e \in H!ClientStates
      /\ e.tasks = d.tasks \ late /\ e.pool = d.pool \cup given
      /\ e.idle = d.idle /\ e.busy = d.busy /\ e.pending = d.pending /\ e.wire = d.wire
  BY <1>1, <1>2, <1>3 DEF H!ClientStates
<1>5. \A t \in given : t.id \in d.tasks /\ t.id \notin e.tasks /\ t.of = NoTask
                        /\ t = [id |-> t.id, of |-> NoTask]
  BY <1>4
<1> HIDE DEF late, given
<1>6. \A t \in e.pool : /\ t.of \in {t.id, NoTask} /\ t.id <= n
                        /\ t.id \notin e.tasks /\ t.id \notin done
  BY <1>1, <1>4, <1>5 DEF H!Consistent
<1>7. \A t, u \in e.pool : t.id = u.id => t = u
  <2> SUFFICES ASSUME NEW t \in e.pool, NEW u \in e.pool, t.id = u.id PROVE t = u
    OBVIOUS
  <2>1. CASE t \in d.pool /\ u \in d.pool
    BY <1>1, <2>1 DEF H!Consistent
  <2>2. CASE t \in given /\ u \in given
    BY <1>5, <2>2
  <2>3. CASE t \in given /\ u \in d.pool
    BY <1>1, <1>5, <2>3 DEF H!Consistent
  <2>4. CASE t \in d.pool /\ u \in given
    BY <1>1, <1>5, <2>4 DEF H!Consistent
  <2> QED
    BY <1>4, <2>1, <2>2, <2>3, <2>4
<1>8. H!Consistent(e, n, h, done)
  BY <1>1, <1>4, <1>6, <1>7 DEF H!Consistent
<1> QED
  BY <1>4, <1>8 DEF H!Sound, e

(* A turn of advance_all(). *)
LEMMA AdvanceSound ==
  ASSUME NEW n \in Nat, NEW h \in Nat, NEW done, NEW d \in H!Sound(n, h, done), NEW full
  PROVE  H!Advance(d, full) \in H!Sound(n, h, done)
<1>1. d \in H!ClientStates /\ H!Consistent(d, n, h, done)
  BY DEF H!Sound
<1>2. CASE d.crashed \/ d.pending = <<>> \/ d.idle = {}
  BY <1>2 DEF H!Advance
<1>3. CASE ~(d.crashed \/ d.pending = <<>> \/ d.idle = {})
  <2> DEFINE s == CHOOSE s \in d.idle : \A t \in d.idle : s <= t
             id == Head(d.pending)
  <2>1. s \in d.idle
    <3>1. d.idle \subseteq Nat /\ d.idle # {}
      BY <1>1, <1>3, ClientAssumption DEF H!ClientStates, H!Sids
    <3> QED
      BY <3>1, LeastNumber
  <2>2. s \in H!Sids /\ id \in H!Ids /\ d.pending \in Seq(H!Ids) /\ d.pending # <<>>
    BY <1>1, <1>3, <2>1 DEF H!ClientStates
  <2>3. PICK e : e = [d EXCEPT !.pending = Tail(d.pending), !.idle = d.idle \ {s}]
    OBVIOUS
  <2>4. H!Advance(d, full) =
          IF id \notin d.tasks THEN [e EXCEPT !.crashed = TRUE]
          ELSE IF s \notin d.live THEN e
          ELSE [e EXCEPT !.busy[s] = id, !.wire[s] = IF s \in full THEN @ ELSE Append(@, id)]
    BY <1>3, <2>3 DEF H!Advance
  <2> HIDE DEF s, id
  <2>5. /\ Tail(d.pending) \in Seq(H!Ids) /\ id = d.pending[1] /\ 1 \in DOMAIN d.pending
        /\ \A k \in DOMAIN Tail(d.pending) : /\ k \in Nat \ {0} /\ k + 1 \in DOMAIN d.pending
                                             /\ Tail(d.pending)[k] = d.pending[k + 1]
    BY <2>2 DEF id
  <2>6. /\ e \in H!ClientStates
        /\ e.tasks = d.tasks /\ e.pool = d.pool /\ e.idle = d.idle \ {s}
        /\ e.busy = d.busy /\ e.pending = Tail(d.pending) /\ e.wire = d.wire
    BY <1>1, <2>3, <2>5 DEF H!ClientStates
  <2>7. /\ \A k \in DOMAIN e.pending : e.pending[k] <= n /\ e.pending[k] # id
        /\ \A k, m \in DOMAIN e.pending : e.pending[k] = e.pending[m] => k = m
        /\ \A q \in H!Sids : d.busy[q] # NoTask => \A k \in DOMAIN e.pending : e.pending[k] # d.busy[q]
    <3>1. \A k \in DOMAIN e.pending : /\ k \in Nat \ {0} /\ k + 1 \in DOMAIN d.pending
                                      /\ e.pending[k] = d.pending[k + 1]
      BY <2>5, <2>6
    <3> QED
      BY <1>1, <2>5, <3>1 DEF H!Consistent
  <2>8. H!Consistent(e, n, h, done)
    BY <1>1, <2>6, <2>7 DEF H!Consistent
  <2>9. CASE id \notin d.tasks
    <3>1. PICK f : f = [e EXCEPT !.crashed = TRUE]
      OBVIOUS
    <3>2. /\ f \in H!ClientStates
          /\ f.tasks = e.tasks /\ f.pool = e.pool /\ f.idle = e.idle
          /\ f.busy = e.busy /\ f.pending = e.pending /\ f.wire = e.wire
      BY <2>6, <3>1 DEF H!ClientStates
    <3>3. H!Consistent(f, n, h, done)
      BY <2>8, <3>2 DEF H!Consistent
    <3> QED
      BY <2>4, <2>9, <3>1, <3>2, <3>3 DEF H!Sound
  <2>10. CASE id \in d.tasks /\ s \notin d.live
    BY <2>4, <2>6, <2>8, <2>10 DEF H!Sound
  <2>11. CASE id \in d.tasks /\ s \in d.live
    <3>1. PICK w : w = IF s \in full THEN d.wire[s] ELSE Append(d.wire[s], id)
      OBVIOUS
    <3>2. d.busy[s] = NoTask /\ d.wire[s] = <<>>
      BY <1>1, <2>1, <2>2 DEF H!Consistent
    <3>3. w = <<>> \/ w = <<id>>
      BY <3>1, <3>2
    <3>4. w \in Seq(H!Ids)
      <4>1. <<>> \in Seq(H!Ids) /\ <<id>> \in Seq(H!Ids)
        BY <2>2
      <4> QED
        BY <3>3, <4>1, Zenon
    <3>5. PICK f : f = [e EXCEPT !.busy = [d.busy EXCEPT ![s] = id], !.wire = [d.wire EXCEPT ![s] = w]]
      OBVIOUS
    <3>6. H!Advance(d, full) = f
      BY <2>4, <2>6, <2>11, <3>1, <3>5
    <3>7. /\ d.busy \in [H!Sids -> H!Ids \cup {NoTask}] /\ d.wire \in [H!Sids -> Seq(H!Ids)]
          /\ [d.busy EXCEPT ![s] = id] \in [H!Sids -> H!Ids \cup {NoTask}]
          /\ [d.wire EXCEPT ![s] = w] \in [H!Sids -> Seq(H!Ids)]
      BY <1>1, <2>2, <3>4 DEF H!ClientStates
    <3>8. /\ f \in H!ClientStates
          /\ f.tasks = e.tasks /\ f.pool = e.pool /\ f.idle = e.idle /\ f.pending = e.pending
          /\ f.busy = [d.busy EXCEPT ![s] = id] /\ f.wire = [d.wire EXCEPT ![s] = w]
      BY <2>6, <3>5, <3>7 DEF H!ClientStates
    <3>9. /\ f.busy[s] = id /\ f.wire[s] = w
          /\ \A q \in H!Sids : q # s => f.busy[q] = d.busy[q] /\ f.wire[q] = d.wire[q]
      BY <2>2, <3>7, <3>8
    <3>10. id # NoTask /\ id <= n
      BY <1>1, <2>2, <2>5, ClientAssumption DEF H!Ids, H!Consistent
    <3>11. \A q \in H!Sids : q # s /\ d.busy[q] # NoTask => d.busy[q] # id
      BY <1>1, <2>5 DEF H!Consistent
    <3>12. \A q \in H!Sids : f.busy[q] # NoTask =>
              f.busy[q] <= n /\ \A k \in DOMAIN f.pending : f.pending[k] # f.busy[q]
      BY <1>1, <2>7, <3>8, <3>9, <3>10 DEF H!Consistent
    <3>13. \A q, t \in H!Sids : q # t /\ f.busy[q] # NoTask => f.busy[q] # f.busy[t]
      BY <1>1, <3>9, <3>10, <3>11 DEF H!Consistent
    <3>14. \A q \in H!Sids : f.wire[q] # <<>> => f.busy[q] # NoTask /\ f.wire[q] = <<f.busy[q]>>
      BY <1>1, <3>3, <3>9, <3>10 DEF H!Consistent
    <3>15. \A q \in f.idle : f.busy[q] = NoTask
      <4>1. \A q \in f.idle : q \in H!Sids /\ q # s /\ q \in d.idle
        BY <1>1, <2>6, <3>8 DEF H!ClientStates
      <4> QED
        BY <1>1, <3>9, <4>1 DEF H!Consistent
    <3>16. \A q \in H!Sids : q \in f.idle \/ f.busy[q] # NoTask => q <= h
      BY <1>1, <2>1, <2>6, <3>8, <3>9 DEF H!Consistent
    <3>17. H!Consistent(f, n, h, done)
      BY <2>8, <3>8, <3>12, <3>13, <3>14, <3>15, <3>16 DEF H!Consistent
    <3> QED
      BY <3>6, <3>8, <3>17 DEF H!Sound
  <2> QED
    BY <2>9, <2>10, <2>11
<1> QED
  BY <1>2, <1>3

(* advance_all() as a whole: its turns exist, and keep what a turn keeps. *)
LEMMA AdvanceAllSound ==
  ASSUME NEW n \in Nat, NEW h \in Nat, NEW done, NEW d \in H!Sound(n, h, done), NEW full
  PROVE  H!AdvanceAll(d, full) \in H!Sound(n, h, done)
<1>1. PICK e \in H!Sound(n, h, done) : e = H!CheckTimeouts(d)
  BY CheckTimeoutsSound
<1>2. PICK k \in Nat : k = Len(e.pending)
  BY <1>1 DEF H!Sound, H!ClientStates
<1> DEFINE D == H!Sound(n, h, done)
           F == [x \in D |-> H!Advance(x, full)]
           Turns(f) == f = [i \in 0 .. k |-> IF i = 0 THEN e ELSE H!Advance(f[i - 1], full)]
<1>3. F \in [D -> D]
  BY AdvanceSound
<1>4. PICK g \in [0 .. k -> D] : g[0] = e /\ \A i \in 1 .. k : g[i] = F[g[i - 1]]
  <2> HIDE DEF F, D
  <2>1. e \in D
    BY <1>1 DEF D
  <2>2. Iterates(D, F, e, k)
    BY <1>2, <1>3, <2>1, Iterated
  <2> QED
    BY <2>2 DEF Iterates
<1>5. \A i \in 1 .. k : g[i] = H!Advance(g[i - 1], full)
  <2>1. \A i \in 1 .. k : i - 1 \in 0 .. k
    BY <1>2
  <2> QED
    BY <1>4, <2>1
<1>6. Turns(g)
  <2>1. \A i \in 0 .. k : g[i] = IF i = 0 THEN e ELSE H!Advance(g[i - 1], full)
    BY <1>2, <1>4, <1>5
  <2> QED
    BY <1>4, <2>1
<1>7. Turns(CHOOSE f : Turns(f))
  BY <1>6, Zenon
<1>8. PICK f : Turns(f) /\ H!AdvanceAll(d, full) = f[k]
  <2>1. H!AdvanceAll(d, full) = (CHOOSE f : Turns(f))[k]
    BY <1>1, <1>2 DEF H!AdvanceAll
  <2> QED
    BY <1>7, <2>1
<1> DEFINE X == {i \in Nat : i <= k => f[i] \in D}
<1>9. 0 \in X
  BY <1>1, <1>2, <1>8
<1>10. ASSUME NEW i \in Nat, i \in X PROVE i + 1 \in X
  <2>1. CASE i + 1 <= k
    <3>1. i + 1 \in 0 .. k /\ i + 1 # 0 /\ (i + 1) - 1 = i /\ i <= k
      BY <1>2, <2>1
    <3>2. f[i + 1] = H!Advance(f[i], full)
      BY <1>8, <3>1
    <3> QED
      BY <1>10, <3>1, <3>2, AdvanceSound
  <2> QED
    BY <2>1
<1>11. k \in X
  <2> HIDE DEF X
  <2> QED
    BY <1>2, <1>9, <1>10, AllNumbers
<1> QED
  BY <1>2, <1>8, <1>11

(* What the steps do to the client's tables is sound before advance_all(). *)
LEMMA RequestSound ==
  ASSUME H!IndInv, ids < MaxTasks, NEW i, i = ids + 1
  PROVE  [c EXCEPT !.tasks = @ \cup {i}, !.pending = Append(@, i), !.deadline[i] = hnow + HttpTimeout]
           \in H!Sound(i, sids, H!Done)
<1>1. /\ c \in H!ClientStates /\ H!Consistent(c, ids, sids, H!Done)
      /\ ids \in Nat /\ hnow \in Nat /\ i \in H!Ids /\ i \in Nat /\ hnow + HttpTimeout \in Nat
      /\ H!Ids \subseteq Nat
  BY ClientAssumption DEF H!IndInv, H!Sound, H!Ids
<1>2. i \notin H!Done
  BY <1>1 DEF H!IndInv, H!Done
<1>3. PICK d : d = [c EXCEPT !.tasks = @ \cup {i}, !.pending = Append(@, i),
                             !.deadline[i] = hnow + HttpTimeout]
  OBVIOUS
<1>4. /\ c.pending \in Seq(H!Ids) /\ c.deadline \in [H!Ids -> Nat] /\ c.tasks \in SUBSET H!Ids
      /\ c.busy \in [H!Sids -> H!Ids \cup {NoTask}]
      /\ \A t \in c.pool : t.id \in H!Ids
  BY <1>1 DEF H!ClientStates
<1>5. /\ Append(c.pending, i) \in Seq(H!Ids)
      /\ \A k \in DOMAIN Append(c.pending, i) :
            \/ k \in DOMAIN c.pending /\ Append(c.pending, i)[k] = c.pending[k]
            \/ k = Len(c.pending) + 1 /\ Append(c.pending, i)[k] = i
  BY <1>1, <1>4
<1>6. /\ d \in H!ClientStates
      /\ d.tasks = c.tasks \cup {i} /\ d.pool = c.pool /\ d.idle = c.idle /\ d.busy = c.busy
      /\ d.pending = Append(c.pending, i) /\ d.wire = c.wire
  BY <1>1, <1>3, <1>4, <1>5 DEF H!ClientStates
<1>7. \A k \in DOMAIN d.pending :
         \/ k \in DOMAIN c.pending /\ d.pending[k] = c.pending[k] /\ c.pending[k] \in H!Ids
         \/ k = Len(c.pending) + 1 /\ d.pending[k] = i
  BY <1>4, <1>5, <1>6
<1>8. \A k \in DOMAIN d.pending : d.pending[k] <= i
  BY <1>1, <1>7 DEF H!Consistent
<1>9. \A k, m \in DOMAIN d.pending : d.pending[k] = d.pending[m] => k = m
  <2>1. \A k \in DOMAIN c.pending : c.pending[k] # i
    BY <1>1, <1>4 DEF H!Consistent
  <2> QED
    BY <1>1, <1>7, <2>1 DEF H!Consistent
<1>10. \A s \in H!Sids : d.busy[s] # NoTask =>
          d.busy[s] <= i /\ \A k \in DOMAIN d.pending : d.pending[k] # d.busy[s]
  <2> SUFFICES ASSUME NEW s \in H!Sids, d.busy[s] # NoTask
               PROVE  d.busy[s] <= i /\ \A k \in DOMAIN d.pending : d.pending[k] # d.busy[s]
    OBVIOUS
  <2>1. /\ d.busy[s] \in Nat /\ d.busy[s] <= ids
        /\ \A k \in DOMAIN c.pending : c.pending[k] # d.busy[s]
    BY <1>1, <1>4, <1>6 DEF H!Consistent
  <2>2. d.busy[s] <= i /\ d.busy[s] # i
    BY <1>1, <2>1
  <2> QED
    BY <1>7, <2>1, <2>2
<1>11. \A t \in d.pool : /\ t.of \in {t.id, NoTask} /\ t.id <= i
                         /\ t.id \notin d.tasks /\ t.id \notin H!Done
  <2> SUFFICES ASSUME NEW t \in c.pool
               PROVE  /\ t.of \in {t.id, NoTask} /\ t.id <= i
                      /\ t.id \notin d.tasks /\ t.id \notin H!Done
    BY <1>6
  <2>1. /\ t.id \in Nat /\ t.id <= ids /\ t.of \in {t.id, NoTask} /\ t.id \notin c.tasks
        /\ t.id \notin H!Done
    BY <1>1, <1>4 DEF H!Consistent
  <2>2. t.id <= i /\ t.id # i
    BY <1>1, <2>1
  <2> QED
    BY <1>6, <2>1, <2>2
<1>12. \A id \in d.tasks : id <= i /\ id \notin H!Done
  <2> SUFFICES ASSUME NEW id \in c.tasks PROVE id <= i /\ id \notin H!Done
    BY <1>1, <1>2, <1>6
  <2>1. id \in Nat /\ id <= ids /\ id \notin H!Done
    BY <1>1, <1>4 DEF H!Consistent
  <2> QED
    BY <1>1, <2>1
<1>13. H!Consistent(d, i, sids, H!Done)
  BY <1>1, <1>6, <1>8, <1>9, <1>10, <1>11, <1>12 DEF H!Consistent
<1> QED
  BY <1>3, <1>6, <1>13 DEF H!Sound

(* A connection more, idle. *)
LEMMA AddSound ==
  ASSUME H!IndInv, sids < MaxSessions, NEW s, s = sids + 1
  PROVE  [c EXCEPT !.live = @ \cup {s}, !.idle = @ \cup {s}] \in H!Sound(ids, s, H!Done)
<1>1. /\ c \in H!ClientStates /\ H!Consistent(c, ids, sids, H!Done)
      /\ sids \in Nat /\ s \in H!Sids /\ s \in Nat /\ H!Sids \subseteq Nat
  BY ClientAssumption DEF H!IndInv, H!Sound, H!Sids
<1>2. PICK d : d = [c EXCEPT !.live = @ \cup {s}, !.idle = @ \cup {s}]
  OBVIOUS
<1>3. /\ d \in H!ClientStates
      /\ d.tasks = c.tasks /\ d.pool = c.pool /\ d.idle = c.idle \cup {s} /\ d.busy = c.busy
      /\ d.pending = c.pending /\ d.wire = c.wire
  BY <1>1, <1>2 DEF H!ClientStates
<1>4. c.busy[s] = NoTask
  BY <1>1 DEF H!Consistent
<1>5. \A q \in H!Sids : q \in d.idle \/ d.busy[q] # NoTask => q <= s
  <2> SUFFICES ASSUME NEW q \in H!Sids, q # s, q \in d.idle \/ d.busy[q] # NoTask
               PROVE  q <= s
    BY <1>1
  <2>1. q \in Nat /\ q <= sids
    BY <1>1, <1>3 DEF H!Consistent
  <2> QED
    BY <1>1, <2>1
<1>6. H!Consistent(d, ids, s, H!Done)
  BY <1>1, <1>3, <1>4, <1>5 DEF H!Consistent
<1> QED
  BY <1>2, <1>3, <1>6 DEF H!Sound

(* A connection that is answered or goes away carries nothing any more, and may be idle. *)
LEMMA ClearSound ==
  ASSUME H!IndInv, NEW s \in H!Sids, NEW d \in H!ClientStates,
         d.tasks = c.tasks, d.pool = c.pool, d.pending = c.pending,
         \/ d.idle = c.idle \/ d.idle = c.idle \ {s}
         \/ d.idle = c.idle \cup {s} /\ c.busy[s] # NoTask,
         d.busy = [c.busy EXCEPT ![s] = NoTask], d.wire = [c.wire EXCEPT ![s] = <<>>]
  PROVE  H!Consistent(d, ids, sids, H!Done)
<1>1. c \in H!ClientStates /\ H!Consistent(c, ids, sids, H!Done)
  BY DEF H!IndInv, H!Sound
<1>2. /\ d.busy[s] = NoTask /\ d.wire[s] = <<>>
      /\ \A q \in H!Sids : q # s => d.busy[q] = c.busy[q] /\ d.wire[q] = c.wire[q]
      /\ \A q \in H!Sids : d.busy[q] # NoTask => q # s /\ d.busy[q] = c.busy[q]
  BY <1>1 DEF H!ClientStates
<1>3. /\ \A q \in d.idle : q \in c.idle \/ q = s
      /\ \A q \in c.idle : q \in H!Sids
      /\ \A q \in d.idle : q \in H!Sids
      /\ s \in d.idle => s \in c.idle \/ c.busy[s] # NoTask
  BY <1>1 DEF H!ClientStates
<1>4. \A q \in d.idle : d.busy[q] = NoTask
  BY <1>1, <1>2, <1>3 DEF H!Consistent
<1>5. \A q \in H!Sids : q \in d.idle \/ d.busy[q] # NoTask => q <= sids
  BY <1>1, <1>2, <1>3 DEF H!Consistent
<1>6. \A q, t \in H!Sids : q # t /\ d.busy[q] # NoTask => d.busy[q] # d.busy[t]
  BY <1>1, <1>2 DEF H!Consistent
<1>7. \A q \in H!Sids : d.wire[q] # <<>> => d.busy[q] # NoTask /\ d.wire[q] = <<d.busy[q]>>
  BY <1>1, <1>2 DEF H!Consistent
<1> QED
  BY <1>1, <1>2, <1>4, <1>5, <1>6, <1>7 DEF H!Consistent

(* finish_task() with the answer of the request itself. *)
LEMMA FinishSound ==
  ASSUME NEW n \in Nat, NEW h \in Nat, NEW done, NEW d \in H!Sound(n, h, done), NEW id \in d.tasks
  PROVE  /\ H!Finish(d, id, id) \in H!Sound(n, h, done)
         /\ H!Finish(d, id, id).idle = d.idle /\ H!Finish(d, id, id).busy = d.busy
<1>1. d \in H!ClientStates /\ H!Consistent(d, n, h, done) /\ id \in H!Ids
  BY DEF H!Sound, H!ClientStates
<1>2. PICK e : e = H!Finish(d, id, id)
  OBVIOUS
<1>3. PICK t : t = [id |-> id, of |-> id]
  OBVIOUS
<1>4. t \in [id : H!Ids, of : H!Ids \cup {NoTask}] /\ t.id = id /\ t.of = id
  BY <1>1, <1>3
<1>5. /\ e \in H!ClientStates
      /\ e.tasks = d.tasks \ {id} /\ e.pool = d.pool \cup {t} /\ e.idle = d.idle /\ e.busy = d.busy
      /\ e.pending = d.pending /\ e.wire = d.wire
  BY <1>1, <1>2, <1>3, <1>4 DEF H!Finish, H!ClientStates
<1>6. \A u \in e.pool : /\ u.of \in {u.id, NoTask} /\ u.id <= n
                        /\ u.id \notin e.tasks /\ u.id \notin done
  BY <1>1, <1>4, <1>5 DEF H!Consistent
<1>7. \A u, v \in e.pool : u.id = v.id => u = v
  BY <1>1, <1>4, <1>5 DEF H!Consistent
<1>8. H!Consistent(e, n, h, done)
  BY <1>1, <1>5, <1>6, <1>7 DEF H!Consistent
<1> QED
  BY <1>2, <1>5, <1>8 DEF H!Sound

(* recycle_connection() for a connection that is not busy. *)
LEMMA RecycleSound ==
  ASSUME NEW n \in Nat, NEW h \in Nat, NEW done, NEW d \in H!Sound(n, h, done),
         NEW s \in H!Sids, d.busy[s] = NoTask, s <= h, NEW keepalive
  PROVE  H!Recycle(d, s, keepalive) \in H!Sound(n, h, done)
<1>1. d \in H!ClientStates /\ H!Consistent(d, n, h, done)
  BY DEF H!Sound
<1>2. CASE keepalive
  <2>1. PICK e : e = [d EXCEPT !.idle = @ \cup {s}]
    OBVIOUS
  <2>2. /\ e \in H!ClientStates
        /\ e.tasks = d.tasks /\ e.pool = d.pool /\ e.idle = d.idle \cup {s} /\ e.busy = d.busy
        /\ e.pending = d.pending /\ e.wire = d.wire
    BY <1>1, <2>1 DEF H!ClientStates
  <2>3. H!Consistent(e, n, h, done)
    BY <1>1, <2>2 DEF H!Consistent
  <2> QED
    BY <1>2, <2>1, <2>2, <2>3 DEF H!Recycle, H!Sound
<1>3. CASE ~keepalive
  BY <1>3 DEF H!Recycle
<1> QED
  BY <1>2, <1>3

(* A response answers the request its connection is busy with. *)
LEMMA ResponseSound ==
  ASSUME H!IndInv, NEW s \in H!Sids, NEW keepalive \in BOOLEAN, NEW full,
         H!HandleResponse(s, keepalive, full)
  PROVE  c' \in H!Sound(ids, sids, H!Done)
<1>1. /\ c \in H!ClientStates /\ H!Consistent(c, ids, sids, H!Done)
      /\ ids \in Nat /\ sids \in Nat
  BY ClientAssumption DEF H!IndInv, H!Sound
<1>2. PICK id : id = c.busy[s]
  OBVIOUS
<1>3. id # NoTask /\ c.wire[s] = <<id>> /\ s <= sids
  BY <1>1, <1>2 DEF H!HandleResponse, H!Consistent
<1>4. PICK d : d = [c EXCEPT !.wire[s] = Tail(@)]
  OBVIOUS
<1>5. PICK e : e = [d EXCEPT !.busy[s] = NoTask]
  OBVIOUS
<1>6. /\ Tail(c.wire[s]) = <<>> /\ Head(c.wire[s]) = id
      /\ [c.wire EXCEPT ![s] = <<>>] \in [H!Sids -> Seq(H!Ids)]
      /\ [c.busy EXCEPT ![s] = NoTask] \in [H!Sids -> H!Ids \cup {NoTask}]
  BY <1>1, <1>3 DEF H!ClientStates
<1>7. /\ d \in H!ClientStates
      /\ d.tasks = c.tasks /\ d.pool = c.pool /\ d.idle = c.idle /\ d.busy = c.busy
      /\ d.pending = c.pending /\ d.wire = [c.wire EXCEPT ![s] = <<>>]
  BY <1>1, <1>4, <1>6 DEF H!ClientStates
<1>8. /\ e \in H!ClientStates
      /\ e.tasks = c.tasks /\ e.pool = c.pool /\ e.idle = c.idle
      /\ e.busy = [c.busy EXCEPT ![s] = NoTask]
      /\ e.pending = c.pending /\ e.wire = [c.wire EXCEPT ![s] = <<>>]
  BY <1>5, <1>6, <1>7 DEF H!ClientStates
<1>9. e \in H!Sound(ids, sids, H!Done) /\ e.busy[s] = NoTask
  <2>1. H!Consistent(e, ids, sids, H!Done)
    BY <1>8, ClearSound
  <2>2. e.busy[s] = NoTask
    BY <1>1, <1>8 DEF H!ClientStates
  <2> QED
    BY <1>8, <2>1, <2>2 DEF H!Sound
<1>10. c' = IF id \notin c.tasks THEN H!Recycle(e, s, keepalive)
            ELSE H!AdvanceAll(H!Recycle(H!Finish(e, id, id), s, keepalive), full)
  BY <1>2, <1>3, <1>4, <1>5, <1>6 DEF H!HandleResponse
<1>11. CASE id \notin c.tasks
  BY <1>1, <1>3, <1>9, <1>10, <1>11, RecycleSound
<1>12. CASE id \in c.tasks
  <2>1. PICK f : f = H!Finish(e, id, id)
    OBVIOUS
  <2>2. id \in e.tasks
    BY <1>8, <1>12
  <2>3. f \in H!Sound(ids, sids, H!Done) /\ f.busy = e.busy
    <3>1. ASSUME NEW n \in Nat, NEW h \in Nat, NEW done, e \in H!Sound(n, h, done)
          PROVE  f \in H!Sound(n, h, done) /\ f.busy = e.busy
      BY <2>1, <2>2, <3>1, FinishSound
    <3> QED
      BY <1>1, <1>9, <3>1
  <2>4. H!Recycle(f, s, keepalive) \in H!Sound(ids, sids, H!Done)
    BY <1>1, <1>3, <1>9, <2>3, RecycleSound
  <2> QED
    BY <1>1, <1>10, <1>12, <2>1, <2>4, AdvanceAllSound
<1> QED
  BY <1>11, <1>12

(* A callback leaves the pool and has run. *)
LEMMA CallbackStep == ASSUME H!IndInv, NEW t \in c.pool, H!RunCallback(t) PROVE H!IndInv'
<1>1. /\ c \in H!ClientStates /\ H!Consistent(c, ids, sids, H!Done) /\ ids \in Nat /\ sids \in Nat
      /\ ran \in [H!Ids -> Seq(H!Ids \cup {NoTask})]
  BY ClientAssumption DEF H!IndInv, H!Sound
<1>2. /\ c' = [c EXCEPT !.pool = c.pool \ {t}] /\ UNCHANGED <<hnow, ids, sids>>
      /\ ran' = [ran EXCEPT ![t.id] = Append(ran[t.id], t.of)]
  BY DEF H!RunCallback
<1>3. /\ t.id \in H!Ids /\ t.of \in H!Ids \cup {NoTask} /\ t.id <= ids
      /\ t.of \in {t.id, NoTask} /\ t.id \notin c.tasks /\ t.id \notin H!Done
  BY <1>1 DEF H!ClientStates, H!Consistent
<1>4. ran[t.id] = <<>>
  BY <1>3 DEF H!Done
<1>5. Append(ran[t.id], t.of) = <<t.of>> /\ <<t.of>> \in Seq(H!Ids \cup {NoTask})
  BY <1>3, <1>4
<1>6. /\ ran' \in [H!Ids -> Seq(H!Ids \cup {NoTask})]
      /\ ran'[t.id] = <<t.of>> /\ \A id \in H!Ids : id # t.id => ran'[id] = ran[id]
  BY <1>1, <1>2, <1>3, <1>5
<1>7. \A id \in H!Ids : ran'[id] # <<>> =>
         id <= ids' /\ (ran'[id] = <<id>> \/ ran'[id] = <<NoTask>>)
  BY <1>2, <1>3, <1>6 DEF H!IndInv
<1>8. PICK d : d = c'
  OBVIOUS
<1>9. /\ d \in H!ClientStates
      /\ d.tasks = c.tasks /\ d.pool = c.pool \ {t} /\ d.idle = c.idle /\ d.busy = c.busy
      /\ d.pending = c.pending /\ d.wire = c.wire
  BY <1>1, <1>2, <1>8 DEF H!ClientStates
<1>10. PICK done : done = H!Done'
  OBVIOUS
<1>11. done \subseteq H!Done \cup {t.id}
  BY <1>6, <1>10 DEF H!Done, H!Ids
<1>12. \A u \in d.pool : u.id # t.id
  BY <1>1, <1>9 DEF H!Consistent
<1>13. H!Consistent(d, ids, sids, done)
  <2>1. \A id \in d.tasks : id <= ids /\ id \notin done
    BY <1>1, <1>3, <1>9, <1>11 DEF H!Consistent
  <2>2. \A u \in d.pool : /\ u.of \in {u.id, NoTask} /\ u.id <= ids
                          /\ u.id \notin d.tasks /\ u.id \notin done
    BY <1>1, <1>9, <1>11, <1>12 DEF H!Consistent
  <2> QED
    BY <1>1, <1>9, <2>1, <2>2 DEF H!Consistent
<1>14. H!Consistent(d, ids', sids', done) /\ d \in H!ClientStates
  BY <1>2, <1>9, <1>13
<1>15. c' \in H!Sound(ids', sids', H!Done')
  BY <1>8, <1>10, <1>14 DEF H!Sound
<1> QED
  BY <1>2, <1>6, <1>7, <1>15 DEF H!IndInv, H!Sound, H!ClientStates, H!Ids, H!Sids, H!Consistent

(* No request yet. *)
LEMMA InitClient == H!Init => H!IndInv
<1> SUFFICES ASSUME H!Init PROVE H!IndInv
  OBVIOUS
<1>1. MaxTasks \in Nat /\ MaxSessions \in Nat
  BY ClientAssumption
<1>2. /\ hnow = 0 /\ ids = 0 /\ sids = 0 /\ ran = [id \in H!Ids |-> <<>>]
      /\ c = [tasks |-> {}, deadline |-> [id \in H!Ids |-> 0],
              idle |-> {}, busy |-> [s \in H!Sids |-> NoTask], pending |-> <<>>,
              live |-> {}, pool |-> {}, wire |-> [s \in H!Sids |-> <<>>], crashed |-> FALSE]
  BY DEF H!Init
<1>3. c \in H!ClientStates
  BY <1>2 DEF H!ClientStates
<1>4. /\ c.tasks = {} /\ c.pending = <<>> /\ c.pool = {} /\ c.idle = {}
      /\ \A s \in H!Sids : c.busy[s] = NoTask /\ c.wire[s] = <<>>
  BY <1>2
<1>5. H!Consistent(c, ids, sids, H!Done)
  BY <1>2, <1>4 DEF H!Consistent
<1> QED
  BY <1>1, <1>2, <1>3, <1>5 DEF H!IndInv, H!Sound

(* A step that answers nothing leaves done what was done. *)
LEMMA DoneKept == ran' = ran => H!Done' = H!Done
  BY DEF H!Done, H!Ids

(* The client's invariant is kept by every step of the client. *)
LEMMA ClientStep == H!IndInv /\ [H!Next]_hvars => H!IndInv'
<1> SUFFICES ASSUME H!IndInv, [H!Next]_hvars PROVE H!IndInv'
  OBVIOUS
<1>0. /\ hnow \in Nat /\ ids \in Nat /\ sids \in Nat /\ ids <= MaxTasks /\ sids <= MaxSessions
      /\ MaxTasks \in Nat /\ MaxSessions \in Nat /\ c \in H!Sound(ids, sids, H!Done)
  BY ClientAssumption DEF H!IndInv
<1>1. ASSUME ran' = ran, hnow' \in Nat, ids' \in Nat, sids' \in Nat, ids <= ids',
             ids' <= MaxTasks, sids' <= MaxSessions, c' \in H!Sound(ids', sids', H!Done)
      PROVE  H!IndInv'
  <2>1. c' \in H!Sound(ids', sids', H!Done')
    BY <1>1, DoneKept
  <2>2. ids' \in 0 .. MaxTasks /\ sids' \in 0 .. MaxSessions
    BY <1>0, <1>1
  <2>3. \A id \in H!Ids : ran[id] # <<>> => id <= ids'
    <3>1. \A id \in H!Ids : ran[id] # <<>> => id \in Nat /\ id <= ids
      BY <1>0 DEF H!IndInv, H!Ids
    <3> QED
      BY <1>0, <1>1, <3>1
  <2>4. /\ ran' \in [H!Ids -> Seq(H!Ids \cup {NoTask})]
        /\ \A id \in H!Ids : ran'[id] # <<>> =>
             id <= ids' /\ (ran'[id] = <<id>> \/ ran'[id] = <<NoTask>>)
    BY <1>1, <2>3 DEF H!IndInv
  <2> QED
    BY <1>1, <2>1, <2>2, <2>4 DEF H!IndInv, H!Sound, H!ClientStates, H!Ids, H!Sids, H!Consistent
<1>2. ASSUME NEW full, H!SendRequest(full) PROVE H!IndInv'
  <2>1. PICK i : i = ids + 1
    OBVIOUS
  <2>2. PICK d : d = [c EXCEPT !.tasks = @ \cup {i}, !.pending = Append(@, i),
                               !.deadline[i] = hnow + HttpTimeout]
    OBVIOUS
  <2>3. ids < MaxTasks /\ ids' = i /\ c' = H!AdvanceAll(d, full) /\ UNCHANGED <<hnow, sids, ran>>
    BY <1>2, <2>1, <2>2 DEF H!SendRequest
  <2>4. d \in H!Sound(i, sids, H!Done) /\ i \in Nat /\ ids <= i /\ i <= MaxTasks
    <3>1. d \in H!Sound(i, sids, H!Done)
      BY <2>1, <2>2, <2>3, RequestSound
    <3> QED
      BY <1>0, <2>1, <2>3, <3>1
  <2>5. c' \in H!Sound(i, sids, H!Done)
    BY <1>0, <2>3, <2>4, AdvanceAllSound
  <2> QED
    BY <1>0, <1>1, <2>3, <2>4, <2>5
<1>3. ASSUME NEW full, H!AddSession(full) PROVE H!IndInv'
  <2>1. PICK s : s = sids + 1
    OBVIOUS
  <2>2. PICK d : d = [c EXCEPT !.live = @ \cup {s}, !.idle = @ \cup {s}]
    OBVIOUS
  <2>3. sids < MaxSessions /\ sids' = s /\ c' = H!AdvanceAll(d, full) /\ UNCHANGED <<hnow, ids, ran>>
    BY <1>3, <2>1, <2>2 DEF H!AddSession
  <2>4. d \in H!Sound(ids, s, H!Done) /\ s \in Nat /\ s <= MaxSessions
    <3>1. d \in H!Sound(ids, s, H!Done)
      BY <2>1, <2>2, <2>3, AddSound
    <3> QED
      BY <1>0, <2>1, <2>3, <3>1
  <2>5. c' \in H!Sound(ids, s, H!Done)
    BY <1>0, <2>3, <2>4, AdvanceAllSound
  <2> QED
    BY <1>0, <1>1, <2>3, <2>4, <2>5
<1>4. ASSUME NEW s \in H!Sids, NEW full, H!DelSession(s, full) PROVE H!IndInv'
  <2>1. PICK d : d = [c EXCEPT !.live = @ \ {s}, !.idle = @ \ {s}, !.busy[s] = NoTask,
                               !.wire[s] = <<>>]
    OBVIOUS
  <2>2. c' = H!AdvanceAll(d, full) /\ UNCHANGED <<hnow, ids, sids, ran>>
    BY <1>4, <2>1 DEF H!DelSession
  <2>3. /\ [c.wire EXCEPT ![s] = <<>>] \in [H!Sids -> Seq(H!Ids)]
        /\ [c.busy EXCEPT ![s] = NoTask] \in [H!Sids -> H!Ids \cup {NoTask}]
        /\ c \in H!ClientStates
    BY <1>0 DEF H!Sound, H!ClientStates
  <2>4. /\ d \in H!ClientStates
        /\ d.tasks = c.tasks /\ d.pool = c.pool /\ d.pending = c.pending
        /\ d.idle = c.idle \ {s} /\ d.busy = [c.busy EXCEPT ![s] = NoTask]
        /\ d.wire = [c.wire EXCEPT ![s] = <<>>]
    BY <2>1, <2>3 DEF H!ClientStates
  <2>5. H!Consistent(d, ids, sids, H!Done)
    BY <2>4, ClearSound
  <2>6. d \in H!Sound(ids, sids, H!Done)
    BY <2>4, <2>5 DEF H!Sound
  <2>7. c' \in H!Sound(ids, sids, H!Done)
    BY <1>0, <2>2, <2>6, AdvanceAllSound
  <2> QED
    BY <1>0, <1>1, <2>2, <2>7
<1>5. ASSUME NEW s \in H!Sids, NEW keepalive \in BOOLEAN, NEW full,
             H!HandleResponse(s, keepalive, full)
      PROVE  H!IndInv'
  <2>1. UNCHANGED <<hnow, ids, sids, ran>>
    BY <1>5 DEF H!HandleResponse
  <2>2. c' \in H!Sound(ids, sids, H!Done)
    BY <1>5, ResponseSound
  <2> QED
    BY <1>0, <1>1, <2>1, <2>2
<1>6. CASE H!Tick \/ UNCHANGED hvars
  <2>1. UNCHANGED <<ids, sids, c, ran>> /\ hnow' \in Nat
    BY <1>0, <1>6 DEF H!Tick, hvars
  <2> QED
    BY <1>0, <1>1, <2>1
<1> QED
  BY <1>2, <1>3, <1>4, <1>5, <1>6, CallbackStep DEF H!Next

(* The tables are consistent, so that answers match. *)
LEMMA ClientFollows == H!IndInv => H!AnswersMatch
<1> SUFFICES ASSUME H!IndInv PROVE H!AnswersMatch
  OBVIOUS
<1>1. /\ c \in H!ClientStates /\ H!Consistent(c, ids, sids, H!Done)
      /\ ran \in [H!Ids -> Seq(H!Ids \cup {NoTask})]
  BY DEF H!IndInv, H!Sound
<1>2. \A t \in c.pool : t.of \in {t.id, NoTask} /\ ran[t.id] = <<>> /\ t.id \notin c.tasks
  <2>1. \A t \in c.pool : t.id \in H!Ids /\ t.id \notin H!Done
    BY <1>1 DEF H!ClientStates, H!Consistent
  <2> QED
    BY <1>1, <2>1 DEF H!Consistent, H!Done
<1>3. ASSUME NEW id \in H!Ids PROVE Len(ran[id]) <= 1 /\ H!Range(ran[id]) \subseteq {id, NoTask}
  <2>1. ran[id] = <<>> \/ ran[id] = <<id>> \/ ran[id] = <<NoTask>>
    BY DEF H!IndInv
  <2>2. CASE ran[id] = <<>>
    BY <2>2 DEF H!Range
  <2>3. ASSUME NEW x \in {id, NoTask}, ran[id] = <<x>>
        PROVE  Len(ran[id]) <= 1 /\ H!Range(ran[id]) \subseteq {id, NoTask}
    <3>1. Len(<<x>>) = 1 /\ DOMAIN <<x>> = {1} /\ <<x>>[1] = x
      OBVIOUS
    <3>2. H!Range(ran[id]) = {x}
      BY <2>3, <3>1 DEF H!Range
    <3> QED
      BY <2>3, <3>1, <3>2
  <2> QED
    BY <2>1, <2>2, <2>3
<1>4. \A s \in c.idle : c.busy[s] = NoTask /\ c.wire[s] = <<>>
  BY <1>1 DEF H!ClientStates, H!Consistent
<1>5. \A s, t \in H!Sids : s # t /\ c.busy[s] # NoTask => c.busy[s] # c.busy[t]
  BY <1>1 DEF H!Consistent
<1> QED
  BY <1>2, <1>3, <1>4, <1>5 DEF H!AnswersMatch

(* A callback gets the answer to its own request, or none, and runs at most once; a *)
(* response that comes late is never taken for another's, for any number of         *)
(* requests and connections, whatever times out or closes meanwhile.                *)
THEOREM ClientAnswersMatch == InitAll /\ [][NextAll]_allvars => []AnswersMatch
<1>1. InitAll => H!IndInv
  BY InitClient DEF InitAll
<1>2. H!IndInv /\ [NextAll]_allvars => H!IndInv'
  <2>1. [NextAll]_allvars => [H!Next]_hvars
    BY DEF NextAll, allvars, hvars
  <2> QED
    BY <2>1, ClientStep
<1>3. H!IndInv => AnswersMatch
  BY ClientFollows DEF AnswersMatch
<1> QED
  BY <1>1, <1>2, <1>3, PTL
=============================================================================
