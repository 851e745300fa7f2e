-------------------------------- MODULE Rpc --------------------------------
(***************************************************************************)
(* The life of an rpc (io/rpc.cpp): set_request() gives the call a trace id, *)
(* registers it in _rpcs and arms a timer; the caller then sends it; the     *)
(* peer's run() answers it; the answer, or the timer, takes the call out of  *)
(* _rpcs under _locker, runs the client or the timeout callback and deletes  *)
(* it.  Answers run as pool tasks, on several threads and in any order; a    *)
(* request or an answer may be lost with its session or dropped by a full    *)
(* write buffer.  server() returns false (no forwarding of the call).        *)
(***************************************************************************)
EXTENDS Naturals, FiniteSets

CONSTANTS Threads,  \* pool threads that run answers
          Timeout,  \* get_timeout(), in seconds
          MaxCalls, \* bound on calls
          MaxTime,  \* bound on the clock, in seconds, once no timer is pending
          NoCall

ASSUME TimeoutAssumption == Timeout \in Nat \ {0}
ASSUME BoundsAssumption == MaxCalls \in Nat /\ MaxTime \in Nat
ASSUME NoCallAssumption == NoCall \notin Nat

Calls == 1 .. MaxCalls

VARIABLES
  next_traceid, \* next_traceid of set_request()
  rpcs,         \* keys of _rpcs
  cpc,          \* cpc[i]: "none", "armed" (being set up), "ready", "sent"
  timers,       \* timers armed: [key |-> trace id captured, at |-> when]
  now,          \* the clock, in seconds
  requests,     \* calls on their way to the server
  answers,      \* answers on their way back or queued as pool tasks
  hold,         \* hold[th]: the call a pool thread has taken out of _rpcs
  thold,        \* the call the timer thread has taken out of _rpcs
  client, timeouts, freed  \* history: callbacks run and deletions, per call

vars == <<next_traceid, rpcs, cpc, timers, now, requests, answers, hold, thold,
          client, timeouts, freed>>
history == <<client, timeouts, freed>>

Init ==
  /\ next_traceid = 0
  /\ rpcs = {}
  /\ cpc = [i \in Calls |-> "none"]
  /\ timers = {}
  /\ now = 0
  /\ requests = {}
  /\ answers = {}
  /\ hold = [th \in Threads |-> NoCall]
  /\ thold = NoCall
  /\ client = [i \in Calls |-> 0]
  /\ timeouts = [i \in Calls |-> 0]
  /\ freed = [i \in Calls |-> 0]

(* set_request(): the trace id and the entry, under the lock ... *)
Register ==
  /\ next_traceid < MaxCalls /\ now < MaxTime
  /\ next_traceid' = next_traceid + 1
  /\ rpcs' = rpcs \cup {next_traceid'}
  /\ cpc' = [cpc EXCEPT ![next_traceid'] = "armed"]
  /\ UNCHANGED <<timers, now, requests, answers, hold, thold, history>>

(* What set_timeout_timer(traceid, timeout) does: a timer after timeout       *)
(* seconds for the call traceid.                                             *)
SetTimeoutTimer(traceid, timeout) ==
  timers' = timers \cup {[key |-> traceid, at |-> now + timeout]}

(* ... then the timer: set_request() passes its two arguments the other way  *)
(* round.                                                                    *)
Arm(i) ==
  /\ cpc[i] = "armed"
  /\ SetTimeoutTimer(Timeout, i)
  /\ cpc' = [cpc EXCEPT ![i] = "ready"]
  /\ UNCHANGED <<next_traceid, rpcs, now, requests, answers, hold, thold, history>>

(* The caller sends the call it got back; the request may be lost. *)
SendRequest(i) ==
  /\ cpc[i] = "ready"
  /\ cpc' = [cpc EXCEPT ![i] = "sent"]
  /\ requests' = requests \cup {i} \/ UNCHANGED requests
  /\ UNCHANGED <<next_traceid, rpcs, timers, now, answers, hold, thold, history>>

(* run() on the server: do_server() and the answer to the same session, which *)
(* may be gone.                                                              *)
Serve(i) ==
  /\ i \in requests
  /\ requests' = requests \ {i}
  /\ answers' = answers \cup {i} \/ UNCHANGED answers
  /\ UNCHANGED <<next_traceid, rpcs, cpc, timers, now, hold, thold, history>>

(* Mutant: the answer finds the call and leaves it in the table. *)
TakeAnswerKept(th, i) ==
  /\ hold[th] = NoCall
  /\ i \in answers
  /\ answers' = answers \ {i}
  /\ hold' = [hold EXCEPT ![th] = IF i \in rpcs THEN i ELSE NoCall]
  /\ UNCHANGED <<next_traceid, rpcs, cpc, timers, now, requests, thold, history>>

(* Mutant: the call is erased and its callback never runs. *)
TakeAnswerDropped(th, i) ==
  /\ hold[th] = NoCall
  /\ i \in answers
  /\ answers' = answers \ {i}
  /\ rpcs' = rpcs \ {i}
  /\ UNCHANGED <<next_traceid, cpc, timers, now, requests, hold, thold, history>>

(* run() on the client: find and erase the call under the lock; an answer to  *)
(* a call that is no longer there is ignored ...                             *)
TakeAnswer(th, i) ==
  /\ hold[th] = NoCall
  /\ i \in answers
  /\ answers' = answers \ {i}
  /\ hold' = [hold EXCEPT ![th] = IF i \in rpcs THEN i ELSE NoCall]
  /\ rpcs' = rpcs \ {i}
  /\ UNCHANGED <<next_traceid, cpc, timers, now, requests, thold, history>>

(* ... do_client() and delete. *)
FinishAnswer(th) ==
  /\ hold[th] # NoCall
  /\ client' = [client EXCEPT ![hold[th]] = @ + 1]
  /\ freed' = [freed EXCEPT ![hold[th]] = @ + 1]
  /\ hold' = [hold EXCEPT ![th] = NoCall]
  /\ UNCHANGED <<next_traceid, rpcs, cpc, timers, now, requests, answers, thold, timeouts>>

(* A timer of set_timeout_timer() is due: find and erase ... *)
FireTimer(tm) ==
  /\ thold = NoCall
  /\ tm \in timers /\ tm.at <= now
  /\ timers' = timers \ {tm}
  /\ thold' = IF tm.key \in rpcs THEN tm.key ELSE NoCall
  /\ rpcs' = rpcs \ {tm.key}
  /\ UNCHANGED <<next_traceid, cpc, now, requests, answers, hold, history>>

(* ... do_timeout() and delete; the timer does not repeat. *)
FinishTimer ==
  /\ thold # NoCall
  /\ timeouts' = [timeouts EXCEPT ![thold] = @ + 1]
  /\ freed' = [freed EXCEPT ![thold] = @ + 1]
  /\ thold' = NoCall
  /\ UNCHANGED <<next_traceid, rpcs, cpc, timers, now, requests, answers, hold, client>>

(* Time passes, at least as long as a timer has still to come due. *)
Tick ==
  /\ now < MaxTime \/ \E tm \in timers : tm.at > now
  /\ now' = now + 1
  /\ UNCHANGED <<next_traceid, rpcs, cpc, timers, requests, answers, hold, thold, history>>

PoolStep(th) == (\E i \in Calls : TakeAnswer(th, i)) \/ FinishAnswer(th)
TimerStep == (\E tm \in timers : FireTimer(tm)) \/ FinishTimer
CallStep(i) == Arm(i) \/ SendRequest(i)

Next ==
  \/ Register
  \/ \E i \in Calls : CallStep(i) \/ Serve(i)
  \/ \E th \in Threads : PoolStep(th)
  \/ TimerStep
  \/ Tick

Spec == Init /\ [][Next]_vars

(* Threads keep being scheduled and time passes; a request or an answer has   *)
(* no obligation to arrive.                                                  *)
FairSpec ==
  /\ Spec
  /\ \A i \in Calls : WF_vars(CallStep(i))
  /\ \A th \in Threads : WF_vars(PoolStep(th))
  /\ WF_vars(TimerStep)
  /\ WF_vars(Tick)

-----------------------------------------------------------------------------
(* Every variable stays in its range. *)
TypeOK ==
  /\ next_traceid \in 0 .. MaxCalls
  /\ rpcs \in SUBSET Calls
  /\ cpc \in [Calls -> {"none", "armed", "ready", "sent"}]
  /\ \A tm \in timers : tm.key \in Nat /\ tm.at \in Nat
  /\ now \in Nat
  /\ requests \in SUBSET Calls
  /\ answers \in SUBSET Calls
  /\ hold \in [Threads -> Calls \cup {NoCall}]
  /\ thold \in Calls \cup {NoCall}
  /\ client \in [Calls -> Nat]
  /\ timeouts \in [Calls -> Nat]
  /\ freed \in [Calls -> Nat]

(* A call ends once: the answer's callback or the timeout's runs, never both   *)
(* and never twice, it is deleted once, and it has one owner until then (the   *)
(* table, a pool thread or the timer thread), although the answer and the      *)
(* timer race for it (rpc::run, set_timeout_timer).                            *)
OneOutcome ==
  /\ TypeOK
  /\ \A i \in Calls :
       LET owners == {<<"table", x>> : x \in rpcs \cap {i}}
                     \cup {<<"pool", th>> : th \in {u \in Threads : hold[u] = i}}
                     \cup {<<"timer", x>> : x \in {thold} \cap {i}}
       IN /\ Cardinality(owners) + freed[i] = (IF i <= next_traceid THEN 1 ELSE 0)
          /\ client[i] + timeouts[i] = freed[i]

(* The table, a pool thread or the timer thread has the call. *)
Owned(i) == i \in rpcs \/ thold = i \/ \E th \in Threads : hold[th] = i

(* No two of them have the same call. *)
OwnersApart ==
  /\ \A i \in rpcs : thold # i /\ \A th \in Threads : hold[th] # i
  /\ \A th \in Threads : hold[th] # NoCall => hold[th] # thold
  /\ \A th, u \in Threads : th # u /\ hold[th] # NoCall => hold[th] # hold[u]

(* A call somebody has is registered and not deleted, and the other way round;  *)
(* a deletion comes with exactly one callback.                                 *)
OutcomeCounts ==
  \A i \in Calls :
    /\ Owned(i) <=> (i <= next_traceid /\ freed[i] = 0)
    /\ freed[i] = 0 \/ (freed[i] = 1 /\ i <= next_traceid)
    /\ client[i] + timeouts[i] = freed[i]

(* The inductive invariant behind OneOutcome. *)
IndInv == TypeOK /\ OwnersApart /\ OutcomeCounts

(* An answer that comes back while its call is still registered completes the  *)
(* call (rpc::run, client side).                                               *)
AnswerCompletes ==
  \A i \in Calls : (i \in answers /\ i \in rpcs) ~> freed[i] = 1

(* Every call ends: "virtual int get_timeout() const { return 30; } //          *)
(* 默认30s超时" (rpc.h:21), a call nobody answers times out after 30 seconds.     *)
CallTimesOut == \A i \in Calls : i \in rpcs ~> freed[i] = 1
=============================================================================
