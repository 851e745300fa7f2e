----------------------------- MODULE HttpClient -----------------------------
(***************************************************************************)
(* httpclient (http/httpclient.cpp): requests wait in pending until one of    *)
(* the connections is idle; a connection is busy with the request sent on it  *)
(* until a response comes; a request whose time is up is given to the pool    *)
(* with the status 408, whoever waits for it.  Timeouts are only looked at by *)
(* advance_all(), and no connection is ever added for lack of idle ones: the  *)
(* test before try_new_connection() contradicts itself.                      *)
(*                                                                           *)
(* Every call runs under _locker.  on_add_session() and on_del_session() lock *)
(* it again though their caller holds it and unlock it twice: what is left of *)
(* the lock is undefined, so it may never be granted again.                  *)
(***************************************************************************)
EXTENDS Naturals, Sequences, FiniteSets, SequencesExt

CONSTANTS MaxTasks,    \* bound on the requests
          MaxSessions, \* bound on the connections
          MaxTime,     \* bound on the clock
          Timeout,     \* _http_task_timeout
          NoTask

Ids == 1 .. MaxTasks
Sids == 1 .. MaxSessions

VARIABLES
  now,      \* systemtime::get_time()
  lock,     \* "ok", or "dead" once it was unlocked twice
  ids, sids, \* _next_http_taskid; the connections so far
  c,        \* tasks, deadline: _http_tasks and their _timeout; idle, busy, pending: of
            \* _connections; live: keys of _sessions; pool: callbacks queued, [id, of] with
            \* of the request that was answered, or NoTask; wire[s]: the requests sent on s
            \* and not answered; crashed: ASSERT(task) failed
  ran       \* history: ran[id]: callbacks run, as their of

vars == <<now, lock, ids, sids, c, ran>>

Init ==
  /\ now = 0 /\ lock = "ok" /\ ids = 0 /\ sids = 0
  /\ c = [tasks |-> {}, deadline |-> [id \in Ids |-> 0],
          idle |-> {}, busy |-> [s \in Sids |-> NoTask], pending |-> <<>>,
          live |-> {}, pool |-> {}, wire |-> [s \in Sids |-> <<>>], crashed |-> FALSE]
  /\ ran = [id \in Ids |-> <<>>]

-----------------------------------------------------------------------------
(* finish_task() *)
Finish(d, id, of) ==
  [d EXCEPT !.tasks = @ \ {id}, !.pool = @ \cup {[id |-> id, of |-> of]}]

(* Mutant: the connection of a request that timed out is idle again. *)
CheckTimeoutsFreesBusy(d) ==
  LET late == {id \in d.tasks : now >= d.deadline[id]}
      free == {s \in Sids : d.busy[s] \in late}
  IN [d EXCEPT !.tasks = @ \ late, !.pool = @ \cup {[id |-> id, of |-> NoTask] : id \in late},
               !.idle = @ \cup free, !.busy = [s \in Sids |-> IF s \in free THEN NoTask ELSE @[s]]]

(* Requests whose time is up; they stay in pending or busy. *)
CheckTimeouts(d) ==
  LET late == {id \in d.tasks : now >= d.deadline[id]}
  IN [d EXCEPT !.tasks = @ \ late, !.pool = @ \cup {[id |-> id, of |-> NoTask] : id \in late}]

(* A request that waits and an idle connection: the request is encoded into the  *)
(* connection's write buffer, if it fits.                                       *)
Advance(d, full) ==
  LET id == Head(d.pending)
      s == CHOOSE s \in d.idle : \A t \in d.idle : s <= t
      e == [d EXCEPT !.pending = Tail(@), !.idle = @ \ {s}]
  IN IF d.crashed \/ d.pending = <<>> \/ d.idle = {} THEN d
     ELSE IF id \notin d.tasks THEN [e EXCEPT !.crashed = TRUE]
     ELSE IF s \notin d.live THEN e
     ELSE [e EXCEPT !.busy[s] = id, !.wire[s] = IF s \in full THEN @ ELSE Append(@, id)]

(* advance_all(): a turn for every request that waits, as long as connections are idle. *)
AdvanceAll(d, full) ==
  LET e == CheckTimeouts(d)
      after[n \in 0 .. Len(e.pending)] == IF n = 0 THEN e ELSE Advance(after[n - 1], full)
  IN after[Len(e.pending)]

(* recycle_connection(): kept, or closed, and then deleted some time later. *)
Recycle(d, s, keepalive) == IF keepalive THEN [d EXCEPT !.idle = @ \cup {s}] ELSE d

-----------------------------------------------------------------------------
Locked == lock = "ok" /\ ~c.crashed

(* send_request() *)
SendRequest(full) ==
  /\ Locked /\ ids < MaxTasks
  /\ ids' = ids + 1
  /\ LET d == [c EXCEPT !.tasks = @ \cup {ids'}, !.pending = Append(@, ids'),
                       !.deadline[ids'] = now + Timeout]
     IN c' = AdvanceAll(d, full)
  /\ UNCHANGED <<now, lock, sids, ran>>

(* add_session_nolock() and on_add_session() *)
AddSession(full) ==
  /\ Locked /\ sids < MaxSessions
  /\ sids' = sids + 1
  /\ c' = AdvanceAll([c EXCEPT !.live = @ \cup {sids'}, !.idle = @ \cup {sids'}], full)
  /\ lock' \in {"ok", "dead"}
  /\ UNCHANGED <<now, ids, ran>>

(* del_session_nolock() and on_del_session(), whoever closed the connection *)
DelSession(s, full) ==
  /\ Locked /\ s \in c.live
  /\ c' = AdvanceAll([c EXCEPT !.live = @ \ {s}, !.idle = @ \ {s}, !.busy[s] = NoTask,
                               !.wire[s] = <<>>], full)
  /\ lock' \in {"ok", "dead"}
  /\ UNCHANGED <<now, ids, sids, ran>>

(* handle_response(): the peer answers the requests of a connection in order.  The   *)
(* pool may have deleted the request when its keepalive flag is read.               *)
HandleResponse(s, keepalive, full) ==
  /\ Locked /\ c.wire[s] # <<>>
  /\ LET id == c.busy[s]
         d == [c EXCEPT !.wire[s] = Tail(@)]
         e == [d EXCEPT !.busy[s] = NoTask]
     IN c' = IF id = NoTask THEN d
             ELSE IF id \notin c.tasks THEN Recycle(e, s, keepalive)
             ELSE AdvanceAll(Recycle(Finish(e, id, Head(c.wire[s])), s, keepalive), full)
  /\ UNCHANGED <<now, lock, ids, sids, ran>>

(* A pool thread runs the callback and deletes the task. *)
RunCallback(t) ==
  /\ t \in c.pool
  /\ c' = [c EXCEPT !.pool = @ \ {t}]
  /\ ran' = [ran EXCEPT ![t.id] = Append(@, t.of)]
  /\ UNCHANGED <<now, lock, ids, sids>>

Tick ==
  /\ now < MaxTime
  /\ now' = now + 1
  /\ UNCHANGED <<lock, ids, sids, c, ran>>

Next ==
  \/ \E full \in SUBSET Sids :
       \/ SendRequest(full)
       \/ AddSession(full)
       \/ \E s \in Sids : DelSession(s, full)
       \/ \E s \in Sids, keepalive \in BOOLEAN : HandleResponse(s, keepalive, full)
  \/ \E t \in c.pool : RunCallback(t)
  \/ Tick

Spec == Init /\ [][Next]_vars

-----------------------------------------------------------------------------
(* A response that comes after its request timed out, on a connection that has been *)
(* kept, is never taken for the answer to another request; a callback runs at most  *)
(* once; a connection is busy or idle, never both, and busy with a request that no  *)
(* other connection carries (handle_response(), check_timeouts(), advance_all()).   *)
AnswersMatch ==
  /\ \A t \in c.pool : t.of \in {t.id, NoTask} /\ ran[t.id] = <<>> /\ t.id \notin c.tasks
  /\ \A id \in Ids : Len(ran[id]) <= 1 /\ Range(ran[id]) \subseteq {id, NoTask}
  /\ \A s \in c.idle : c.busy[s] = NoTask /\ c.wire[s] = <<>>
  /\ \A s, t \in Sids : s # t /\ c.busy[s] # NoTask => c.busy[s] # c.busy[t]

(***************************************************************************)
(* The inductive invariant of AnswersMatch.                                  *)
(***************************************************************************)
ClientStates ==
  [tasks : SUBSET Ids, deadline : [Ids -> Nat], idle : SUBSET Sids,
   busy : [Sids -> Ids \cup {NoTask}], pending : Seq(Ids), live : SUBSET Sids,
   pool : SUBSET [id : Ids, of : Ids \cup {NoTask}], wire : [Sids -> Seq(Ids)],
   crashed : BOOLEAN]

(* A request waits at most once, and is not sent while it waits; a connection carries *)
(* the request it is busy with and nothing else; of the requests up to n, those in    *)
(* done have had their callback and are gone; the connections are those up to h.      *)
Consistent(d, n, h, done) ==
  /\ \A id \in d.tasks : id <= n /\ id \notin done
  /\ \A k \in DOMAIN d.pending : d.pending[k] <= n
  /\ \A k, m \in DOMAIN d.pending : d.pending[k] = d.pending[m] => k = m
  /\ \A s \in Sids : d.busy[s] # NoTask =>
       d.busy[s] <= n /\ \A k \in DOMAIN d.pending : d.pending[k] # d.busy[s]
  /\ \A s, t \in Sids : s # t /\ d.busy[s] # NoTask => d.busy[s] # d.busy[t]
  /\ \A s \in Sids : d.wire[s] # <<>> => d.busy[s] # NoTask /\ d.wire[s] = <<d.busy[s]>>
  /\ \A s \in d.idle : d.busy[s] = NoTask
  /\ \A s \in Sids : s \in d.idle \/ d.busy[s] # NoTask => s <= h
  /\ \A t \in d.pool : /\ t.of \in {t.id, NoTask} /\ t.id <= n
                       /\ t.id \notin d.tasks /\ t.id \notin done
  /\ \A t, u \in d.pool : t.id = u.id => t = u

Sound(n, h, done) == {d \in ClientStates : Consistent(d, n, h, done)}

Done == {id \in Ids : ran[id] # <<>>}

(* The pending, busy and answered requests are apart, and a callback ran once. *)
IndInv ==
  /\ now \in Nat /\ ids \in 0 .. MaxTasks /\ sids \in 0 .. MaxSessions
  /\ c \in Sound(ids, sids, Done)
  /\ ran \in [Ids -> Seq(Ids \cup {NoTask})]
  /\ \A id \in Ids : ran[id] # <<>> =>
       id <= ids /\ (ran[id] = <<id>> \/ ran[id] = <<NoTask>>)
=============================================================================
