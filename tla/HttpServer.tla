----------------------------- MODULE HttpServer -----------------------------
(***************************************************************************)
(* httpserver and its servlets (http/httpserver.cpp, http/internal/          *)
(* servlet.cpp).  A request is matched with a servlet, first by its path and  *)
(* then by the patterns in the order they were added; a copy of the servlet   *)
(* becomes a task of the pool, answers through httpserver::reply() and again  *)
(* if its handle() returns an error code, and is deleted when run() returns.  *)
(* Other threads add and take away servlets meanwhile.                       *)
(*                                                                           *)
(* A path is a member of Paths and a pattern the set of paths it matches.     *)
(* Requests enter where httpsession::on_recv() hands a decoded message over.  *)
(***************************************************************************)
EXTENDS Naturals, Sequences, SequencesExt

CONSTANTS Paths, Patterns, \* Patterns: subsets of Paths
          Servlets,        \* servlets that are registered
          Threads,         \* pool threads
          Sids,            \* sessions
          MaxRequests,     \* bound on the requests
          MaxChanges,      \* bound on registrations
          None

MaxReplies == 2   \* how often a servlet's handle() may call reply()
Failures == SUBSET {"ok", "error"}   \* which of a servlet's responses cannot be sent

VARIABLES
  servlets, globs, \* _servlets: path -> servlet or None; _glob_servlets: <<pattern, servlet>>
  changes,         \* registrations so far
  nextid,          \* _next_http_taskid
  tasks,           \* keys of _http_tasks
  queue, hand,     \* servlet copies queued, and with each thread: [id, sid, srv, path]
  live,            \* keys of _sessions
  answers,         \* history: answers[id]: the responses written for request id
  served           \* history: served[id]: the session and the servlet at dispatch of request id

vars == <<servlets, globs, changes, nextid, tasks, queue, hand, live, answers, served>>
table == <<servlets, globs, changes>>

Init ==
  /\ servlets = [p \in Paths |-> None] /\ globs = <<>> /\ changes = 0
  /\ nextid = 0 /\ tasks = {}
  /\ queue = <<>> /\ hand = [t \in Threads |-> None]
  /\ live = Sids
  /\ answers = [id \in 1 .. MaxRequests |-> <<>>]
  /\ served = <<>>

-----------------------------------------------------------------------------
(* Registration. *)

Changing == changes < MaxChanges /\ changes' = changes + 1
            /\ UNCHANGED <<nextid, tasks, queue, hand, live, answers, served>>

AddServlet(p, srv) ==
  /\ Changing
  /\ servlets' = [servlets EXCEPT ![p] = srv] /\ UNCHANGED globs

AddGlob(pattern, srv) ==
  /\ Changing
  /\ globs' = Append(globs, <<pattern, srv>>) /\ UNCHANGED servlets

DelServlet(p) ==
  /\ Changing
  /\ servlets' = [servlets EXCEPT ![p] = None] /\ UNCHANGED globs

DelGlob(pattern) ==
  /\ Changing
  /\ globs' = SelectSeq(globs, LAMBDA g : g[1] # pattern) /\ UNCHANGED servlets

-----------------------------------------------------------------------------
(* get_matched_servlet() *)
Matched(p) ==
  LET hits == SelectSeq(globs, LAMBDA g : p \in g[1])
  IN IF servlets[p] # None THEN servlets[p]
     ELSE IF hits # <<>> THEN hits[1][2] ELSE None

(* handle_request() and start_task(): with no servlet the request is dropped and *)
(* nobody is answered; not_found_servlet is only used by a dispatcher's handle(). *)
HandleRequest(sid, p) ==
  /\ sid \in live /\ nextid < MaxRequests
  /\ LET srv == Matched(p) IN
     IF srv = None THEN UNCHANGED <<nextid, tasks, queue, served>>
     ELSE /\ nextid' = nextid + 1
          /\ tasks' = tasks \cup {nextid'}
          /\ queue' = Append(queue, [id |-> nextid', sid |-> sid, srv |-> srv, path |-> p])
          /\ served' = Append(served, [sid |-> sid, srv |-> srv])
  /\ UNCHANGED <<table, hand, live, answers>>

Take(t) ==
  /\ hand[t] = None /\ queue # <<>>
  /\ hand' = [hand EXCEPT ![t] = Head(queue)]
  /\ queue' = Tail(queue)
  /\ UNCHANGED <<table, nextid, tasks, live, answers, served>>

(* send_response_nolock(), if the session is still there and its write buffer not full. *)
Respond(st, task, status) ==
  IF task.sid \in live /\ status \notin st.lost
  THEN [st EXCEPT !.answers[task.id] = Append(@, [srv |-> task.srv, status |-> status])]
  ELSE st

(* Mutant: the task stays registered. *)
FinishTaskKeeps(st, task) == Respond(st, task, "ok")

(* finish_task(): the first reply takes the task out of _http_tasks and answers. *)
FinishTask(st, task) ==
  IF task.id \notin st.tasks THEN st
  ELSE Respond([st EXCEPT !.tasks = @ \ {task.id}], task, "ok")

(* servlet::run(): handle() calls reply() some times and returns a code; on_error() *)
(* answers a failure whether or not there was a reply, and leaves _http_tasks alone; *)
(* then the copy is deleted.                                                         *)
Run(t, replies, fails, lost) ==
  /\ hand[t] # None
  /\ LET task == hand[t]
         st == [tasks |-> tasks, answers |-> answers, lost |-> lost]
         once == FinishTask(st, task)
         replied == CASE replies = 0 -> st
                      [] replies = 1 -> once
                      [] OTHER -> FinishTask(once, task)
         end == IF fails THEN Respond(replied, task, "error") ELSE replied
     IN tasks' = end.tasks /\ answers' = end.answers
  /\ hand' = [hand EXCEPT ![t] = None]
  /\ UNCHANGED <<table, nextid, queue, live, served>>

(* The session goes away. *)
DelSession(sid) ==
  /\ sid \in live
  /\ live' = live \ {sid}
  /\ UNCHANGED <<table, nextid, tasks, queue, hand, answers, served>>

Next ==
  \/ \E p \in Paths, srv \in Servlets : AddServlet(p, srv)
  \/ \E g \in Patterns, srv \in Servlets : AddGlob(g, srv)
  \/ \E p \in Paths : DelServlet(p)
  \/ \E g \in Patterns : DelGlob(g)
  \/ \E sid \in Sids, p \in Paths : HandleRequest(sid, p)
  \/ \E t \in Threads : Take(t)
  \/ \E t \in Threads, replies \in 0 .. MaxReplies, fails \in BOOLEAN, lost \in Failures :
       Run(t, replies, fails, lost)
  \/ \E sid \in Sids : DelSession(sid)

Spec == Init /\ [][Next]_vars

-----------------------------------------------------------------------------
(* Whoever answers a request is the servlet that matched it when it came in,        *)
(* whatever was registered or taken away while it waited for a thread, and nobody   *)
(* answers before that servlet ran.  However often the servlet replies, one reply is *)
(* sent (finish_task); a second response is the error of a servlet that replied and  *)
(* then failed (run, on_error), and comes after the reply.                           *)
RespondsOnce ==
  /\ \A id \in 1 .. MaxRequests :
       /\ Len(answers[id]) <= 2
       /\ \A n \in 1 .. Len(answers[id]) :
            id \in DOMAIN served /\ answers[id][n].srv = served[id].srv
       /\ Len(answers[id]) = 2 => answers[id][1].status = "ok" /\ answers[id][2].status = "error"
  /\ \A n \in DOMAIN queue : queue[n].id \in tasks /\ answers[queue[n].id] = <<>>
  /\ \A t \in Threads : hand[t] # None => hand[t].id \in tasks /\ answers[hand[t].id] = <<>>

(***************************************************************************)
(* The inductive invariant of RespondsOnce.                                  *)
(***************************************************************************)

(* Request ids are handed out in order, once each. *)
IdsInv ==
  /\ nextid \in 0 .. MaxRequests /\ DOMAIN answers = 1 .. MaxRequests
  /\ served \in Seq(Range(served)) /\ Len(served) = nextid
  /\ queue \in Seq(Range(queue)) /\ DOMAIN hand = Threads
  /\ \A id \in 1 .. MaxRequests : id > nextid => answers[id] = <<>>

(* A servlet copy e is the one its request was matched with. *)
Dispatched(e) == e.id \in 1 .. nextid /\ e.srv = served[e.id].srv

(* A request has one servlet copy, queued or with a thread. *)
CopiesInv ==
  /\ \A m \in DOMAIN queue : Dispatched(queue[m])
  /\ \A t \in Threads : hand[t] # None => Dispatched(hand[t])
  /\ \A m, n \in DOMAIN queue : queue[m].id = queue[n].id => m = n
  /\ \A t, u \in Threads : hand[t] # None /\ hand[u] # None /\ hand[t].id = hand[u].id => t = u
  /\ \A t \in Threads : hand[t] # None => \A n \in DOMAIN queue : queue[n].id # hand[t].id

IndInv == IdsInv /\ CopiesInv /\ RespondsOnce
=============================================================================
