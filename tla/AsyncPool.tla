----------------------------- MODULE AsyncPool -----------------------------
(***************************************************************************)
(* async_threadpool (thread/async_threadpool.h): a queue of tasks with        *)
(* futures, workers, wait_for_all_done() and stop().  A section of            *)
(* _queue_lock is a step.                                                    *)
(*                                                                           *)
(* Workers and wait_for_all_done() sleep on one condition variable:           *)
(* add_task()'s notify_one() may wake the one that cannot use it.             *)
(***************************************************************************)
EXTENDS Naturals, Sequences, FiniteSets

CONSTANTS Workers, Tasks, Waiter, None

VARIABLES
  tasks,     \* _tasks
  stop,      \* _stop
  busy,      \* _busy
  cond,      \* who sleeps on _cond
  wpc,       \* worker -> "lock", "asleep", "taken", "running", "after", "exited"
  job,       \* worker -> the task it has
  notify,    \* add_task() calls that have still to notify_one()
  waiting,   \* wait_for_all_done(): "no", "lock", "asleep"
  spc,       \* stop(): "idle", "notify", "join", "done"
  accepted, ready \* tasks accepted; tasks whose future is ready

vars == <<tasks, stop, busy, cond, wpc, job, notify, waiting, spc, accepted, ready>>

(* init() *)
Init ==
  /\ tasks = <<>> /\ stop = FALSE /\ busy = 0 /\ cond = {}
  /\ wpc = [w \in Workers |-> "lock"] /\ job = [w \in Workers |-> None]
  /\ notify = 0 /\ waiting = "no" /\ spc = "idle"
  /\ accepted = {} /\ ready = {}

(* Sleepers ts go on to take the lock. *)
Wake(ts) ==
  /\ cond' = cond \ ts
  /\ wpc' = [w \in Workers |-> IF w \in ts THEN "lock" ELSE wpc[w]]
  /\ waiting' = IF Waiter \in ts THEN "lock" ELSE waiting

-----------------------------------------------------------------------------
(* Mutant: a worker ends as soon as it sees _stop. *)
MayExitEarly == stop

MayExit == stop /\ tasks = <<>>

(* Under the lock: leave, take a task, or sleep. *)
Exit(w) ==
  /\ wpc[w] = "lock" /\ MayExit
  /\ wpc' = [wpc EXCEPT ![w] = "exited"]
  /\ UNCHANGED <<tasks, stop, busy, cond, job, notify, waiting, spc, accepted, ready>>

Take(w) ==
  /\ wpc[w] = "lock" /\ tasks # <<>>
  /\ job' = [job EXCEPT ![w] = Head(tasks)]
  /\ tasks' = Tail(tasks)
  /\ wpc' = [wpc EXCEPT ![w] = "taken"]
  /\ UNCHANGED <<stop, busy, cond, notify, waiting, spc, accepted, ready>>

Sleep(w) ==
  /\ wpc[w] = "lock" /\ ~stop /\ tasks = <<>>
  /\ wpc' = [wpc EXCEPT ![w] = "asleep"]
  /\ cond' = cond \cup {w}
  /\ UNCHANGED <<tasks, stop, busy, job, notify, waiting, spc, accepted, ready>>

Spurious(t) ==
  /\ t \in cond
  /\ Wake({t})
  /\ UNCHANGED <<tasks, stop, busy, job, notify, spc, accepted, ready>>

(* ++_busy, and the task, whose exceptions go into the future. *)
Start(w) ==
  /\ wpc[w] = "taken"
  /\ busy' = busy + 1
  /\ wpc' = [wpc EXCEPT ![w] = "running"]
  /\ UNCHANGED <<tasks, stop, cond, job, notify, waiting, spc, accepted, ready>>

Finish(w) ==
  /\ wpc[w] = "running"
  /\ ready' = ready \cup {job[w]}
  /\ job' = [job EXCEPT ![w] = None]
  /\ busy' = busy - 1
  /\ wpc' = [wpc EXCEPT ![w] = "after"]
  /\ UNCHANGED <<tasks, stop, cond, notify, waiting, spc, accepted>>

After(w) ==
  /\ wpc[w] = "after"
  /\ LET ts == IF busy = 0 /\ tasks = <<>> THEN cond ELSE {}
     IN /\ cond' = cond \ ts
        /\ wpc' = [v \in Workers |-> IF v = w \/ v \in ts THEN "lock" ELSE wpc[v]]
        /\ waiting' = IF Waiter \in ts THEN "lock" ELSE waiting
  /\ UNCHANGED <<tasks, stop, busy, job, notify, spc, accepted, ready>>

-----------------------------------------------------------------------------
(* add_task() throws once the pool is stopped. *)
AddTask(t) ==
  /\ t \notin accepted /\ ~stop
  /\ tasks' = Append(tasks, t)
  /\ accepted' = accepted \cup {t}
  /\ notify' = notify + 1
  /\ UNCHANGED <<stop, busy, cond, wpc, job, waiting, spc, ready>>

NotifyOne ==
  /\ notify > 0
  /\ notify' = notify - 1
  /\ IF cond = {} THEN UNCHANGED <<cond, wpc, waiting>> ELSE \E t \in cond : Wake({t})
  /\ UNCHANGED <<tasks, stop, busy, job, spc, accepted, ready>>

(* wait_for_all_done(): until the queue is empty, whatever still runs, or in time. *)
WaitForAllDone ==
  /\ waiting = "no" /\ spc = "idle"
  /\ waiting' = "lock"
  /\ UNCHANGED <<tasks, stop, busy, cond, wpc, job, notify, spc, accepted, ready>>

WaiterLooks ==
  /\ waiting = "lock"
  /\ IF tasks = <<>> THEN waiting' = "no" /\ UNCHANGED cond
     ELSE waiting' = "asleep" /\ cond' = cond \cup {Waiter}
  /\ UNCHANGED <<tasks, stop, busy, wpc, job, notify, spc, accepted, ready>>

WaitTimesOut ==
  /\ waiting = "asleep"
  /\ waiting' = "no" /\ cond' = cond \ {Waiter}
  /\ UNCHANGED <<tasks, stop, busy, wpc, job, notify, spc, accepted, ready>>

(* stop(): the flag under the lock, notify_all(), join(). *)
SetStop ==
  /\ spc = "idle"
  /\ stop' = TRUE /\ spc' = "notify"
  /\ UNCHANGED <<tasks, busy, cond, wpc, job, notify, waiting, accepted, ready>>

NotifyAll ==
  /\ spc = "notify" /\ spc' = "join"
  /\ Wake(cond)
  /\ UNCHANGED <<tasks, stop, busy, job, notify, accepted, ready>>

Join ==
  /\ spc = "join" /\ \A w \in Workers : wpc[w] = "exited"
  /\ spc' = "done"
  /\ UNCHANGED <<tasks, stop, busy, cond, wpc, job, notify, waiting, accepted, ready>>

Next ==
  \/ \E w \in Workers : Exit(w) \/ Take(w) \/ Sleep(w) \/ Start(w) \/ Finish(w) \/ After(w)
  \/ \E t \in Workers \cup {Waiter} : Spurious(t)
  \/ \E t \in Tasks : AddTask(t)
  \/ NotifyOne \/ WaitForAllDone \/ WaiterLooks \/ WaitTimesOut
  \/ SetStop \/ NotifyAll \/ Join

Spec == Init /\ [][Next]_vars

-----------------------------------------------------------------------------
(* A task that add_task() accepted is queued, or in one worker's hands, or its future is  *)
(* ready, and when stop() returns it is ready, whatever was added while the pool stopped; *)
(* no worker sleeps once everyone has been told to stop (the worker loop, stop()).        *)
FuturesKept ==
  /\ \A t \in accepted :
       Cardinality({i \in DOMAIN tasks : tasks[i] = t})
         + Cardinality({w \in Workers : job[w] = t}) + Cardinality({t} \cap ready) = 1
  /\ spc = "done" => ready = accepted
  /\ spc \in {"join", "done"} => \A w \in Workers : wpc[w] # "asleep"
  /\ busy = Cardinality({w \in Workers : wpc[w] = "running"})

(***************************************************************************)
(* The inductive invariant of FuturesKept.                                   *)
(***************************************************************************)

Running == {w \in Workers : wpc[w] = "running"}

(* Who sleeps is on the condition variable, who has a task is busy with it, and a *)
(* worker leaves a stopped pool whose queue is empty and stays so.                *)
WorkersInv ==
  /\ job \in [Workers -> Tasks \cup {None}]
  /\ wpc \in [Workers -> {"lock", "asleep", "taken", "running", "after", "exited"}]
  /\ spc \in {"idle", "notify", "join", "done"} /\ (spc # "idle" => stop)
  /\ \A w \in Workers :
       /\ wpc[w] = "asleep" <=> w \in cond
       /\ job[w] # None <=> wpc[w] \in {"taken", "running"}
       /\ wpc[w] = "exited" => MayExit
       /\ spc = "done" => wpc[w] = "exited"
       /\ spc \in {"join", "done"} => wpc[w] # "asleep"
  /\ busy = Cardinality(Running)

(* An accepted task is in one place. *)
PlacesInv ==
  /\ tasks \in Seq(accepted) /\ accepted \subseteq Tasks /\ ready \subseteq accepted
  /\ \A w \in Workers : job[w] # None => job[w] \in accepted \ ready
  /\ \A i \in DOMAIN tasks : tasks[i] \notin ready /\ \A w \in Workers : job[w] # tasks[i]
  /\ \A i, j \in DOMAIN tasks : tasks[i] = tasks[j] => i = j
  /\ \A v, w \in Workers : job[v] = job[w] /\ job[v] # None => v = w
  /\ \A t \in accepted :
       t \in ready \/ (\E i \in DOMAIN tasks : tasks[i] = t) \/ \E w \in Workers : job[w] = t

IndInv == WorkersInv /\ PlacesInv
=============================================================================
