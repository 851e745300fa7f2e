----------------------------- MODULE ThreadPool -----------------------------
(***************************************************************************)
(* bee::threadpool and its thread_groups (thread/threadpool.cpp): a bounded  *)
(* task queue, a mutex and one condition variable per group, workers that    *)
(* may steal from other groups, essential tasks a worker keeps for itself,   *)
(* and stop(), which waits for each group's queue to drain, tells its        *)
(* workers to end and joins them.                                            *)
(*                                                                           *)
(* A critical section of _queue_lock is one step.  cond[g] holds the threads *)
(* asleep on the group's condition variable; a thread whose pc is "wait" and *)
(* that is not in it has been woken and competes for the lock.               *)
(***************************************************************************)
EXTENDS Naturals, Sequences, FiniteSets, Functions

CONSTANTS NGroups,  \* number of thread groups
          Workers,  \* worker threads of all groups
          GroupOf,  \* GroupOf[w]: the group a worker belongs to
          Adders,   \* threads that call threadpool::add_task
          Stopper,  \* the thread that calls threadpool::stop
          Tasks,    \* tasks, each submitted at most once
          Child,    \* Child[t]: essential task added while t runs, or NoTask
          NoTask,
          MaxSize,  \* _maxsize of every group
          Steals    \* values of the configured _is_steal

Groups == 0 .. NGroups - 1

ASSUME NGroupsAssumption == NGroups \in Nat \ {0}
ASSUME GroupOfAssumption == GroupOf \in [Workers -> Groups]
ASSUME ChildAssumption == Child \in [Tasks -> Tasks \cup {NoTask}]
(* A task object is made by one parent, and a group of the configuration has     *)
(* threads.                                                                     *)
ASSUME OneParentAssumption ==
  \A t, u \in Tasks : Child[t] = Child[u] /\ Child[t] # NoTask => t = u
ASSUME WorkersAssumption ==
  IsFiniteSet(Workers) /\ \A g \in Groups : \E w \in Workers : GroupOf[w] = g
ASSUME NoTaskAssumption == NoTask \notin Tasks
ASSUME MaxSizeAssumption == MaxSize \in Nat
ASSUME StealsAssumption == Steals \subseteq BOOLEAN

Children == {Child[t] : t \in Tasks} \ {NoTask}

VARIABLES
  is_steal,  \* _is_steal, read from the configuration by start()
  queue,     \* queue[g]: _task_queue
  gstop,     \* gstop[g]: thread_group::_stop
  busy,      \* busy[g]: _busy
  cond,      \* cond[g]: threads asleep on _cond
  alive,     \* alive[g]: the thread_group has not been deleted
  ess,       \* ess[w]: the worker's thread_local _essential_task_queue
  wpc,       \* where each worker is
  wtask,     \* the task a worker holds
  apc, atask, agroup,  \* per adder: where it is, its task and its target
  pool_stop, \* threadpool::_stop
  spc, sg,   \* threadpool::stop(): where it is, and at which group
  accepted,  \* history: tasks that entered a queue
  runs, destroyed  \* history: how often each task was run and destroyed

vars == <<is_steal, queue, gstop, busy, cond, alive, ess, wpc, wtask, apc, atask,
          agroup, pool_stop, spc, sg, accepted, runs, destroyed>>
wvars == <<ess, wpc, wtask, busy, runs>>
avars == <<apc, atask, agroup>>
svars == <<pool_stop, spc, sg, gstop, alive>>

(* threadpool::start() has built the groups. *)
Init ==
  /\ is_steal \in Steals
  /\ queue = [g \in Groups |-> << >>]
  /\ gstop = [g \in Groups |-> FALSE]
  /\ busy = [g \in Groups |-> 0]
  /\ cond = [g \in Groups |-> {}]
  /\ alive = [g \in Groups |-> TRUE]
  /\ ess = [w \in Workers |-> << >>]
  /\ wpc = [w \in Workers |-> "top"]
  /\ wtask = [w \in Workers |-> NoTask]
  /\ apc = [a \in Adders |-> "idle"]
  /\ atask = [a \in Adders |-> NoTask]
  /\ agroup = [a \in Adders |-> 0]
  /\ pool_stop = FALSE
  /\ spc = "idle"
  /\ sg = 0
  /\ accepted = {}
  /\ runs = [t \in Tasks |-> 0]
  /\ destroyed = [t \in Tasks |-> 0]

Destroy(t) == destroyed' = [destroyed EXCEPT ![t] = @ + 1]
NotifyAll(g) == cond' = [cond EXCEPT ![g] = {}]
NotifyOne(g) == \/ cond[g] = {} /\ UNCHANGED cond
                \/ \E t \in cond[g] : cond' = [cond EXCEPT ![g] = @ \ {t}]

(***************************************************************************)
(* The worker's loop                                                        *)
(***************************************************************************)

HasTask(w) == ess[w] # << >> \/ queue[GroupOf[w]] # << >>

GotoW(w, to) == wpc' = [wpc EXCEPT ![w] = to]

(* The worker's own essential tasks come before those of the group. *)
Take(w) ==
  /\ HasTask(w)
  /\ IF ess[w] # << >>
       THEN /\ wtask' = [wtask EXCEPT ![w] = Head(ess[w])]
            /\ ess' = [ess EXCEPT ![w] = Tail(@)]
            /\ UNCHANGED queue
       ELSE /\ wtask' = [wtask EXCEPT ![w] = Head(queue[GroupOf[w]])]
            /\ queue' = [queue EXCEPT ![GroupOf[w]] = Tail(@)]
            /\ UNCHANGED ess
  /\ GotoW(w, "run")
  /\ UNCHANGED cond

(* Mutant: a stopped worker leaves whatever is queued. *)
ExitAtOnce(w) ==
  /\ gstop[GroupOf[w]]
  /\ GotoW(w, "exited")
  /\ UNCHANGED <<queue, ess, wtask, cond>>

Exit(w) ==
  /\ ~HasTask(w) /\ gstop[GroupOf[w]]
  /\ GotoW(w, "exited")
  /\ UNCHANGED <<queue, ess, wtask, cond>>

Sleep(w) ==
  /\ ~HasTask(w) /\ ~gstop[GroupOf[w]]
  /\ cond' = [cond EXCEPT ![GroupOf[w]] = @ \cup {w}]
  /\ GotoW(w, "wait")
  /\ UNCHANGED <<queue, ess, wtask>>

(* Unlock and look at the other groups first. *)
GoStealing(w) ==
  /\ ~HasTask(w) /\ ~gstop[GroupOf[w]] /\ is_steal
  /\ GotoW(w, "steal")
  /\ UNCHANGED <<queue, ess, wtask, cond>>

Look(w) ==
  /\ wpc[w] = "top"
  /\ Take(w) \/ Exit(w) \/ GoStealing(w) \/ (~is_steal /\ Sleep(w))
  /\ UNCHANGED <<busy, runs, avars, svars, accepted, destroyed>>

(* Mutant: the stolen task stays in its queue. *)
StealUnpopped(w, g) ==
  /\ wpc[w] = "steal"
  /\ g # GroupOf[w] /\ alive[g]
  /\ queue[g] # << >>
  /\ wtask' = [wtask EXCEPT ![w] = Head(queue[g])]
  /\ GotoW(w, "run")
  /\ UNCHANGED <<queue, cond, ess, busy, runs, avars, svars, accepted, destroyed>>

(* try_steal_one() takes the front task of another group; try_to_lock may    *)
(* fail whatever the queue holds.                                            *)
StealFrom(w, g) ==
  /\ wpc[w] = "steal"
  /\ g # GroupOf[w] /\ alive[g]
  /\ queue[g] # << >>
  /\ wtask' = [wtask EXCEPT ![w] = Head(queue[g])]
  /\ queue' = [queue EXCEPT ![g] = Tail(@)]
  /\ IF Tail(queue[g]) # << >> THEN NotifyOne(g) ELSE UNCHANGED cond
  /\ GotoW(w, "run")
  /\ UNCHANGED <<ess, busy, runs, avars, svars, accepted, destroyed>>

StealNothing(w) ==
  /\ wpc[w] = "steal"
  /\ GotoW(w, "relock")
  /\ UNCHANGED <<queue, cond, ess, wtask, busy, runs, avars, svars, accepted, destroyed>>

(* _cond.wait(l, _stop || has_task()) on the way in and when woken. *)
Recheck(w) ==
  /\ wpc[w] = "relock" \/ (wpc[w] = "wait" /\ w \notin cond[GroupOf[w]])
  /\ Take(w) \/ Exit(w) \/ Sleep(w)
  /\ UNCHANGED <<busy, runs, avars, svars, accepted, destroyed>>

Run(w) ==
  /\ wpc[w] = "run"
  /\ busy' = [busy EXCEPT ![GroupOf[w]] = @ + 1]
  /\ GotoW(w, "running")
  /\ UNCHANGED <<queue, cond, ess, wtask, runs, avars, svars, accepted, destroyed>>

(* The task returns (or throws), is destroyed, and _busy goes down.  A task   *)
(* may have called add_essential_task(), which a stopped pool refuses.       *)
FinishRun(w) ==
  LET t == wtask[w] IN
  /\ wpc[w] = "running"
  /\ runs' = [runs EXCEPT ![t] = @ + 1]
  /\ IF Child[t] = NoTask
       THEN Destroy(t) /\ UNCHANGED <<ess, accepted>>
       ELSE IF pool_stop
       THEN /\ destroyed' = [destroyed EXCEPT ![t] = @ + 1, ![Child[t]] = @ + 1]
            /\ UNCHANGED <<ess, accepted>>
       ELSE /\ ess' = [ess EXCEPT ![w] = Append(@, Child[t])]
            /\ accepted' = accepted \cup {Child[t]}
            /\ Destroy(t)
  /\ wtask' = [wtask EXCEPT ![w] = NoTask]
  /\ busy' = [busy EXCEPT ![GroupOf[w]] = @ - 1]
  /\ GotoW(w, "after")
  /\ UNCHANGED <<queue, cond, avars, svars>>

(* Mutant: nobody tells the thread waiting for the group to drain. *)
AfterRunSilent(w) ==
  /\ wpc[w] = "after"
  /\ GotoW(w, "top")
  /\ UNCHANGED <<queue, cond, ess, wtask, busy, runs, avars, svars, accepted, destroyed>>

(* Back under the lock: the last busy worker of an idle group notifies. *)
AfterRun(w) ==
  /\ wpc[w] = "after"
  /\ IF busy[GroupOf[w]] = 0 /\ ~HasTask(w) THEN NotifyAll(GroupOf[w]) ELSE UNCHANGED cond
  /\ GotoW(w, "top")
  /\ UNCHANGED <<queue, ess, wtask, busy, runs, avars, svars, accepted, destroyed>>

(***************************************************************************)
(* add_task                                                                 *)
(***************************************************************************)

(* threadpool::add_task reads _stop without a lock ... *)
Submit(a, t, g) ==
  /\ apc[a] = "idle"
  /\ t \notin Children /\ t \notin accepted /\ destroyed[t] = 0
  /\ \A b \in Adders : atask[b] # t
  /\ IF pool_stop
       THEN Destroy(t) /\ UNCHANGED avars
       ELSE /\ apc' = [apc EXCEPT ![a] = "adding"]
            /\ atask' = [atask EXCEPT ![a] = t]
            /\ agroup' = [agroup EXCEPT ![a] = g]
            /\ UNCHANGED destroyed
  /\ UNCHANGED <<queue, cond, wvars, svars, accepted>>

(* Mutant: the task is queued and no worker is notified. *)
PushSilent(a) ==
  LET g == agroup[a] IN
  /\ apc[a] = "adding" /\ alive[g]
  /\ IF Len(queue[g]) >= MaxSize \/ gstop[g]
       THEN Destroy(atask[a]) /\ UNCHANGED <<queue, accepted>>
       ELSE /\ queue' = [queue EXCEPT ![g] = Append(@, atask[a])]
            /\ accepted' = accepted \cup {atask[a]}
            /\ UNCHANGED destroyed
  /\ apc' = [apc EXCEPT ![a] = "idle"]
  /\ atask' = [atask EXCEPT ![a] = NoTask]
  /\ UNCHANGED <<cond, agroup, wvars, svars>>

(* ... and thread_group::add_task queues the task unless the queue is full   *)
(* or the group has been stopped in between.                                 *)
Push(a) ==
  LET g == agroup[a] IN
  /\ apc[a] = "adding" /\ alive[g]
  /\ IF Len(queue[g]) >= MaxSize \/ gstop[g]
       THEN Destroy(atask[a]) /\ UNCHANGED <<queue, cond, accepted>>
       ELSE /\ queue' = [queue EXCEPT ![g] = Append(@, atask[a])]
            /\ accepted' = accepted \cup {atask[a]}
            /\ NotifyOne(g)
            /\ UNCHANGED destroyed
  /\ apc' = [apc EXCEPT ![a] = "idle"]
  /\ atask' = [atask EXCEPT ![a] = NoTask]
  /\ UNCHANGED <<agroup, wvars, svars>>

(* The group was deleted after the test of _stop: what the call does is       *)
(* undefined, and the adder is not followed further.                         *)
PushToDeleted(a) ==
  /\ apc[a] = "adding" /\ ~alive[agroup[a]]
  /\ apc' = [apc EXCEPT ![a] = "undefined"]
  /\ UNCHANGED <<queue, cond, atask, agroup, wvars, svars, accepted, destroyed>>

(***************************************************************************)
(* threadpool::stop, with ~thread_group for each group in turn              *)
(***************************************************************************)

Stop ==
  /\ spc = "idle"
  /\ pool_stop' = TRUE
  /\ spc' = "drain"
  /\ UNCHANGED <<queue, cond, sg, gstop, alive, wvars, avars, accepted, destroyed>>

(* wait_for_all_done(0) *)
WaitForAllDone ==
  /\ spc = "drain" \/ (spc = "wait" /\ Stopper \notin cond[sg])
  /\ \/ queue[sg] = << >> /\ spc' = "destroy" /\ UNCHANGED cond
     \/ /\ queue[sg] # << >>
        /\ cond' = [cond EXCEPT ![sg] = @ \cup {Stopper}]
        /\ spc' = "wait"
  /\ UNCHANGED <<queue, pool_stop, sg, gstop, alive, wvars, avars, accepted, destroyed>>

(* ~thread_group sets _stop under the lock, then notifies ... *)
SetGroupStop ==
  /\ spc = "destroy"
  /\ gstop' = [gstop EXCEPT ![sg] = TRUE]
  /\ spc' = "notify"
  /\ UNCHANGED <<queue, cond, pool_stop, sg, alive, wvars, avars, accepted, destroyed>>

NotifyStopped ==
  /\ spc = "notify"
  /\ NotifyAll(sg)
  /\ spc' = "join"
  /\ UNCHANGED <<queue, pool_stop, sg, gstop, alive, wvars, avars, accepted, destroyed>>

(* ... and joins every worker of the group. *)
JoinGroup ==
  /\ spc = "join"
  /\ \A w \in Workers : GroupOf[w] = sg => wpc[w] = "exited"
  /\ alive' = [alive EXCEPT ![sg] = FALSE]
  /\ IF sg + 1 < NGroups
       THEN spc' = "drain" /\ sg' = sg + 1
       ELSE spc' = "done" /\ UNCHANGED sg
  /\ UNCHANGED <<queue, cond, pool_stop, gstop, wvars, avars, accepted, destroyed>>

(* A condition variable may wake a sleeper for no reason. *)
SpuriousWakeup(g) ==
  /\ \E t \in cond[g] : cond' = [cond EXCEPT ![g] = @ \ {t}]
  /\ UNCHANGED <<queue, wvars, avars, svars, accepted, destroyed>>

WorkerStep(w) ==
  /\ \/ Look(w) \/ (\E g \in Groups : StealFrom(w, g)) \/ StealNothing(w) \/ Recheck(w)
     \/ Run(w) \/ FinishRun(w) \/ AfterRun(w)
  /\ UNCHANGED is_steal

PushStep(a) == (Push(a) \/ PushToDeleted(a)) /\ UNCHANGED is_steal

StopStep ==
  /\ WaitForAllDone \/ SetGroupStop \/ NotifyStopped \/ JoinGroup
  /\ UNCHANGED is_steal

Next ==
  \/ \E w \in Workers : WorkerStep(w)
  \/ \E a \in Adders : PushStep(a)
  \/ StopStep
  \/ /\ \/ \E a \in Adders, t \in Tasks, g \in Groups : Submit(a, t, g)
        \/ Stop
        \/ \E g \in Groups : SpuriousWakeup(g)
     /\ UNCHANGED is_steal

Spec == Init /\ [][Next]_vars

(* Workers, adders inside add_task and the stopping thread keep being         *)
(* scheduled, and a task that starts ends.  Spurious wakeups may never come. *)
FairSpec ==
  /\ Spec
  /\ \A w \in Workers : WF_vars(WorkerStep(w))
  /\ \A a \in Adders : WF_vars(PushStep(a))
  /\ WF_vars(StopStep)

-----------------------------------------------------------------------------
(* Every variable stays in its range. *)
TypeOK ==
  /\ is_steal \in Steals
  /\ queue \in [Groups -> Seq(Tasks)]
  /\ gstop \in [Groups -> BOOLEAN]
  /\ busy \in [Groups -> Nat]
  /\ cond \in [Groups -> SUBSET (Workers \cup {Stopper})]
  /\ alive \in [Groups -> BOOLEAN]
  /\ ess \in [Workers -> Seq(Tasks)]
  /\ wpc \in [Workers -> {"top", "steal", "relock", "wait", "run", "running", "after",
                          "exited"}]
  /\ wtask \in [Workers -> Tasks \cup {NoTask}]
  /\ apc \in [Adders -> {"idle", "adding", "undefined"}]
  /\ atask \in [Adders -> Tasks \cup {NoTask}]
  /\ agroup \in [Adders -> Groups]
  /\ pool_stop \in BOOLEAN
  /\ spc \in {"idle", "drain", "wait", "destroy", "notify", "join", "done"}
  /\ sg \in Groups
  /\ accepted \in SUBSET Tasks
  /\ runs \in [Tasks -> Nat]
  /\ destroyed \in [Tasks -> Nat]

(* The places that hold a pointer to task t. *)
InSeq(t, s) == {i \in DOMAIN s : s[i] = t}
Holders(t) ==
  (UNION {{<<"group", g, i>> : i \in InSeq(t, queue[g])} : g \in Groups})
  \cup (UNION {{<<"worker", w, i>> : i \in InSeq(t, ess[w])} : w \in Workers})
  \cup {<<"run", w, 0>> : w \in {u \in Workers : wtask[u] = t}}

(* An accepted task has exactly one owner until it is destroyed and none       *)
(* after, whether its own group, a thief or an essential queue runs it: no     *)
(* task runs twice, is destroyed twice or is lost (threadpool.cpp worker loop, *)
(* try_steal_one, add_task).                                                   *)
OneOwner ==
  /\ TypeOK
  /\ \A t \in accepted :
       /\ Cardinality(Holders(t)) + destroyed[t] = 1
       /\ runs[t] = destroyed[t]

(* When stop() returns every task a group accepted has been run and destroyed, *)
(* the ones accepted while the stop was already under way included             *)
(* (threadpool::stop, ~thread_group).                                          *)
StopDrains == spc = "done" => \A t \in accepted : runs[t] = 1 /\ destroyed[t] = 1

-----------------------------------------------------------------------------
(* The inductive invariant behind OneOwner and StopDrains. *)

(* Nothing is queued twice. *)
QueuesInjective ==
  /\ \A g \in Groups : IsInjective(queue[g])
  /\ \A w \in Workers : IsInjective(ess[w])

(* No task is in two queues, with two workers, or in a queue and with a worker. *)
OwnersApart ==
  /\ \A g, h \in Groups : g # h => Range(queue[g]) \cap Range(queue[h]) = {}
  /\ \A v, w \in Workers : v # w => Range(ess[v]) \cap Range(ess[w]) = {}
  /\ \A g \in Groups, w \in Workers : Range(queue[g]) \cap Range(ess[w]) = {}
  /\ \A v, w \in Workers : v # w /\ wtask[v] # NoTask => wtask[v] # wtask[w]
  /\ \A g \in Groups, w \in Workers : wtask[w] \notin Range(queue[g])
  /\ \A v, w \in Workers : wtask[w] \notin Range(ess[v])

Held(t) ==
  \/ \E g \in Groups : t \in Range(queue[g])
  \/ \E w \in Workers : t \in Range(ess[w])
  \/ \E w \in Workers : wtask[w] = t

(* A task somebody has was accepted and not destroyed, and the other way round. *)
OutcomeCounts ==
  \A t \in Tasks :
    /\ Held(t) <=> t \in accepted /\ destroyed[t] = 0
    /\ t \in accepted => destroyed[t] \in {0, 1} /\ runs[t] = destroyed[t]
    /\ t \notin accepted => runs[t] = 0

(* A task an adder is passing on has not been anywhere yet, and an essential    *)
(* task has not before its parent has run.                                      *)
NotYetOwned ==
  /\ \A a \in Adders :
       /\ apc[a] = "adding" => atask[a] # NoTask
       /\ atask[a] # NoTask => /\ atask[a] \notin accepted \cup Children
                              /\ destroyed[atask[a]] = 0
                              /\ \A b \in Adders : b # a => atask[b] # atask[a]
  /\ \A t \in Tasks :
       Child[t] # NoTask /\ (Child[t] \in accepted \/ destroyed[Child[t]] # 0) => runs[t] # 0

(* A worker has a task exactly while it is about to run it or runs it, and      *)
(* _busy counts the running ones.                                               *)
WorkerInv ==
  /\ \A w \in Workers : wtask[w] # NoTask <=> wpc[w] \in {"run", "running"}
  /\ \A g \in Groups :
       busy[g] = Cardinality({w \in Workers : GroupOf[w] = g /\ wpc[w] = "running"})

(* A worker ends only with its queues empty, and the group's stays so; stop()   *)
(* has deleted the groups it has passed, whose workers have all ended.           *)
StopInv ==
  /\ \A w \in Workers :
       wpc[w] = "exited" => gstop[GroupOf[w]] /\ ess[w] = << >> /\ queue[GroupOf[w]] = << >>
  /\ \A w \in Workers : GroupOf[w] < sg \/ spc = "done" => wpc[w] = "exited"

IndInv ==
  /\ TypeOK /\ QueuesInjective /\ OwnersApart /\ OutcomeCounts /\ NotYetOwned
  /\ WorkerInv /\ StopInv

-----------------------------------------------------------------------------
(* With stealing, a stop() under way may be left asleep on a drained group and    *)
(* swallow a notification meant for a worker.                                    *)
StealingStop == is_steal /\ pool_stop

(* Every accepted task is eventually run, by its group or by a thief, although    *)
(* stop() sleeps on the same condition variable as the workers and notify_one()   *)
(* may choose it (worker loop, add_task, wait_for_all_done, try_steal_one).       *)
AcceptedRuns == \A t \in Tasks : t \in accepted ~> runs[t] = 1 \/ StealingStop

(* Without stealing stop() returns: the last busy worker of a drained group      *)
(* wakes the thread that waits for it to drain, and every worker ends             *)
(* (threadpool::stop, wait_for_all_done, ~thread_group).                         *)
StopReturns == ~is_steal /\ spc = "drain" ~> spc = "done"

=============================================================================
