---------------------------- MODULE MCThreadPool ----------------------------
(* The thread pools, and the locks everything uses.  A behaviour is about one of three: *)
(* focus says which, and the others stay as they were.                                  *)
(*   pool   w1 and w2 serve group 0 and w3 group 1; running t1 adds the essential       *)
(*          task c1;                                                                    *)
(*   async  two workers and three tasks of async_threadpool;                            *)
(*   locks  three threads on a lock of each kind, tickets that wrap at four.            *)
EXTENDS ThreadPool

CONSTANTS w1, w2, w3, t1, c1, AsyncWorkers, AsyncTasks, Waiter, None, Lockers, Kinds, Word,
          MaxDepth

ASSUME AsyncAssumption ==
  IsFiniteSet(AsyncWorkers) /\ AsyncWorkers # {} /\ Waiter \notin AsyncWorkers /\ None \notin AsyncTasks

(* A ticket for every thread: tickets are 32-bit numbers. *)
ASSUME LocksAssumption == IsFiniteSet(Lockers) /\ Word \in Nat \ {0} /\ Cardinality(Lockers) <= Word

VARIABLES focus, atasks, astop, abusy, acond, awpc, ajob, anotify, awaiting, aspc, aaccepted,
          aready, kind, flag, serving, next, ticket, mode, depth, pc, unsound

F == INSTANCE AsyncPool WITH tasks <- atasks, stop <- astop, busy <- abusy, cond <- acond, wpc <- awpc,
                             job <- ajob, notify <- anotify, waiting <- awaiting, spc <- aspc,
                             accepted <- aaccepted, ready <- aready, Workers <- AsyncWorkers,
                             Tasks <- AsyncTasks
K == INSTANCE Locks WITH Threads <- Lockers

fvars == <<atasks, astop, abusy, acond, awpc, ajob, anotify, awaiting, aspc, aaccepted,
           aready>>
kvars == <<kind, flag, serving, next, ticket, mode, depth, pc, unsound>>
allvars == <<focus, vars, fvars, kvars>>

MCGroupOf == [w \in Workers |-> IF w = w3 THEN 1 ELSE 0]
MCChild == [t \in Tasks |-> IF t = t1 THEN c1 ELSE NoTask]

InitAll ==
  /\ focus \in {"pool", "async", "locks"}
  /\ Init /\ F!Init /\ K!Init
  /\ focus # "locks" => kind = "mutex"

NextAll ==
  /\ UNCHANGED focus
  /\ \/ focus = "pool" /\ Next /\ UNCHANGED <<fvars, kvars>>
     \/ focus = "async" /\ F!Next /\ UNCHANGED <<vars, kvars>>
     \/ focus = "locks" /\ K!Next /\ UNCHANGED <<vars, fvars>>

(* As FairSpec; the other parts promise safety only. *)
FairAll ==
  /\ InitAll /\ [][NextAll]_allvars
  /\ \A w \in Workers : WF_vars(focus = "pool" /\ WorkerStep(w))
  /\ \A a \in Adders : WF_vars(focus = "pool" /\ PushStep(a))
  /\ WF_vars(focus = "pool" /\ StopStep)

(* A lock excludes and tickets are served in order, and no accepted task of the *)
(* asynchronous pool loses its future (Locks, AsyncPool).                       *)
ThreadsSound == K!LocksExclude /\ F!FuturesKept
=============================================================================
