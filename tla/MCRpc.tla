------------------------------- MODULE MCRpc --------------------------------
(* Calls and requests.  A behaviour is about one of three: focus says which, and the    *)
(* others stay as they were.                                                            *)
(*   rpc     three calls, two pool threads; Timeout is one of the trace ids, as 30 is   *)
(*           in the code;                                                               *)
(*   client  three requests over two connections, a timeout of one tick;                *)
(*   server  two requests of one session, two pool threads, servlets and patterns that  *)
(*           change meanwhile.                                                          *)
EXTENDS Rpc

CONSTANTS MaxTasks, MaxSessions, HttpTimeout, NoTask, Paths, Patterns, Servlets, ServerSids,
          MaxRequests, MaxChanges, None

ASSUME ServerAssumption == MaxRequests \in Nat
ASSUME ClientAssumption == /\ MaxTasks \in Nat /\ MaxSessions \in Nat /\ HttpTimeout \in Nat
                           /\ NoTask \notin 1 .. MaxTasks

VARIABLES focus, hnow, lock, ids, sids, c, ran, servlets, globs, changes, nextid, tasks,
          squeue, shand, live, sanswers, served

H == INSTANCE HttpClient WITH now <- hnow, Timeout <- HttpTimeout
S == INSTANCE HttpServer WITH queue <- squeue, hand <- shand, answers <- sanswers, Sids <- ServerSids

hvars == <<hnow, lock, ids, sids, c, ran>>
svars == <<servlets, globs, changes, nextid, tasks, squeue, shand, live, sanswers, served>>
allvars == <<focus, vars, hvars, svars>>

InitAll ==
  /\ focus \in {"rpc", "client", "server"}
  /\ Init /\ H!Init /\ S!Init

NextAll ==
  /\ UNCHANGED focus
  /\ \/ focus = "rpc" /\ Next /\ UNCHANGED <<hvars, svars>>
     \/ focus = "client" /\ H!Next /\ UNCHANGED <<vars, svars>>
     \/ focus = "server" /\ S!Next /\ UNCHANGED <<vars, hvars>>

(* As FairSpec; the other parts promise safety only. *)
FairAll ==
  /\ InitAll /\ [][NextAll]_allvars
  /\ \A i \in Calls : WF_vars(focus = "rpc" /\ CallStep(i))
  /\ \A th \in Threads : WF_vars(focus = "rpc" /\ PoolStep(th))
  /\ WF_vars(focus = "rpc" /\ TimerStep)
  /\ WF_vars(focus = "rpc" /\ Tick)

(* A callback gets the answer to its own request, once (HttpClient).            *)
AnswersMatch == H!AnswersMatch

(* One reply to a request, and an error after it at most (HttpServer).          *)
RespondsOnce == S!RespondsOnce
=============================================================================
