----------------------------- MODULE MCReactor ------------------------------
(* The reactor, and its timers and signals when it has no timer thread.  A behaviour is *)
(* about one of the two: focus says which, and the other stays as it was.               *)
(*   loop    two events, a calling thread and the handlers of the loop, which call too: *)
(*           a change can be overtaken by another and by a flip of the changelist;      *)
(*   timers  two timers that run twice, a signal raised twice, a pipe for one.          *)
EXTENDS Reactor, Integers

CONSTANTS Timers, Timeouts, Repeats, SigNums, Timeout, PipeCap, MaxTime, MaxRaised, MaxRuns,
          None

ASSUME TimersAssumption ==
  /\ IsFiniteSet(Timers) /\ Timers \cap SigNums = {} /\ None \notin Timers
  /\ Timeouts \subseteq Nat /\ Repeats \subseteq Int

VARIABLES focus, now, tm, runs, deleting, changes, queue, tlpc, until, start, cur, pipe,
          table, raised, called, broken

T == INSTANCE ReactorTimer WITH lpc <- tlpc, Signals <- SigNums

tvars == <<now, tm, runs, deleting, changes, queue, tlpc, until, start, cur, pipe, table,
           raised, called, broken>>
allvars == <<focus, vars, tvars>>

InitAll ==
  /\ focus \in {"loop", "timers"}
  /\ Init /\ T!Init

NextAll ==
  /\ UNCHANGED focus
  /\ \/ focus = "loop" /\ Next /\ UNCHANGED tvars
     \/ focus = "timers" /\ T!Next /\ UNCHANGED vars
     \/ focus = "timers" /\ UNCHANGED allvars

(* As FairSpec; the other parts promise safety only. *)
FairAll ==
  /\ InitAll /\ [][NextAll]_allvars
  /\ \A t \in Callers : WF_vars(focus = "loop" /\ CallStep(t))
  /\ WF_vars(focus = "loop" /\ LoopStep)

(* A timer waits in one place and runs as often as asked (ReactorTimer).        *)
TimersSound == T!TimersSound
=============================================================================
