------------------------------ MODULE Reactor ------------------------------
(***************************************************************************)
(* The event loop of bee::reactor (io/reactor.cpp) with the epoll            *)
(* demultiplexer (io/demultiplexer.cpp), the control_event that wakes it     *)
(* (io/event.cpp) and the one_reader_double_buffer changelist through which  *)
(* every thread hands it new or changed events (thread/double_buffer.h).     *)
(*                                                                           *)
(* Any thread, the loop's own thread included, calls permit_write(),         *)
(* forbid_write() or add_event(): the event's interest bits change first,    *)
(* then the event enters the changelist under its spinlock, then wakeup()    *)
(* tests-and-sets _wakeup and writes the eventfd.  The loop flips the        *)
(* changelist, applies the old buffer to epoll event by event, clears        *)
(* _wakeup, sleeps in epoll_wait and runs the handlers of what is ready.     *)
(* The build is bee_r (_REENTRANT), the library the servers link.  The loop  *)
(* sleeps without a timeout: every shipped configuration has                 *)
(* use_timer_thread = true, so init() leaves _timeout at -1.                 *)
(***************************************************************************)
EXTENDS Naturals, FiniteSets

CONSTANTS Events,   \* stream events, each with a descriptor of its own
          Threads,  \* threads other than the loop's
          Loop,     \* the thread inside reactor::run()
          Ctl,      \* the control_event
          NoEvent

ASSUME LoopAssumption == Loop \notin Threads
ASSUME CtlAssumption == Ctl \notin Events
ASSUME NoEventAssumption == NoEvent \notin Events

Callers == Threads \cup {Loop}
Interest == {"recv", "send"}
LoopPC == {"start", "test", "load", "apply", "dispatch", "wait", "handle", "exited"}
CallPC == {"idle", "write", "wake", "efd"}

VARIABLES
  bits,      \* event::_events
  mask,      \* what epoll_ctl last registered for the descriptor, {} if nothing
  buffer,    \* _changelist._buffer[0..1]
  writeidx,  \* _changelist._writeidx
  wakeup_fd, \* _wakeup_fd >= 0: the control_event has been registered
  wakeup,    \* _wakeup
  efd,       \* the eventfd counter is not zero
  stop,      \* reactor::_stop
  lpc,       \* where the loop is
  todo,      \* rest of the buffer load_event() iterates over
  ready,     \* rest of what epoll_wait() returned
  pc, ev     \* per caller: where it is in add_event() or stop(), and with which event

vars == <<bits, mask, buffer, writeidx, wakeup_fd, wakeup, efd, stop, lpc, todo,
          ready, pc, ev>>
loopvars == <<lpc, todo, ready>>
epollvars == <<mask, wakeup_fd, efd>>

(* reactor::init() has queued the control_event. *)
Init ==
  /\ bits = [e \in Events |-> {}]
  /\ mask = [e \in Events |-> {}]
  /\ buffer = [i \in {0, 1} |-> IF i = 0 THEN {Ctl} ELSE {}]
  /\ writeidx = 0
  /\ wakeup_fd = FALSE
  /\ wakeup = FALSE
  /\ efd = FALSE
  /\ stop = TRUE
  /\ lpc = "start"
  /\ todo = {}
  /\ ready = {}
  /\ pc = [t \in Callers |-> "idle"]
  /\ ev = [t \in Callers |-> NoEvent]

(***************************************************************************)
(* Handing a change to the loop                                             *)
(***************************************************************************)

(* The loop's thread calls in from a handler, the others at any time; the    *)
(* session lock keeps two callers off the same event.                        *)
MayCall(t, e) ==
  /\ pc[t] = "idle"
  /\ \A u \in Callers \ {t} : ev[u] # e

SetInterest(t, e, b) ==
  /\ bits' = [bits EXCEPT ![e] = b]
  /\ pc' = [pc EXCEPT ![t] = "write"]
  /\ ev' = [ev EXCEPT ![t] = e]
  /\ UNCHANGED <<buffer, writeidx, epollvars, wakeup, stop>>

(* A new event; a later permit_write() or forbid_write(), each of which      *)
(* returns at once unless it changes the bit.                                *)
Change(t, e) ==
  /\ MayCall(t, e)
  /\ \/ bits[e] = {} /\ SetInterest(t, e, {"recv"})
     \/ bits[e] # {} /\ "send" \notin bits[e] /\ SetInterest(t, e, bits[e] \cup {"send"})
     \/ "send" \in bits[e] /\ SetInterest(t, e, bits[e] \ {"send"})

ThreadChange(t, e) == Change(t, e) /\ UNCHANGED loopvars

(* _changelist.write(ev) *)
WriteChange(t) ==
  /\ pc[t] = "write"
  /\ buffer' = [buffer EXCEPT ![writeidx] = @ \cup {ev[t]}]
  /\ pc' = [pc EXCEPT ![t] = "wake"]
  /\ UNCHANGED <<bits, writeidx, epollvars, wakeup, stop, loopvars, ev>>

(* Mutant: wakeup() raises the flag and leaves the eventfd alone. *)
WakeupFlagOnly(t) ==
  /\ pc[t] = "wake"
  /\ wakeup' = (wakeup \/ wakeup_fd)
  /\ pc' = [pc EXCEPT ![t] = "idle"]
  /\ ev' = [ev EXCEPT ![t] = NoEvent]
  /\ UNCHANGED <<bits, buffer, writeidx, epollvars, stop, loopvars>>

(* epoller::wakeup(): nothing without a descriptor, nothing if the flag was  *)
(* set already.                                                              *)
Wakeup(t) ==
  /\ pc[t] = "wake"
  /\ wakeup' = (wakeup \/ wakeup_fd)
  /\ IF wakeup_fd /\ ~wakeup
       THEN pc' = [pc EXCEPT ![t] = "efd"] /\ UNCHANGED ev
       ELSE pc' = [pc EXCEPT ![t] = "idle"] /\ ev' = [ev EXCEPT ![t] = NoEvent]
  /\ UNCHANGED <<bits, buffer, writeidx, epollvars, stop, loopvars>>

(* write(_wakeup_fd, 1) *)
WriteEventfd(t) ==
  /\ pc[t] = "efd"
  /\ efd' = TRUE
  /\ pc' = [pc EXCEPT ![t] = "idle"]
  /\ ev' = [ev EXCEPT ![t] = NoEvent]
  /\ UNCHANGED <<bits, mask, buffer, writeidx, wakeup_fd, wakeup, stop, loopvars>>

(* reactor::stop(), called once the loop has loaded its first events: the    *)
(* SIGUSR1 handler that asks for it is itself an event of the loop.          *)
Stop(t) ==
  /\ pc[t] = "idle"
  /\ wakeup_fd /\ ~stop
  /\ stop' = TRUE
  /\ pc' = [pc EXCEPT ![t] = "wake"]
  /\ UNCHANGED <<bits, buffer, writeidx, epollvars, wakeup, loopvars, ev>>

(***************************************************************************)
(* reactor::run()                                                           *)
(***************************************************************************)

Start ==
  /\ lpc = "start"
  /\ stop' = FALSE
  /\ lpc' = "test"
  /\ UNCHANGED <<bits, buffer, writeidx, epollvars, wakeup, todo, ready, pc, ev>>

Test ==
  /\ lpc = "test"
  /\ lpc' = IF stop THEN "exited" ELSE "load"
  /\ UNCHANGED <<bits, buffer, writeidx, epollvars, wakeup, stop, todo, ready, pc, ev>>

(* load_event(): _changelist.read() swaps the buffers under the lock ... *)
Flip ==
  /\ lpc = "load"
  /\ writeidx' = 1 - writeidx
  /\ todo' = buffer[writeidx]
  /\ lpc' = "apply"
  /\ UNCHANGED <<bits, buffer, epollvars, wakeup, stop, ready, pc, ev>>

(* Mutant: EPOLL_CTL_ADD only, never EPOLL_CTL_MOD. *)
ApplyAddOnly(e) ==
  /\ lpc = "apply"
  /\ e \in todo
  /\ todo' = todo \ {e}
  /\ IF e = Ctl
       THEN wakeup_fd' = TRUE /\ UNCHANGED mask
       ELSE /\ mask' = IF mask[e] = {} THEN [mask EXCEPT ![e] = bits[e]] ELSE mask
            /\ UNCHANGED wakeup_fd
  /\ UNCHANGED <<bits, buffer, writeidx, wakeup, efd, stop, lpc, ready, pc, ev>>

(* ... applies its events without it: add_event_inner(), epoll_ctl ... *)
Apply(e) ==
  /\ lpc = "apply"
  /\ e \in todo
  /\ todo' = todo \ {e}
  /\ IF e = Ctl
       THEN wakeup_fd' = TRUE /\ UNCHANGED mask
       ELSE mask' = [mask EXCEPT ![e] = bits[e]] /\ UNCHANGED wakeup_fd
  /\ UNCHANGED <<bits, buffer, writeidx, wakeup, efd, stop, lpc, ready, pc, ev>>

(* Mutant: the buffer being written is emptied. *)
ClearWriteBuffer ==
  /\ lpc = "apply"
  /\ todo = {}
  /\ buffer' = [buffer EXCEPT ![writeidx] = {}]
  /\ lpc' = "dispatch"
  /\ UNCHANGED <<bits, writeidx, epollvars, wakeup, stop, todo, ready, pc, ev>>

(* ... and empties the buffer. *)
ClearBuffer ==
  /\ lpc = "apply"
  /\ todo = {}
  /\ buffer' = [buffer EXCEPT ![1 - writeidx] = {}]
  /\ lpc' = "dispatch"
  /\ UNCHANGED <<bits, writeidx, epollvars, wakeup, stop, todo, ready, pc, ev>>

(* dispatch() clears _wakeup ... *)
ClearWakeup ==
  /\ lpc = "dispatch"
  /\ wakeup' = FALSE
  /\ lpc' = "wait"
  /\ UNCHANGED <<bits, buffer, writeidx, epollvars, stop, todo, ready, pc, ev>>

(* ... and sleeps until a descriptor is ready or a signal interrupts it (the *)
(* empty set).                                                               *)
EpollWait ==
  /\ lpc = "wait"
  /\ \E S \in SUBSET {e \in Events : mask[e] # {}} :
       ready' = S \cup (IF efd /\ wakeup_fd THEN {Ctl} ELSE {})
  /\ lpc' = "handle"
  /\ UNCHANGED <<bits, buffer, writeidx, epollvars, wakeup, stop, todo, pc, ev>>

(* control_event::handle_event() drains the eventfd. *)
HandleControl ==
  /\ lpc = "handle" /\ pc[Loop] = "idle"
  /\ Ctl \in ready
  /\ ready' = ready \ {Ctl}
  /\ efd' = FALSE
  /\ UNCHANGED <<bits, mask, buffer, writeidx, wakeup_fd, wakeup, stop, lpc, todo, pc, ev>>

(* A stream handler may change the interest of its event. *)
HandleStream(e) ==
  /\ lpc = "handle" /\ pc[Loop] = "idle"
  /\ e \in ready \ {Ctl}
  /\ ready' = ready \ {e}
  /\ \/ Change(Loop, e)
     \/ UNCHANGED <<bits, buffer, writeidx, epollvars, wakeup, stop, pc, ev>>
  /\ UNCHANGED <<lpc, todo>>

(* Mutant: the loop does not look at _stop again. *)
EndDispatchUntested ==
  /\ lpc = "handle" /\ pc[Loop] = "idle"
  /\ ready = {}
  /\ lpc' = "load"
  /\ UNCHANGED <<bits, buffer, writeidx, epollvars, wakeup, stop, todo, ready, pc, ev>>

EndDispatch ==
  /\ lpc = "handle" /\ pc[Loop] = "idle"
  /\ ready = {}
  /\ lpc' = "test"
  /\ UNCHANGED <<bits, buffer, writeidx, epollvars, wakeup, stop, todo, ready, pc, ev>>

CallStep(t) == WriteChange(t) \/ Wakeup(t) \/ WriteEventfd(t)

(* The steps of the loop that need nothing from outside: epoll_wait(-1) is   *)
(* one only while the eventfd is readable.                                   *)
LoopStep ==
  \/ Start \/ Test \/ Flip \/ (\E e \in todo : Apply(e)) \/ ClearBuffer \/ ClearWakeup
  \/ efd /\ EpollWait
  \/ HandleControl \/ (\E e \in Events : HandleStream(e)) \/ EndDispatch

Next ==
  \/ \E t \in Threads, e \in Events : ThreadChange(t, e)
  \/ \E t \in Threads : Stop(t)
  \/ \E t \in Callers : CallStep(t)
  \/ LoopStep
  \/ EpollWait

Spec == Init /\ [][Next]_vars

(* Threads inside a call and the loop keep being scheduled.  Nobody has to   *)
(* make a call, and no descriptor has to become ready.                       *)
FairSpec ==
  /\ Spec
  /\ \A t \in Callers : WF_vars(CallStep(t))
  /\ WF_vars(LoopStep)

-----------------------------------------------------------------------------
(* Every variable stays in its range. *)
TypeOK ==
  /\ bits \in [Events -> SUBSET Interest]
  /\ mask \in [Events -> SUBSET Interest]
  /\ buffer \in [{0, 1} -> SUBSET (Events \cup {Ctl})]
  /\ writeidx \in {0, 1}
  /\ wakeup_fd \in BOOLEAN
  /\ wakeup \in BOOLEAN
  /\ efd \in BOOLEAN
  /\ stop \in BOOLEAN
  /\ lpc \in LoopPC
  /\ todo \in SUBSET (Events \cup {Ctl})
  /\ ready \in SUBSET (Events \cup {Ctl})
  /\ pc \in [Callers -> CallPC]
  /\ ev \in [Callers -> Events \cup {NoEvent}]

(* An event whose interest epoll does not know yet is on its way to the loop: *)
(* in the write buffer, among the events load_event() has still to apply, or   *)
(* held by the caller about to queue it.  No change is dropped between the     *)
(* flip, the iteration without the lock and clear() (double_buffer.h read).    *)
Queued(e) ==
  \/ e \in buffer[writeidx]
  \/ e \in todo
  \/ \E t \in Callers : pc[t] = "write" /\ ev[t] = e

NoChangeDropped == \A e \in Events : mask[e] # bits[e] => Queued(e)

(* While the loop sleeps, a set _wakeup means the eventfd is, or is about to   *)
(* be, readable: a caller that finds the flag set and leaves it to an earlier  *)
(* one is right to (demultiplexer.cpp epoller::wakeup, dispatch).              *)
FlagCoversSleep ==
  lpc = "wait" /\ wakeup => efd \/ \E t \in Callers : pc[t] = "efd"

(* The loop sleeps with the flag clear, as it should when nobody has called    *)
(* since: the next caller wakes it.                                            *)
Overslept == lpc = "wait" /\ ~wakeup /\ ~efd

(* A caller comes after the loop has last looked at _stop and the changelist     *)
(* and before dispatch() clears the flag, and leaves without a wakeup: it finds   *)
(* _wakeup still set from a call whose eventfd has been drained, or the           *)
(* control_event not yet registered.                                             *)
WakeupLost ==
  /\ lpc \in {"load", "apply", "dispatch"}
  /\ (wakeup /\ ~efd) \/ ~wakeup_fd
  /\ \E t \in Callers : pc[t] = "wake"

(* Every change reaches epoll unless the loop ends first or sleeps for ever      *)
(* with the flag clear, and that takes a lost wakeup (reactor.cpp load_event,    *)
(* demultiplexer.cpp wakeup, dispatch).                                          *)
ChangeApplied ==
  \A e \in Events :
    /\ [](mask[e] # bits[e] => <>(mask[e] = bits[e] \/ lpc = "exited" \/ []Overslept))
    /\ []~WakeupLost => [](mask[e] # bits[e] => <>(mask[e] = bits[e] \/ lpc = "exited"))

(* reactor::stop() makes run() return, with the same exception (reactor.cpp      *)
(* stop, run).                                                                   *)
StopHonoured ==
  /\ [](stop /\ lpc # "start" => <>(lpc = "exited" \/ []Overslept))
  /\ []~WakeupLost => [](stop /\ lpc # "start" => <>(lpc = "exited"))

(* reactor::stop() makes run() return, whatever the timing: README               *)
(* "kill -USR1 <pid>" is a graceful shutdown, and main() joins its threads only  *)
(* after run() has returned.  It does not hold: the wakeup may be lost.          *)
StopEndsLoop == (stop /\ lpc # "start") ~> lpc = "exited"
-----------------------------------------------------------------------------
(* What NoChangeDropped and TypeOK need to be inductive: the loop iterates      *)
(* over a buffer only inside load_event(), and a caller about to queue an       *)
(* event has one.                                                              *)
TodoInv == lpc # "apply" => todo = {}

CallerInv == \A t \in Callers : pc[t] = "write" => ev[t] \in Events

IndInv == TypeOK /\ TodoInv /\ CallerInv /\ NoChangeDropped /\ FlagCoversSleep
=============================================================================
