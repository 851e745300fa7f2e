---------------------------- MODULE Connections ----------------------------
(***************************************************************************)
(* The life of a connection: session_manager (io/session_manager.cpp), the   *)
(* events that listen, connect and carry a session (io/ioevent.cpp,          *)
(* io/sslio_event.cpp) and the part of the reactor that owns them            *)
(* (io/reactor.cpp, io/demultiplexer.cpp).                                   *)
(*                                                                           *)
(* connect() and listen() make a session and an event and queue the event.   *)
(* load_event() registers a queued event under its descriptor, or deletes    *)
(* the event registered there, and with it the descriptor and the session.   *)
(* A connected activeio_event gives descriptor and session to a new          *)
(* streamio_event, which replaces it under the descriptor.  A client manager *)
(* starts a timer to connect again whenever one of its sessions is deleted.  *)
(* Senders hold the manager's read lock while they use a session.            *)
(*                                                                           *)
(* Data is left to SessionIO and SessionRecv, the changelist's two buffers   *)
(* to Reactor.  Names of deleted events and sessions are used again, but not *)
(* while somebody still remembers them: addresses and session numbers are    *)
(* then as good as fresh.                                                    *)
(***************************************************************************)
EXTENDS Naturals, FiniteSets

CONSTANTS Managers,  \* session managers of the process
          Clients,   \* those that connect, and connect again
          Senders,   \* threads that call send_octets
          Fds,       \* descriptors the process may have open
          Events,    \* addresses of event objects
          Sids,      \* session numbers
          None

VARIABLES
  secure,   \* managers with ssl_enabled
  started,  \* managers main() has called connect() or listen() for
  evs,      \* the event objects
  ioev,     \* reactor::_io_events
  ses,      \* the session objects
  table,    \* the managers' _sessions
  timers,   \* reconnect timers running for each manager
  open,     \* descriptors open in the kernel
  changes, batch,   \* the changelist buffer written to, and what is left of the one being read
  lpc, ready, cur,  \* where the loop is, the descriptors epoll reported, the event being handed to
  tgt, spc, \* the session a sender holds, and where it is in send_octets
  crashed   \* a freed event or a null _base has been used: nothing more is said

vars == <<secure, started, evs, ioev, ses, table, timers, open, changes, batch, lpc, ready,
          cur, tgt, spc, crashed>>
sendvars == <<tgt, spc>>
loopvars == <<batch, lpc, ready, cur>>

NoEvent == [kind |-> "free", fd |-> None, sid |-> None, status |-> "none", base |-> FALSE,
            send |-> FALSE, done |-> FALSE]
NoSession == [mgr |-> None, ev |-> None, closing |-> FALSE]

Live(e) == evs[e].kind # "free"
Alive(s) == ses[s].mgr # None
Least(S) == {n \in S : \A k \in S : n <= k}
FreshEvent(e) == e \in Least({n \in Events : ~Live(n) /\ n \notin changes \cup batch})
FreshSid(s) == s \in Least({n \in Sids : ~Alive(n) /\ \A t \in Senders : tgt[t] # n})

(* The write lock of a manager waits for the senders that hold the read lock. *)
Unread(m) == \A t \in Senders : spc[t] # "idle" => ses[tgt[t]].mgr # m

Init ==
  /\ secure \in SUBSET Managers
  /\ started = {}
  /\ evs = [e \in Events |-> NoEvent]
  /\ ioev = [fd \in Fds \cup {None} |-> None]
  /\ ses = [s \in Sids |-> NoSession]
  /\ table = {}
  /\ timers = [m \in Managers |-> 0]
  /\ open = {} /\ changes = {} /\ batch = {}
  /\ lpc = "load" /\ ready = {} /\ cur = None
  /\ tgt = [t \in Senders |-> None] /\ spc = [t \in Senders |-> "idle"]
  /\ crashed = FALSE

(* create_session() and get_next_sessionid(), under the manager's write lock,   *)
(* and set_event().                                                            *)
CreateSession(m, s, e) ==
  /\ FreshSid(s) /\ Unread(m)
  /\ ses' = [ses EXCEPT ![s] = [mgr |-> m, ev |-> e, closing |-> FALSE]]

(* A new event in the changelist, its descriptor open unless socket() failed.   *)
NewEvent(m, kind, fd) ==
  \E e \in Events, s \in Sids :
    /\ FreshEvent(e)
    /\ CreateSession(m, s, e)
    /\ evs' = [evs EXCEPT ![e] = [NoEvent EXCEPT !.kind = kind, !.fd = fd, !.sid = s]]
    /\ open' = open \cup ({fd} \ {None})
    /\ changes' = changes \cup {e}

(* The kernel gives out the lowest free descriptor; there may be none. *)
FreeFd(fd) == IF Fds \subseteq open THEN fd = None ELSE fd \in Least(Fds \ open)

(* passiveio_event: socket, bind and listen; _fd stays -1 when one of them fails. *)
Passive(m) == \E fd \in Fds \cup {None} : (FreeFd(fd) \/ fd = None) /\ NewEvent(m, "passive", fd)

(* The same code again for a manager with SSL. *)
SecurePassive(m) ==
  \E fd \in Fds \cup {None} : (FreeFd(fd) \/ fd = None) /\ NewEvent(m, "ssl_passive", fd)

Active(m) == \E fd \in Fds \cup {None} : FreeFd(fd) /\ NewEvent(m, "active", fd)

SecureActive(m) == \E fd \in Fds \cup {None} : FreeFd(fd) /\ NewEvent(m, "ssl_active", fd)

Connect(m) == IF m \in secure THEN SecureActive(m) ELSE Active(m)

Listen(m) == IF m \in secure THEN SecurePassive(m) ELSE Passive(m)

(* main() starts each manager once. *)
Start(m) ==
  /\ m \notin started
  /\ started' = started \cup {m}
  /\ IF m \in Clients THEN Connect(m) ELSE Listen(m)
  /\ UNCHANGED <<secure, ioev, table, timers, loopvars, sendvars, crashed>>

(* The timer reconnect() started calls connect() on the timer thread. *)
Reconnect(m) ==
  /\ timers[m] > 0
  /\ timers' = [timers EXCEPT ![m] = @ - 1]
  /\ Connect(m)
  /\ UNCHANGED <<secure, started, ioev, table, loopvars, sendvars, crashed>>

(***************************************************************************)
(* load_event                                                               *)
(***************************************************************************)

Flip ==
  /\ lpc = "load"
  /\ batch' = changes /\ changes' = {}
  /\ lpc' = "apply"
  /\ UNCHANGED <<secure, started, evs, ioev, ses, table, timers, open, ready, cur, sendvars, crashed>>

(* Mutant: on_del_session() only for a session that was registered. *)
DelSessionIfRegistered(s) ==
  LET m == ses[s].mgr IN
  /\ Unread(m)
  /\ table' = table \ {s}
  /\ timers' = IF m \in Clients /\ s \in table THEN [timers EXCEPT ![m] = @ + 1] ELSE timers

(* Mutant: the session leaves the table without the manager's lock. *)
DelSessionUnlocked(s) ==
  LET m == ses[s].mgr IN
  /\ table' = table \ {s}
  /\ timers' = IF m \in Clients THEN [timers EXCEPT ![m] = @ + 1] ELSE timers

(* on_del_session() of a client manager calls reconnect(). *)
OnDelSession(m) == timers' = IF m \in Clients THEN [timers EXCEPT ![m] = @ + 1] ELSE timers

(* del_session(): out of the table under the write lock, and on_del_session()  *)
(* whether the connection was ever established or not.                         *)
DelSession(s) == Unread(ses[s].mgr) /\ table' = table \ {s} /\ OnDelSession(ses[s].mgr)

(* ~netio_event(): close the descriptor, close and delete the session, if the  *)
(* event still has them; the entry under the descriptor becomes new.           *)
Destroy(x, e, new) ==
  LET ev == evs[x] IN
  /\ evs' = [f \in Events |-> IF f = x THEN NoEvent ELSE IF f = e THEN new ELSE evs[f]]
  /\ open' = open \ {ev.fd}
  /\ IF ev.sid = None
       THEN UNCHANGED <<ses, table, timers>>
       ELSE DelSession(ev.sid) /\ ses' = [ses EXCEPT ![ev.sid] = NoSession]

(* epoller::add_event(): EPOLL_CTL_ADD for a new event, EPOLL_CTL_MOD for one    *)
(* already known, an error for descriptor -1, and then _base is not set.        *)
Registered(ev) == [ev EXCEPT !.status = "add", !.base = ev.fd # None]

(* add_event_inner(): an older event under the descriptor is deleted. *)
AddEventInner(e) ==
  LET old == ioev[evs[e].fd] IN
  /\ ioev' = [ioev EXCEPT ![evs[e].fd] = e]
  /\ IF old \notin {None, e}
       THEN Destroy(old, e, Registered(evs[e]))
       ELSE /\ evs' = [evs EXCEPT ![e] = Registered(@)]
            /\ UNCHANGED <<open, ses, table, timers>>

(* del_event_inner(): delete what is registered under the event's descriptor. *)
DelEventInner(e) ==
  LET x == ioev[evs[e].fd] IN
  IF x = None
    THEN UNCHANGED <<evs, ioev, open, ses, table, timers>>
    ELSE ioev' = [ioev EXCEPT ![evs[e].fd] = None] /\ Destroy(x, x, NoEvent)

(* One element of the buffer.  An event deleted since it was queued is read    *)
(* after free.                                                                 *)
Apply(e) ==
  /\ lpc = "apply" /\ e \in batch
  /\ batch' = batch \ {e}
  /\ IF ~Live(e)
       THEN crashed' = TRUE /\ UNCHANGED <<evs, ioev, open, ses, table, timers>>
       ELSE /\ IF evs[e].status # "del" THEN AddEventInner(e) ELSE DelEventInner(e)
            /\ UNCHANGED crashed
  /\ UNCHANGED <<secure, started, changes, lpc, ready, cur, sendvars>>

(* epoll_wait(): a connecting socket is reported at once, any other when the    *)
(* peer makes it ready.                                                        *)
Poll ==
  /\ lpc = "apply" /\ batch = {}
  /\ LET reg == {fd \in Fds : ioev[fd] # None}
         dialing == {fd \in reg : evs[ioev[fd]].kind \in {"active", "ssl_active"}} IN
     \E some \in SUBSET (reg \ dialing) : ready' = dialing \cup some
  /\ lpc' = "dispatch"
  /\ UNCHANGED <<secure, started, evs, ioev, ses, table, timers, open, changes, batch, cur,
                 sendvars, crashed>>

EndDispatch ==
  /\ lpc = "dispatch" /\ ready = {}
  /\ lpc' = "load"
  /\ UNCHANGED <<secure, started, evs, ioev, ses, table, timers, open, changes, batch, ready,
                 cur, sendvars, crashed>>

(***************************************************************************)
(* Handlers.  e is the event found under a ready descriptor.                 *)
(***************************************************************************)

Dispatch(e, kinds) ==
  /\ lpc = "dispatch"
  /\ \E fd \in ready : ioev[fd] = e /\ ready' = ready \ {fd}
  /\ evs[e].kind \in kinds
  /\ UNCHANGED <<secure, started, ioev, timers, batch, sendvars, crashed>>

(* An event being deleted is passed over. *)
Skip(e) ==
  /\ Dispatch(e, {"active", "ssl_active", "passive", "ssl_passive", "stream", "ssl"})
  /\ evs[e].status # "add"
  /\ UNCHANGED <<evs, ses, table, open, changes, lpc, cur>>

(* del_event() once the event has a _base. *)
DelEvent(e) ==
  IF evs[e].base
    THEN evs' = [evs EXCEPT ![e].status = "del"] /\ changes' = changes \cup {e}
    ELSE UNCHANGED <<evs, changes>>

(* close_socket(): set_close() and del_event(). *)
CloseSocket(e) == ses' = [ses EXCEPT ![evs[e].sid].closing = TRUE] /\ DelEvent(e)

(* set_open(): add_session() under the write lock; numbers are never taken. *)
AddSession(s) == table' = table \cup {s}

(* The constructor of streamio_event for session s: set_open() registers the    *)
(* session; when a socket option fails it is marked closing instead.            *)
OpenStream(s, m, e, closing) ==
  /\ Unread(m)
  /\ ses' = [ses EXCEPT ![s] = [mgr |-> m, ev |-> e, closing |-> closing]]
  /\ IF closing THEN UNCHANGED table ELSE AddSession(s)

(* The constructor of sslio_event does not call set_open(). *)
OpenSsl(s, m, e) ==
  /\ Unread(m)
  /\ ses' = [ses EXCEPT ![s] = [mgr |-> m, ev |-> e, closing |-> FALSE]]
  /\ UNCHANGED table

(* passiveio_event::handle_event(): accept, dup() the listening session, build  *)
(* the event.  With no descriptor left accept() fails.                         *)
Accept(e) ==
  LET m == ses[evs[e].sid].mgr IN
  /\ Dispatch(e, {"passive"}) /\ evs[e].status = "add"
  /\ \/ UNCHANGED <<evs, ses, table, open, changes, lpc, cur>>
     \/ \E fd \in Least(Fds \ open), n \in Events, s \in Sids, failed \in BOOLEAN :
          /\ FreshEvent(n) /\ FreshSid(s)
          /\ OpenStream(s, m, n, failed)
          /\ evs' = [evs EXCEPT ![n] = [NoEvent EXCEPT !.kind = "stream", !.fd = fd, !.sid = s]]
          /\ open' = open \cup {fd}
          /\ lpc' = "arm" /\ cur' = n
          /\ UNCHANGED changes

AcceptSsl(e) ==
  LET m == ses[evs[e].sid].mgr IN
  /\ Dispatch(e, {"ssl_passive"}) /\ evs[e].status = "add"
  /\ \/ UNCHANGED <<evs, ses, table, open, changes, lpc, cur>>
     \/ \E fd \in Least(Fds \ open), n \in Events, s \in Sids :
          /\ FreshEvent(n) /\ FreshSid(s)
          /\ OpenSsl(s, m, n)
          /\ evs' = [evs EXCEPT ![n] = [NoEvent EXCEPT !.kind = "ssl", !.fd = fd, !.sid = s]]
          /\ open' = open \cup {fd}
          /\ lpc' = "arm" /\ cur' = n
          /\ UNCHANGED changes

(* activeio_event::handle_event(): connect() fails, or the connected socket and *)
(* its session go to a streamio_event.                                         *)
Dial(e) ==
  LET s == evs[e].sid IN
  /\ Dispatch(e, {"active"}) /\ evs[e].status = "add"
  /\ \/ CloseSocket(e) /\ UNCHANGED <<table, open, lpc, cur>>
     \/ \E n \in Events, failed \in BOOLEAN :
          /\ FreshEvent(n)
          /\ OpenStream(s, ses[s].mgr, n, failed)
          /\ evs' = [evs EXCEPT ![n] = [NoEvent EXCEPT !.kind = "stream", !.fd = evs[e].fd, !.sid = s]]
          /\ lpc' = "arm" /\ cur' = n
          /\ UNCHANGED <<open, changes>>

DialSsl(e) ==
  LET s == evs[e].sid IN
  /\ Dispatch(e, {"ssl_active"}) /\ evs[e].status = "add"
  /\ \/ CloseSocket(e) /\ UNCHANGED <<table, open, lpc, cur>>
     \/ \E n \in Events :
          /\ FreshEvent(n)
          /\ OpenSsl(s, ses[s].mgr, n)
          /\ evs' = [evs EXCEPT ![n] = [NoEvent EXCEPT !.kind = "ssl", !.fd = evs[e].fd, !.sid = s]]
          /\ lpc' = "arm" /\ cur' = n
          /\ UNCHANGED <<open, changes>>

(* set_events() and add_event() of the new event.  A connecting event, the one  *)
(* still registered under the descriptor, gives up descriptor and session, and  *)
(* the new one takes over its place in epoll.                                   *)
Arm ==
  LET old == ioev[evs[cur].fd] IN
  /\ lpc = "arm"
  /\ evs' = [e \in Events |->
               IF e = cur THEN [evs[e] EXCEPT !.send = TRUE, !.status = IF old # None THEN "add" ELSE "none"]
               ELSE IF e = old THEN [evs[e] EXCEPT !.fd = None, !.sid = None]
               ELSE evs[e]]
  /\ changes' = changes \cup {cur}
  /\ lpc' = "dispatch" /\ cur' = None
  /\ UNCHANGED <<secure, started, ioev, ses, table, timers, open, batch, ready, sendvars, crashed>>

(* forbid_write() of a live event. *)
ForbidWrite(e) ==
  IF evs[e].send
    THEN evs' = [evs EXCEPT ![e].send = FALSE] /\ changes' = changes \cup {e}
    ELSE UNCHANGED <<evs, changes>>

(* streamio_event: data was moved, and on_recv() or on_send() takes the session *)
(* out of CLOSING; or the write buffer was empty and EVENT_SEND is given back.   *)
Transfer(e) ==
  /\ Dispatch(e, {"stream"}) /\ evs[e].status = "add"
  /\ ses' = [ses EXCEPT ![evs[e].sid].closing = FALSE]
  /\ ForbidWrite(e) \/ UNCHANGED <<evs, changes>>
  /\ UNCHANGED <<table, open, lpc, cur>>

(* The peer has closed or the socket fails: close_socket(), and then on_recv()   *)
(* or on_send() overwrites the state it set.                                    *)
Broken(e) ==
  /\ Dispatch(e, {"stream"}) /\ evs[e].status = "add"
  /\ DelEvent(e)
  /\ ses' = [ses EXCEPT ![evs[e].sid].closing = FALSE]
  /\ UNCHANGED <<table, open, lpc, cur>>

(* Nothing to write in a session marked closing: handle_close() deletes it. *)
HandleClose(e) ==
  /\ Dispatch(e, {"stream"}) /\ evs[e].status = "add"
  /\ evs[e].send /\ ses[evs[e].sid].closing
  /\ evs' = [evs EXCEPT ![e].send = FALSE, ![e].status = "del"]
  /\ changes' = changes \cup {e}
  /\ UNCHANGED <<ses, table, open, lpc, cur>>

(* handle_handshake(): done, in progress, or timed out or failed. *)
Handshake(e) ==
  /\ Dispatch(e, {"ssl"}) /\ evs[e].status = "add" /\ ~evs[e].done
  /\ \/ evs' = [evs EXCEPT ![e].done = TRUE] /\ UNCHANGED <<ses, changes>>
     \/ UNCHANGED <<evs, ses, changes>>
     \/ CloseSocket(e)
  /\ UNCHANGED <<table, open, lpc, cur>>

(* handle_write() of an SSL session: nobody can send on a session that is not    *)
(* in the table, so the buffer is empty.                                        *)
SslWrite(e) ==
  /\ Dispatch(e, {"ssl"}) /\ evs[e].status = "add" /\ evs[e].done
  /\ ForbidWrite(e)
  /\ UNCHANGED <<ses, table, open, lpc, cur>>

(* handle_read() of an SSL session turns on SSL_ERROR_WANT_READ: it ends when    *)
(* the buffer is full or the connection is gone.                                *)
SslRead(e) ==
  /\ Dispatch(e, {"ssl"}) /\ evs[e].status = "add" /\ evs[e].done
  /\ lpc' = "spin" /\ cur' = e
  /\ UNCHANGED <<evs, ses, table, open, changes>>

SslReadFull ==
  /\ lpc = "spin"
  /\ lpc' = "dispatch" /\ cur' = None
  /\ UNCHANGED <<secure, started, evs, ioev, ses, table, timers, open, changes, batch, ready,
                 sendvars, crashed>>

(* cleanup_ssl() and close_socket(). *)
SslReadEnds ==
  /\ lpc = "spin"
  /\ CloseSocket(cur)
  /\ lpc' = "dispatch" /\ cur' = None
  /\ UNCHANGED <<secure, started, ioev, table, timers, open, batch, ready, sendvars, crashed>>

Handle(e) ==
  \/ Skip(e) \/ Accept(e) \/ AcceptSsl(e) \/ Dial(e) \/ DialSsl(e) \/ Transfer(e)
  \/ Broken(e) \/ HandleClose(e) \/ Handshake(e) \/ SslWrite(e) \/ SslRead(e)

(***************************************************************************)
(* Other threads                                                            *)
(***************************************************************************)

(* send_octets(): a sender finds a session in the table (a client manager's       *)
(* send() looks for _localsid) and keeps the read lock; a session that is gone   *)
(* or closing is left alone.                                                    *)
SendOctets(t) ==
  /\ spc[t] = "idle"
  /\ \E s \in table : ~ses[s].closing /\ tgt' = [tgt EXCEPT ![t] = s]
  /\ spc' = [spc EXCEPT ![t] = "found"]
  /\ UNCHANGED <<secure, started, evs, ioev, ses, table, timers, open, changes, loopvars, crashed>>

(* permit_send(): EVENT_SEND is set unless it is or the event is being deleted. *)
PermitSend(t) ==
  LET e == ses[tgt[t]].ev IN
  /\ spc[t] = "found"
  /\ IF evs[e].status = "del" \/ evs[e].send
       THEN /\ tgt' = [tgt EXCEPT ![t] = None] /\ spc' = [spc EXCEPT ![t] = "idle"]
            /\ UNCHANGED evs
       ELSE /\ evs' = [evs EXCEPT ![e].send = TRUE]
            /\ spc' = [spc EXCEPT ![t] = "queue"] /\ UNCHANGED tgt
  /\ UNCHANGED <<secure, started, ioev, ses, table, timers, open, changes, loopvars, crashed>>

(* _base->add_event(): _base is null until the loop has registered the event. *)
Queue(t) ==
  LET e == ses[tgt[t]].ev IN
  /\ spc[t] = "queue"
  /\ IF evs[e].base THEN changes' = changes \cup {e} /\ UNCHANGED crashed
                    ELSE crashed' = TRUE /\ UNCHANGED changes
  /\ tgt' = [tgt EXCEPT ![t] = None] /\ spc' = [spc EXCEPT ![t] = "idle"]
  /\ UNCHANGED <<secure, started, evs, ioev, ses, table, timers, open, loopvars>>

(* check_timeouts() marks an idle session. *)
CheckTimeouts(s) ==
  /\ s \in table /\ ~ses[s].closing
  /\ ses' = [ses EXCEPT ![s].closing = TRUE]
  /\ UNCHANGED <<secure, started, evs, ioev, table, timers, open, changes, loopvars, sendvars, crashed>>

LoopStep ==
  /\ ~crashed
  /\ \/ Flip \/ Poll \/ EndDispatch \/ Arm
     \/ \E e \in Events : Apply(e) \/ Handle(e)

SendStep(t) == ~crashed /\ (SendOctets(t) \/ PermitSend(t) \/ Queue(t))

Next ==
  \/ LoopStep
  \/ ~crashed /\ (SslReadFull \/ SslReadEnds)
  \/ ~crashed /\ \E m \in Managers : Start(m) \/ Reconnect(m)
  \/ \E t \in Senders : SendStep(t)
  \/ ~crashed /\ \E s \in Sids : CheckTimeouts(s)

Spec == Init /\ [][Next]_vars

(***************************************************************************)
(* Properties                                                               *)
(***************************************************************************)

(* The event that owns a descriptor or a session: the only live one that has    *)
(* it, but for the two events of a handover in progress.                        *)
Owns(e) == Live(e) /\ ~(lpc = "arm" /\ e = cur)

(* Deletion follows ownership: every open descriptor belongs to one event and   *)
(* every session to one event, nobody else has them, the reactor finds live     *)
(* events only, and a sender inside send_octets() has a live session with a     *)
(* live event although the loop deletes sessions at any time (~netio_event,     *)
(* add_event_inner, the handover in activeio_event::handle_event).              *)
OwnersSound ==
  ~crashed =>
    /\ \A fd \in open \ {evs[e].fd : e \in {cur} \ {None}} :
         Cardinality({e \in Events : Live(e) /\ evs[e].fd = fd}) = 1
    /\ \A e \in Events : Live(e) => evs[e].fd \in open \cup {None}
    /\ \A s \in Sids : Alive(s) => Live(ses[s].ev) /\ evs[ses[s].ev].sid = s
    /\ \A e, f \in Events :
         Owns(e) /\ Owns(f) /\ evs[e].sid = evs[f].sid /\ evs[e].sid # None => e = f
    /\ \A fd \in Fds : ioev[fd] # None => Live(ioev[fd])
    /\ \A s \in table : Alive(s)
    /\ \A t \in Senders : spc[t] # "idle" => tgt[t] \in table

(* The events of a manager. *)
Mine(m) == {e \in Events : Owns(e) /\ evs[e].sid # None /\ ses[evs[e].sid].mgr = m}

(* What a client manager has under way: events with a session of its own, and   *)
(* timers.                                                                      *)
Chain(m) ==
  timers[m] + Cardinality(Mine(m))

(* A client manager has one attempt, one connection or one reconnect timer,     *)
(* never two and never none, however the connection ends: failed connects,      *)
(* refused options, closes found by several handlers, timeouts                   *)
(* (del_session_nolock, reconnect).                                             *)
OneChain == ~crashed => \A m \in Clients \cap started : Chain(m) = 1

(* The loop is inside handle_read() of an SSL connection, from which only the    *)
(* peer releases it.                                                            *)
Spinning == lpc = "spin"

(* socket() has failed: the event sits under descriptor -1 for good. *)
Stranded(m) == \E e \in Events : Live(e) /\ evs[e].fd = None /\ evs[e].sid # None /\ ses[evs[e].sid].mgr = m

(* A client whose connection or attempt is to be deleted gets to a new attempt   *)
(* (close_socket, del_event_inner, on_del_session, reconnect), unless socket()  *)
(* fails, which ends the chain, or the peer keeps the loop in SSL_read.         *)
Reconnects ==
  \A m \in Clients :
    (\E e \in Events : evs[e].status = "del" /\ evs[e].sid # None /\ ses[evs[e].sid].mgr = m)
      ~> (crashed \/ Spinning \/ Stranded(m)
            \/ \E e \in Events : evs[e].kind \in {"active", "ssl_active"} /\ evs[e].status = "none"
                                   /\ evs[e].sid # None /\ ses[evs[e].sid].mgr = m)

(***************************************************************************)
(* The inductive invariant of OwnersSound and OneChain.                      *)
(***************************************************************************)

Kinds == {"free", "active", "ssl_active", "passive", "ssl_passive", "stream", "ssl"}
Dialing == {"active", "ssl_active"}
EventRecords == [kind : Kinds, fd : Fds \cup {None}, sid : Sids \cup {None},
                 status : {"none", "add", "del"}, base : BOOLEAN, send : BOOLEAN, done : BOOLEAN]
SessionRecords == [mgr : Managers \cup {None}, ev : Events \cup {None}, closing : BOOLEAN]

TypeOK ==
  /\ evs \in [Events -> EventRecords] /\ ses \in [Sids -> SessionRecords]
  /\ ioev \in [Fds \cup {None} -> Events \cup {None}]
  /\ timers \in [Managers -> Nat] /\ table \subseteq Sids /\ open \subseteq Fds
  /\ changes \subseteq Events /\ batch \subseteq Events /\ ready \subseteq Fds
  /\ cur \in Events \cup {None} /\ lpc \in {"load", "apply", "dispatch", "arm", "spin"}
  /\ tgt \in [Senders -> Sids \cup {None}] /\ spc \in [Senders -> {"idle", "found", "queue"}]

(* A connecting event that has given its descriptor and session away. *)
Husk(e) == Live(e) /\ evs[e].fd = None /\ evs[e].sid = None

(* Where the loop finds the event that a husk is to be replaced by. *)
Pending == IF lpc = "apply" THEN batch ELSE changes

(* Descriptors: an open one has one event, or the two of a handover. *)
FdsInv ==
  /\ \A e \in Events : Live(e) => evs[e].fd \in open \cup {None}
  /\ \A fd \in open : \E e \in Events : Live(e) /\ evs[e].fd = fd
  /\ \A e, f \in Events :
       Live(e) /\ Live(f) /\ evs[e].fd = evs[f].fd /\ evs[e].fd # None =>
         e = f \/ (lpc = "arm" /\ cur \in {e, f} /\ ioev[evs[e].fd] \in {e, f})

(* The reactor's table: a descriptor leads to the event that has it, or to a husk whose *)
(* successor is on its way.                                                            *)
RegistryInv ==
  /\ \A fd \in Fds : ioev[fd] # None =>
       /\ Live(ioev[fd]) /\ fd \in open
       /\ \/ evs[ioev[fd]].fd = fd
          \/ Husk(ioev[fd]) /\ \E n \in Pending : Live(n) /\ evs[n].fd = fd /\ evs[n].status = "add"
  /\ ioev[None] # None => Live(ioev[None]) /\ evs[ioev[None]].fd = None /\ evs[ioev[None]].sid # None
  /\ \A fd, gd \in Fds : ioev[fd] = ioev[gd] /\ ioev[fd] # None => fd = gd
  /\ \A e \in Events : Live(e) /\ evs[e].status = "del" => evs[e].fd # None /\ ioev[evs[e].fd] = e

(* A registered connecting event is not in the changelist, and a husk never again. *)
QueueInv ==
  /\ lpc # "apply" => batch = {}
  /\ \A e \in Events : Live(e) /\ evs[e].kind \in Dialing =>
       ~(e \in changes /\ e \in batch) /\ (evs[e].status = "add" => e \notin changes \cup batch)
  /\ \A e \in Events : Husk(e) => e \notin changes \cup batch

(* What the loop has in hand. *)
LoopInv ==
  /\ lpc \in {"dispatch", "arm", "spin"} =>
       \A fd \in ready : ioev[fd] # None /\ evs[ioev[fd]].fd = fd
  /\ lpc \notin {"arm", "spin"} => cur = None
  /\ lpc \in {"arm", "spin"} => cur # None /\ Live(cur) /\ evs[cur].fd # None /\ evs[cur].sid # None
  /\ lpc = "spin" => ioev[evs[cur].fd] = cur
  /\ lpc = "arm" =>
       LET old == ioev[evs[cur].fd] IN
       /\ evs[cur].fd \notin ready /\ evs[cur].kind \notin Dialing /\ evs[cur].status = "none"
       /\ \A fd \in Fds \cup {None} : ioev[fd] # cur
       /\ old # None => /\ evs[old].fd = evs[cur].fd /\ evs[old].sid = evs[cur].sid
                        /\ evs[old].kind \in Dialing /\ evs[old].status = "add"
       /\ old = None => ses[evs[cur].sid].mgr \notin Clients

(* Sessions: the event that has a session is the session's event, but for a handover. *)
SessionsInv ==
  /\ \A s \in Sids : Alive(s) => ses[s].ev # None /\ Live(ses[s].ev) /\ evs[ses[s].ev].sid = s
  /\ \A e \in Events : Live(e) =>
       /\ evs[e].sid = None => evs[e].fd = None
       /\ evs[e].sid # None =>
            /\ Alive(evs[e].sid)
            /\ ses[evs[e].sid].ev = e
                 \/ (lpc = "arm" /\ e = ioev[evs[cur].fd] /\ ses[evs[e].sid].ev = cur)
            /\ evs[e].kind \in {"passive", "ssl_passive"} => ses[evs[e].sid].mgr \notin Clients
  /\ \A s \in table : Alive(s) /\ evs[ses[s].ev].kind = "stream"
  /\ \A t \in Senders : spc[t] # "idle" => tgt[t] \in table

(* What a client has under way: nothing before it starts, then one event or one timer. *)
ChainInv ==
  \A m \in Clients :
    IF m \notin started THEN timers[m] = 0 /\ Mine(m) = {}
    ELSE \/ timers[m] = 1 /\ Mine(m) = {}
         \/ timers[m] = 0 /\ \E e \in Events : Mine(m) = {e}

IndInv ==
  crashed \/ (TypeOK /\ FdsInv /\ RegistryInv /\ QueueInv /\ LoopInv /\ SessionsInv /\ ChainInv)
=============================================================================
