----------------------------- MODULE SessionIO -----------------------------
(***************************************************************************)
(* One connected session (io/session.cpp, io/session_manager.cpp) and its    *)
(* streamio_event (io/ioevent.cpp): threads that send through the manager,   *)
(* the reactor thread that writes to the socket and closes the connection,   *)
(* and the timer that marks idle sessions.                                   *)
(*                                                                           *)
(* A sender finds the session under the manager's read lock, appends to      *)
(* _writeos and asks for EVENT_SEND under the session lock.  handle_write()  *)
(* swaps _writeos into _writebuf when that is empty, sends without the lock, *)
(* and gives EVENT_SEND back when both are empty.  handle_close(), run after *)
(* every handler, ends a session that is marked closing.  The reactor's      *)
(* changelist is the flag changed, beside the _wakeup flag and the eventfd   *)
(* that other connections of the reactor share (module Reactor has the whole *)
(* of it); the receive path is reduced to what it does to the session's      *)
(* state.                                                                    *)
(***************************************************************************)
EXTENDS Naturals, Sequences

CONSTANTS Senders,  \* threads that call send_protocol
          MsgLen,   \* octets of an encoded protocol
          Cap,      \* _write_buffer_size
          MaxRoom,  \* size of the kernel's socket buffer
          MaxMsgs,  \* bound on the protocols sent
          NoOne

ASSUME LenAssumption == MsgLen \in Nat \ {0} /\ Cap \in Nat /\ MaxMsgs \in Nat
ASSUME RoomAssumption == MaxRoom \in Nat \ {0}
ASSUME NoOneAssumption == NoOne \notin Senders

VARIABLES
  writeos, writebuf, offset,  \* _writeos, _writebuf, _write_offset
  closing,     \* _state = SESSION_STATE_CLOSING
  registered,  \* the session is in the manager's _sessions
  lock,        \* holder of the session's _locker across steps
  bits, mask,  \* EVENT_SEND in event::_events, and as epoll knows it
  changed,     \* the event is in the reactor's changelist
  status,      \* event::_status: "add", "del"; "freed" once deleted
  wakeup, efd, \* epoller::_wakeup; the eventfd is readable
  lpc, active, \* where the reactor thread is, and the events epoll reported
  spc,         \* where each sender is
  room,        \* octets the socket takes before EAGAIN
  tries,       \* protocols senders have started on
  accepted, sent  \* history: octets appended to _writeos, octets given to the socket

vars == <<writeos, writebuf, offset, closing, registered, lock, bits, mask, changed,
          status, wakeup, efd, lpc, active, spc, room, tries, accepted, sent>>
bufvars == <<writeos, writebuf, offset, accepted, sent>>
evvars == <<bits, mask, changed, status, wakeup, efd>>
sendvars == <<registered, lock, spc, tries>>

(* streamio_event has been registered with EVENT_RECV | EVENT_SEND. *)
Init ==
  /\ writeos = << >> /\ writebuf = << >> /\ offset = 0
  /\ closing = FALSE /\ registered = TRUE /\ lock = NoOne
  /\ bits = TRUE /\ mask = TRUE /\ changed = FALSE /\ status = "add"
  /\ wakeup = FALSE /\ efd = FALSE
  /\ lpc = "load" /\ active = {}
  /\ spc = [s \in Senders |-> "idle"]
  /\ room = MaxRoom
  /\ tries = 0
  /\ accepted = << >> /\ sent = << >>

(***************************************************************************)
(* session_manager::send_protocol                                           *)
(***************************************************************************)

(* Find the session and look at its state under the manager's read lock,      *)
(* which is held to the end of the call.                                     *)
Find(s) ==
  /\ spc[s] = "idle"
  /\ tries < MaxMsgs
  /\ tries' = tries + 1
  /\ spc' = [spc EXCEPT ![s] = IF registered /\ ~closing THEN "found" ELSE "idle"]
  /\ UNCHANGED <<bufvars, closing, registered, lock, evvars, lpc, active, room>>

(* Mutant: the data is appended and EVENT_SEND is not asked for. *)
AppendSilent(s) ==
  LET octets == [i \in 1 .. MsgLen |-> Len(accepted) + i] IN
  /\ spc[s] = "found"
  /\ lock = NoOne
  /\ IF Len(writeos) + MsgLen > Cap
       THEN UNCHANGED bufvars
       ELSE /\ writeos' = writeos \o octets
            /\ accepted' = accepted \o octets
            /\ UNCHANGED <<writebuf, offset, sent>>
  /\ spc' = [spc EXCEPT ![s] = "idle"]
  /\ UNCHANGED <<closing, registered, lock, evvars, lpc, active, room, tries>>

(* Under the session lock: drop what does not fit, append, permit_send().     *)
AppendMessage(s) ==
  LET octets == [i \in 1 .. MsgLen |-> Len(accepted) + i] IN
  /\ spc[s] = "found"
  /\ lock = NoOne
  /\ IF Len(writeos) + MsgLen > Cap
       THEN /\ spc' = [spc EXCEPT ![s] = "idle"]
            /\ UNCHANGED <<bufvars, lock, bits>>
       ELSE /\ writeos' = writeos \o octets
            /\ accepted' = accepted \o octets
            /\ IF status = "add" /\ ~bits
                 THEN bits' = TRUE /\ lock' = s /\ spc' = [spc EXCEPT ![s] = "queue"]
                 ELSE UNCHANGED <<bits, lock>> /\ spc' = [spc EXCEPT ![s] = "idle"]
            /\ UNCHANGED <<writebuf, offset, sent>>
  /\ UNCHANGED <<closing, registered, mask, changed, status, wakeup, efd, lpc, active, room,
                 tries>>

(* reactor::add_event(), del_event(): the changelist, then epoller::wakeup(), *)
(* which leaves the eventfd alone when the flag was set already.              *)
Wake == wakeup' = TRUE /\ efd' = (efd \/ ~wakeup)
Queue == changed' = TRUE /\ Wake

(* permit_write() puts the event into the changelist; both locks are released. *)
QueueChange(s) ==
  /\ spc[s] = "queue"
  /\ Queue
  /\ lock' = NoOne
  /\ spc' = [spc EXCEPT ![s] = "idle"]
  /\ UNCHANGED <<bufvars, closing, registered, bits, mask, status, lpc, active, room, tries>>

(* Another connection of the reactor queues a change of its own. *)
OtherCall == Wake /\ UNCHANGED <<bufvars, closing, bits, mask, changed, status, lpc, active, room, sendvars>>

(* check_timeouts() finds the session idle for too long. *)
CheckTimeout ==
  /\ registered /\ lock = NoOne
  /\ closing' = TRUE
  /\ UNCHANGED <<bufvars, evvars, lpc, active, room, sendvars>>

(***************************************************************************)
(* The reactor thread                                                       *)
(***************************************************************************)

DelEvent == status' = "del" /\ Queue /\ UNCHANGED <<bits, mask>>

(* close_socket(): mark the session closing, delete the event. *)
CloseSocket == closing' = TRUE /\ DelEvent

ForbidSend ==
  IF status = "add" /\ bits
    THEN bits' = FALSE /\ Queue /\ UNCHANGED <<mask, status>>
    ELSE UNCHANGED evvars

PermitSend ==
  IF status = "add" /\ ~bits
    THEN bits' = TRUE /\ Queue /\ UNCHANGED <<mask, status>>
    ELSE UNCHANGED evvars

(* load_event() applies the change or starts to delete the event. *)
Load ==
  /\ lpc = "load"
  /\ changed' = FALSE
  /\ IF changed /\ status = "del"
       THEN lpc' = "delete" /\ UNCHANGED mask
       ELSE lpc' = "dispatch" /\ mask' = IF changed THEN bits ELSE mask
  /\ UNCHANGED <<bufvars, closing, bits, status, wakeup, efd, active, room, sendvars>>

(* ~netio_event(): the session leaves the manager under its write lock, which  *)
(* waits for senders inside send_protocol, and is cleared and deleted.        *)
Delete ==
  /\ lpc = "delete"
  /\ \A s \in Senders : spc[s] = "idle"
  /\ registered' = FALSE
  /\ status' = "freed"
  /\ closing' = FALSE
  /\ writeos' = << >> /\ writebuf' = << >> /\ offset' = 0
  /\ lpc' = "gone"
  /\ UNCHANGED <<accepted, sent, bits, mask, changed, wakeup, efd, active, room, lock, spc, tries>>

(* dispatch() clears the flag ... *)
ClearWakeup ==
  /\ lpc = "dispatch"
  /\ wakeup' = FALSE
  /\ lpc' = "poll"
  /\ UNCHANGED <<bufvars, closing, bits, mask, changed, status, efd, active, room, sendvars>>

(* ... and sleeps in epoll_wait(): EPOLLOUT when asked for and the socket has  *)
(* room; EPOLLIN when the peer sent something or closed; the control_event,    *)
(* which drains the eventfd; something of another connection, or a signal.     *)
Poll(in) ==
  /\ lpc = "poll"
  /\ active' = (IF mask /\ room > 0 THEN {"send"} ELSE {}) \cup in
  /\ efd' = FALSE
  /\ lpc' = IF active' = {} THEN "load" ELSE "read"
  /\ UNCHANGED <<bufvars, closing, bits, mask, changed, status, wakeup, room, sendvars>>

(* handle_read(): data, or the end of the stream or an error ... *)
HandleRead ==
  /\ lpc = "read"
  /\ IF "recv" \in active
       THEN /\ CloseSocket \/ (UNCHANGED evvars /\ UNCHANGED closing)
            /\ lpc' = "on_recv"
       ELSE /\ lpc' = "write"
            /\ UNCHANGED <<evvars, closing>>
  /\ UNCHANGED <<bufvars, active, room, sendvars>>

(* ... and on_recv(), which marks the session receiving, and closing again if  *)
(* a protocol cannot be decoded.                                              *)
OnRecv ==
  /\ lpc = "on_recv"
  /\ closing' \in BOOLEAN
  /\ lpc' = "write"
  /\ UNCHANGED <<bufvars, evvars, active, room, sendvars>>

(* Mutant: a partly sent _writebuf is swapped out too. *)
SwapAlways == writebuf' = writeos /\ writeos' = writebuf

(* handle_write(): _writeos becomes _writebuf if that is empty; with nothing   *)
(* to send EVENT_SEND is given back.                                          *)
SwapIn ==
  IF writebuf = << >>
    THEN writebuf' = writeos /\ writeos' = << >>
    ELSE UNCHANGED <<writebuf, writeos>>

HandleWrite ==
  /\ lpc = "write"
  /\ IF "send" \notin active
       THEN lpc' = "close" /\ UNCHANGED <<bufvars, evvars>>
       ELSE /\ lock = NoOne
            /\ SwapIn /\ UNCHANGED <<offset, accepted, sent>>
            /\ IF writebuf' = << >>
                 THEN ForbidSend /\ lpc' = "close"
                 ELSE UNCHANGED evvars /\ lpc' = "sending"
  /\ UNCHANGED <<closing, active, room, sendvars>>

(* send() takes some octets; when all are gone clear_wbuffer(). *)
SendSome ==
  /\ lpc = "sending" /\ room > 0
  /\ \E n \in 1 .. (Len(writebuf) - offset) :
       /\ n <= room
       /\ sent' = sent \o SubSeq(writebuf, offset + 1, offset + n)
       /\ room' = room - n
       /\ IF offset + n = Len(writebuf)
            THEN writebuf' = << >> /\ offset' = 0 /\ lpc' = "refill"
            ELSE offset' = offset + n /\ UNCHANGED <<writebuf, lpc>>
  /\ UNCHANGED <<writeos, accepted, closing, evvars, active, sendvars>>

(* EAGAIN, or an error that closes the socket. *)
SendBlocked ==
  /\ lpc = "sending"
  /\ \/ room = 0 /\ UNCHANGED <<closing, evvars>>
     \/ CloseSocket
  /\ lpc' = "on_send"
  /\ UNCHANGED <<bufvars, active, room, sendvars>>

(* Mutant: EVENT_SEND is given back without looking at _writeos again. *)
RefillForbids ==
  /\ lpc = "refill" /\ lock = NoOne
  /\ SwapIn /\ UNCHANGED <<offset, accepted, sent>>
  /\ ForbidSend /\ lpc' = "on_send"
  /\ UNCHANGED <<closing, active, room, sendvars>>

(* Everything was sent: what has been appended meanwhile comes next. *)
Refill ==
  /\ lpc = "refill" /\ lock = NoOne
  /\ SwapIn /\ UNCHANGED <<offset, accepted, sent>>
  /\ IF Len(writebuf') = offset
       THEN ForbidSend /\ lpc' = "on_send"
       ELSE UNCHANGED evvars /\ lpc' = "sending"
  /\ UNCHANGED <<closing, active, room, sendvars>>

(* on_send() marks the session sending, whatever its state was. *)
OnSend ==
  /\ lpc = "on_send"
  /\ closing' = FALSE
  /\ lpc' = "close"
  /\ UNCHANGED <<bufvars, evvars, active, room, sendvars>>

(* handle_close(); is_writeos_empty() compares _write_offset with the length   *)
(* of _writeos.                                                               *)
IsWriteosEmpty == offset = Len(writeos)

HandleClose ==
  /\ lpc = "close"
  /\ IF ~closing THEN UNCHANGED evvars
     ELSE IF ~IsWriteosEmpty THEN PermitSend
     ELSE DelEvent
  /\ lpc' = "load"
  /\ UNCHANGED <<bufvars, closing, active, room, sendvars>>

(* The peer takes an octet out of the connection. *)
PeerReads ==
  /\ room < MaxRoom
  /\ room' = room + 1
  /\ UNCHANGED <<bufvars, closing, evvars, lpc, active, sendvars>>

(* The steps that need nothing from outside: epoll_wait(-1) is one only while   *)
(* the eventfd is readable or the socket writable.                             *)
LoopStep ==
  \/ Load \/ Delete \/ ClearWakeup
  \/ (efd \/ (mask /\ room > 0)) /\ Poll({})
  \/ HandleRead \/ OnRecv \/ HandleWrite \/ SendSome \/ SendBlocked \/ Refill
  \/ OnSend \/ HandleClose

SendStep(s) == AppendMessage(s) \/ QueueChange(s)

Next ==
  \/ \E s \in Senders : Find(s) \/ SendStep(s)
  \/ CheckTimeout
  \/ OtherCall
  \/ LoopStep
  \/ \E in \in SUBSET {"recv"} : Poll(in)
  \/ PeerReads

Spec == Init /\ [][Next]_vars

(* The loop turns while epoll has something of this session to report or the   *)
(* eventfd is readable, senders inside a call finish it, and the peer keeps     *)
(* reading.                                                                   *)
FairSpec ==
  /\ Spec
  /\ WF_vars(LoopStep)
  /\ \A s \in Senders : WF_vars(SendStep(s))
  /\ WF_vars(PeerReads)

-----------------------------------------------------------------------------
(* Every variable stays in its range. *)
TypeOK ==
  /\ writeos \in Seq(Nat) /\ Len(writeos) <= Cap
  /\ writebuf \in Seq(Nat) /\ Len(writebuf) <= Cap
  /\ offset \in 0 .. Len(writebuf)
  /\ closing \in BOOLEAN /\ registered \in BOOLEAN
  /\ lock \in Senders \cup {NoOne}
  /\ bits \in BOOLEAN /\ mask \in BOOLEAN /\ changed \in BOOLEAN
  /\ status \in {"add", "del", "freed"}
  /\ wakeup \in BOOLEAN /\ efd \in BOOLEAN
  /\ lpc \in {"load", "delete", "dispatch", "poll", "read", "on_recv", "write", "sending",
              "refill", "on_send", "close", "gone"}
  /\ active \in SUBSET {"recv", "send"}
  /\ spc \in [Senders -> {"idle", "found", "queue"}]
  /\ room \in 0 .. MaxRoom
  /\ tries \in 0 .. MaxMsgs
  /\ accepted \in Seq(Nat) /\ sent \in Seq(Nat)

(* What the socket got, what is left of _writebuf and what waits in _writeos    *)
(* make up, in order, exactly what senders appended: no octet is lost,          *)
(* repeated or overtaken by the swap, the partial sends and the appends that    *)
(* run beside them (handle_write, wbuffer, clear_wbuffer, send_protocol).       *)
StreamIntact ==
  /\ TypeOK
  /\ status # "freed" =>
       accepted = sent \o SubSeq(writebuf, offset + 1, Len(writebuf)) \o writeos

(* Unsent data keeps EVENT_SEND on: handle_write() never gives it back over     *)
(* data a sender has just appended (handle_write, forbid_send, permit_send).    *)
UnsentHasInterest ==
  status = "add" /\ (writebuf # << >> \/ writeos # << >>) => bits

(* A _writebuf with nothing left is cleared at once, and the reactor thread is   *)
(* in send() only with something to send.                                       *)
BufferInv ==
  /\ writebuf = << >> => offset = 0
  /\ writebuf # << >> => offset < Len(writebuf)
  /\ lpc = "refill" => writebuf = << >>
  /\ lpc = "sending" => writebuf # << >>

(* Nothing touches the event after it is deleted. *)
GoneInv == status = "freed" => lpc = "gone"

(* While there is unsent data, epoll reports EPOLLOUT, or the change that asks   *)
(* for it is queued, or a sender is about to queue it (permit_send,              *)
(* permit_write, load_event).                                                    *)
ChangeQueued ==
  status = "add" /\ bits # mask => changed \/ \E s \in Senders : spc[s] = "queue"

InterestReachesEpoll ==
  status = "add" /\ (writebuf # << >> \/ writeos # << >>) =>
    mask \/ changed \/ \E s \in Senders : spc[s] = "queue"

(* The inductive invariant behind the three properties above. *)
IndInv == StreamIntact /\ UnsentHasInterest /\ BufferInv /\ GoneInv /\ ChangeQueued

(* The loop sleeps over the queued change with the flag clear: the next call or   *)
(* event of the reactor wakes it.                                               *)
Asleep == lpc = "poll" /\ changed /\ ~wakeup /\ ~efd

(* A sender is about to queue its change after load_event() and before dispatch() *)
(* clears a flag whose eventfd has been drained: nobody is woken.                 *)
WakeupLost == lpc = "dispatch" /\ wakeup /\ ~efd /\ \E s \in Senders : spc[s] = "queue"

(* Every accepted protocol is sent whole unless the event is deleted first or    *)
(* the loop sleeps for ever over the change that asks for EVENT_SEND, and that   *)
(* takes a lost wakeup (handle_write, permit_send, wakeup, dispatch).           *)
AcceptedIsSent ==
  \A n \in {MsgLen * k : k \in 1 .. MaxMsgs} :
    /\ [](Len(accepted) >= n => <>(Len(sent) >= n \/ status # "add" \/ []Asleep))
    /\ []~WakeupLost => [](Len(accepted) >= n => <>(Len(sent) >= n \/ status # "add"))

(* "断开连接前把数据发完" (ioevent.cpp:217): handle_close() ends a session only    *)
(* when all its data has been sent.                                             *)
CloseFlushes ==
  [][lpc = "close" /\ status = "add" /\ status' = "del" =>
       writebuf = << >> /\ writeos = << >>]_vars
=============================================================================
