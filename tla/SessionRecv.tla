---------------------------- MODULE SessionRecv ----------------------------
(***************************************************************************)
(* The receive path of one connected session: streamio_event::handle_read() *)
(* fills _readbuf from the socket, session::on_recv() moves what fits into    *)
(* _reados and takes whole protocols out of it (io/ioevent.cpp,              *)
(* io/session.cpp, io/protocol.cpp, common/marshal.h, common/varint.h).      *)
(*                                                                           *)
(* The peer sends the encoded form of a list of protocols in pieces of any   *)
(* size.  An octet is its payload bits and its continuation flag; a body      *)
(* octet is of no interest and carries neither.  Everything here but the      *)
(* peer runs on the reactor thread, and nothing is waiting to be sent.        *)
(***************************************************************************)
EXTENDS Naturals, Sequences, SequencesExt

CONSTANTS GroupBits,   \* payload bits of a varint octet: 7
          MaxOctets,   \* octets read_varint() looks at before shift reaches 64: 10
          ShrinkAt,    \* try_shrink() drops what is read beyond this position: 0x100000
          Cap,         \* the capacity of _readbuf and of _reados: frob_size(_read_buffer_size)
          SocketCap,   \* the kernel's receive buffer
          Stubs,       \* protocol ids registered with register_protocol()
          Conversations \* lists of [id, size] protocols a peer may send

(* What the suite assumes of these. *)
WidthAssumption == GroupBits \in Nat \ {0} /\ MaxOctets \in Nat \ {0}
CapAssumption == ShrinkAt \in Nat /\ Cap \in Nat /\ SocketCap \in Nat \ {0}

VARIABLES
  sending,   \* the conversation, as a list of protocols
  unsent,    \* its octets that the peer has not sent yet
  socket,    \* octets in the kernel's receive buffer
  peer,      \* "open", "closed" once it has shut the connection down, or "reset"
  readbuf,   \* _readbuf
  reados, pos, \* _reados: its octets and _pos
  state,     \* _state: "active", "recving", "closing"
  status,    \* event::_status: "add", "del"
  lpc,       \* where the reactor thread is
  decoded    \* history: the protocols handed to the thread pool

vars == <<sending, unsent, socket, peer, readbuf, reados, pos, state, status, lpc, decoded>>
peervars == <<sending, unsent, peer>>

(***************************************************************************)
(* common/varint.h                                                          *)
(***************************************************************************)

Radix == 2 ^ GroupBits

Octet(bits, more) == [bits |-> bits, more |-> more]

WriteVarint[value \in Nat] ==
  IF value < Radix
    THEN <<Octet(value, FALSE)>>
    ELSE <<Octet(value % Radix, TRUE)>> \o WriteVarint[value \div Radix]

Failed == [ok |-> FALSE, value |-> 0, next |-> 0]

(* read_varint() from position p of data: the value and the position after it; *)
(* it fails when the last octet is not there or is too far away.             *)
ReadVarint(data, p) ==
  LET ends == {i \in p + 1 .. Len(data) : i <= p + MaxOctets /\ ~data[i].more}
      last == Min(ends)
      value[i \in p + 1 .. Len(data)] ==
        data[i].bits + IF data[i].more /\ i < Len(data) THEN Radix * value[i + 1] ELSE 0
  IN IF ends = {} THEN Failed
     ELSE [ok |-> TRUE, value |-> value[p + 1], next |-> last]

BitLength(value) == Min({b \in 0 .. GroupBits * MaxOctets : value < 2 ^ b})

(* compact_int_size_table, a step wider than a group: 8 entries per octet *)
CompactIntSize(value) == BitLength(value) \div (GroupBits + 1) + 1

(***************************************************************************)
(* protocol::encode, protocol::decode                                       *)
(***************************************************************************)

(* The id, room for the size, the body; then the room is made as wide as       *)
(* CompactIntSize says and filled with that many octets of the encoded size.  *)
Encode(prot) ==
  WriteVarint[prot.id]
    \o SubSeq(WriteVarint[prot.size], 1, CompactIntSize(prot.size))
    \o [i \in 1 .. prot.size |-> Octet(0, FALSE)]

(* The protocols of a list from the k-th on, one behind the other. *)
EncodeFrom(prots, k) ==
  LET octets[n \in 1 .. Len(prots) + 1] ==
        IF n > Len(prots) THEN << >> ELSE Encode(prots[n]) \o octets[n + 1]
  IN octets[k]

Wait(p) == [kind |-> "wait", next |-> p, prots |-> << >>]
Throw(p) == [kind |-> "throw", next |-> p, prots |-> << >>]

(* Mutant: no rollback: the header is consumed though the body is not there. *)
DecodeNoRollback(data, p) ==
  LET id == ReadVarint(data, p)
      size == ReadVarint(data, id.next)
  IN IF Len(data) - p < 1 THEN Wait(p)
     ELSE IF ~id.ok \/ ~size.ok THEN Throw(p)
     ELSE IF Len(data) - size.next < size.value \/ id.value \notin Stubs THEN Wait(size.next)
     ELSE [kind |-> "frame", next |-> size.next + size.value,
           prots |-> <<[id |-> id.value, size |-> size.value]>>]

(* One call of decode() at position p: nothing there, an exception because the *)
(* header is not all there, a rollback because the body is not or nobody knows *)
(* the id, or a protocol, whose unpack() reads the body.                      *)
Decode(data, p) ==
  LET id == ReadVarint(data, p)
      size == ReadVarint(data, id.next)
  IN IF Len(data) - p < 1 THEN Wait(p)
     ELSE IF ~id.ok \/ ~size.ok THEN Throw(p)
     ELSE IF Len(data) - size.next < size.value \/ id.value \notin Stubs THEN Wait(p)
     ELSE [kind |-> "frame", next |-> size.next + size.value,
           prots |-> <<[id |-> id.value, size |-> size.value]>>]

(***************************************************************************)
(* session::on_recv                                                         *)
(***************************************************************************)

(* Mutant: what did not fit into _reados is thrown away. *)
MoveInDropsRest ==
  LET n == Min({Len(readbuf), Cap - Len(reados)}) IN
  /\ reados' = reados \o SubSeq(readbuf, 1, n)
  /\ readbuf' = << >>
  /\ state' = "recving"

(* The beginning of on_recv(): RECVING, whatever the state was, and as much of *)
(* _readbuf moved as _reados has room for.                                   *)
MoveIn ==
  LET n == Min({Len(readbuf), Cap - Len(reados)}) IN
  /\ reados' = reados \o SubSeq(readbuf, 1, n)
  /\ readbuf' = SubSeq(readbuf, n + 1, Len(readbuf))
  /\ state' = "recving"

(* Mutant: nothing is ever dropped. *)
TryShrinkNever(p) == pos' = p /\ UNCHANGED reados

(* try_shrink() with _pos = p *)
TryShrink(p) ==
  IF p > ShrinkAt
    THEN reados' = SubSeq(reados, p + 1, Len(reados)) /\ pos' = 0
    ELSE pos' = p /\ UNCHANGED reados

(***************************************************************************)
(* The peer                                                                 *)
(***************************************************************************)

Init ==
  /\ sending \in Conversations
  /\ unsent = EncodeFrom(sending, 1)
  /\ socket = << >> /\ peer = "open"
  /\ readbuf = << >> /\ reados = << >> /\ pos = 0
  /\ state = "active" /\ status = "add"
  /\ lpc = "wait"
  /\ decoded = << >>

PeerSend ==
  \E n \in 1 .. Len(unsent) :
    /\ peer = "open"
    /\ Len(socket) + n <= SocketCap
    /\ socket' = socket \o SubSeq(unsent, 1, n)
    /\ unsent' = SubSeq(unsent, n + 1, Len(unsent))
    /\ UNCHANGED <<sending, peer, readbuf, reados, pos, state, status, lpc, decoded>>

PeerClose ==
  /\ peer = "open"
  /\ peer' = "closed"
  /\ UNCHANGED <<sending, unsent, socket, readbuf, reados, pos, state, status, lpc, decoded>>

(* The connection is lost with what the kernel holds.                         *)
PeerReset ==
  /\ peer = "open"
  /\ peer' = "reset"
  /\ socket' = << >>
  /\ UNCHANGED <<sending, unsent, readbuf, reados, pos, state, status, lpc, decoded>>

(***************************************************************************)
(* streamio_event::handle_read, netio_event::handle_close                   *)
(***************************************************************************)

(* epoll is level triggered and reports data or the end of the stream.  A full *)
(* _readbuf is given to on_recv() before anything is read.                   *)
StartRead ==
  /\ lpc = "wait" /\ status = "add"
  /\ socket # << >> \/ peer # "open"
  /\ IF Len(readbuf) = Cap
       THEN MoveIn /\ lpc' = "full"
       ELSE lpc' = "recv" /\ UNCHANGED <<readbuf, reados, state>>
  /\ UNCHANGED <<peervars, socket, pos, status, decoded>>

(* recv() into the free space of _readbuf *)
Receive ==
  LET n == Min({Len(socket), Cap - Len(readbuf)}) IN
  /\ lpc = "recv"
  /\ n > 0
  /\ readbuf' = readbuf \o SubSeq(socket, 1, n)
  /\ socket' = SubSeq(socket, n + 1, Len(socket))
  /\ UNCHANGED <<peervars, reados, pos, state, status, lpc, decoded>>

(* _readbuf is full, or the socket is empty: EAGAIN, or recv() returns 0 or an   *)
(* error and close_socket() deletes the event.  on_recv() follows in every case. *)
EndReceive ==
  /\ lpc = "recv"
  /\ Len(readbuf) = Cap \/ socket = << >>
  /\ status' = IF Len(readbuf) < Cap /\ peer # "open" THEN "del" ELSE status
  /\ MoveIn
  /\ lpc' = "decode"
  /\ UNCHANGED <<peervars, socket, pos, decoded>>

(* One turn of while(protocol* prot = decode(_reados, this)): a protocol goes to *)
(* the thread pool.  When there is none the session is marked closing if        *)
(* decode() threw, the read part of _reados may be dropped and on_recv()       *)
(* returns to handle_read().                                                 *)
DecodeStep ==
  /\ lpc \in {"full", "decode"}
  /\ \E d \in {Decode(reados, pos)} :
       \/ /\ d.kind = "frame"
          /\ decoded' = decoded \o d.prots
          /\ pos' = d.next
          /\ UNCHANGED <<reados, state, lpc>>
       \/ /\ d.kind # "frame"
          /\ state' = IF d.kind = "throw" THEN "closing" ELSE state
          /\ TryShrink(d.next)
          /\ lpc' = IF lpc = "full" THEN "recv" ELSE "close"
          /\ UNCHANGED decoded
  /\ UNCHANGED <<peervars, socket, readbuf, status>>

HandleClose ==
  /\ lpc = "close"
  /\ status' = IF state = "closing" THEN "del" ELSE status
  /\ lpc' = "wait"
  /\ UNCHANGED <<peervars, socket, readbuf, reados, pos, state, decoded>>

LoopStep == StartRead \/ Receive \/ EndReceive \/ DecodeStep \/ HandleClose

Next == PeerSend \/ PeerClose \/ PeerReset \/ LoopStep

Spec == Init /\ [][Next]_vars

(* The reactor thread goes on; nobody has to send.                           *)
FairSpec == Spec /\ WF_vars(LoopStep)

(***************************************************************************)
(* Properties                                                               *)
(***************************************************************************)

(* Every variable keeps its type, and neither buffer outgrows its capacity or   *)
(* is read beyond its end.                                                   *)
TypeOK ==
  /\ sending \in Conversations
  /\ peer \in {"open", "closed", "reset"}
  /\ Len(socket) <= SocketCap
  /\ Len(readbuf) <= Cap /\ Len(reados) <= Cap
  /\ pos \in 0 .. Len(reados)
  /\ state \in {"active", "recving", "closing"}
  /\ status \in {"add", "del"}
  /\ lpc \in {"wait", "full", "recv", "decode", "close"}

(* However the stream is cut into pieces, the thread pool gets the protocols    *)
(* the peer sent: each once, in order, none invented (protocol::decode with   *)
(* its rollbacks, session::on_recv).                                         *)
FramesWhole == IsPrefix(decoded, sending)

(* The octets behind the last protocol handed over are, in order, the unread    *)
(* part of _reados, _readbuf, the socket and what the peer still has:          *)
(* on_recv() moves octets between two buffers and drops read ones without       *)
(* losing or repeating any.  Only a reset loses what the socket held.          *)
BuffersHoldRest ==
  /\ TypeOK
  /\ peer # "reset" =>
       SubSeq(reados, pos + 1, Len(reados)) \o readbuf \o socket \o unsent
         = EncodeFrom(sending, Len(decoded) + 1)

AllKnown == \A i \in DOMAIN sending : sending[i].id \in Stubs

(* What arrives is taken from the socket, or the session ends: a full buffer    *)
(* does not leave the loop spinning on a readable socket, if it holds the      *)
(* threshold of try_shrink() and the largest protocol.  A stream with an        *)
(* unknown id stays at that id (handle_read, on_recv, try_shrink).              *)
SocketDrains ==
  (AllKnown /\ socket # << >>) ~> (socket = << >> \/ status = "del")

(***************************************************************************)
(* The inductive invariant of FramesWhole and BuffersHoldRest, and what they  *)
(* rest on: every size that is sent has as many octets as CompactIntSize says. *)
(***************************************************************************)
Octets == [bits : Nat, more : BOOLEAN]

Framed ==
  /\ Radix \in Nat \ {0, 1}
  /\ \A c \in Conversations :
       /\ c \in Seq([id : Nat, size : Nat])
       /\ \A i \in DOMAIN c : CompactIntSize(c[i].size) = Len(WriteVarint[c[i].size])

Typed ==
  /\ TypeOK
  /\ readbuf \in Seq(Octets) /\ reados \in Seq(Octets) /\ socket \in Seq(Octets)
  /\ unsent \in Seq(Octets) /\ decoded \in Seq([id : Nat, size : Nat])

(* After a reset what is there is still the beginning of what was sent. *)
Held ==
  /\ peer = "reset" => socket = << >>
  /\ IsPrefix(SubSeq(reados, pos + 1, Len(reados)) \o readbuf \o socket,
              EncodeFrom(sending, Len(decoded) + 1))

IndInv == Typed /\ FramesWhole /\ BuffersHoldRest /\ Held
=============================================================================
