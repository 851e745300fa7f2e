---------------------------- MODULE MCSessionIO ----------------------------
(* A session, the connections it comes from, and what it carries.  A behaviour is  *)
(* about one of the four: focus says which, and the others stay as they were.      *)
(*   io           two senders, protocols of two octets, a write buffer of two     *)
(*                protocols and a socket that takes one and a half: partial       *)
(*                sends, EAGAIN and full buffers;                                 *)
(*   connections  a client and a server manager, each with or without SSL, one    *)
(*                sender, and two descriptors for a listener, an accepted and a   *)
(*                dialled connection: descriptors run out;                        *)
(*   recv         the conversations Talks, and buffers that hold less than one;    *)
(*   marshal      three values of six kinds, a varint octet of two bits, integers *)
(*                of three bits, buffers that grow and shrink.                    *)
EXTENDS SessionIO, Integers

CONSTANTS Managers, Clients, Threads, Fds, Events, Sids, None,
          GroupBits, MaxOctets, ShrinkAt, ReadCap, SocketCap, Stubs, Conversations,
          ValueBits, ValueOctets, Width, MinCap, ValueShrinkAt, Values, MaxValues

VARIABLES focus,
          secure, started, evs, ioev, ses, table, timers, open, changes, batch, clpc, ready, cur,
          tgt, cspc, crashed,
          sending, unsent, socket, peer, readbuf, reados, pos, state, rstatus, rlpc, decoded,
          pushed, wire, buf, cap, vpos, transpos, torn, got, mark

C == INSTANCE Connections WITH lpc <- clpc, spc <- cspc, Senders <- Threads
R == INSTANCE SessionRecv WITH Cap <- ReadCap, status <- rstatus, lpc <- rlpc
V == INSTANCE Marshal WITH pos <- vpos, GroupBits <- ValueBits, MaxOctets <- ValueOctets,
                           ShrinkAt <- ValueShrinkAt

ASSUME ConnectionsAssumption ==
  None \notin Managers \cup Fds \cup Events \cup Sids /\ Clients \subseteq Managers

(* The sizes of the conversations have the octets CompactIntSize says. *)
ASSUME ReceiverAssumption ==
  R!WidthAssumption /\ R!CapAssumption /\ Conversations # {} /\ R!Framed

(* The values are what their tags say. *)
ASSUME ValuesAssumption == V!Sound

-----------------------------------------------------------------------------
(* A varint octet carries one bit, so sizes of 2 and 3 have a two-octet prefix, as  *)
(* sizes of 128 to 16383 have at 7 bits.                                           *)
Prot(id, size) == [id |-> id, size |-> size]

(* Two protocols with and without a body, and four of the largest, more than       *)
(* both buffers hold, with a first id that is registered or not.                   *)
Small == {Prot(1, s) : s \in {0, 2, 3}}
Long == {<<Prot(id, 3), Prot(1, 3), Prot(1, 3), Prot(1, 3)>> : id \in {0, 1}}
Talks == {<<a, b>> : a \in Small, b \in Small} \cup Long

MCValues ==
  {[t |-> "pod", v |-> <<1, 2>>], [t |-> "uint", v |-> 5], [t |-> "int", v |-> -4],
   [t |-> "octets", v |-> <<2, 1>>], [t |-> "pair", v |-> <<3, -3>>], [t |-> "list", v |-> <<1, 4>>]}

-----------------------------------------------------------------------------
cvars == <<secure, started, evs, ioev, ses, table, timers, open, changes, batch, clpc, ready,
           cur, tgt, cspc, crashed>>
rvars == <<sending, unsent, socket, peer, readbuf, reados, pos, state, rstatus, rlpc, decoded>>
vvars == <<pushed, wire, buf, cap, vpos, transpos, torn, got, mark>>
allvars == <<focus, vars, cvars, rvars, vvars>>

InitAll ==
  /\ focus \in {"io", "connections", "recv", "marshal"}
  /\ Init /\ C!Init /\ R!Init /\ V!Init
  /\ focus # "connections" => secure = {}
  /\ focus # "recv" => sending = CHOOSE talk \in Conversations : TRUE

NextAll ==
  /\ UNCHANGED focus
  /\ \/ focus = "io" /\ Next /\ UNCHANGED <<cvars, rvars, vvars>>
     \/ focus = "connections" /\ C!Next /\ UNCHANGED <<vars, rvars, vvars>>
     \/ focus = "recv" /\ R!Next /\ UNCHANGED <<vars, cvars, vvars>>
     \/ focus = "marshal" /\ V!Next /\ UNCHANGED <<vars, cvars, rvars>>

(* As FairSpec for the session, in both directions.  The loop and a sender inside a  *)
(* call go on; a thread that waits for a manager's lock gets it.  The values promise *)
(* safety only.                                                                      *)
FairAll ==
  /\ InitAll /\ [][NextAll]_allvars
  /\ WF_vars(focus = "io" /\ LoopStep)
  /\ \A s \in Senders : WF_vars(focus = "io" /\ SendStep(s))
  /\ WF_vars(focus = "io" /\ PeerReads)
  /\ SF_cvars(focus = "connections" /\ C!LoopStep)
  /\ \A t \in Threads : WF_cvars(focus = "connections" /\ C!SendStep(t))
  /\ \A m \in Clients : SF_cvars(focus = "connections" /\ ~crashed /\ C!Reconnect(m))
  /\ WF_rvars(focus = "recv" /\ R!LoopStep)

(* Each descriptor and session has one owner, a sender's session is alive, and a  *)
(* client manager has one attempt, connection or timer (Connections).            *)
OwnersSound == C!OwnersSound /\ C!OneChain

(* A client that lost its connection tries again (Connections). *)
Reconnects == C!Reconnects

(* The thread pool gets the protocols the peer sent (SessionRecv). *)
FramesWhole == R!FramesWhole

(* No octet is lost or repeated between the two buffers (SessionRecv). *)
BuffersHoldRest == R!BuffersHoldRest

(* What arrives is taken from the socket (SessionRecv). *)
SocketDrains == R!SocketDrains

(* What was pushed is popped, whatever the pieces it came in (Marshal). *)
RoundTrip == V!RoundTrip
=============================================================================
