-------------------------- MODULE SessionIO_proof --------------------------
(***************************************************************************)
(* Proofs about SessionIO for any number of senders, protocols of any        *)
(* length, and any size of the write buffer and of the socket's buffer; then *)
(* about Connections, as the suite MCSessionIO runs it; then about the other *)
(* direction, SessionRecv, for any conversation and any cut of the stream;   *)
(* then about Marshal, for any values and any pieces they arrive in.         *)
(***************************************************************************)
EXTENDS MCSessionIO, FiniteSetTheorems, SequenceTheorems, WellFoundedInduction, TLAPS

(* What is left of _writebuf. *)
Rest(data, off) == SubSeq(data, off + 1, Len(data))

(* What is left of a buffer is a sequence of octets. *)
LEMMA RestType ==
  ASSUME NEW data \in Seq(Nat), NEW off \in 0 .. Len(data)
  PROVE  Rest(data, off) \in Seq(Nat)
<1>1. \A i \in off + 1 .. Len(data) : data[i] \in Nat
  OBVIOUS
<1> QED
  BY <1>1, SubSeqProperties DEF Rest

(* Nothing is left of an empty buffer, everything of one nothing was sent of.  *)
LEMMA RestEnds ==
  /\ Rest(<< >>, 0) = << >>
  /\ \A data \in Seq(Nat) : Rest(data, 0) = data
<1>1. SubSeq(<< >>, 0 + 1, Len(<< >>)) = << >>
  BY SubSeqEmpty, EmptySeq
<1>2. ASSUME NEW data \in Seq(Nat) PROVE SubSeq(data, 0 + 1, Len(data)) = data
  BY SubSeqFull
<1> QED
  BY <1>1, <1>2 DEF Rest

(* Sending n octets moves them from the front of what is left to the end of    *)
(* what has been sent.                                                         *)
LEMMA RestSplit ==
  ASSUME NEW data \in Seq(Nat), NEW off \in 0 .. Len(data), NEW n \in 1 .. (Len(data) - off)
  PROVE  /\ SubSeq(data, off + 1, off + n) \in Seq(Nat)
         /\ Rest(data, off) = SubSeq(data, off + 1, off + n) \o Rest(data, off + n)
<1>0. Len(data) \in Nat
  OBVIOUS
<1>1. \A i \in off + 1 .. off + n : data[i] \in Nat
  BY <1>0
<1>2. SubSeq(data, off + 1, off + n) \in Seq(Nat)
  BY <1>0, <1>1, SubSeqProperties
<1>3. /\ off + 1 \in 1 .. Len(data) + 1
      /\ off + n \in (off + 1) - 1 .. Len(data)
      /\ Len(data) \in off + n .. Len(data)
  BY <1>0
<1>4. SubSeq(data, off + 1, off + n) \o SubSeq(data, (off + n) + 1, Len(data))
        = SubSeq(data, off + 1, Len(data))
  BY <1>3, ConcatAdjacentSubSeq
<1> QED
  BY <1>2, <1>4 DEF Rest

(* The octets of a message form a sequence. *)
LEMMA OctetsType ==
  ASSUME NEW m \in Nat
  PROVE  [i \in 1 .. MsgLen |-> m + i] \in Seq(Nat) /\ Len([i \in 1 .. MsgLen |-> m + i]) = MsgLen
<1>1. MsgLen \in Nat
  BY LenAssumption
<1>2. \A i \in 1 .. MsgLen : m + i \in Nat
  BY <1>1
<1>3. [i \in 1 .. MsgLen |-> m + i] \in Seq(Nat)
  BY <1>1, <1>2
<1>4. DOMAIN [i \in 1 .. MsgLen |-> m + i] = 1 .. MsgLen
  OBVIOUS
<1>5. Len([i \in 1 .. MsgLen |-> m + i]) = MsgLen
  <2> DEFINE f == [i \in 1 .. MsgLen |-> m + i]
  <2>1. Len(f) \in Nat /\ 1 .. Len(f) = 1 .. MsgLen
    BY <1>3, <1>4, LenProperties
  <2> HIDE DEF f
  <2>2. ASSUME NEW a \in Nat, NEW b \in Nat \ {0}, 1 .. a = 1 .. b
        PROVE  a = b
    <3>1. b \in 1 .. a /\ 1 \in 1 .. a
      BY <2>2
    <3>2. a \in 1 .. b
      BY <2>2, <3>1
    <3> QED
      BY <3>1, <3>2
  <2>3. Len(f) = MsgLen
    BY <2>1, <2>2, LenAssumption
  <2> QED
    BY <2>3 DEF f
<1> QED
  BY <1>3, <1>5, Zenon

(* A session starts with empty buffers and EVENT_SEND on. *)
LEMMA InitIndInv == Init => IndInv
<1> SUFFICES ASSUME Init PROVE IndInv
  OBVIOUS
<1>1. TypeOK
  <2>1. << >> \in Seq(Nat) /\ Len(<< >>) = 0
    BY EmptySeq
  <2>2. spc \in [Senders -> {"idle", "found", "queue"}]
    BY DEF Init
  <2>3. room \in 0 .. MaxRoom /\ tries \in 0 .. MaxMsgs
    BY LenAssumption, RoomAssumption DEF Init
  <2>4. 0 \in 0 .. Len(<< >>) /\ Len(<< >>) <= Cap
    BY <2>1, LenAssumption
  <2>5. /\ writeos \in Seq(Nat) /\ Len(writeos) <= Cap
        /\ writebuf \in Seq(Nat) /\ Len(writebuf) <= Cap
        /\ offset \in 0 .. Len(writebuf)
        /\ accepted \in Seq(Nat) /\ sent \in Seq(Nat)
    BY <2>1, <2>4, Zenon DEF Init
  <2> QED
    BY <2>2, <2>3, <2>5 DEF Init, TypeOK
<1>2. Rest(writebuf, offset) = << >> /\ << >> \o << >> \o << >> = << >>
  BY RestEnds, EmptySeq, ConcatEmptySeq DEF Init
<1>3. StreamIntact
  BY <1>1, <1>2 DEF Init, StreamIntact, Rest
<1> QED
  BY <1>3, EmptySeq DEF Init, IndInv, UnsentHasInterest, BufferInv, GoneInv, ChangeQueued

(* Only the steps named here touch the buffers; every other one leaves them,   *)
(* and what the socket got, alone.                                             *)
BufferSteps ==
  \/ \E s \in Senders : AppendMessage(s)
  \/ Delete \/ HandleWrite \/ SendSome \/ Refill

(* What a step that leaves the buffers alone may do to the reactor thread and  *)
(* the event.                                                                  *)
LEMMA QuietStep ==
  ASSUME TypeOK, GoneInv, [Next]_vars, ~BufferSteps
  PROVE  /\ UNCHANGED bufvars
         /\ lpc' # "refill" \/ lpc = "refill"
         /\ lpc' # "sending" \/ lpc = "sending"
         /\ status = "freed" => status' = "freed" /\ lpc' = "gone"
         /\ status' = "freed" => status = "freed"
<1> USE DEF bufvars, evvars, sendvars, Queue, Wake
<1>1. ASSUME NEW s \in Senders, Find(s) \/ QueueChange(s)
      PROVE  UNCHANGED <<bufvars, lpc, status>>
  BY <1>1 DEF Find, QueueChange
<1>2. ASSUME CheckTimeout \/ OtherCall \/ PeerReads
      PROVE  UNCHANGED <<bufvars, lpc, status>>
  BY <1>2 DEF CheckTimeout, OtherCall, PeerReads
<1>3. ASSUME NEW in \in SUBSET {"recv"}, Poll(in)
      PROVE  UNCHANGED <<bufvars, status>> /\ lpc = "poll" /\ lpc' \in {"load", "read"}
  BY <1>3 DEF Poll
<1>4. ASSUME Load \/ ClearWakeup \/ OnRecv \/ OnSend
      PROVE  /\ UNCHANGED <<bufvars, status>> /\ lpc # "gone"
             /\ lpc' \notin {"refill", "sending", "gone"}
  BY <1>4 DEF Load, ClearWakeup, OnRecv, OnSend
<1>5. ASSUME HandleRead \/ SendBlocked \/ HandleClose
      PROVE  /\ UNCHANGED bufvars /\ status' \in {status, "del"} /\ lpc # "gone"
             /\ lpc' \notin {"refill", "sending", "gone"}
  BY <1>5 DEF HandleRead, SendBlocked, HandleClose, CloseSocket, DelEvent, PermitSend
<1>6. CASE UNCHANGED vars
  BY <1>6 DEF vars, GoneInv
<1>7. CASE \/ \E s \in Senders : Find(s) \/ QueueChange(s)
           \/ CheckTimeout \/ OtherCall \/ PeerReads
  BY <1>1, <1>2, <1>7 DEF GoneInv
<1>8. CASE \E in \in SUBSET {"recv"} : Poll(in)
  BY <1>3, <1>8 DEF GoneInv
<1>9. CASE Load \/ ClearWakeup \/ OnRecv \/ OnSend \/ HandleRead \/ SendBlocked \/ HandleClose
  BY <1>4, <1>5, <1>9 DEF GoneInv
<1> QED
  BY <1>6, <1>7, <1>8, <1>9 DEF Next, LoopStep, SendStep, BufferSteps

(* The buffers are in range and make up what was appended. *)
BuffersOK ==
  /\ writeos \in Seq(Nat) /\ Len(writeos) <= Cap
  /\ writebuf \in Seq(Nat) /\ Len(writebuf) <= Cap
  /\ offset \in 0 .. Len(writebuf)
  /\ accepted \in Seq(Nat) /\ sent \in Seq(Nat)
  /\ status # "freed" => accepted = sent \o Rest(writebuf, offset) \o writeos

(* AppendMessage: the octets go to the end of both. *)
LEMMA AppendKeeps ==
  ASSUME IndInv, NEW s \in Senders, AppendMessage(s)
  PROVE  BuffersOK'
<1> DEFINE octets == [i \in 1 .. MsgLen |-> Len(accepted) + i]
<1>0. TypeOK /\ BuffersOK
  BY DEF IndInv, StreamIntact, TypeOK, BuffersOK, Rest
<1>1. octets \in Seq(Nat) /\ Len(octets) = MsgLen
  BY <1>0, OctetsType, LenProperties DEF TypeOK
<1> HIDE DEF octets
<1>2. UNCHANGED <<writebuf, offset, sent, status>>
  BY DEF AppendMessage, bufvars
<1>3. CASE UNCHANGED <<writeos, accepted>>
  BY <1>0, <1>2, <1>3 DEF BuffersOK
<1>4. CASE ~UNCHANGED <<writeos, accepted>>
  <2>1. /\ writeos' = writeos \o octets /\ accepted' = accepted \o octets
        /\ ~(Len(writeos) + MsgLen > Cap)
    BY <1>4 DEF AppendMessage, octets, bufvars
  <2>2. /\ writeos' \in Seq(Nat) /\ Len(writeos') = Len(writeos) + MsgLen
        /\ accepted' \in Seq(Nat)
    BY <1>0, <1>1, <2>1, ConcatProperties DEF BuffersOK
  <2>3. Len(writeos') <= Cap
    BY <1>0, <2>1, <2>2, LenAssumption, LenProperties DEF BuffersOK
  <2>4. ASSUME status # "freed"
        PROVE  accepted' = sent \o Rest(writebuf, offset) \o writeos'
    <3>1. /\ Rest(writebuf, offset) \in Seq(Nat)
          /\ sent \o Rest(writebuf, offset) \in Seq(Nat)
      BY <1>0, RestType, ConcatProperties DEF BuffersOK
    <3> DEFINE p == sent \o Rest(writebuf, offset)
    <3>2. accepted = p \o writeos
      BY <1>0, <2>4 DEF BuffersOK
    <3>a. p \in Seq(Nat) /\ writeos \in Seq(Nat)
      BY <1>0, <3>1 DEF BuffersOK
    <3> HIDE DEF p
    <3>3. (p \o writeos) \o octets = p \o (writeos \o octets)
      BY <1>1, <3>a, ConcatAssociative, SMTT(30)
    <3>4. accepted' = p \o writeos'
      BY <2>1, <3>2, <3>3
    <3> QED
      BY <3>4 DEF p
  <2> QED
    BY <1>0, <1>2, <2>2, <2>3, <2>4 DEF BuffersOK
<1> QED
  BY <1>3, <1>4

(* SwapIn: the buffers change places when _writebuf is empty. *)
LEMMA SwapKeeps ==
  ASSUME BuffersOK, BufferInv, SwapIn, UNCHANGED <<offset, accepted, sent>>,
         status = "freed" <=> status' = "freed"
  PROVE  /\ BuffersOK'
         /\ writebuf' = << >> => offset' = 0 /\ writeos' = << >>
         /\ writebuf' # << >> => offset' < Len(writebuf')
<1>1. CASE writebuf # << >>
  BY <1>1 DEF BuffersOK, BufferInv, SwapIn
<1>2. CASE writebuf = << >>
  <2>1. offset = 0 /\ writebuf' = writeos /\ writeos' = << >> /\ offset' = 0
    BY <1>2 DEF BufferInv, SwapIn
  <2>2. Rest(writebuf, offset) = << >> /\ Rest(writebuf', offset') = writeos
    BY <1>2, <2>1, RestEnds DEF BuffersOK
  <2>3. << >> \in Seq(Nat) /\ Len(<< >>) = 0
    BY EmptySeq
  <2>4. sent \o << >> = sent /\ (sent \o writeos) \o << >> = sent \o writeos
    BY ConcatEmptySeq, ConcatProperties DEF BuffersOK
  <2>5. status' # "freed" => accepted' = sent' \o Rest(writebuf', offset') \o writeos'
    BY <2>1, <2>2, <2>4 DEF BuffersOK
  <2>6. 0 \in 0 .. Len(writeos) /\ 0 <= Cap
    BY LenAssumption, LenProperties DEF BuffersOK
  <2>7. BuffersOK'
    BY <2>1, <2>3, <2>5, <2>6 DEF BuffersOK
  <2>8. writeos # << >> => 0 < Len(writeos)
    BY EmptySeq DEF BuffersOK
  <2> QED
    BY <2>1, <2>7, <2>8
<1> QED
  BY <1>1, <1>2

(* SendSome: what send() took is what it found at _write_offset. *)
LEMMA SendKeeps ==
  ASSUME IndInv, SendSome
  PROVE  BuffersOK' /\ BufferInv'
<1>0. TypeOK /\ BuffersOK /\ BufferInv
  BY DEF IndInv, StreamIntact, TypeOK, BuffersOK, Rest
<1>1. PICK n \in 1 .. (Len(writebuf) - offset) :
        /\ sent' = sent \o SubSeq(writebuf, offset + 1, offset + n)
        /\ IF offset + n = Len(writebuf)
             THEN writebuf' = << >> /\ offset' = 0 /\ lpc' = "refill"
             ELSE offset' = offset + n /\ UNCHANGED <<writebuf, lpc>>
  BY DEF SendSome
<1>2. /\ UNCHANGED <<writeos, accepted, status>> /\ lpc = "sending"
      /\ Len(writebuf) \in Nat /\ offset \in Nat /\ n \in Nat /\ n <= Len(writebuf) - offset
  BY <1>0, LenProperties DEF SendSome, evvars, BuffersOK
<1> DEFINE chunk == SubSeq(writebuf, offset + 1, offset + n)
<1>3. chunk \in Seq(Nat) /\ Rest(writebuf, offset) = chunk \o Rest(writebuf, offset + n)
  BY <1>0, RestSplit DEF BuffersOK
<1>4. offset + n \in 0 .. Len(writebuf)
  BY <1>2
<1>5. Rest(writebuf, offset + n) \in Seq(Nat) /\ sent \in Seq(Nat) /\ writeos \in Seq(Nat)
  BY <1>0, <1>4, RestType DEF BuffersOK
<1>6. sent' \in Seq(Nat)
  BY <1>1, <1>3, <1>5, ConcatProperties
<1>7. offset + n = Len(writebuf) => Rest(writebuf, offset + n) = << >>
  <2>1. (offset + n) + 1 \in Int /\ Len(writebuf) < Len(writebuf) + 1
    BY <1>2
  <2> QED
    BY <1>2, <2>1, SubSeqEmpty DEF Rest
<1>8. Rest(writebuf', offset') = Rest(writebuf, offset + n)
  BY <1>1, <1>7, RestEnds
<1>9. ASSUME status' # "freed"
      PROVE  accepted' = sent' \o Rest(writebuf', offset') \o writeos'
  <2> HIDE DEF chunk
  <2>1. accepted = sent \o (chunk \o Rest(writebuf, offset + n)) \o writeos
    BY <1>0, <1>2, <1>3, <1>9 DEF BuffersOK
  <2>2. sent \o (chunk \o Rest(writebuf, offset + n)) = (sent \o chunk) \o Rest(writebuf, offset + n)
    <3>1. \A t, u, v \in Seq(Nat) : (t \o u) \o v = t \o (u \o v)
      BY ConcatAssociative, SMTT(30)
    <3> QED
      BY <1>3, <1>5, <3>1
  <2>3. sent' = sent \o chunk
    BY <1>1 DEF chunk
  <2> QED
    BY <1>2, <1>8, <2>1, <2>2, <2>3
<1>10. /\ writebuf' \in Seq(Nat) /\ Len(writebuf') <= Cap /\ offset' \in 0 .. Len(writebuf')
       /\ writebuf' = << >> => offset' = 0
       /\ writebuf' # << >> => offset' < Len(writebuf')
  <2>1. CASE offset + n = Len(writebuf)
    <3>1. << >> \in Seq(Nat) /\ Len(<< >>) = 0
      BY EmptySeq
    <3> QED
      BY <1>1, <2>1, <3>1, LenAssumption
  <2>2. CASE offset + n # Len(writebuf)
    <3>1. offset' = offset + n /\ writebuf' = writebuf
      BY <1>1, <2>2
    <3>2. offset' < Len(writebuf')
      BY <1>2, <2>2, <3>1
    <3>3. writebuf' # << >>
      BY <1>0, <3>1 DEF SendSome, IndInv, BufferInv
    <3> QED
      BY <1>0, <1>4, <3>1, <3>2, <3>3 DEF BuffersOK
  <2> QED
    BY <2>1, <2>2
<1>11. BufferInv'
  BY <1>0, <1>1, <1>2, <1>10 DEF BufferInv
<1> QED
  BY <1>0, <1>2, <1>6, <1>9, <1>10, <1>11 DEF BuffersOK

(* What handle_write() and its refill do: the swap, and EVENT_SEND is given    *)
(* back only when both buffers are empty.                                      *)
LEMMA WriteKeeps ==
  ASSUME IndInv, HandleWrite \/ Refill
  PROVE  /\ BuffersOK' /\ BufferInv' /\ GoneInv'
         /\ UnsentHasInterest' /\ ChangeQueued'
<1>0. TypeOK /\ BuffersOK /\ BufferInv /\ GoneInv /\ UnsentHasInterest /\ ChangeQueued
  BY DEF IndInv, StreamIntact, TypeOK, BuffersOK, Rest
<1> USE DEF evvars, sendvars, bufvars, Queue, Wake
<1>1. CASE HandleWrite /\ "send" \notin active
  <2>1. UNCHANGED <<bufvars, evvars, spc>> /\ lpc = "write" /\ lpc' = "close"
    BY <1>1 DEF HandleWrite
  <2> QED
    BY <1>0, <2>1 DEF BuffersOK, BufferInv, GoneInv, UnsentHasInterest, ChangeQueued
<1>2. CASE ~(HandleWrite /\ "send" \notin active)
  <2>1. SwapIn /\ UNCHANGED <<offset, accepted, sent, spc>> /\ lpc \in {"write", "refill"}
    BY <1>2 DEF HandleWrite, Refill
  <2>2. status # "freed" /\ status' = status /\ mask' = mask
    BY <1>0, <1>2, <2>1 DEF HandleWrite, Refill, ForbidSend, GoneInv
  <2>3. /\ BuffersOK'
        /\ writebuf' = << >> => offset' = 0 /\ writeos' = << >>
        /\ writebuf' # << >> => offset' < Len(writebuf')
    BY <1>0, <2>1, <2>2, SwapKeeps
  <2>4. \/ writebuf' = << >> /\ ForbidSend /\ lpc' \in {"close", "on_send"}
        \/ writebuf' # << >> /\ UNCHANGED evvars /\ lpc' = "sending"
    <3>1. CASE HandleWrite
      BY <1>2, <3>1 DEF HandleWrite
    <3>2. CASE Refill
      <4>1. offset = 0 /\ offset' = 0
        BY <1>0, <2>1, <3>2 DEF Refill, BufferInv
      <4>2. Len(writebuf') = 0 <=> writebuf' = << >>
        BY <2>3, EmptySeq DEF BuffersOK
      <4>3. \/ Len(writebuf') = 0 /\ ForbidSend /\ lpc' = "on_send"
            \/ Len(writebuf') # 0 /\ UNCHANGED evvars /\ lpc' = "sending"
        BY <3>2, <4>1 DEF Refill
      <4> QED
        BY <4>2, <4>3
    <3> QED
      BY <3>1, <3>2
  <2>5. BufferInv' /\ GoneInv'
    BY <2>2, <2>3, <2>4 DEF BufferInv, GoneInv
  <2>6. UnsentHasInterest'
    <3>1. CASE writebuf' = << >>
      BY <2>3, <3>1 DEF UnsentHasInterest
    <3>2. CASE writebuf' # << >>
      <4>1. writebuf # << >> \/ writeos # << >>
        BY <2>1, <3>2 DEF SwapIn
      <4> QED
        BY <1>0, <2>4, <3>2, <4>1 DEF UnsentHasInterest
    <3> QED
      BY <3>1, <3>2
  <2>7. ChangeQueued'
    BY <1>0, <2>1, <2>2, <2>4 DEF ChangeQueued, ForbidSend
  <2> QED
    BY <2>3, <2>5, <2>6, <2>7
<1> QED
  BY <1>1, <1>2

(* Every step keeps BuffersOK, BufferInv and GoneInv. *)
LEMMA BuffersStep ==
  ASSUME IndInv, [Next]_vars
  PROVE  BuffersOK' /\ BufferInv' /\ GoneInv'
<1>0. TypeOK /\ BuffersOK /\ BufferInv /\ GoneInv
  BY DEF IndInv, StreamIntact, TypeOK, BuffersOK, Rest
<1>1. ASSUME NEW s \in Senders, AppendMessage(s)
      PROVE  BuffersOK' /\ BufferInv' /\ GoneInv'
  <2>1. UNCHANGED <<writebuf, offset, lpc, status>>
    BY <1>1 DEF AppendMessage, bufvars
  <2> QED
    BY <1>0, <1>1, <2>1, AppendKeeps DEF BufferInv, GoneInv
<1>2. CASE Delete
  <2>1. << >> \in Seq(Nat) /\ Len(<< >>) = 0 /\ 0 <= Cap
    BY EmptySeq, LenAssumption
  <2> QED
    BY <1>0, <1>2, <2>1 DEF Delete, BuffersOK, BufferInv, GoneInv
<1>3. CASE HandleWrite \/ Refill
  BY <1>3, WriteKeeps
<1>4. CASE SendSome
  <2>1. GoneInv'
    BY <1>0, <1>4 DEF SendSome, GoneInv, evvars
  <2> QED
    BY <1>4, <2>1, SendKeeps
<1>5. CASE ~BufferSteps
  BY <1>0, <1>5, QuietStep DEF BuffersOK, BufferInv, GoneInv, bufvars
<1> QED
  BY <1>1, <1>2, <1>3, <1>4, <1>5 DEF BufferSteps

(* Every step keeps the other variables in range. *)
LEMMA TypeStep ==
  ASSUME IndInv, [Next]_vars
  PROVE  TypeOK'
<1>0. TypeOK
  BY DEF IndInv, StreamIntact
<1>1. /\ writeos' \in Seq(Nat) /\ Len(writeos') <= Cap
      /\ writebuf' \in Seq(Nat) /\ Len(writebuf') <= Cap
      /\ offset' \in 0 .. Len(writebuf')
      /\ accepted' \in Seq(Nat) /\ sent' \in Seq(Nat)
  BY BuffersStep DEF BuffersOK
<1> DEFINE SessionOK == /\ closing \in BOOLEAN /\ registered \in BOOLEAN
                        /\ lock \in Senders \cup {NoOne}
                        /\ spc \in [Senders -> {"idle", "found", "queue"}]
           EventOK   == /\ bits \in BOOLEAN /\ mask \in BOOLEAN /\ changed \in BOOLEAN
                        /\ status \in {"add", "del", "freed"}
                        /\ wakeup \in BOOLEAN /\ efd \in BOOLEAN
           LoopOK    == /\ lpc \in {"load", "delete", "dispatch", "poll", "read", "on_recv", "write",
                                    "sending", "refill", "on_send", "close", "gone"}
                        /\ active \in SUBSET {"recv", "send"}
           BoundsOK  == room \in 0 .. MaxRoom /\ tries \in 0 .. MaxMsgs
<1>a. SessionOK /\ EventOK /\ LoopOK /\ BoundsOK
  BY <1>0 DEF TypeOK
<1> SUFFICES (SessionOK /\ EventOK /\ LoopOK /\ BoundsOK)'
  BY <1>1 DEF TypeOK
<1> USE DEF evvars, sendvars, bufvars, Queue, Wake
<1>2. ASSUME NEW s \in Senders, Find(s) \/ SendStep(s)
      PROVE  (SessionOK /\ EventOK /\ LoopOK /\ BoundsOK)'
  <2>1. tries' \in 0 .. MaxMsgs /\ room' = room
    BY <1>a, <1>2, LenAssumption DEF Find, SendStep, AppendMessage, QueueChange
  <2>2. CASE Find(s)
    BY <1>a, <2>1, <2>2 DEF Find
  <2>3. CASE AppendMessage(s)
    <3>1. /\ lock' \in {lock, s} /\ bits' \in {bits, TRUE}
          /\ spc' = [spc EXCEPT ![s] = "idle"] \/ spc' = [spc EXCEPT ![s] = "queue"]
          /\ UNCHANGED <<closing, registered, mask, changed, status, wakeup, efd, lpc, active>>
      BY <2>3 DEF AppendMessage
    <3>2. spc' \in [Senders -> {"idle", "found", "queue"}]
      BY <1>a, <3>1
    <3> QED
      BY <1>a, <2>1, <3>1, <3>2, ZenonT(30)
  <2>4. CASE QueueChange(s)
    BY <1>a, <2>1, <2>4 DEF QueueChange
  <2> QED
    BY <1>2, <2>2, <2>3, <2>4 DEF SendStep
<1>3. CASE CheckTimeout
  BY <1>a, <1>3 DEF CheckTimeout
<1>3a. CASE OtherCall
  BY <1>a, <1>3a DEF OtherCall
<1>4. CASE Load \/ Delete \/ ClearWakeup
  BY <1>a, <1>4 DEF Load, Delete, ClearWakeup
<1>5. ASSUME NEW in \in SUBSET {"recv"}, Poll(in)
      PROVE  (SessionOK /\ EventOK /\ LoopOK /\ BoundsOK)'
  BY <1>a, <1>5 DEF Poll
<1>6. CASE HandleRead \/ OnRecv \/ OnSend
  BY <1>a, <1>6 DEF HandleRead, OnRecv, OnSend, CloseSocket, DelEvent
<1>7. CASE HandleWrite \/ Refill
  BY <1>a, <1>7 DEF HandleWrite, Refill, ForbidSend
<1>8. CASE SendSome
  <2>1. PICK n \in 1 .. (Len(writebuf) - offset) : n <= room /\ room' = room - n
    BY <1>8 DEF SendSome
  <2>2. room' \in 0 .. MaxRoom
    <3>1. Len(writebuf) \in Nat /\ offset \in Nat /\ n \in Nat
      BY <1>0, LenProperties DEF TypeOK
    <3> QED
      BY <1>a, <2>1, <3>1, RoomAssumption
  <2>3. LoopOK' /\ UNCHANGED <<closing, evvars, sendvars>>
    BY <1>a, <1>8 DEF SendSome
  <2> QED
    BY <1>a, <2>2, <2>3
<1>9. CASE SendBlocked \/ HandleClose
  BY <1>a, <1>9 DEF SendBlocked, HandleClose, CloseSocket, DelEvent, PermitSend
<1>10. CASE PeerReads
  BY <1>a, <1>10, RoomAssumption DEF PeerReads
<1>11. CASE UNCHANGED vars
  BY <1>a, <1>11 DEF vars
<1> HIDE DEF SessionOK, EventOK, LoopOK, BoundsOK
<1> QED
  BY <1>2, <1>3, <1>3a, <1>4, <1>5, <1>6, <1>7, <1>8, <1>9, <1>10, <1>11
     DEF Next, LoopStep

(* EVENT_SEND stays on over unsent data, and a change of it stays queued until *)
(* load_event() has told epoll.                                                *)
LEMMA InterestStep ==
  ASSUME IndInv, [Next]_vars
  PROVE  UnsentHasInterest' /\ ChangeQueued'
<1>0. TypeOK /\ UnsentHasInterest /\ ChangeQueued /\ BufferInv
  BY DEF IndInv, StreamIntact
<1> USE DEF evvars, sendvars, bufvars, Queue, Wake, UnsentHasInterest, ChangeQueued
<1>1. ASSUME NEW s \in Senders, Find(s)
      PROVE  UnsentHasInterest' /\ ChangeQueued'
  <2>1. \A t \in Senders : spc[t] = "queue" => spc'[t] = "queue"
    BY <1>0, <1>1 DEF Find, TypeOK
  <2> QED
    BY <1>0, <1>1, <2>1 DEF Find
<1>2. ASSUME NEW s \in Senders, AppendMessage(s)
      PROVE  UnsentHasInterest' /\ ChangeQueued'
  <2>1. /\ UNCHANGED <<mask, changed, status, writebuf>> /\ (bits => bits')
        /\ spc[s] = "found" /\ \A t \in Senders : t # s => spc'[t] = spc[t]
    BY <1>0, <1>2 DEF AppendMessage, TypeOK
  <2>2. \/ UNCHANGED <<writeos, bits>>
        \/ UNCHANGED bits /\ (status # "add" \/ bits)
        \/ bits' = TRUE /\ spc' = [spc EXCEPT ![s] = "queue"]
    BY <1>2 DEF AppendMessage
  <2>3. spc' = [spc EXCEPT ![s] = "queue"] => spc'[s] = "queue"
    BY <1>0 DEF TypeOK
  <2> QED
    BY <1>0, <2>1, <2>2, <2>3
<1>3. ASSUME NEW s \in Senders, QueueChange(s)
      PROVE  UnsentHasInterest' /\ ChangeQueued'
  BY <1>0, <1>3 DEF QueueChange
<1>4. CASE \/ CheckTimeout \/ OtherCall \/ PeerReads \/ OnRecv \/ OnSend \/ ClearWakeup
           \/ \E in \in SUBSET {"recv"} : Poll(in)
  BY <1>0, <1>4 DEF CheckTimeout, OtherCall, PeerReads, OnRecv, OnSend, ClearWakeup, Poll
<1>5. CASE Load
  BY <1>0, <1>5 DEF Load
<1>6. CASE Delete
  BY <1>6 DEF Delete
<1>7. CASE HandleRead
  BY <1>0, <1>7 DEF HandleRead, CloseSocket, DelEvent
<1>8. CASE HandleWrite \/ Refill
  BY <1>8, WriteKeeps
<1>9. CASE SendSome
  <2>1. UNCHANGED <<bits, mask, changed, status, spc, writeos>> /\ lpc = "sending"
    BY <1>9 DEF SendSome
  <2> QED
    BY <1>0, <2>1 DEF BufferInv
<1>10. CASE SendBlocked
  BY <1>0, <1>10 DEF SendBlocked, CloseSocket, DelEvent
<1>11. CASE HandleClose
  BY <1>0, <1>11 DEF HandleClose, PermitSend, DelEvent
<1>12. CASE UNCHANGED vars
  BY <1>0, <1>12 DEF vars
<1> HIDE DEF UnsentHasInterest, ChangeQueued
<1> QED
  BY <1>1, <1>2, <1>3, <1>4, <1>5, <1>6, <1>7, <1>8, <1>9, <1>10, <1>11, <1>12
     DEF Next, LoopStep, SendStep

(* IndInv is kept by every step. *)
LEMMA IndInvStep == IndInv /\ [Next]_vars => IndInv'
<1> SUFFICES ASSUME IndInv, [Next]_vars PROVE IndInv'
  OBVIOUS
<1>1. StreamIntact'
  BY TypeStep, BuffersStep DEF StreamIntact, BuffersOK, Rest
<1> QED
  BY <1>1, BuffersStep, InterestStep DEF IndInv

(* The socket gets exactly the octets the senders appended, in order, for as   *)
(* long as the session lives: the swap, partial sends, full buffers and a      *)
(* connection closed at any point neither lose nor repeat nor reorder one.     *)
THEOREM StreamStaysIntact == Spec => []StreamIntact
<1>1. IndInv => StreamIntact
  BY DEF IndInv
<1> QED
  BY <1>1, InitIndInv, IndInvStep, PTL DEF Spec

(* handle_write() never gives EVENT_SEND back while a sender has data waiting. *)
THEOREM InterestIsKept == Spec => []UnsentHasInterest
<1>1. IndInv => UnsentHasInterest
  BY DEF IndInv
<1> QED
  BY <1>1, InitIndInv, IndInvStep, PTL DEF Spec

(* Unsent data is never forgotten by the event loop: epoll has been asked for  *)
(* EPOLLOUT, or the request is queued, or a sender is about to queue it.       *)
THEOREM InterestIsTold == Spec => []InterestReachesEpoll
<1>1. IndInv => InterestReachesEpoll
  BY DEF IndInv, UnsentHasInterest, ChangeQueued, InterestReachesEpoll, StreamIntact, TypeOK
<1> QED
  BY <1>1, InitIndInv, IndInvStep, PTL DEF Spec

(***************************************************************************)
(* The connections (Connections), for any managers, threads, descriptors,    *)
(* events and sessions.  The invariant says where every descriptor, session  *)
(* and registration is while a connecting event hands over to a stream; most  *)
(* steps create, hand over and delete nothing, and QuietConnections does     *)
(* those once.                                                               *)
(***************************************************************************)

(* None names nothing: the null pointer, descriptor -1 and the lack of a session. *)
LEMMA NoneIs ==
  None \notin Events /\ None \notin Fds /\ None \notin Sids /\ None \notin Managers /\ Clients \subseteq Managers
  BY ConnectionsAssumption

(* Nothing exists at first. *)
LEMMA InitConnections == C!Init => C!IndInv
<1> SUFFICES ASSUME C!Init PROVE C!IndInv
  OBVIOUS
<1>0. /\ \A e \in Events : evs[e] = C!NoEvent /\ ~C!Live(e)
      /\ \A s \in Sids : ses[s] = C!NoSession /\ ~C!Alive(s)
      /\ \A fd \in Fds \cup {None} : ioev[fd] = None
  BY DEF C!Init, C!Live, C!Alive, C!NoEvent, C!NoSession
<1>1. C!TypeOK
  <2>1. C!NoEvent \in C!EventRecords /\ C!NoSession \in C!SessionRecords
    BY DEF C!NoEvent, C!NoSession, C!EventRecords, C!SessionRecords, C!Kinds
  <2> QED
    BY <2>1 DEF C!Init, C!TypeOK
<1>2. C!FdsInv
  BY <1>0 DEF C!Init, C!FdsInv
<1>3. C!RegistryInv /\ C!QueueInv
  BY <1>0 DEF C!Init, C!RegistryInv, C!QueueInv, C!Husk
<1>4. C!LoopInv /\ C!SessionsInv
  BY <1>0 DEF C!Init, C!LoopInv, C!SessionsInv
<1>5. C!ChainInv
  <2>1. \A m : C!Mine(m) = {}
    BY <1>0 DEF C!Mine, C!Owns
  <2> QED
    BY <2>1, NoneIs DEF C!Init, C!ChainInv
<1> QED
  BY <1>1, <1>2, <1>3, <1>4, <1>5 DEF C!IndInv

(* A step that makes, hands over and deletes nothing: the loop handles an event, or    *)
(* another thread sends, marks or queues.                                             *)
LEMMA QuietConnections ==
  ASSUME C!IndInv, ~crashed, C!TypeOK',
         \A e \in Events : /\ evs'[e].kind = evs[e].kind /\ evs'[e].fd = evs[e].fd
                           /\ evs'[e].sid = evs[e].sid,
         \A s \in Sids : ses'[s].mgr = ses[s].mgr /\ ses'[s].ev = ses[s].ev,
         UNCHANGED <<ioev, table, open, timers, started, batch>>,
         \* an event that is given up is registered
         \A e \in Events : evs'[e].status # evs[e].status =>
            /\ clpc \in {"dispatch", "spin"} /\ evs'[e].status = "del"
            /\ evs[e].fd # None /\ ioev[evs[e].fd] = e,
         \* what is queued
         changes \subseteq changes',
         \A e \in changes' \ changes : 
            C!Live(e) /\ ~C!Husk(e) /\ (evs[e].kind \in C!Dialing => evs'[e].status = "del" /\ batch = {}),
         \* the loop
         ready' \subseteq ready,
         \/ clpc' = clpc /\ cur' = cur
         \/ clpc = "dispatch" /\ clpc' = "spin" /\ C!Live(cur') /\ evs[cur'].fd # None
              /\ evs[cur'].sid # None /\ ioev[evs[cur'].fd] = cur' /\ cur' # None
         \/ clpc = "spin" /\ clpc' = "dispatch" /\ cur' = None,
         \A t \in Threads : cspc'[t] # "idle" => tgt'[t] \in table
  PROVE  C!IndInv'
<1>0. C!TypeOK /\ C!FdsInv /\ C!RegistryInv /\ C!QueueInv /\ C!LoopInv /\ C!SessionsInv /\ C!ChainInv
  BY DEF C!IndInv
<1>t. /\ \A e \in Events : evs[e].fd \in Fds \cup {None} /\ evs[e].sid \in Sids \cup {None}
      /\ \A fd \in Fds \cup {None} : ioev[fd] \in Events \cup {None}
      /\ \A s \in Sids : ses[s].ev \in Events \cup {None}
      /\ changes \subseteq Events /\ batch \subseteq Events /\ ready \subseteq Fds /\ table \subseteq Sids
      /\ cur \in Events \cup {None} /\ open \subseteq Fds
  BY <1>0 DEF C!TypeOK, C!EventRecords, C!SessionRecords
<1>1. /\ \A e \in Events : C!Live(e)' <=> C!Live(e)
      /\ \A e \in Events : C!Husk(e)' <=> C!Husk(e)
      /\ \A s \in Sids : C!Alive(s)' <=> C!Alive(s)
  BY DEF C!Live, C!Alive, C!Husk
<1>2. C!FdsInv'
  BY <1>0, <1>1, <1>t DEF C!FdsInv
<1>3. C!RegistryInv'
  <2>1. \A n \in C!Pending : n \in C!Pending'
    BY <1>0 DEF C!Pending, C!QueueInv
  <2>2. ASSUME NEW fd \in Fds, ioev[fd] # None
        PROVE  /\ C!Live(ioev[fd])' /\ fd \in open
               /\ \/ evs'[ioev[fd]].fd = fd
                  \/ C!Husk(ioev[fd])' /\ \E n \in C!Pending' : C!Live(n)' /\ evs'[n].fd = fd /\ evs'[n].status = "add"
    <3>1. /\ C!Live(ioev[fd]) /\ fd \in open /\ ioev[fd] \in Events
          /\ \/ evs[ioev[fd]].fd = fd
             \/ C!Husk(ioev[fd]) /\ \E n \in C!Pending : C!Live(n) /\ evs[n].fd = fd /\ evs[n].status = "add"
      BY <1>0, <1>t, <2>2 DEF C!RegistryInv
    <3>2. CASE evs[ioev[fd]].fd = fd
      BY <1>1, <3>1, <3>2
    <3>3. ASSUME C!Husk(ioev[fd]), NEW n \in C!Pending, C!Live(n), evs[n].fd = fd, evs[n].status = "add"
          PROVE  n \in C!Pending' /\ C!Live(n)' /\ evs'[n].fd = fd /\ evs'[n].status = "add"
      <4>1. n \in Events
        BY <1>t, <3>3 DEF C!Pending
      <4>2. ioev[evs[n].fd] # n
        BY <3>3, NoneIs DEF C!Husk
      <4> QED
        BY <1>1, <2>1, <3>3, <4>1, <4>2
    <3> QED
      BY <1>1, <3>1, <3>2, <3>3
  <2>3. \A e \in Events : C!Live(e)' /\ evs'[e].status = "del" => evs'[e].fd # None /\ ioev[evs'[e].fd] = e
    BY <1>0, <1>1 DEF C!RegistryInv
  <2>4. /\ ioev[None] # None => C!Live(ioev[None])' /\ evs'[ioev[None]].fd = None /\ evs'[ioev[None]].sid # None
        /\ \A fd, gd \in Fds : ioev[fd] = ioev[gd] /\ ioev[fd] # None => fd = gd
    BY <1>0, <1>1, <1>t DEF C!RegistryInv
  <2> QED
    BY <2>2, <2>3, <2>4 DEF C!RegistryInv
<1>4. C!QueueInv'
  <2>1. clpc' # "apply" => batch' = {}
    BY <1>0 DEF C!QueueInv
  <2>2. \A e \in Events : C!Live(e)' /\ evs'[e].kind \in C!Dialing =>
          ~(e \in changes' /\ e \in batch') /\ (evs'[e].status = "add" => e \notin changes' \cup batch')
    BY <1>0, <1>1 DEF C!QueueInv
  <2>3. \A e \in Events : C!Husk(e)' => e \notin changes' \cup batch'
    BY <1>0, <1>1 DEF C!QueueInv
  <2> QED
    BY <2>1, <2>2, <2>3 DEF C!QueueInv, C!Dialing
<1>5. C!LoopInv'
  <2>1. clpc' \in {"dispatch", "arm", "spin"} => \A fd \in ready' : ioev[fd] # None /\ evs'[ioev[fd]].fd = fd
    BY <1>0, <1>t DEF C!LoopInv
  <2>2. /\ clpc' \notin {"arm", "spin"} => cur' = None
        /\ clpc' \in {"arm", "spin"} => cur' # None /\ C!Live(cur')
    BY <1>0 DEF C!LoopInv
  <2>3. cur' \in Events \cup {None}
    BY DEF C!TypeOK
  <2>4. clpc' \in {"arm", "spin"} => evs'[cur'].fd # None /\ evs'[cur'].sid # None /\ (evs'[cur'].kind # "free")
    BY <1>0, <2>2, <2>3 DEF C!LoopInv, C!Live
  <2>5. clpc' = "spin" => ioev[evs'[cur'].fd] = cur'
    BY <1>0, <2>2, <2>3 DEF C!LoopInv
  <2>6. ASSUME clpc' = "arm"
        PROVE  LET old == ioev[evs'[cur'].fd] IN
               /\ evs'[cur'].fd \notin ready' /\ evs'[cur'].kind \notin C!Dialing /\ evs'[cur'].status = "none"
               /\ \A fd \in Fds \cup {None} : ioev[fd] # cur'
               /\ old # None => /\ evs'[old].fd = evs'[cur'].fd /\ evs'[old].sid = evs'[cur'].sid
                                /\ evs'[old].kind \in C!Dialing /\ evs'[old].status = "add"
               /\ old = None => ses'[evs'[cur'].sid].mgr \notin Clients
    <3>1. clpc = "arm" /\ cur' = cur /\ cur \in Events /\ evs' [cur].fd = evs[cur].fd
      BY <2>2, <2>3, <2>6
    <3>4. evs'[cur].sid = evs[cur].sid /\ ses'[evs[cur].sid].mgr = ses[evs[cur].sid].mgr
      BY <1>0, <1>t, <3>1 DEF C!LoopInv
    <3> DEFINE old == ioev[evs[cur].fd]
    <3>2. old \in Events \cup {None} /\ \A e \in Events : evs'[e].status = evs[e].status
      BY <1>t, <3>1
    <3>3. /\ evs[cur].fd \notin ready /\ evs[cur].kind \notin C!Dialing /\ evs[cur].status = "none"
          /\ \A fd \in Fds \cup {None} : ioev[fd] # cur
          /\ old # None => /\ evs[old].fd = evs[cur].fd /\ evs[old].sid = evs[cur].sid
                           /\ evs[old].kind \in C!Dialing /\ evs[old].status = "add"
          /\ old = None => ses[evs[cur].sid].mgr \notin Clients
      BY <1>0, <3>1 DEF C!LoopInv
    <3> QED
      BY <3>1, <3>2, <3>3, <3>4
  <2> QED
    BY <2>1, <2>2, <2>4, <2>5, <2>6 DEF C!LoopInv, C!Live, C!Dialing
<1>6. C!SessionsInv'
  BY <1>0, <1>1, <1>t, NoneIs DEF C!SessionsInv
<1>7. C!ChainInv'
  <2>1. \A e \in Events : C!Owns(e)' <=> C!Owns(e)
    BY <1>1 DEF C!Owns
  <2>2. \A m : C!Mine(m)' = C!Mine(m)
    BY <1>t, <2>1 DEF C!Mine
  <2> QED
    BY <1>0, <2>2 DEF C!ChainInv
<1> QED
  BY <1>2, <1>3, <1>4, <1>5, <1>6, <1>7 DEF C!IndInv

(* The loop turns over the changelist, polls and goes round. *)
LEMMA TurnStep ==
  ASSUME C!IndInv, ~crashed, C!Flip \/ C!Poll \/ C!EndDispatch
  PROVE  C!IndInv'
<1>0. C!TypeOK /\ C!FdsInv /\ C!RegistryInv /\ C!QueueInv /\ C!LoopInv /\ C!SessionsInv /\ C!ChainInv
  BY DEF C!IndInv
<1>1. /\ UNCHANGED <<started, evs, ioev, ses, table, timers, open, cur, tgt, cspc, crashed>>
      /\ clpc \in {"load", "apply", "dispatch"} /\ clpc' \in {"load", "apply", "dispatch"} /\ cur = None
  BY <1>0 DEF C!Flip, C!Poll, C!EndDispatch, C!LoopInv, C!sendvars
<1>2. C!TypeOK'
  <2>1. changes' \subseteq Events /\ batch' \subseteq Events /\ ready' \subseteq Fds
    BY <1>0 DEF C!TypeOK, C!Flip, C!Poll, C!EndDispatch
  <2> QED
    BY <1>0, <1>1, <2>1 DEF C!TypeOK
<1>3. /\ \A e : (C!Live(e)' <=> C!Live(e)) /\ (C!Husk(e)' <=> C!Husk(e)) /\ (C!Owns(e)' <=> C!Owns(e))
      /\ \A s : C!Alive(s)' <=> C!Alive(s)
  BY <1>1 DEF C!Live, C!Alive, C!Husk, C!Owns
<1>4. C!FdsInv'
  BY <1>0, <1>1, <1>3 DEF C!FdsInv
<1>5. \A n \in C!Pending : n \in C!Pending'
  BY <1>0 DEF C!Flip, C!Poll, C!EndDispatch, C!Pending, C!QueueInv
<1>6. C!RegistryInv'
  BY <1>0, <1>1, <1>3, <1>5 DEF C!RegistryInv
<1>7. C!QueueInv'
  <2>1. changes' \cup batch' = changes \cup batch /\ (clpc' # "apply" => batch' = {})
    BY <1>0 DEF C!Flip, C!Poll, C!EndDispatch, C!QueueInv
  <2>2. \A e : ~(e \in changes /\ e \in batch) => ~(e \in changes' /\ e \in batch')
    BY <1>0 DEF C!Flip, C!Poll, C!EndDispatch, C!QueueInv
  <2> QED
    BY <1>0, <1>1, <1>3, <2>1, <2>2 DEF C!QueueInv, C!Dialing
<1>8. clpc' = "dispatch" => \A fd \in ready' : ioev[fd] # None /\ evs[ioev[fd]].fd = fd
  <2> SUFFICES ASSUME clpc' = "dispatch" PROVE \A fd \in ready' : ioev[fd] # None /\ evs[ioev[fd]].fd = fd
    OBVIOUS
  <2>1. /\ clpc = "apply" /\ batch = {}
        /\ \A fd \in ready' : fd \in Fds /\ ioev[fd] # None
    BY DEF C!Flip, C!Poll, C!EndDispatch
  <2>2. C!Pending = {}
    BY <2>1 DEF C!Pending
  <2> QED
    BY <1>0, <2>1, <2>2 DEF C!RegistryInv
<1>9. C!LoopInv'
  BY <1>0, <1>1, <1>8 DEF C!LoopInv
<1>10. C!SessionsInv'
  BY <1>0, <1>1, <1>3 DEF C!SessionsInv
<1>11. C!ChainInv'
  <2>1. \A m : C!Mine(m)' = C!Mine(m)
    BY <1>1, <1>3 DEF C!Mine
  <2> QED
    BY <1>0, <1>1, <2>1 DEF C!ChainInv
<1> QED
  BY <1>2, <1>4, <1>6, <1>7, <1>9, <1>10, <1>11 DEF C!IndInv

(* The event found under a ready descriptor is alive and has it and a session. *)
LEMMA Dispatched ==
  ASSUME C!IndInv, ~crashed, NEW e \in Events, NEW kinds, C!Dispatch(e, kinds)
  PROVE  /\ clpc = "dispatch" /\ cur = None /\ batch = {} /\ ready' \subseteq ready
         /\ C!Live(e) /\ ~C!Husk(e) /\ evs[e].fd \in Fds /\ evs[e].fd \in ready /\ evs[e].fd \notin ready'
         /\ evs[e].fd # None /\ ioev[evs[e].fd] = e /\ evs[e].sid \in Sids /\ evs[e].sid # None
         /\ C!Alive(evs[e].sid) /\ ses[evs[e].sid].ev = e /\ evs[e].kind \in kinds
         /\ UNCHANGED <<secure, started, ioev, timers, batch, tgt, cspc, crashed>>
<1>0. C!TypeOK /\ C!FdsInv /\ C!RegistryInv /\ C!QueueInv /\ C!LoopInv /\ C!SessionsInv
  BY DEF C!IndInv
<1>1. PICK fd \in ready : ioev[fd] = e /\ ready' = ready \ {fd}
  BY DEF C!Dispatch
<1>2. /\ clpc = "dispatch" /\ evs[e].kind \in kinds
      /\ UNCHANGED <<secure, started, ioev, timers, batch, tgt, cspc, crashed>>
  BY DEF C!Dispatch, C!sendvars
<1>3. fd \in Fds /\ evs[e].fd = fd /\ fd # None /\ cur = None /\ batch = {}
  BY <1>0, <1>1, <1>2, NoneIs DEF C!LoopInv, C!TypeOK, C!QueueInv
<1>4. C!Live(e) /\ ~C!Husk(e)
  BY <1>0, <1>1, <1>3, NoneIs DEF C!RegistryInv, C!Husk
<1>5. evs[e].sid \in Sids \cup {None}
  BY <1>0 DEF C!TypeOK, C!EventRecords
<1>6. evs[e].sid # None /\ C!Alive(evs[e].sid) /\ ses[evs[e].sid].ev = e
  BY <1>0, <1>2, <1>3, <1>4 DEF C!SessionsInv
<1> QED
  BY <1>1, <1>2, <1>3, <1>4, <1>5, <1>6

(* An event that has what the other has. *)
SameOwner(h, r) == h.kind = r.kind /\ h.fd = r.fd /\ h.sid = r.sid

(* del_event(), permit_send(), forbid_write() and the end of the handshake change one field of an *)
(* event and leave its kind, descriptor and session alone.                                         *)
LEMMA RecordWrite ==
  ASSUME NEW r \in C!EventRecords
  PROVE  /\ LET h == [r EXCEPT !.status = "del"] IN h \in C!EventRecords /\ SameOwner(h, r) /\ h.status = "del"
         /\ \A b \in BOOLEAN : LET h == [r EXCEPT !.send = b] IN 
                 h \in C!EventRecords /\ SameOwner(h, r) /\ h.status = r.status
         /\ LET h == [r EXCEPT !.done = TRUE] IN h \in C!EventRecords /\ SameOwner(h, r) /\ h.status = r.status
<1>1. LET h == [r EXCEPT !.status = "del"] IN h \in C!EventRecords /\ SameOwner(h, r) /\ h.status = "del"
  BY DEF C!EventRecords, SameOwner
<1>2. ASSUME NEW b \in BOOLEAN
      PROVE  LET h == [r EXCEPT !.send = b] IN h \in C!EventRecords /\ SameOwner(h, r) /\ h.status = r.status
  BY DEF C!EventRecords, SameOwner
<1>3. LET h == [r EXCEPT !.done = TRUE] IN h \in C!EventRecords /\ SameOwner(h, r) /\ h.status = r.status
  BY DEF C!EventRecords, SameOwner
<1> QED
  BY <1>1, <1>2, <1>3

(* An event replaced by one with the same kind, descriptor and session. *)
LEMMA EventWrite ==
  ASSUME C!TypeOK, NEW e \in Events, NEW r \in C!EventRecords, SameOwner(r, evs[e]),
         evs' = [evs EXCEPT ![e] = r]
  PROVE  /\ evs' \in [Events -> C!EventRecords] /\ evs'[e] = r
         /\ \A f \in Events : f # e => evs'[f] = evs[f]
         /\ \A f \in Events : evs'[f].kind = evs[f].kind /\ evs'[f].fd = evs[f].fd /\ evs'[f].sid = evs[f].sid
<1>1. evs \in [Events -> C!EventRecords]
  BY DEF C!TypeOK
<1> HIDE DEF C!EventRecords
<1>2. /\ evs' \in [Events -> C!EventRecords] /\ evs'[e] = r
      /\ \A f \in Events : f # e => evs'[f] = evs[f]
  BY <1>1
<1> QED
  BY <1>2 DEF SameOwner

(* del_event() marks one event. *)
LEMMA StatusWrite ==
  ASSUME C!TypeOK, NEW e \in Events, evs' = [evs EXCEPT ![e].status = "del"]
  PROVE  /\ evs' \in [Events -> C!EventRecords] /\ evs'[e].status = "del"
         /\ \A f \in Events : f # e => evs'[f] = evs[f]
         /\ \A f \in Events : evs'[f].kind = evs[f].kind /\ evs'[f].fd = evs[f].fd /\ evs'[f].sid = evs[f].sid
<1>1. evs \in [Events -> C!EventRecords] /\ evs[e] \in C!EventRecords
  BY DEF C!TypeOK
<1> DEFINE r == [evs[e] EXCEPT !.status = "del"]
<1>2. evs' = [evs EXCEPT ![e] = r]
  BY <1>1
<1>3. r \in C!EventRecords /\ SameOwner(r, evs[e]) /\ r.status = "del"
  BY <1>1, RecordWrite
<1> HIDE DEF r
<1> QED
  BY <1>2, <1>3, EventWrite

(* permit_send() and forbid_write() change the interest of one event. *)
LEMMA SendWrite ==
  ASSUME C!TypeOK, NEW e \in Events, NEW b \in BOOLEAN, evs' = [evs EXCEPT ![e].send = b]
  PROVE  /\ evs' \in [Events -> C!EventRecords] /\ \A f \in Events : evs'[f].status = evs[f].status
         /\ \A f \in Events : f # e => evs'[f] = evs[f]
         /\ \A f \in Events : evs'[f].kind = evs[f].kind /\ evs'[f].fd = evs[f].fd /\ evs'[f].sid = evs[f].sid
<1>1. evs \in [Events -> C!EventRecords] /\ evs[e] \in C!EventRecords
  BY DEF C!TypeOK
<1> DEFINE r == [evs[e] EXCEPT !.send = b]
<1>2. evs' = [evs EXCEPT ![e] = r]
  BY <1>1
<1>3. r \in C!EventRecords /\ SameOwner(r, evs[e]) /\ r.status = evs[e].status
  BY <1>1, RecordWrite
<1> HIDE DEF r
<1> QED
  BY <1>2, <1>3, EventWrite

(* The handshake of one event is done. *)
LEMMA DoneWrite ==
  ASSUME C!TypeOK, NEW e \in Events, evs' = [evs EXCEPT ![e].done = TRUE]
  PROVE  /\ evs' \in [Events -> C!EventRecords] /\ \A f \in Events : evs'[f].status = evs[f].status
         /\ \A f \in Events : evs'[f].kind = evs[f].kind /\ evs'[f].fd = evs[f].fd /\ evs'[f].sid = evs[f].sid
<1>1. evs \in [Events -> C!EventRecords] /\ evs[e] \in C!EventRecords
  BY DEF C!TypeOK
<1> DEFINE r == [evs[e] EXCEPT !.done = TRUE]
<1>2. evs' = [evs EXCEPT ![e] = r]
  BY <1>1
<1>3. r \in C!EventRecords /\ SameOwner(r, evs[e]) /\ r.status = evs[e].status
  BY <1>1, RecordWrite
<1> HIDE DEF r
<1> QED
  BY <1>2, <1>3, EventWrite

(* handle_close() gives up the interest and marks the event. *)
LEMMA CloseWrite ==
  ASSUME C!TypeOK, NEW e \in Events, evs' = [evs EXCEPT ![e].send = FALSE, ![e].status = "del"]
  PROVE  /\ evs' \in [Events -> C!EventRecords] /\ evs'[e].status = "del"
         /\ \A f \in Events : f # e => evs'[f] = evs[f]
         /\ \A f \in Events : evs'[f].kind = evs[f].kind /\ evs'[f].fd = evs[f].fd /\ evs'[f].sid = evs[f].sid
<1>1. evs \in [Events -> C!EventRecords] /\ evs[e] \in C!EventRecords
  BY DEF C!TypeOK
<1> DEFINE q == [evs[e] EXCEPT !.send = FALSE]
           r == [q EXCEPT !.status = "del"]
<1>2. evs' = [evs EXCEPT ![e] = r]
  BY <1>1
<1>3. q \in C!EventRecords /\ SameOwner(q, evs[e])
  BY <1>1, RecordWrite
<1> HIDE DEF q
<1>4. r \in C!EventRecords /\ SameOwner(r, q) /\ r.status = "del"
  BY <1>3, RecordWrite
<1>5. SameOwner(r, evs[e])
  BY <1>3, <1>4 DEF SameOwner
<1> HIDE DEF r
<1> QED
  BY <1>2, <1>4, <1>5, EventWrite

(* set_close(), on_recv(), on_send() and check_timeouts() mark a session or take the mark off. *)
LEMMA SessionWrite ==
  ASSUME C!TypeOK, NEW s \in Sids, NEW b \in BOOLEAN, ses' = [ses EXCEPT ![s].closing = b] \/ ses' = ses
  PROVE  /\ ses' \in [Sids -> C!SessionRecords]
         /\ \A x \in Sids : ses'[x].mgr = ses[x].mgr /\ ses'[x].ev = ses[x].ev
<1>1. ses \in [Sids -> C!SessionRecords]
  BY DEF C!TypeOK
<1> DEFINE r == [ses[s] EXCEPT !.closing = b]
<1>2. r \in C!SessionRecords /\ r.mgr = ses[s].mgr /\ r.ev = ses[s].ev
  BY <1>1 DEF C!SessionRecords
<1>3. ses' = [ses EXCEPT ![s] = r] \/ ses' = ses
  BY <1>1
<1> HIDE DEF r
<1> QED
  BY <1>1, <1>2, <1>3

(* Handlers and calls that create, hand over and delete nothing. *)
LEMMA QuietSkip ==
  ASSUME C!IndInv, ~crashed, NEW e \in Events,
         \/ C!Skip(e)
         \/ C!Dispatch(e, {"passive", "ssl_passive"}) /\ UNCHANGED <<evs, ses, table, open, changes, clpc, cur>>
  PROVE  C!IndInv'
<1>0. C!TypeOK /\ C!SessionsInv
  BY DEF C!IndInv
<1>1. \E kinds : C!Dispatch(e, kinds)
  BY DEF C!Skip
<1>2. ready' \subseteq ready /\ UNCHANGED <<secure, started, ioev, timers, batch, tgt, cspc, crashed>>
  BY <1>1, Dispatched
<1>3. UNCHANGED <<evs, ses, table, open, changes, clpc, cur>>
  BY DEF C!Skip
<1>4. C!TypeOK'
  BY <1>0, <1>2, <1>3 DEF C!TypeOK
<1>5. \A t \in Threads : cspc'[t] # "idle" => tgt'[t] \in table
  BY <1>0, <1>2 DEF C!SessionsInv
<1> QED
  BY <1>2, <1>3, <1>4, <1>5, QuietConnections

(* A handler that marks its own event at most, and queues it when it does. *)
LEMMA QuietHandler ==
  ASSUME C!IndInv, ~crashed, NEW e \in Events, NEW kinds, C!Dispatch(e, kinds),
         evs' \in [Events -> C!EventRecords], ses' \in [Sids -> C!SessionRecords],
         \A f \in Events : evs'[f].kind = evs[f].kind /\ evs'[f].fd = evs[f].fd /\ evs'[f].sid = evs[f].sid,
         \A s \in Sids : ses'[s].mgr = ses[s].mgr /\ ses'[s].ev = ses[s].ev,
         \A f \in Events : evs'[f].status # evs[f].status => f = e /\ evs'[f].status = "del",
         changes' \in {changes, changes \cup {e}},
         changes' # changes => evs[e].kind \notin C!Dialing \/ evs'[e].status = "del",
         UNCHANGED <<table, open>>,
         UNCHANGED <<clpc, cur>> \/ (clpc' = "spin" /\ cur' = e)
  PROVE  C!IndInv'
<1>0. C!TypeOK /\ C!SessionsInv
  BY DEF C!IndInv
<1>1. /\ clpc = "dispatch" /\ cur = None /\ batch = {} /\ ready' \subseteq ready
      /\ C!Live(e) /\ ~C!Husk(e) 
      /\ evs[e].fd # None /\ ioev[evs[e].fd] = e /\ evs[e].sid # None
      /\ UNCHANGED <<secure, started, ioev, timers, batch, tgt, cspc, crashed>>
  BY Dispatched
<1>2. changes \subseteq changes' /\ changes' \subseteq Events /\ ready' \subseteq Fds
  BY <1>0, <1>1 DEF C!TypeOK
<1>3. C!TypeOK'
  BY <1>0, <1>1, <1>2 DEF C!TypeOK
<1>4. \A t \in Threads : cspc'[t] # "idle" => tgt'[t] \in table
  BY <1>0, <1>1 DEF C!SessionsInv
<1>5. \A f \in Events : evs'[f].status # evs[f].status =>
            /\ clpc \in {"dispatch", "spin"} /\ evs'[f].status = "del"
            /\ evs[f].fd # None /\ ioev[evs[f].fd] = f
  BY <1>1
<1>6. \A f \in changes' \ changes : 
            C!Live(f) /\ ~C!Husk(f) /\ (evs[f].kind \in C!Dialing => evs'[f].status = "del" /\ batch = {})
  BY <1>1
<1>7. \/ clpc' = clpc /\ cur' = cur
      \/ clpc = "dispatch" /\ clpc' = "spin" /\ C!Live(cur') /\ evs[cur'].fd # None
              /\ evs[cur'].sid # None /\ ioev[evs[cur'].fd] = cur' /\ cur' # None
  BY <1>1, NoneIs
<1> QED
  BY <1>1, <1>2, <1>3, <1>4, <1>5, <1>6, <1>7, QuietConnections

(* close_socket() and del_event() write what QuietHandler lets a handler write. *)
LEMMA DelEventWrites ==
  ASSUME C!TypeOK, NEW e \in Events, C!DelEvent(e)
  PROVE  /\ evs' \in [Events -> C!EventRecords]
         /\ \A f \in Events : evs'[f].kind = evs[f].kind /\ evs'[f].fd = evs[f].fd /\ evs'[f].sid = evs[f].sid
         /\ \A f \in Events : evs'[f].status # evs[f].status => f = e /\ evs'[f].status = "del"
         /\ changes' \in {changes, changes \cup {e}}
         /\ changes' # changes => evs'[e].status = "del"
<1>1. CASE evs' = [evs EXCEPT ![e].status = "del"] /\ changes' = changes \cup {e}
  <2>1. /\ evs' \in [Events -> C!EventRecords] /\ evs'[e].status = "del"
        /\ \A f \in Events : f # e => evs'[f] = evs[f]
        /\ \A f \in Events : evs'[f].kind = evs[f].kind /\ evs'[f].fd = evs[f].fd /\ evs'[f].sid = evs[f].sid
    BY <1>1, StatusWrite
  <2> QED
    BY <1>1, <2>1
<1>2. CASE UNCHANGED <<evs, changes>>
  BY <1>2 DEF C!TypeOK
<1> QED
  BY <1>1, <1>2 DEF C!DelEvent

(* forbid_write() writes what QuietHandler lets a handler write. *)
LEMMA ForbidWriteWrites ==
  ASSUME C!TypeOK, NEW e \in Events, C!ForbidWrite(e) \/ UNCHANGED <<evs, changes>>
  PROVE  /\ evs' \in [Events -> C!EventRecords]
         /\ \A f \in Events : evs'[f].kind = evs[f].kind /\ evs'[f].fd = evs[f].fd /\ evs'[f].sid = evs[f].sid
         /\ \A f \in Events : evs'[f].status = evs[f].status
         /\ changes' \in {changes, changes \cup {e}}
<1>1. CASE evs' = [evs EXCEPT ![e].send = FALSE] /\ changes' = changes \cup {e}
  <2>1. /\ evs' \in [Events -> C!EventRecords] /\ \A f \in Events : evs'[f].status = evs[f].status
        /\ \A f \in Events : evs'[f].kind = evs[f].kind /\ evs'[f].fd = evs[f].fd /\ evs'[f].sid = evs[f].sid
    BY <1>1, SendWrite
  <2> QED
    BY <1>1, <2>1
<1>2. CASE UNCHANGED <<evs, changes>>
  BY <1>2 DEF C!TypeOK
<1> QED
  BY <1>1, <1>2 DEF C!ForbidWrite

(* The handlers of a stream, of an SSL connection, and a connect() that fails. *)
LEMMA QuietHandlers ==
  ASSUME C!IndInv, ~crashed, NEW e \in Events,
         \/ C!Transfer(e) \/ C!Broken(e) \/ C!HandleClose(e)
         \/ C!Handshake(e) \/ C!SslWrite(e) \/ C!SslRead(e)
         \/ C!Dispatch(e, C!Dialing) /\ C!CloseSocket(e) /\ UNCHANGED <<table, open, clpc, cur>>
  PROVE  C!IndInv'
<1>0. C!TypeOK /\ evs \in [Events -> C!EventRecords] /\ ses \in [Sids -> C!SessionRecords]
  BY DEF C!IndInv, C!TypeOK
<1>d. ASSUME NEW kinds, C!Dispatch(e, kinds)
      PROVE  evs[e].sid \in Sids /\ evs[e].kind \in kinds
  BY <1>d, Dispatched
<1>s. ASSUME evs[e].sid \in Sids, NEW b \in BOOLEAN, ses' = [ses EXCEPT ![evs[e].sid].closing = b]
      PROVE  ses' \in [Sids -> C!SessionRecords] /\ \A s \in Sids : ses'[s].mgr = ses[s].mgr /\ ses'[s].ev = ses[s].ev
  BY <1>0, <1>s, SessionWrite
<1>1. CASE C!Transfer(e)
  <2>1. C!Dispatch(e, {"stream"}) /\ evs[e].kind \notin C!Dialing
    BY <1>1, <1>d DEF C!Transfer, C!Dialing
  <2>2. /\ ses' = [ses EXCEPT ![evs[e].sid].closing = FALSE] /\ UNCHANGED <<table, open, clpc, cur>>
        /\ C!ForbidWrite(e) \/ UNCHANGED <<evs, changes>>
    BY <1>1 DEF C!Transfer
  <2>3. ses' \in [Sids -> C!SessionRecords] /\ \A s \in Sids : ses'[s].mgr = ses[s].mgr /\ ses'[s].ev = ses[s].ev
    BY <1>d, <1>s, <2>1, <2>2
  <2> QED
    BY <1>0, <2>1, <2>2, <2>3, ForbidWriteWrites, QuietHandler
<1>2. CASE C!Broken(e)
  <2>1. C!Dispatch(e, {"stream"})
    BY <1>2 DEF C!Broken
  <2>2. /\ ses' = [ses EXCEPT ![evs[e].sid].closing = FALSE] /\ UNCHANGED <<table, open, clpc, cur>>
        /\ C!DelEvent(e)
    BY <1>2 DEF C!Broken
  <2>3. ses' \in [Sids -> C!SessionRecords] /\ \A s \in Sids : ses'[s].mgr = ses[s].mgr /\ ses'[s].ev = ses[s].ev
    BY <1>d, <1>s, <2>1, <2>2
  <2> QED
    BY <1>0, <2>1, <2>2, <2>3, DelEventWrites, QuietHandler
<1>3. CASE C!HandleClose(e)
  <2>1. C!Dispatch(e, {"stream"})
    BY <1>3 DEF C!HandleClose
  <2>2. /\ UNCHANGED <<ses, table, open, clpc, cur>>
        /\ evs' = [evs EXCEPT ![e].send = FALSE, ![e].status = "del"] /\ changes' = changes \cup {e}
    BY <1>3 DEF C!HandleClose
  <2>3. /\ evs' \in [Events -> C!EventRecords] /\ evs'[e].status = "del"
        /\ \A f \in Events : f # e => evs'[f] = evs[f]
        /\ \A f \in Events : evs'[f].kind = evs[f].kind /\ evs'[f].fd = evs[f].fd /\ evs'[f].sid = evs[f].sid
    BY <1>0, <2>2, CloseWrite
  <2>4. \A f \in Events : evs'[f].status # evs[f].status => f = e /\ evs'[f].status = "del"
    BY <2>3
  <2> QED
    BY <1>0, <2>1, <2>2, <2>3, <2>4, QuietHandler
<1>4. CASE C!Handshake(e)
  <2>1. C!Dispatch(e, {"ssl"}) /\ evs[e].kind \notin C!Dialing /\ UNCHANGED <<table, open, clpc, cur>>
    BY <1>4, <1>d DEF C!Handshake, C!Dialing
  <2>2. CASE evs' = [evs EXCEPT ![e].done = TRUE] /\ UNCHANGED <<ses, changes>>
    <3>1. /\ evs' \in [Events -> C!EventRecords] /\ \A f \in Events : evs'[f].status = evs[f].status
          /\ \A f \in Events : evs'[f].kind = evs[f].kind /\ evs'[f].fd = evs[f].fd /\ evs'[f].sid = evs[f].sid
      BY <1>0, <2>2, DoneWrite
    <3> QED
      BY <1>0, <2>1, <2>2, <3>1, QuietHandler
  <2>3. CASE UNCHANGED <<evs, ses, changes>>
    BY <1>0, <2>1, <2>3, QuietHandler
  <2>4. CASE C!CloseSocket(e)
    <3>1. ses' = [ses EXCEPT ![evs[e].sid].closing = TRUE] /\ C!DelEvent(e)
      BY <2>4 DEF C!CloseSocket
    <3>2. ses' \in [Sids -> C!SessionRecords] /\ \A s \in Sids : ses'[s].mgr = ses[s].mgr /\ ses'[s].ev = ses[s].ev
      BY <1>d, <1>s, <2>1, <3>1
    <3> QED
      BY <1>0, <2>1, <3>1, <3>2, DelEventWrites, QuietHandler
  <2> QED
    BY <1>4, <2>2, <2>3, <2>4 DEF C!Handshake
<1>5. CASE C!SslWrite(e)
  <2>1. /\ C!Dispatch(e, {"ssl"}) /\ evs[e].kind \notin C!Dialing /\ UNCHANGED <<ses, table, open, clpc, cur>>
        /\ C!ForbidWrite(e)
    BY <1>5, <1>d DEF C!SslWrite, C!Dialing
  <2> QED
    BY <1>0, <2>1, ForbidWriteWrites, QuietHandler
<1>6. CASE C!SslRead(e)
  <2>1. C!Dispatch(e, {"ssl"}) /\ clpc' = "spin" /\ cur' = e /\ UNCHANGED <<evs, ses, table, open, changes>>
    BY <1>6 DEF C!SslRead
  <2> QED
    BY <1>0, <2>1, QuietHandler
<1>7. CASE C!Dispatch(e, C!Dialing) /\ C!CloseSocket(e) /\ UNCHANGED <<table, open, clpc, cur>>
  <2>1. ses' = [ses EXCEPT ![evs[e].sid].closing = TRUE] /\ C!DelEvent(e)
    BY <1>7 DEF C!CloseSocket
  <2>2. ses' \in [Sids -> C!SessionRecords] /\ \A s \in Sids : ses'[s].mgr = ses[s].mgr /\ ses'[s].ev = ses[s].ev
    BY <1>7, <1>d, <1>s, <2>1
  <2> QED
    BY <1>0, <1>7, <2>1, <2>2, DelEventWrites, QuietHandler
<1> QED
  BY <1>1, <1>2, <1>3, <1>4, <1>5, <1>6, <1>7

(* The loop leaves SSL_read. *)
LEMMA QuietSpin ==
  ASSUME C!IndInv, ~crashed, C!SslReadFull \/ C!SslReadEnds
  PROVE  C!IndInv'
<1>0. C!TypeOK /\ C!LoopInv /\ C!SessionsInv /\ C!QueueInv
      /\ evs \in [Events -> C!EventRecords] /\ ses \in [Sids -> C!SessionRecords]
  BY DEF C!IndInv, C!TypeOK
<1>1. clpc = "spin" /\ clpc' = "dispatch" /\ cur' = None
      /\ UNCHANGED <<started, ioev, table, timers, open, batch, ready, tgt, cspc, crashed>>
  BY DEF C!SslReadFull, C!SslReadEnds, C!sendvars
<1>2. /\ cur \in Events /\ cur # None /\ C!Live(cur) /\ evs[cur].fd # None /\ evs[cur].sid # None 
      /\ ioev[evs[cur].fd] = cur /\ batch = {} /\ ~C!Husk(cur)
  BY <1>0, <1>1 DEF C!LoopInv, C!TypeOK, C!QueueInv, C!Husk
<1>3. evs[cur].sid \in Sids
  BY <1>0, <1>2 DEF C!EventRecords
<1>4. \A t \in Threads : cspc'[t] # "idle" => tgt'[t] \in table
  BY <1>0, <1>1 DEF C!SessionsInv
<1>5. CASE C!SslReadFull
  <2>1. UNCHANGED <<evs, ses, changes>>
    BY <1>5 DEF C!SslReadFull
  <2>2. C!TypeOK'
    BY <1>0, <1>1, <2>1 DEF C!TypeOK
  <2> QED
    BY <1>1, <1>2, <1>4, <2>1, <2>2, QuietConnections
<1>6. CASE C!SslReadEnds
  <2>1. ses' = [ses EXCEPT ![evs[cur].sid].closing = TRUE] /\ C!DelEvent(cur)
    BY <1>6 DEF C!SslReadEnds, C!CloseSocket
  <2>2. ses' \in [Sids -> C!SessionRecords] /\ \A s \in Sids : ses'[s].mgr = ses[s].mgr /\ ses'[s].ev = ses[s].ev
    BY <1>0, <1>3, <2>1, SessionWrite
  <2>3. /\ evs' \in [Events -> C!EventRecords]
        /\ \A f \in Events : evs'[f].kind = evs[f].kind /\ evs'[f].fd = evs[f].fd /\ evs'[f].sid = evs[f].sid
        /\ \A f \in Events : evs'[f].status # evs[f].status => f = cur /\ evs'[f].status = "del"
        /\ changes' \in {changes, changes \cup {cur}}
        /\ changes' # changes => evs'[cur].status = "del"
    BY <1>0, <1>2, <2>1, DelEventWrites
  <2>4. C!TypeOK'
    BY <1>0, <1>1, <1>2, <2>2, <2>3 DEF C!TypeOK
  <2>5. \A f \in Events : evs'[f].status # evs[f].status =>
            /\ clpc \in {"dispatch", "spin"} /\ evs'[f].status = "del"
            /\ evs[f].fd # None /\ ioev[evs[f].fd] = f
    BY <1>1, <1>2, <2>3
  <2>6. /\ changes \subseteq changes'
        /\ \A f \in changes' \ changes : 
            C!Live(f) /\ ~C!Husk(f) /\ (evs[f].kind \in C!Dialing => evs'[f].status = "del" /\ batch = {})
    BY <1>2, <2>3
  <2> QED
    BY <1>1, <1>4, <2>2, <2>3, <2>4, <2>5, <2>6, QuietConnections
<1> QED
  BY <1>5, <1>6

(* Senders and check_timeouts(). *)
LEMMA QuietThreads ==
  ASSUME C!IndInv, ~crashed,
         (\E t \in Threads : C!SendStep(t)) \/ (\E s \in Sids : C!CheckTimeouts(s))
  PROVE  C!IndInv'
<1>0. C!TypeOK /\ C!SessionsInv /\ evs \in [Events -> C!EventRecords] /\ ses \in [Sids -> C!SessionRecords]
      /\ tgt \in [Threads -> Sids \cup {None}] /\ cspc \in [Threads -> {"idle", "found", "queue"}]
  BY DEF C!IndInv, C!TypeOK
<1>i. \A t \in Threads : cspc[t] # "idle" => tgt[t] \in table
  BY <1>0 DEF C!SessionsInv
<1>e. ASSUME NEW t \in Threads, cspc[t] # "idle"
      PROVE  LET e == ses[tgt[t]].ev IN e \in Events /\ C!Live(e) /\ ~C!Husk(e) /\ evs[e].kind \notin C!Dialing
  <2>1. tgt[t] \in table /\ tgt[t] \in Sids
    BY <1>0, <1>i, <1>e DEF C!TypeOK
  <2> DEFINE s == tgt[t]
             e == ses[s].ev
  <2>2. C!Alive(s) /\ e # None /\ C!Live(e) /\ evs[e].sid = s /\ evs[e].kind = "stream"
    BY <1>0, <2>1 DEF C!SessionsInv
  <2>3. e \in Events
    BY <1>0, <2>1, <2>2 DEF C!SessionRecords
  <2> QED
    BY <2>1, <2>2, <2>3, NoneIs DEF C!Husk, C!Dialing
<1>1. ASSUME NEW t \in Threads, C!SendOctets(t)
      PROVE  C!IndInv'
  <2>1. PICK s \in table : tgt' = [tgt EXCEPT ![t] = s]
    BY <1>1 DEF C!SendOctets
  <2>2. /\ cspc' = [cspc EXCEPT ![t] = "found"]
        /\ UNCHANGED <<started, evs, ioev, ses, table, timers, open, changes, batch, clpc, ready, cur, crashed>>
    BY <1>1 DEF C!SendOctets, C!loopvars
  <2>3. s \in Sids
    BY <1>0 DEF C!TypeOK
  <2>4. C!TypeOK'
    BY <1>0, <2>1, <2>2, <2>3 DEF C!TypeOK
  <2>5. \A u \in Threads : cspc'[u] # "idle" => tgt'[u] \in table
    BY <1>0, <1>i, <2>1, <2>2
  <2> QED
    BY <2>2, <2>4, <2>5, QuietConnections
<1>2. ASSUME NEW t \in Threads, C!PermitSend(t)
      PROVE  C!IndInv'
  <2> DEFINE e == ses[tgt[t]].ev
  <2>1. /\ cspc[t] = "found"
        /\ UNCHANGED <<started, ioev, ses, table, timers, open, changes, batch, clpc, ready, cur, crashed>>
    BY <1>2 DEF C!PermitSend, C!loopvars
  <2>2. e \in Events
    BY <1>e, <2>1
  <2>3. \/ /\ tgt' = [tgt EXCEPT ![t] = None] /\ cspc' = [cspc EXCEPT ![t] = "idle"] /\ UNCHANGED evs
        \/ /\ evs' = [evs EXCEPT ![e].send = TRUE] /\ cspc' = [cspc EXCEPT ![t] = "queue"] /\ UNCHANGED tgt
    BY <1>2 DEF C!PermitSend
  <2> HIDE DEF e
  <2>4. /\ tgt' \in [Threads -> Sids \cup {None}] /\ cspc' \in [Threads -> {"idle", "found", "queue"}]
        /\ \A u \in Threads : cspc'[u] # "idle" => tgt'[u] \in table
    BY <1>0, <1>i, <2>1, <2>3
  <2>5. /\ evs' \in [Events -> C!EventRecords] /\ \A f \in Events : evs'[f].status = evs[f].status
        /\ \A f \in Events : evs'[f].kind = evs[f].kind /\ evs'[f].fd = evs[f].fd /\ evs'[f].sid = evs[f].sid
    BY <1>0, <2>2, <2>3, SendWrite
  <2>6. C!TypeOK'
    BY <1>0, <2>1, <2>4, <2>5 DEF C!TypeOK
  <2> QED
    BY <2>1, <2>4, <2>5, <2>6, QuietConnections
<1>3. ASSUME NEW t \in Threads, C!Queue(t)
      PROVE  C!IndInv'
  <2> DEFINE e == ses[tgt[t]].ev
  <2>1. /\ cspc[t] = "queue" /\ tgt' = [tgt EXCEPT ![t] = None] /\ cspc' = [cspc EXCEPT ![t] = "idle"]
        /\ UNCHANGED <<started, evs, ioev, ses, table, timers, open, batch, clpc, ready, cur>>
    BY <1>3 DEF C!Queue, C!loopvars
  <2>2. e \in Events /\ C!Live(e) /\ ~C!Husk(e) /\ evs[e].kind \notin C!Dialing
    BY <1>e, <2>1
  <2>3. crashed' = TRUE \/ (changes' = changes \cup {e} /\ UNCHANGED crashed)
    BY <1>3 DEF C!Queue
  <2> HIDE DEF e
  <2>4. CASE crashed' = TRUE
    BY <2>4 DEF C!IndInv
  <2>5. CASE changes' = changes \cup {e}
    <3>1. /\ tgt' \in [Threads -> Sids \cup {None}] /\ cspc' \in [Threads -> {"idle", "found", "queue"}]
          /\ \A u \in Threads : cspc'[u] # "idle" => tgt'[u] \in table
      BY <1>0, <1>i, <2>1
    <3>2. C!TypeOK'
      BY <1>0, <2>1, <2>2, <2>5, <3>1 DEF C!TypeOK
    <3> QED
      BY <2>1, <2>2, <2>5, <3>1, <3>2, QuietConnections
  <2> QED
    BY <2>3, <2>4, <2>5
<1>4. ASSUME NEW s \in Sids, C!CheckTimeouts(s)
      PROVE  C!IndInv'
  <2>1. /\ ses' = [ses EXCEPT ![s].closing = TRUE]
        /\ UNCHANGED <<started, evs, ioev, table, timers, open, changes, batch, clpc, ready, cur, tgt, cspc, crashed>>
    BY <1>4 DEF C!CheckTimeouts, C!loopvars, C!sendvars
  <2>2. ses' \in [Sids -> C!SessionRecords] /\ \A x \in Sids : ses'[x].mgr = ses[x].mgr /\ ses'[x].ev = ses[x].ev
    BY <1>0, <2>1, SessionWrite
  <2>3. C!TypeOK'
    BY <1>0, <2>1, <2>2 DEF C!TypeOK
  <2> QED
    BY <1>i, <2>1, <2>2, <2>3, QuietConnections
<1> QED
  BY <1>1, <1>2, <1>3, <1>4 DEF C!SendStep

(* A new session with a new event: queued by connect() and listen(), or in the loop's hands. *)
LEMMA BirthStep ==
  ASSUME C!IndInv, ~crashed, C!TypeOK', NEW n \in Events, NEW s \in Sids, NEW m \in Managers,
         ~C!Live(n), n \notin changes \cup batch, ~C!Alive(s),
         \A e \in Events : e # n => evs'[e] = evs[e],
         evs'[n].kind # "free", evs'[n].fd \notin open, evs'[n].sid = s, evs'[n].status = "none",
         \A x \in Sids : x # s => ses'[x] = ses[x],
         ses'[s].mgr = m, ses'[s].ev = n,
         open' = open \cup ({evs'[n].fd} \ {None}),
         UNCHANGED <<ioev, batch, tgt, cspc>>,
         ready' \subseteq ready,
         evs'[n].kind \in {"passive", "ssl_passive"} => m \notin Clients,
         \A c \in Clients : c # m => timers'[c] = timers[c] /\ (c \in started' <=> c \in started),
         \/ /\ UNCHANGED <<clpc, cur, table>> /\ changes' = changes \cup {n}
            /\ m \in Clients => m \in started' /\ timers'[m] = 0 /\ C!Mine(m) = {}
         \/ /\ clpc = "dispatch" /\ clpc' = "arm" /\ cur' = n /\ evs'[n].fd # None
            /\ evs'[n].kind \notin C!Dialing /\ changes' = changes /\ m \notin Clients
            /\ table' = table \/ (evs'[n].kind = "stream" /\ table' = table \cup {s})
  PROVE  C!IndInv'
<1>0. C!TypeOK /\ C!FdsInv /\ C!RegistryInv /\ C!QueueInv /\ C!LoopInv /\ C!SessionsInv /\ C!ChainInv
  BY DEF C!IndInv
<1>t. /\ \A e \in Events : evs[e].fd \in Fds \cup {None} /\ evs[e].sid \in Sids \cup {None}
      /\ \A fd \in Fds \cup {None} : ioev[fd] \in Events \cup {None}
      /\ \A x \in Sids : ses[x].ev \in Events \cup {None}
      /\ changes \subseteq Events /\ batch \subseteq Events /\ ready \subseteq Fds /\ table \subseteq Sids
      /\ cur \in Events \cup {None} /\ open \subseteq Fds
  BY <1>0 DEF C!TypeOK, C!EventRecords, C!SessionRecords
<1>u. evs'[n].fd \in Fds \cup {None}
  BY DEF C!TypeOK, C!EventRecords
<1>1. /\ \A e \in Events : e # n => (C!Live(e)' <=> C!Live(e)) /\ (C!Husk(e)' <=> C!Husk(e))
      /\ C!Live(n)' /\ ~C!Husk(n)'
      /\ \A x \in Sids : x # s => (C!Alive(x)' <=> C!Alive(x))
      /\ C!Alive(s)'
  BY NoneIs DEF C!Live, C!Alive, C!Husk
<1>2. /\ \A fd \in Fds \cup {None} : ioev[fd] # n
      /\ \A e \in Events : C!Live(e) => evs[e].fd \in open \cup {None} /\ evs[e].sid # s
      /\ s \notin table
      /\ clpc = "arm" => cur # n
  <2>1. \A fd \in Fds \cup {None} : ioev[fd] # n
    BY <1>0, NoneIs DEF C!RegistryInv
  <2>2. \A e \in Events : C!Live(e) => evs[e].fd \in open \cup {None} /\ evs[e].sid # s
    BY <1>0, NoneIs DEF C!FdsInv, C!SessionsInv
  <2>3. s \notin table
    BY <1>0 DEF C!SessionsInv
  <2>4. clpc = "arm" => cur # n
    BY <1>0 DEF C!LoopInv
  <2> QED
    BY <2>1, <2>2, <2>3, <2>4
<1>3. C!FdsInv'
  <2>1. \A e \in Events : C!Live(e)' => evs'[e].fd \in open' \cup {None}
    BY <1>1, <1>2
  <2>2. \A fd \in open' : \E e \in Events : C!Live(e)' /\ evs'[e].fd = fd
    <3>1. \A fd \in open : \E e \in Events : C!Live(e) /\ evs[e].fd = fd
      BY <1>0 DEF C!FdsInv
    <3> QED
      BY <1>1, <3>1
  <2>3. ASSUME NEW e \in Events, NEW f \in Events, C!Live(e)', C!Live(f)', evs'[e].fd = evs'[f].fd, evs'[e].fd # None
        PROVE  e = f \/ (clpc' = "arm" /\ cur' \in {e, f} /\ ioev[evs'[e].fd] \in {e, f})
    <3>1. CASE e = n \/ f = n
      BY <1>1, <1>2, <2>3, <3>1
    <3>2. CASE e # n /\ f # n
      <4>1. e = f \/ (clpc = "arm" /\ cur \in {e, f} /\ ioev[evs[e].fd] \in {e, f})
        BY <1>0, <1>1, <2>3, <3>2 DEF C!FdsInv
      <4> QED
        BY <3>2, <4>1
    <3> QED
      BY <3>1, <3>2
  <2> QED
    BY <2>1, <2>2, <2>3 DEF C!FdsInv
<1>4. C!RegistryInv'
  <2>1. \A x \in C!Pending : x \in C!Pending' /\ x \in Events /\ x # n
    BY <1>0, <1>t DEF C!Pending
  <2>2. ASSUME NEW fd \in Fds, ioev[fd] # None
        PROVE  /\ C!Live(ioev[fd])' /\ fd \in open'
               /\ \/ evs'[ioev[fd]].fd = fd
                  \/ C!Husk(ioev[fd])' /\ \E x \in C!Pending' : C!Live(x)' /\ evs'[x].fd = fd /\ evs'[x].status = "add"
    <3>1. /\ C!Live(ioev[fd]) /\ fd \in open /\ ioev[fd] \in Events /\ ioev[fd] # n
          /\ \/ evs[ioev[fd]].fd = fd
             \/ C!Husk(ioev[fd]) /\ \E x \in C!Pending : C!Live(x) /\ evs[x].fd = fd /\ evs[x].status = "add"
      BY <1>0, <1>2, <1>t, <2>2 DEF C!RegistryInv
    <3> QED
      BY <1>1, <2>1, <3>1
  <2>3. \A e \in Events : C!Live(e)' /\ evs'[e].status = "del" => evs'[e].fd # None /\ ioev[evs'[e].fd] = e
    BY <1>0, <1>1 DEF C!RegistryInv
  <2>4. /\ ioev[None] # None => C!Live(ioev[None])' /\ evs'[ioev[None]].fd = None /\ evs'[ioev[None]].sid # None
        /\ \A fd, gd \in Fds : ioev[fd] = ioev[gd] /\ ioev[fd] # None => fd = gd
    BY <1>0, <1>1, <1>2, <1>t DEF C!RegistryInv
  <2> QED
    BY <2>2, <2>3, <2>4 DEF C!RegistryInv
<1>5. C!QueueInv'
  <2>1. clpc' # "apply" => batch' = {}
    BY <1>0 DEF C!QueueInv
  <2>2. \A e \in Events : C!Live(e)' /\ evs'[e].kind \in C!Dialing =>
          ~(e \in changes' /\ e \in batch') /\ (evs'[e].status = "add" => e \notin changes' \cup batch')
    BY <1>0, <1>1 DEF C!QueueInv
  <2>3. \A e \in Events : C!Husk(e)' => e \notin changes' \cup batch'
    BY <1>0, <1>1 DEF C!QueueInv
  <2> QED
    BY <2>1, <2>2, <2>3 DEF C!QueueInv, C!Dialing
<1>6. C!LoopInv'
  <2>1. clpc' \in {"dispatch", "arm", "spin"} => \A fd \in ready' : ioev[fd] # None /\ evs'[ioev[fd]].fd = fd
    BY <1>0, <1>2, <1>t DEF C!LoopInv
  <2>2. CASE UNCHANGED <<clpc, cur>>
    <3>1. clpc \in {"arm", "spin"} => cur \in Events /\ cur # n /\ C!Live(cur)
      BY <1>0, <1>t DEF C!LoopInv
    <3>2. /\ clpc' \notin {"arm", "spin"} => cur' = None
          /\ clpc' \in {"arm", "spin"} => cur' # None /\ C!Live(cur)' /\ evs'[cur].fd # None /\ evs'[cur].sid # None
          /\ clpc' = "spin" => ioev[evs'[cur].fd] = cur
      BY <1>0, <1>1, <2>2, <3>1 DEF C!LoopInv
    <3>3. ASSUME clpc' = "arm"
          PROVE  LET old == ioev[evs'[cur].fd] IN
               /\ evs'[cur].fd \notin ready' /\ evs'[cur].kind \notin C!Dialing /\ evs'[cur].status = "none"
               /\ \A fd \in Fds \cup {None} : ioev[fd] # cur
               /\ old # None => /\ evs'[old].fd = evs'[cur].fd /\ evs'[old].sid = evs'[cur].sid
                                /\ evs'[old].kind \in C!Dialing /\ evs'[old].status = "add"
               /\ old = None => ses'[evs'[cur].sid].mgr \notin Clients
      <4>1. clpc = "arm" /\ cur \in Events /\ evs'[cur] = evs[cur]
        BY <2>2, <3>1, <3>3
      <4>5. ses'[evs[cur].sid] = ses[evs[cur].sid]
        BY <1>0, <1>2, <1>t, <3>1, <4>1 DEF C!LoopInv
      <4> DEFINE old == ioev[evs[cur].fd]
      <4>2. old \in Events \cup {None} /\ old # n
        BY <1>2, <1>t, <4>1
      <4>3. /\ evs[cur].fd \notin ready /\ evs[cur].kind \notin C!Dialing /\ evs[cur].status = "none"
            /\ \A fd \in Fds \cup {None} : ioev[fd] # cur
            /\ old # None => /\ evs[old].fd = evs[cur].fd /\ evs[old].sid = evs[cur].sid
                             /\ evs[old].kind \in C!Dialing /\ evs[old].status = "add"
            /\ old = None => ses[evs[cur].sid].mgr \notin Clients
        BY <1>0, <4>1 DEF C!LoopInv
      <4>4. old # None => evs'[old] = evs[old]
        BY <4>2
      <4> QED
        BY <4>1, <4>3, <4>4, <4>5
    <3> QED
      BY <2>1, <2>2, <3>2, <3>3 DEF C!LoopInv, C!Live, C!Dialing
  <2>3. CASE clpc = "dispatch" /\ clpc' = "arm" /\ cur' = n /\ evs'[n].fd # None /\ evs'[n].kind \notin C!Dialing
    <3>1. ioev[evs'[n].fd] = None
      BY <1>0, <1>u, <2>3 DEF C!RegistryInv
    <3>2. evs'[n].fd \notin ready'
      BY <1>0, <2>3, <3>1 DEF C!LoopInv
    <3> QED
      BY <1>1, <1>2, <2>1, <2>3, <3>1, <3>2, NoneIs DEF C!LoopInv, C!Live, C!Dialing
  <2> QED
    BY <2>2, <2>3
<1>7. C!SessionsInv'
  <2>1. \A x \in Sids : C!Alive(x)' => ses'[x].ev # None /\ C!Live(ses[x].ev)' /\ evs'[ses'[x].ev].sid = x
    <3>1. \A x \in Sids : C!Alive(x) => ses[x].ev \in Events /\ C!Live(ses[x].ev) /\ evs[ses[x].ev].sid = x
      BY <1>0, <1>t DEF C!SessionsInv
    <3> QED
      BY <1>1, <3>1, NoneIs
  <2>2. ASSUME NEW e \in Events, C!Live(e)'
        PROVE  /\ evs'[e].sid = None => evs'[e].fd = None
               /\ evs'[e].sid # None =>
                    /\ C!Alive(evs[e].sid)'
                    /\ ses'[evs'[e].sid].ev = e
                         \/ (clpc' = "arm" /\ e = ioev[evs'[cur'].fd] /\ ses'[evs'[e].sid].ev = cur')
                    /\ evs'[e].kind \in {"passive", "ssl_passive"} => ses'[evs'[e].sid].mgr \notin Clients
    <3>1. CASE e = n
      BY <1>1, <3>1, NoneIs
    <3>2. CASE e # n
      <4>1. C!Live(e) /\ evs'[e] = evs[e] /\ evs[e].sid \in Sids \cup {None} /\ evs[e].sid # s
        BY <1>1, <1>2, <1>t, <2>2, <3>2
      <4>2. /\ evs[e].sid = None => evs[e].fd = None
            /\ evs[e].sid # None =>
                    /\ C!Alive(evs[e].sid)
                    /\ ses[evs[e].sid].ev = e
                         \/ (clpc = "arm" /\ e = ioev[evs[cur].fd] /\ ses[evs[e].sid].ev = cur)
                    /\ evs[e].kind \in {"passive", "ssl_passive"} => ses[evs[e].sid].mgr \notin Clients
        BY <1>0, <4>1 DEF C!SessionsInv
      <4>3. clpc = "arm" => clpc' = "arm" /\ cur' = cur /\ cur \in Events /\ evs'[cur] = evs[cur]
        BY <1>0, <1>2, <1>t DEF C!LoopInv
      <4>4. evs[e].sid # None => ses'[evs[e].sid] = ses[evs[e].sid] /\ (C!Alive(evs[e].sid)' <=> C!Alive(evs[e].sid))
        BY <1>1, <4>1
      <4> QED
        BY <4>1, <4>2, <4>3, <4>4
    <3> QED
      BY <3>1, <3>2
  <2>3. \A x \in table' : C!Alive(x)' /\ evs'[ses'[x].ev].kind = "stream"
    <3>1. \A x \in table : x \in Sids /\ x # s /\ C!Alive(x) /\ evs[ses[x].ev].kind = "stream" /\ ses[x].ev \in Events /\ C!Live(ses[x].ev)
      BY <1>0, <1>2, <1>t DEF C!SessionsInv
    <3>2. \A x \in table : C!Alive(x)' /\ evs'[ses'[x].ev].kind = "stream"
      BY <1>1, <3>1
    <3> QED
      BY <1>1, <3>2
  <2>4. \A t \in Threads : cspc'[t] # "idle" => tgt'[t] \in table'
    BY <1>0 DEF C!SessionsInv
  <2> QED
    BY <2>1, <2>2, <2>3, <2>4 DEF C!SessionsInv
<1>8. C!ChainInv'
  <2>1. \A e \in Events : e # n => (C!Owns(e)' <=> C!Owns(e))
    BY <1>1, <1>0, <1>2 DEF C!Owns, C!LoopInv
  <2>2. \A e \in Events : e # n /\ C!Live(e) /\ evs[e].sid # None => ses'[evs'[e].sid] = ses[evs[e].sid] /\ evs'[e].sid = evs[e].sid
    BY <1>2, <1>t
  <2>3. ~C!Owns(n)
    BY DEF C!Owns
  <2>4. ASSUME NEW c \in Clients, c # m
        PROVE  C!Mine(c)' = C!Mine(c)
    <3>1. \A e \in Events : e # n => (e \in C!Mine(c)' <=> e \in C!Mine(c))
      BY <2>1, <2>2 DEF C!Mine, C!Owns
    <3>2. n \notin C!Mine(c)' /\ n \notin C!Mine(c)
      BY <2>3, <2>4 DEF C!Mine
    <3> QED
      BY <3>1, <3>2 DEF C!Mine
  <2>5. ASSUME m \in Clients
        PROVE  C!Mine(m)' = {n} /\ m \in started' /\ timers'[m] = 0
    <3>1. /\ UNCHANGED <<clpc, cur, table>> /\ C!Mine(m) = {} /\ m \in started' /\ timers'[m] = 0
      BY <2>5
    <3>2. C!Owns(n)'
      BY <1>0, <1>1, <1>2, <3>1 DEF C!Owns, C!LoopInv
    <3>3. \A e \in Events : e # n => ~(e \in C!Mine(m)')
      BY <2>1, <2>2, <3>1 DEF C!Mine, C!Owns
    <3>4. n \in C!Mine(m)'
      BY <3>2, NoneIs DEF C!Mine
    <3> QED
      BY <3>1, <3>3, <3>4 DEF C!Mine
  <2> QED
    BY <1>0, <2>4, <2>5 DEF C!ChainInv
<1> QED
  BY <1>3, <1>4, <1>5, <1>6, <1>7, <1>8 DEF C!IndInv

(* What creating an event or a session writes. *)
EventOf(kind, fd, s) == [C!NoEvent EXCEPT !.kind = kind, !.fd = fd, !.sid = s]
SessionOf(m, e, b) == [mgr |-> m, ev |-> e, closing |-> b]

(* The constructor of an event: no status yet, and nobody else changes. *)
LEMMA EventBorn ==
  ASSUME C!TypeOK, NEW kind \in C!Kinds, NEW fd \in Fds \cup {None}, NEW s \in Sids, NEW e \in Events,
         evs' = [evs EXCEPT ![e] = EventOf(kind, fd, s)]
  PROVE  /\ evs' \in [Events -> C!EventRecords]
         /\ \A f \in Events : f # e => evs'[f] = evs[f]
         /\ evs'[e].kind = kind /\ evs'[e].fd = fd /\ evs'[e].sid = s /\ evs'[e].status = "none"
<1>1. evs \in [Events -> C!EventRecords]
  BY DEF C!TypeOK
<1>2. /\ EventOf(kind, fd, s) \in C!EventRecords
      /\ EventOf(kind, fd, s).kind = kind /\ EventOf(kind, fd, s).fd = fd
      /\ EventOf(kind, fd, s).sid = s /\ EventOf(kind, fd, s).status = "none"
  BY DEF C!NoEvent, C!EventRecords, EventOf
<1>3. /\ evs' \in [Events -> C!EventRecords] /\ \A f \in Events : f # e => evs'[f] = evs[f]
      /\ evs'[e] = EventOf(kind, fd, s)
  BY <1>1, <1>2
<1> QED
  BY <1>2, <1>3

(* create_session(), dup() and the handover write one session. *)
LEMMA SessionBorn ==
  ASSUME C!TypeOK, NEW s \in Sids, NEW m \in Managers, NEW e \in Events, NEW b \in BOOLEAN,
         ses' = [ses EXCEPT ![s] = SessionOf(m, e, b)]
  PROVE  /\ ses' \in [Sids -> C!SessionRecords]
         /\ \A x \in Sids : x # s => ses'[x] = ses[x]
         /\ ses'[s].mgr = m /\ ses'[s].ev = e
<1>1. ses \in [Sids -> C!SessionRecords]
  BY DEF C!TypeOK
<1>2. /\ SessionOf(m, e, b) \in C!SessionRecords
      /\ SessionOf(m, e, b).mgr = m /\ SessionOf(m, e, b).ev = e
  BY DEF C!SessionRecords, SessionOf
<1>3. /\ ses' \in [Sids -> C!SessionRecords] /\ \A x \in Sids : x # s => ses'[x] = ses[x]
      /\ ses'[s] = SessionOf(m, e, b)
  BY <1>1, <1>2
<1> QED
  BY <1>2, <1>3

(* A new name is nobody's, and a new descriptor is not open. *)
LEMMA Fresh ==
  /\ \A e \in Events : C!FreshEvent(e) => ~C!Live(e) /\ e \notin changes \cup batch
  /\ \A s \in Sids : C!FreshSid(s) => ~C!Alive(s)
  /\ C!TypeOK => \A fd \in Fds \cup {None} : C!FreeFd(fd) \/ fd = None => fd \notin open
  /\ \A fd : fd \in C!Least(Fds \ open) => fd \in Fds /\ fd \notin open
<1>1. C!TypeOK => None \notin open
  BY NoneIs DEF C!TypeOK
<1> QED
  BY <1>1 DEF C!FreshEvent, C!FreshSid, C!FreeFd, C!Least

(* connect() and listen(), called by main() or by the reconnect timer. *)
LEMMA NewEventStep ==
  ASSUME C!IndInv, ~crashed, NEW m \in Managers, NEW kind \in C!Kinds \ {"free"}, NEW fd \in Fds \cup {None},
         C!FreeFd(fd) \/ fd = None, C!NewEvent(m, kind, fd),
         kind \in {"passive", "ssl_passive"} => m \notin Clients,
         UNCHANGED <<ioev, table, batch, clpc, ready, cur, tgt, cspc, crashed>>,
         timers' \in [Managers -> Nat],
         \A c \in Clients : c # m => timers'[c] = timers[c] /\ (c \in started' <=> c \in started),
         m \in Clients => m \in started' /\ timers'[m] = 0 /\ C!Mine(m) = {}
  PROVE  C!IndInv'
<1>0. C!TypeOK
  BY DEF C!IndInv
<1>1. PICK e \in Events, s \in Sids, b \in BOOLEAN :
        /\ C!FreshEvent(e) /\ C!FreshSid(s)
        /\ ses' = [ses EXCEPT ![s] = SessionOf(m, e, b)]
        /\ evs' = [evs EXCEPT ![e] = EventOf(kind, fd, s)]
        /\ open' = open \cup ({fd} \ {None})
        /\ changes' = changes \cup {e}
  BY DEF C!NewEvent, C!CreateSession, EventOf, SessionOf
<1>k. kind \in C!Kinds
  OBVIOUS
<1>e. /\ evs' \in [Events -> C!EventRecords]
      /\ \A f \in Events : f # e => evs'[f] = evs[f]
      /\ evs'[e].kind = kind /\ evs'[e].fd = fd /\ evs'[e].sid = s /\ evs'[e].status = "none"
  BY <1>0, <1>1, <1>k, EventBorn
<1>2. /\ ses' \in [Sids -> C!SessionRecords]
      /\ \A x \in Sids : x # s => ses'[x] = ses[x]
      /\ ses'[s].mgr = m /\ ses'[s].ev = e
  BY <1>0, <1>1, SessionBorn
<1>3. ~C!Live(e) /\ e \notin changes \cup batch /\ ~C!Alive(s) /\ fd \notin open
  BY <1>0, <1>1, Fresh
<1>4. C!TypeOK'
  <2>1. open' \subseteq Fds /\ changes' \subseteq Events
    BY <1>0, <1>1 DEF C!TypeOK
  <2> QED
    BY <1>0, <1>e, <1>2, <2>1 DEF C!TypeOK
<1>5. open' = open \cup ({evs'[e].fd} \ {None}) /\ evs'[e].fd \notin open /\ evs'[e].kind # "free"
  BY <1>1, <1>3, <1>e
<1> QED
  BY <1>1, <1>e, <1>2, <1>3, <1>4, <1>5, BirthStep

(* A client has nothing under way when main() or its timer calls connect(). *)
LEMMA BirthConnect ==
  ASSUME C!IndInv, ~crashed, NEW m \in Managers, C!Start(m) \/ C!Reconnect(m)
  PROVE  C!IndInv'
<1>0. C!TypeOK /\ C!ChainInv /\ timers \in [Managers -> Nat]
  BY DEF C!IndInv, C!TypeOK
<1>1. UNCHANGED <<ioev, table, batch, clpc, ready, cur, tgt, cspc, crashed>>
  BY DEF C!Start, C!Reconnect, C!loopvars, C!sendvars
<1>2. /\ timers' \in [Managers -> Nat]
      /\ \A c \in Clients : c # m => timers'[c] = timers[c] /\ (c \in started' <=> c \in started)
  <2>1. CASE C!Start(m)
    BY <1>0, <2>1, NoneIs DEF C!Start
  <2>2. CASE C!Reconnect(m)
    BY <1>0, <2>2, NoneIs DEF C!Reconnect
  <2> QED
    BY <2>1, <2>2
<1>3. m \in Clients => m \in started' /\ timers'[m] = 0 /\ C!Mine(m) = {}
  <2> SUFFICES ASSUME m \in Clients PROVE m \in started' /\ timers'[m] = 0 /\ C!Mine(m) = {}
    OBVIOUS
  <2>1. CASE C!Start(m)
    BY <1>0, <2>1 DEF C!Start, C!ChainInv
  <2>2. CASE C!Reconnect(m)
    <3>1. timers[m] > 0 /\ timers' = [timers EXCEPT ![m] = @ - 1] /\ UNCHANGED started
      BY <2>2 DEF C!Reconnect
    <3>2. m \in started /\ timers[m] = 1 /\ C!Mine(m) = {}
      BY <1>0, <3>1 DEF C!ChainInv
    <3> QED
      BY <1>0, <3>1, <3>2
  <2> QED
    BY <2>1, <2>2
<1>4. PICK kind \in C!Kinds \ {"free"}, fd \in Fds \cup {None} :
        /\ C!FreeFd(fd) \/ fd = None
        /\ C!NewEvent(m, kind, fd)
        /\ kind \in {"passive", "ssl_passive"} => m \notin Clients
  <2>1. CASE C!Connect(m)
    BY <2>1 DEF C!Connect, C!Active, C!SecureActive, C!Kinds
  <2>2. CASE C!Listen(m) /\ m \notin Clients
    BY <2>2 DEF C!Listen, C!Passive, C!SecurePassive, C!Kinds
  <2> QED
    BY <2>1, <2>2 DEF C!Start, C!Reconnect
<1> QED
  BY <1>1, <1>2, <1>3, <1>4, NewEventStep

(* accept() succeeds. *)
LEMMA BirthAccept ==
  ASSUME C!IndInv, ~crashed, NEW e \in Events, C!Accept(e) \/ C!AcceptSsl(e)
  PROVE  C!IndInv'
<1>0. C!TypeOK /\ C!SessionsInv
  BY DEF C!IndInv
<1> DEFINE m == ses[evs[e].sid].mgr
<1>1. PICK kinds : C!Dispatch(e, kinds) /\ kinds \in {{"passive"}, {"ssl_passive"}}
  BY DEF C!Accept, C!AcceptSsl
<1>2. CASE UNCHANGED <<evs, ses, table, open, changes, clpc, cur>>
  <2>1. C!Dispatch(e, {"passive", "ssl_passive"})
    BY <1>1 DEF C!Dispatch
  <2> QED
    BY <1>2, <2>1, QuietSkip
<1>3. /\ clpc = "dispatch" /\ ready' \subseteq ready /\ evs[e].sid \in Sids /\ evs[e].sid # None
      /\ C!Live(e) /\ C!Alive(evs[e].sid) /\ evs[e].kind \in kinds
      /\ UNCHANGED <<secure, started, ioev, timers, batch, tgt, cspc, crashed>>
  BY <1>1, Dispatched
<1>4. m \in Managers /\ m \notin Clients
  <2>1. m \in Managers
    BY <1>0, <1>3 DEF C!TypeOK, C!SessionRecords, C!Alive
  <2> QED
    BY <1>0, <1>1, <1>3, <2>1 DEF C!SessionsInv
<1> HIDE DEF m
<1>5. ASSUME NEW fd \in C!Least(Fds \ open), NEW n \in Events, NEW s \in Sids, NEW b \in BOOLEAN,
             NEW kind \in {"stream", "ssl"},
             C!FreshEvent(n), C!FreshSid(s),
             ses' = [ses EXCEPT ![s] = SessionOf(m, n, b)],
             evs' = [evs EXCEPT ![n] = EventOf(kind, fd, s)],
             open' = open \cup {fd}, clpc' = "arm", cur' = n, changes' = changes,
             table' = table \/ (kind = "stream" /\ table' = table \cup {s})
      PROVE  C!IndInv'
  <2>1. fd \in Fds /\ fd \notin open /\ fd # None /\ ~C!Live(n) /\ n \notin changes \cup batch /\ ~C!Alive(s)
    BY <1>5, Fresh, NoneIs
  <2>2. kind \in C!Kinds /\ kind \notin C!Dialing /\ kind \notin {"passive", "ssl_passive"} /\ kind # "free"
    BY DEF C!Kinds, C!Dialing
  <2>e. /\ evs' \in [Events -> C!EventRecords]
        /\ \A f \in Events : f # n => evs'[f] = evs[f]
        /\ evs'[n].kind = kind /\ evs'[n].fd = fd /\ evs'[n].sid = s /\ evs'[n].status = "none"
    <3>1. C!TypeOK /\ kind \in C!Kinds /\ fd \in Fds \cup {None} /\ evs' = [evs EXCEPT ![n] = EventOf(kind, fd, s)]
      BY <1>0, <1>5, <2>1, <2>2
    <3> QED
      BY ONLY <3>1, s \in Sids, n \in Events, EventBorn, ZenonT(30)
  <2>3. /\ ses' \in [Sids -> C!SessionRecords]
        /\ \A x \in Sids : x # s => ses'[x] = ses[x]
        /\ ses'[s].mgr = m /\ ses'[s].ev = n
    BY <1>0, <1>4, <1>5, SessionBorn
  <2>4. C!TypeOK'
    <3>1. open' \subseteq Fds /\ table' \subseteq Sids /\ ready' \subseteq Fds
      BY <1>0, <1>3, <1>5, <2>1 DEF C!TypeOK
    <3> QED
      BY <1>0, <1>3, <1>5, <2>e, <2>3, <3>1 DEF C!TypeOK
  <2>5. open' = open \cup ({evs'[n].fd} \ {None})
    BY <1>5, <2>1, <2>e
  <2> QED
    BY <1>3, <1>4, <1>5, <2>1, <2>2, <2>e, <2>3, <2>4, <2>5, BirthStep
<1>6. CASE ~UNCHANGED <<evs, ses, table, open, changes, clpc, cur>> /\ C!Accept(e)
  <2>1. PICK fd \in C!Least(Fds \ open), n \in Events, s \in Sids, failed \in BOOLEAN :
          /\ C!FreshEvent(n) /\ C!FreshSid(s)
          /\ C!OpenStream(s, m, n, failed)
          /\ evs' = [evs EXCEPT ![n] = EventOf("stream", fd, s)]
          /\ open' = open \cup {fd}
          /\ clpc' = "arm" /\ cur' = n
          /\ UNCHANGED changes
    BY <1>6 DEF C!Accept, m, EventOf
  <2> QED
    BY <2>1, <1>5 DEF C!OpenStream, C!AddSession, SessionOf
<1>7. CASE ~UNCHANGED <<evs, ses, table, open, changes, clpc, cur>> /\ C!AcceptSsl(e)
  <2>1. PICK fd \in C!Least(Fds \ open), n \in Events, s \in Sids :
          /\ C!FreshEvent(n) /\ C!FreshSid(s)
          /\ C!OpenSsl(s, m, n)
          /\ evs' = [evs EXCEPT ![n] = EventOf("ssl", fd, s)]
          /\ open' = open \cup {fd}
          /\ clpc' = "arm" /\ cur' = n
          /\ UNCHANGED changes
    BY <1>7 DEF C!AcceptSsl, m, EventOf
  <2> QED
    BY <2>1, <1>5 DEF C!OpenSsl, SessionOf
<1> QED
  BY <1>2, <1>6, <1>7

(* connect() succeeds: a second event has the descriptor and the session until the loop arms it. *)
LEMMA HandoverStep ==
  ASSUME C!IndInv, ~crashed, C!TypeOK', NEW e \in Events, C!Dispatch(e, C!Dialing), evs[e].status = "add",
         NEW n \in Events, ~C!Live(n), n \notin changes \cup batch,
         \A f \in Events : f # n => evs'[f] = evs[f],
         evs'[n].kind \in {"stream", "ssl"}, evs'[n].fd = evs[e].fd, evs'[n].sid = evs[e].sid,
         evs'[n].status = "none",
         \A x \in Sids : x # evs[e].sid => ses'[x] = ses[x],
         ses'[evs[e].sid].mgr = ses[evs[e].sid].mgr, ses'[evs[e].sid].ev = n,
         UNCHANGED <<open, changes>>,
         clpc' = "arm", cur' = n,
         table' = table \/ (evs'[n].kind = "stream" /\ table' = table \cup {evs[e].sid})
  PROVE  C!IndInv'
<1>0. C!TypeOK /\ C!FdsInv /\ C!RegistryInv /\ C!QueueInv /\ C!LoopInv /\ C!SessionsInv /\ C!ChainInv
  BY DEF C!IndInv
<1>t. /\ \A f \in Events : evs[f].fd \in Fds \cup {None} /\ evs[f].sid \in Sids \cup {None}
      /\ \A fd \in Fds \cup {None} : ioev[fd] \in Events \cup {None}
      /\ \A x \in Sids : ses[x].ev \in Events \cup {None}
      /\ changes \subseteq Events /\ batch \subseteq Events /\ ready \subseteq Fds /\ table \subseteq Sids
      /\ cur \in Events \cup {None} /\ open \subseteq Fds
  BY <1>0 DEF C!TypeOK, C!EventRecords, C!SessionRecords
<1> DEFINE s == evs[e].sid
           d == evs[e].fd
<1>d. /\ clpc = "dispatch" /\ cur = None /\ batch = {} /\ ready' \subseteq ready
      /\ C!Live(e) /\ ~C!Husk(e) /\ d \in Fds /\ d \in ready /\ d \notin ready'
      /\ d # None /\ ioev[d] = e /\ s \in Sids /\ s # None
      /\ C!Alive(s) /\ ses[s].ev = e /\ evs[e].kind \in C!Dialing
      /\ UNCHANGED <<started, ioev, timers, batch, tgt, cspc, crashed>>
  BY Dispatched
<1>k. evs'[n].kind \notin C!Dialing /\ evs'[n].kind # "free" /\ evs'[n].kind \notin {"passive", "ssl_passive"}
      /\ evs[e].kind \notin {"passive", "ssl_passive"} /\ evs[e].kind # "stream" /\ e # n
  BY <1>d DEF C!Dialing, C!Live
<1>n. evs'[n].fd = d /\ evs'[n].sid = s /\ ses'[s].ev = n /\ ses'[s].mgr = ses[s].mgr /\ evs'[e] = evs[e]
      /\ \A x \in Sids : x # s => ses'[x] = ses[x]
  BY <1>k
<1>x. table' = table \/ (evs'[n].kind = "stream" /\ table' = table \cup {s})
  OBVIOUS
<1> HIDE DEF s, d
<1>1. /\ \A f \in Events : f # n => (C!Live(f)' <=> C!Live(f)) /\ (C!Husk(f)' <=> C!Husk(f))
      /\ C!Live(n)' /\ ~C!Husk(n)'
      /\ \A x \in Sids : C!Alive(x)' <=> C!Alive(x)
  <2>1. \A x \in Sids : ses'[x].mgr = ses[x].mgr
    BY <1>n
  <2> QED
    BY <1>d, <1>k, <1>n, <2>1 DEF C!Live, C!Alive, C!Husk
<1>2. /\ \A fd \in Fds \cup {None} : ioev[fd] # n
      /\ \A f \in Events : C!Live(f) => evs[f].fd \in open \cup {None}
      /\ \A f \in Events : C!Live(f) /\ evs[f].fd = d => f = e
      /\ \A f \in Events : C!Live(f) /\ evs[f].sid = s => f = e
      /\ s \notin table
  <2>1. \A fd \in Fds \cup {None} : ioev[fd] # n
    BY <1>0, NoneIs DEF C!RegistryInv
  <2>2. \A f \in Events : C!Live(f) => evs[f].fd \in open \cup {None}
    BY <1>0 DEF C!FdsInv
  <2>3. \A f \in Events : C!Live(f) /\ evs[f].fd = d => f = e
    BY <1>0, <1>d DEF C!FdsInv, d
  <2>4. \A f \in Events : C!Live(f) /\ evs[f].sid = s => f = e
    BY <1>0, <1>d DEF C!SessionsInv
  <2>5. s \notin table
    BY <1>0, <1>d, <1>k DEF C!SessionsInv
  <2> QED
    BY <2>1, <2>2, <2>3, <2>4, <2>5
<1>3. C!FdsInv'
  <2>1. \A f \in Events : C!Live(f)' => evs'[f].fd \in open' \cup {None}
    BY <1>1, <1>2, <1>d, <1>n DEF d
  <2>2. \A fd \in open' : \E f \in Events : C!Live(f)' /\ evs'[f].fd = fd
    <3>1. \A fd \in open : \E f \in Events : C!Live(f) /\ evs[f].fd = fd
      BY <1>0 DEF C!FdsInv
    <3> QED
      BY <1>1, <3>1
  <2>3. ASSUME NEW f \in Events, NEW g \in Events, C!Live(f)', C!Live(g)', evs'[f].fd = evs'[g].fd, evs'[f].fd # None
        PROVE  f = g \/ (clpc' = "arm" /\ cur' \in {f, g} /\ ioev'[evs'[f].fd] \in {f, g})
    <3>1. CASE f = n \/ g = n
      BY <1>1, <1>2, <1>d, <1>n, <2>3, <3>1
    <3>2. CASE f # n /\ g # n
      BY <1>0, <1>1, <1>d, <2>3, <3>2 DEF C!FdsInv
    <3> QED
      BY <3>1, <3>2
  <2> QED
    BY <2>1, <2>2, <2>3 DEF C!FdsInv
<1>4. C!RegistryInv'
  <2>1. \A x \in C!Pending : x \in C!Pending' /\ x \in Events /\ x # n
    BY <1>0, <1>t, <1>d DEF C!Pending
  <2>2. ASSUME NEW fd \in Fds, ioev[fd] # None
        PROVE  /\ C!Live(ioev[fd])' /\ fd \in open'
               /\ \/ evs'[ioev[fd]].fd = fd
                  \/ C!Husk(ioev[fd])' /\ \E x \in C!Pending' : C!Live(x)' /\ evs'[x].fd = fd /\ evs'[x].status = "add"
    <3>1. /\ C!Live(ioev[fd]) /\ fd \in open /\ ioev[fd] \in Events /\ ioev[fd] # n /\ ioev' = ioev
          /\ \/ evs[ioev[fd]].fd = fd
             \/ C!Husk(ioev[fd]) /\ \E x \in C!Pending : C!Live(x) /\ evs[x].fd = fd /\ evs[x].status = "add"
      BY <1>0, <1>2, <1>d, <1>t, <2>2 DEF C!RegistryInv
    <3> QED
      BY <1>1, <2>1, <3>1
  <2>3. \A f \in Events : C!Live(f)' /\ evs'[f].status = "del" => evs'[f].fd # None /\ ioev[evs'[f].fd] = f
    BY <1>0, <1>1 DEF C!RegistryInv
  <2>4. /\ ioev[None] # None => C!Live(ioev[None])' /\ evs'[ioev[None]].fd = None /\ evs'[ioev[None]].sid # None
        /\ \A fd, gd \in Fds : ioev[fd] = ioev[gd] /\ ioev[fd] # None => fd = gd
    BY <1>0, <1>1, <1>2, <1>d, <1>t DEF C!RegistryInv
  <2> QED
    BY <1>d, <2>2, <2>3, <2>4 DEF C!RegistryInv
<1>5. C!QueueInv'
  <2>1. batch' = {}
    BY <1>d
  <2>2. \A f \in Events : C!Live(f)' /\ evs'[f].kind \in C!Dialing => (evs'[f].status = "add" => f \notin changes' \cup batch')
    BY <1>0, <1>1, <1>d, <1>k DEF C!QueueInv
  <2>3. \A f \in Events : C!Husk(f)' => f \notin changes' \cup batch'
    BY <1>0, <1>1, <1>d DEF C!QueueInv
  <2> QED
    BY <2>1, <2>2, <2>3 DEF C!QueueInv, C!Dialing
<1>6. C!LoopInv'
  <2>1. \A fd \in ready' : ioev[fd] # None /\ evs'[ioev[fd]].fd = fd
    BY <1>0, <1>2, <1>t, <1>d DEF C!LoopInv
  <2>2. ioev'[evs'[cur'].fd] = e /\ evs'[cur'].fd \notin ready'
    BY <1>d, <1>n
  <2>3. evs[e].fd = evs'[cur'].fd /\ evs[e].sid = evs'[cur'].sid
    BY <1>n DEF s, d
  <2>4. evs'[cur'].fd # None /\ evs'[cur'].sid # None /\ cur' # None
    BY <1>d, <1>n, NoneIs
  <2> QED
    BY <1>1, <1>2, <1>d, <1>k, <1>n, <2>1, <2>2, <2>3, <2>4, NoneIs DEF C!LoopInv, C!Dialing
<1>7. C!SessionsInv'
  <2>1. \A x \in Sids : C!Alive(x)' => ses'[x].ev # None /\ C!Live(ses[x].ev)' /\ evs'[ses'[x].ev].sid = x
    <3>1. \A x \in Sids : C!Alive(x) => ses[x].ev \in Events /\ C!Live(ses[x].ev) /\ evs[ses[x].ev].sid = x
      BY <1>0, <1>t DEF C!SessionsInv
    <3> QED
      BY <1>1, <1>n, <3>1, NoneIs
  <2>2. ASSUME NEW f \in Events, C!Live(f)'
        PROVE  /\ evs'[f].sid = None => evs'[f].fd = None
               /\ evs'[f].sid # None =>
                    /\ C!Alive(evs[f].sid)'
                    /\ ses'[evs'[f].sid].ev = f
                         \/ (clpc' = "arm" /\ f = ioev[evs'[cur'].fd] /\ ses'[evs'[f].sid].ev = cur')
                    /\ evs'[f].kind \in {"passive", "ssl_passive"} => ses'[evs'[f].sid].mgr \notin Clients
    <3>1. CASE f = n
      BY <1>1, <1>d, <1>n, <1>k, <3>1, NoneIs
    <3>2. CASE f = e
      <4>1. evs'[f].sid = s /\ ioev[evs'[cur'].fd] = e /\ ses'[s].ev = cur' /\ s # None /\ ses'[s].mgr # None
        BY <1>d, <1>n, <3>2 DEF s, C!Alive
      <4>2. evs'[f].kind \notin {"passive", "ssl_passive"} /\ f = ioev[evs'[cur'].fd] /\ evs[f].sid = s
        BY <1>k, <1>n, <3>2, <4>1 DEF s
      <4> QED
        BY <1>d, <4>1, <4>2 DEF C!Alive
    <3>3. CASE f # n /\ f # e
      <4>1. C!Live(f) /\ evs'[f] = evs[f] /\ evs[f].sid \in Sids \cup {None} /\ evs[f].sid # s
        BY <1>1, <1>2, <1>t, <2>2, <3>3
      <4>2. /\ evs[f].sid = None => evs[f].fd = None
            /\ evs[f].sid # None =>
                    /\ C!Alive(evs[f].sid)
                    /\ ses[evs[f].sid].ev = f
                    /\ evs[f].kind \in {"passive", "ssl_passive"} => ses[evs[f].sid].mgr \notin Clients
        BY <1>0, <1>d, <4>1 DEF C!SessionsInv
      <4>4. evs[f].sid # None => ses'[evs[f].sid] = ses[evs[f].sid] /\ (C!Alive(evs[f].sid)' <=> C!Alive(evs[f].sid))
        BY <1>1, <1>n, <4>1
      <4> QED
        BY <4>1, <4>2, <4>4
    <3> QED
      BY <3>1, <3>2, <3>3
  <2>3. \A x \in table' : C!Alive(x)' /\ evs'[ses'[x].ev].kind = "stream"
    <3>1. \A x \in table : x \in Sids /\ x # s /\ C!Alive(x) /\ evs[ses[x].ev].kind = "stream" /\ ses[x].ev \in Events /\ C!Live(ses[x].ev)
      BY <1>0, <1>2, <1>t DEF C!SessionsInv
    <3>2. \A x \in table : C!Alive(x)' /\ evs'[ses'[x].ev].kind = "stream"
      BY <1>1, <1>n, <3>1
    <3> QED
      BY <1>1, <1>d, <1>n, <1>x, <3>2
  <2>4. \A t \in Threads : cspc'[t] # "idle" => tgt'[t] \in table'
    BY <1>0, <1>d DEF C!SessionsInv
  <2> QED
    BY <1>d, <2>1, <2>2, <2>3, <2>4 DEF C!SessionsInv
<1>8. C!ChainInv'
  <2>1. /\ \A f \in Events : f # n => (C!Owns(f)' <=> C!Owns(f))
        /\ ~C!Owns(n) /\ ~C!Owns(n)'
    BY <1>1, <1>d DEF C!Owns
  <2>2. \A x \in Sids : ses'[x].mgr = ses[x].mgr
    BY <1>n
  <2>3. \A m : C!Mine(m)' = C!Mine(m)
    <3>1. \A m : \A f \in Events : f \in C!Mine(m)' <=> f \in C!Mine(m)
      BY <1>t, <2>1, <2>2 DEF C!Mine
    <3> QED
      BY <3>1 DEF C!Mine
  <2> QED
    BY <1>0, <1>d, <2>3 DEF C!ChainInv
<1> QED
  BY <1>3, <1>4, <1>5, <1>6, <1>7, <1>8 DEF C!IndInv

(* activeio_event::handle_event(), with and without SSL. *)
LEMMA HandoverDial ==
  ASSUME C!IndInv, ~crashed, NEW e \in Events, C!Dial(e) \/ C!DialSsl(e)
  PROVE  C!IndInv'
<1>0. C!TypeOK
  BY DEF C!IndInv
<1> DEFINE s == evs[e].sid
           m == ses[s].mgr
           d == evs[e].fd
<1>1. C!Dispatch(e, C!Dialing) /\ evs[e].status = "add"
  BY DEF C!Dial, C!DialSsl, C!Dispatch, C!Dialing
<1>2. CASE C!CloseSocket(e) /\ UNCHANGED <<table, open, clpc, cur>>
  BY <1>1, <1>2, QuietHandlers
<1>3. /\ ready' \subseteq ready /\ s \in Sids /\ d \in Fds /\ C!Alive(s)
      /\ UNCHANGED <<secure, started, ioev, timers, batch, tgt, cspc, crashed>>
  BY <1>1, Dispatched
<1>4. m \in Managers
  BY <1>0, <1>3 DEF C!TypeOK, C!SessionRecords, C!Alive
<1>5. ASSUME NEW n \in Events, NEW b \in BOOLEAN, NEW kind \in {"stream", "ssl"}, C!FreshEvent(n),
             ses' = [ses EXCEPT ![s] = SessionOf(m, n, b)],
             evs' = [evs EXCEPT ![n] = EventOf(kind, d, s)],
             clpc' = "arm", cur' = n, UNCHANGED <<open, changes>>,
             table' = table \/ (kind = "stream" /\ table' = table \cup {s})
      PROVE  C!IndInv'
  <2> HIDE DEF s, m, d
  <2>1. ~C!Live(n) /\ n \notin changes \cup batch
    BY <1>5, Fresh
  <2>2. kind \in C!Kinds
    BY DEF C!Kinds
  <2>3. /\ evs' \in [Events -> C!EventRecords]
        /\ \A f \in Events : f # n => evs'[f] = evs[f]
        /\ evs'[n].kind = kind /\ evs'[n].fd = d /\ evs'[n].sid = s /\ evs'[n].status = "none"
    <3>1. C!TypeOK /\ kind \in C!Kinds /\ d \in Fds \cup {None} /\ s \in Sids /\ evs' = [evs EXCEPT ![n] = EventOf(kind, d, s)]
      BY <1>0, <1>3, <1>5, <2>2
    <3> QED
      BY ONLY <3>1, n \in Events, EventBorn, ZenonT(90)
  <2>4. /\ ses' \in [Sids -> C!SessionRecords]
        /\ \A x \in Sids : x # s => ses'[x] = ses[x]
        /\ ses'[s].mgr = m /\ ses'[s].ev = n
    BY <1>0, <1>3, <1>4, <1>5, SessionBorn
  <2>5. C!TypeOK'
    <3>1. table' \subseteq Sids /\ ready' \subseteq Fds
      BY <1>0, <1>3, <1>5 DEF C!TypeOK
    <3> QED
      BY <1>0, <1>3, <1>5, <2>3, <2>4, <3>1 DEF C!TypeOK
  <2>6. evs'[n].kind \in {"stream", "ssl"} /\ (table' = table \/ (evs'[n].kind = "stream" /\ table' = table \cup {s}))
    BY <1>5, <2>3
  <2> QED
    BY <1>1, <1>5, <2>1, <2>3, <2>4, <2>5, <2>6, HandoverStep DEF s, m, d
<1>6. CASE ~(C!CloseSocket(e) /\ UNCHANGED <<table, open, clpc, cur>>) /\ C!Dial(e)
  <2>1. PICK n \in Events, failed \in BOOLEAN :
          /\ C!FreshEvent(n)
          /\ C!OpenStream(s, m, n, failed)
          /\ evs' = [evs EXCEPT ![n] = EventOf("stream", d, s)]
          /\ clpc' = "arm" /\ cur' = n
          /\ UNCHANGED <<open, changes>>
    BY <1>6 DEF C!Dial, EventOf
  <2> QED
    BY <2>1, <1>5 DEF C!OpenStream, C!AddSession, SessionOf
<1>7. CASE ~(C!CloseSocket(e) /\ UNCHANGED <<table, open, clpc, cur>>) /\ C!DialSsl(e)
  <2>1. PICK n \in Events :
          /\ C!FreshEvent(n)
          /\ C!OpenSsl(s, m, n)
          /\ evs' = [evs EXCEPT ![n] = EventOf("ssl", d, s)]
          /\ clpc' = "arm" /\ cur' = n
          /\ UNCHANGED <<open, changes>>
    BY <1>7 DEF C!DialSsl, EventOf
  <2> QED
    BY <2>1, <1>5 DEF C!OpenSsl, SessionOf
<1> QED
  BY <1>2, <1>6, <1>7

(* The new event is armed and queued; a connecting event gives everything up. *)
LEMMA ArmStep ==
  ASSUME C!IndInv, ~crashed, C!Arm
  PROVE  C!IndInv'
<1>0. C!TypeOK /\ C!FdsInv /\ C!RegistryInv /\ C!QueueInv /\ C!LoopInv /\ C!SessionsInv /\ C!ChainInv
  BY DEF C!IndInv
<1>t. /\ \A f \in Events : evs[f].fd \in Fds \cup {None} /\ evs[f].sid \in Sids \cup {None}
      /\ \A fd \in Fds \cup {None} : ioev[fd] \in Events \cup {None}
      /\ \A x \in Sids : ses[x].ev \in Events \cup {None}
      /\ changes \subseteq Events /\ batch \subseteq Events /\ ready \subseteq Fds /\ table \subseteq Sids
      /\ open \subseteq Fds
  BY <1>0 DEF C!TypeOK, C!EventRecords, C!SessionRecords
<1>p. PICK n, d, s, old : n = cur /\ d = evs[n].fd /\ s = evs[n].sid /\ old = ioev[d]
  OBVIOUS
<1>u. /\ clpc = "arm" /\ clpc' = "dispatch" /\ cur' = None /\ changes' = changes \cup {n}
      /\ UNCHANGED <<started, ioev, ses, table, timers, open, batch, ready, tgt, cspc, crashed>>
  BY <1>p DEF C!Arm, C!sendvars
<1>n. /\ n \in Events /\ C!Live(n) /\ d \in Fds /\ s \in Sids /\ d # None /\ s # None /\ old \in Events \cup {None}
      /\ n # None /\ d \notin ready /\ evs[n].kind \notin C!Dialing /\ evs[n].status = "none"
      /\ \A fd \in Fds \cup {None} : ioev[fd] # n
      /\ old # n
  <2>1. n \in Events /\ C!Live(n) /\ d # None /\ s # None /\ n # None
    BY <1>0, <1>p, <1>u DEF C!LoopInv, C!TypeOK
  <2>2. d \in Fds /\ s \in Sids
    BY <1>p, <1>t, <2>1
  <2>3. d \notin ready /\ evs[n].kind \notin C!Dialing /\ evs[n].status = "none"
        /\ \A fd \in Fds \cup {None} : ioev[fd] # n
    BY <1>0, <1>p, <1>u DEF C!LoopInv
  <2> QED
    BY <1>p, <1>t, <2>1, <2>2, <2>3
<1>o. /\ old # None => /\ evs[old].fd = d /\ evs[old].sid = s /\ evs[old].kind \in C!Dialing
                       /\ evs[old].status = "add" /\ C!Live(old)
      /\ old = None => ses[s].mgr \notin Clients
  <2>1. /\ old # None => /\ evs[old].fd = d /\ evs[old].sid = s /\ evs[old].kind \in C!Dialing
                       /\ evs[old].status = "add"
        /\ old = None => ses[s].mgr \notin Clients
    BY <1>0, <1>p, <1>u DEF C!LoopInv
  <2> QED
    BY <2>1 DEF C!Dialing, C!Live
<1>e. /\ evs' \in [Events -> C!EventRecords]
      /\ \A f \in Events : f # n /\ f # old => evs'[f] = evs[f]
      /\ evs'[n].kind = evs[n].kind /\ evs'[n].fd = d /\ evs'[n].sid = s
      /\ evs'[n].status = IF old # None THEN "add" ELSE "none"
      /\ old # None => /\ evs'[old].kind = evs[old].kind /\ evs'[old].fd = None /\ evs'[old].sid = None
                       /\ evs'[old].status = "add"
  <2>1. evs \in [Events -> C!EventRecords]
    BY <1>0 DEF C!TypeOK
  <2> DEFINE st == IF old # None THEN "add" ELSE "none"
             rn == [evs[n] EXCEPT !.send = TRUE, !.status = st]
             ro == [evs[old] EXCEPT !.fd = None, !.sid = None]
  <2>2. evs' = [f \in Events |-> IF f = n THEN rn ELSE IF f = old THEN ro ELSE evs[f]]
    BY <1>p DEF C!Arm
  <2>3. evs[n] \in C!EventRecords /\ st \in {"none", "add", "del"}
    BY <1>n, <2>1
  <2> HIDE DEF st
  <2>4. rn \in C!EventRecords /\ rn.kind = evs[n].kind /\ rn.fd = evs[n].fd /\ rn.sid = evs[n].sid /\ rn.status = st
    BY <2>3 DEF C!EventRecords
  <2>5. old # None => /\ ro \in C!EventRecords /\ ro.kind = evs[old].kind /\ ro.fd = None /\ ro.sid = None
                      /\ ro.status = evs[old].status
    <3>1. ASSUME old # None PROVE evs[old] \in C!EventRecords
      BY <1>n, <2>1, <3>1
    <3> QED
      BY <3>1 DEF C!EventRecords
  <2> HIDE DEF rn, ro
  <2>6. ASSUME NEW f \in Events
        PROVE  evs'[f] = IF f = n THEN rn ELSE IF f = old THEN ro ELSE evs[f]
    BY <2>2
  <2>7. evs' \in [Events -> C!EventRecords]
    <3>1. \A f \in Events : (IF f = n THEN rn ELSE IF f = old THEN ro ELSE evs[f]) \in C!EventRecords
      BY <2>1, <2>4, <2>5, NoneIs
    <3> QED
      BY <2>2, <3>1
  <2>8. evs'[n] = rn /\ (old # None => evs'[old] = ro) /\ \A f \in Events : f # n /\ f # old => evs'[f] = evs[f]
    BY <1>n, <2>6
  <2> QED
    BY <1>o, <1>p, <2>4, <2>5, <2>7, <2>8 DEF st
<1>1. /\ \A f \in Events : C!Live(f)' <=> C!Live(f)
      /\ \A f \in Events : f # old => (C!Husk(f)' <=> C!Husk(f))
      /\ ~C!Husk(n) /\ (old # None => C!Husk(old)')
      /\ \A x \in Sids : C!Alive(x)' <=> C!Alive(x)
  <2>1. \A f \in Events : evs'[f].kind = evs[f].kind
    BY <1>e, <1>n, NoneIs
  <2>2. \A f \in Events : f # old => evs'[f].fd = evs[f].fd /\ evs'[f].sid = evs[f].sid
    BY <1>e, <1>p
  <2>3. \A f \in Events : C!Live(f)' <=> C!Live(f)
    BY <2>1 DEF C!Live
  <2> QED
    BY <1>e, <1>n, <1>o, <1>p, <1>u, <2>2, <2>3 DEF C!Alive, C!Husk
<1>2. C!TypeOK'
  BY <1>0, <1>e, <1>n, <1>u DEF C!TypeOK
<1>3. /\ \A fd \in Fds : fd # d /\ old # None => ioev[fd] # old
      /\ old # None => ioev[None] # old
  <2>1. \A fd \in Fds : fd # d /\ old # None => ioev[fd] # old
    BY <1>0, <1>n, <1>p DEF C!RegistryInv
  <2>2. old # None => ioev[None] # old
    BY <1>0, <1>n, <1>o DEF C!RegistryInv
  <2> QED
    BY <2>1, <2>2
<1>4. C!FdsInv'
  <2>1. \A f \in Events : C!Live(f)' => evs'[f].fd \in open' \cup {None}
    <3>1. \A f \in Events : C!Live(f) => evs[f].fd \in open \cup {None}
      BY <1>0 DEF C!FdsInv
    <3> QED
      BY <1>1, <1>e, <1>n, <1>p, <1>u, <3>1, NoneIs
  <2>2. ASSUME NEW fd \in open PROVE \E f \in Events : C!Live(f)' /\ evs'[f].fd = fd
    <3>1. PICK f \in Events : C!Live(f) /\ evs[f].fd = fd
      BY <1>0 DEF C!FdsInv
    <3>2. CASE fd = d
      BY <1>1, <1>e, <1>n, <3>2
    <3>3. CASE fd # d
      <4>1. f # n /\ f # old
        BY <1>o, <1>p, <1>n, <3>1, <3>3, NoneIs
      <4> QED
        BY <1>1, <1>e, <3>1, <4>1
    <3> QED
      BY <3>2, <3>3
  <2>3. ASSUME NEW f \in Events, NEW g \in Events, C!Live(f)', C!Live(g)', evs'[f].fd = evs'[g].fd, evs'[f].fd # None
        PROVE  f = g
    <3>1. f # old /\ g # old /\ evs[f].fd = evs[g].fd /\ evs[f].fd # None /\ C!Live(f) /\ C!Live(g)
      BY <1>1, <1>e, <1>n, <1>p, <2>3, NoneIs
    <3>2. f = g \/ (n \in {f, g} /\ ioev[evs[f].fd] \in {f, g})
      BY <1>0, <1>p, <3>1 DEF C!FdsInv
    <3>3. ASSUME n \in {f, g} PROVE evs[f].fd = d
      BY <1>p, <3>1, <3>3
    <3> QED
      BY <1>p, <3>1, <3>2, <3>3
  <2> QED
    BY <1>u, <2>1, <2>2, <2>3 DEF C!FdsInv
<1>5. C!RegistryInv'
  <2>1. C!Pending = changes /\ C!Pending' = changes \cup {n}
    BY <1>u DEF C!Pending
  <2>2. ASSUME NEW fd \in Fds, ioev[fd] # None
        PROVE  /\ C!Live(ioev[fd])' /\ fd \in open
               /\ \/ evs'[ioev[fd]].fd = fd
                  \/ C!Husk(ioev[fd])' /\ \E x \in C!Pending' : C!Live(x)' /\ evs'[x].fd = fd /\ evs'[x].status = "add"
    <3>0. ioev' = ioev
      BY <1>u
    <3>1. /\ C!Live(ioev[fd]) /\ fd \in open /\ ioev[fd] \in Events
          /\ \/ evs[ioev[fd]].fd = fd
             \/ C!Husk(ioev[fd]) /\ \E x \in C!Pending : C!Live(x) /\ evs[x].fd = fd /\ evs[x].status = "add"
      BY <1>0, <1>t, <2>2 DEF C!RegistryInv
    <3>2. CASE fd = d
      <4>1. ioev[fd] = old /\ old # None
        BY <1>p, <2>2, <3>2
      <4>2. C!Live(n)' /\ evs'[n].fd = fd /\ evs'[n].status = "add" /\ n \in C!Pending'
        BY <1>1, <1>e, <1>n, <2>1, <3>2, <4>1
      <4> QED
        BY <1>1, <3>0, <3>1, <4>1, <4>2
    <3>3. CASE fd # d
      <4>1. ioev[fd] # old /\ ioev[fd] # n
        BY <1>3, <1>n, <2>2, <3>3
      <4>2. ASSUME NEW x \in C!Pending, C!Live(x), evs[x].fd = fd, evs[x].status = "add"
            PROVE  x \in C!Pending' /\ C!Live(x)' /\ evs'[x].fd = fd /\ evs'[x].status = "add"
        <5>1. x \in Events /\ x # n /\ x # old
          BY <1>n, <1>o, <1>t, <2>1, <3>3, <4>2, NoneIs
        <5> QED
          BY <1>1, <1>e, <2>1, <4>2, <5>1
      <4> QED
        BY <1>1, <1>e, <3>0, <3>1, <4>1, <4>2
    <3> QED
      BY <3>2, <3>3
  <2>3. \A f \in Events : C!Live(f)' /\ evs'[f].status = "del" => evs'[f].fd # None /\ ioev[evs'[f].fd] = f
    <3>1. \A f \in Events : C!Live(f) /\ evs[f].status = "del" => evs[f].fd # None /\ ioev[evs[f].fd] = f
      BY <1>0 DEF C!RegistryInv
    <3> QED
      BY <1>1, <1>e, <3>1, NoneIs
  <2>4. ioev[None] # None => C!Live(ioev[None])' /\ evs'[ioev[None]].fd = None /\ evs'[ioev[None]].sid # None
    <3>1. ioev[None] # None => /\ C!Live(ioev[None]) /\ evs[ioev[None]].fd = None /\ evs[ioev[None]].sid # None
                               /\ ioev[None] \in Events /\ ioev[None] # n
      BY <1>0, <1>n, <1>t DEF C!RegistryInv
    <3>2. ioev[None] # None => ioev[None] # old
      BY <1>3
    <3> QED
      BY <1>1, <1>e, <1>u, <3>1, <3>2
  <2>5. \A fd, gd \in Fds : ioev[fd] = ioev[gd] /\ ioev[fd] # None => fd = gd
    BY <1>0 DEF C!RegistryInv
  <2> QED
    BY <1>u, <2>2, <2>3, <2>4, <2>5 DEF C!RegistryInv
<1>6. C!QueueInv'
  <2>1. batch' = {} /\ batch = {}
    BY <1>0, <1>u DEF C!QueueInv
  <2>2. \A f \in Events : C!Live(f)' /\ evs'[f].kind \in C!Dialing => (evs'[f].status = "add" => f \notin changes' \cup batch')
    <3>1. \A f \in Events : C!Live(f) /\ evs[f].kind \in C!Dialing => (evs[f].status = "add" => f \notin changes)
      BY <1>0 DEF C!QueueInv
    <3> QED
      BY <1>1, <1>e, <1>n, <1>o, <1>u, <2>1, <3>1, NoneIs
  <2>3. \A f \in Events : C!Husk(f)' => f \notin changes' \cup batch'
    <3>1. \A f \in Events : C!Husk(f) => f \notin changes
      BY <1>0 DEF C!QueueInv
    <3>2. old # None => old \notin changes /\ old # n
      BY <1>0, <1>n, <1>o DEF C!QueueInv
    <3>3. \A f \in Events : C!Husk(f)' => f \notin changes /\ f # n
      BY <1>1, <3>1, <3>2, <1>n, NoneIs
    <3> QED
      BY <1>u, <2>1, <3>3
  <2> QED
    BY <2>1, <2>2, <2>3 DEF C!QueueInv, C!Dialing
<1>7. C!LoopInv'
  <2>1. ASSUME NEW fd \in ready PROVE ioev[fd] # None /\ evs'[ioev[fd]].fd = fd
    <3>1. fd \in Fds /\ ioev[fd] # None /\ evs[ioev[fd]].fd = fd /\ fd # d
      BY <1>0, <1>n, <1>t, <1>u DEF C!LoopInv
    <3>2. ioev[fd] \in Events /\ ioev[fd] # n /\ ioev[fd] # old
      BY <1>3, <1>n, <1>t, <3>1
    <3> QED
      BY <1>e, <3>1, <3>2
  <2> QED
    BY <1>u, <2>1 DEF C!LoopInv
<1>s. \A f \in Events : C!Live(f) /\ f # old /\ evs[f].sid # None => ses[evs[f].sid].ev = f
  BY <1>0, <1>p DEF C!SessionsInv
<1>8. C!SessionsInv'
  <2>1. \A x \in Sids : C!Alive(x)' => ses[x].ev # None /\ C!Live(ses[x].ev)' /\ evs'[ses[x].ev].sid = x
    <3>1. \A x \in Sids : C!Alive(x) => ses[x].ev \in Events /\ ses[x].ev # None /\ C!Live(ses[x].ev) /\ evs[ses[x].ev].sid = x
      BY <1>0, <1>t DEF C!SessionsInv
    <3>2. ses[s].ev = n
      BY <1>n, <1>p, <1>s
    <3>3. \A x \in Sids : C!Alive(x) => ses[x].ev # old
      BY <1>n, <1>o, <3>1, <3>2
    <3> QED
      BY <1>1, <1>e, <1>p, <1>u, <3>1, <3>3
  <2>2. ASSUME NEW f \in Events, C!Live(f)'
        PROVE  /\ evs'[f].sid = None => evs'[f].fd = None
               /\ evs'[f].sid # None =>
                    /\ C!Alive(evs[f].sid)'
                    /\ ses[evs'[f].sid].ev = f
                    /\ evs'[f].kind \in {"passive", "ssl_passive"} => ses[evs'[f].sid].mgr \notin Clients
    <3>1. CASE f = old
      BY <1>e, <1>n, <3>1, NoneIs
    <3>2. CASE f # old
      <4>1. C!Live(f) /\ evs'[f].sid = evs[f].sid /\ evs'[f].fd = evs[f].fd /\ evs'[f].kind = evs[f].kind
        BY <1>1, <1>e, <1>p, <2>2, <3>2
      <4>2. /\ evs[f].sid = None => evs[f].fd = None
            /\ evs[f].sid # None =>
                    /\ C!Alive(evs[f].sid)
                    /\ evs[f].kind \in {"passive", "ssl_passive"} => ses[evs[f].sid].mgr \notin Clients
        BY <1>0, <4>1 DEF C!SessionsInv
      <4>3. evs[f].sid # None => C!Alive(evs[f].sid)'
        BY <1>u, <4>1, <4>2 DEF C!Alive
      <4> QED
        BY <1>s, <3>2, <4>1, <4>2, <4>3
    <3> QED
      BY <3>1, <3>2
  <2>3. \A x \in table : C!Alive(x)' /\ evs'[ses[x].ev].kind = "stream"
    <3>1. \A x \in table : x \in Sids /\ C!Alive(x) /\ evs[ses[x].ev].kind = "stream" /\ ses[x].ev \in Events
      BY <1>0, <1>t DEF C!SessionsInv
    <3>2. \A f \in Events : evs'[f].kind = evs[f].kind
      BY <1>e, <1>n, NoneIs
    <3> QED
      BY <1>1, <3>1, <3>2
  <2>4. \A t \in Threads : cspc[t] # "idle" => tgt[t] \in table
    BY <1>0 DEF C!SessionsInv
  <2> QED
    BY <1>u, <2>1, <2>2, <2>3, <2>4 DEF C!SessionsInv
<1>9. C!ChainInv'
  <2>1. /\ \A f \in Events : f # n => (C!Owns(f)' <=> C!Owns(f))
        /\ ~C!Owns(n) /\ C!Owns(n)'
    BY <1>1, <1>n, <1>p, <1>u DEF C!Owns
  <2>2. ASSUME NEW m, NEW f \in Events, f # n, f # old
        PROVE  f \in C!Mine(m)' <=> f \in C!Mine(m)
    BY <1>e, <1>u, <2>1, <2>2 DEF C!Mine
  <2>3. ASSUME NEW m \in Clients
        PROVE  /\ n \notin C!Mine(m) /\ (n \in C!Mine(m)' <=> ses[s].mgr = m)
               /\ old # None => (old \in C!Mine(m) <=> ses[s].mgr = m) /\ old \notin C!Mine(m)'
    <3>1. old # None => C!Owns(old)
      BY <1>n, <1>o, <1>p DEF C!Owns
    <3> QED
      BY <1>e, <1>n, <1>o, <1>u, <2>1, <3>1 DEF C!Mine
  <2>4. ASSUME NEW m \in Clients, ses[s].mgr # m
        PROVE  C!Mine(m)' = C!Mine(m)
    <3>1. \A f \in Events : f \in C!Mine(m)' <=> f \in C!Mine(m)
      BY <1>n, <2>2, <2>3, <2>4, NoneIs
    <3> QED
      BY <3>1 DEF C!Mine
  <2>5. ASSUME NEW m \in Clients, ses[s].mgr = m
        PROVE  old \in C!Mine(m) /\ C!Mine(m)' = (C!Mine(m) \ {old}) \cup {n}
    <3>1. old # None /\ old \in Events
      BY <1>n, <1>o, <2>5
    <3>2. \A f \in Events : f \in C!Mine(m)' <=> f \in (C!Mine(m) \ {old}) \cup {n}
      BY <1>n, <2>2, <2>3, <2>5, <3>1
    <3>3. C!Mine(m) \subseteq Events /\ C!Mine(m)' \subseteq Events
      BY DEF C!Mine
    <3> QED
      BY <1>n, <2>3, <2>5, <3>1, <3>2, <3>3
  <2>6. ASSUME NEW m \in Clients, ses[s].mgr = m
        PROVE  m \in started /\ timers[m] = 0 /\ C!Mine(m)' = {n}
    <3>1. old \in C!Mine(m) /\ C!Mine(m)' = (C!Mine(m) \ {old}) \cup {n}
      BY <2>5, <2>6
    <3>2. m \in started /\ timers[m] = 0 /\ \E f \in Events : C!Mine(m) = {f}
      BY <1>0, <3>1 DEF C!ChainInv
    <3> QED
      BY <3>1, <3>2
  <2> QED
    BY <1>0, <1>n, <1>u, <2>4, <2>6 DEF C!ChainInv
<1> QED
  BY <1>2, <1>4, <1>5, <1>6, <1>7, <1>8, <1>9 DEF C!IndInv

(* The loop takes an event from the batch. *)
LEMMA Batched ==
  ASSUME C!IndInv, ~crashed, clpc = "apply", NEW e \in batch, C!Live(e)
  PROVE  /\ e \in Events /\ cur = None /\ ~C!Husk(e) /\ evs[e].sid \in Sids /\ evs[e].sid # None
         /\ evs[e].fd \in Fds \cup {None}
         /\ \A f, g \in Events : C!Live(f) /\ C!Live(g) /\ evs[f].fd = evs[g].fd /\ evs[f].fd # None => f = g
         /\ \A f \in Events : C!Live(f) /\ evs[f].sid # None => C!Alive(evs[f].sid) /\ ses[evs[f].sid].ev = f
<1>0. C!TypeOK /\ C!FdsInv /\ C!QueueInv /\ C!LoopInv /\ C!SessionsInv
  BY DEF C!IndInv
<1>1. e \in Events /\ cur = None
  BY <1>0 DEF C!TypeOK, C!LoopInv
<1>2. evs[e].fd \in Fds \cup {None} /\ evs[e].sid \in Sids \cup {None}
  BY <1>0, <1>1 DEF C!TypeOK, C!EventRecords
<1>3. ~C!Husk(e)
  BY <1>0, <1>1 DEF C!QueueInv
<1>4. evs[e].sid # None
  BY <1>0, <1>1, <1>3 DEF C!Husk, C!SessionsInv
<1>5. \A f, g \in Events : C!Live(f) /\ C!Live(g) /\ evs[f].fd = evs[g].fd /\ evs[f].fd # None => f = g
  BY <1>0 DEF C!FdsInv
<1>6. \A f \in Events : C!Live(f) /\ evs[f].sid # None => C!Alive(evs[f].sid) /\ ses[evs[f].sid].ev = f
  BY <1>0 DEF C!SessionsInv
<1> QED
  BY <1>1, <1>2, <1>3, <1>4, <1>5, <1>6

(* add_event_inner() where no older event, the event itself or a husk is registered. *)
LEMMA RegisterStep ==
  ASSUME C!IndInv, ~crashed, C!TypeOK', clpc = "apply", NEW e \in batch, C!Live(e), batch' = batch \ {e},
         NEW h \in Events \cup {None}, h # e, h # None => C!Husk(h) /\ evs[e].fd # None /\ ioev[evs[e].fd] = h,
         h # None => evs'[h].kind = "free",
         evs'[e].kind = evs[e].kind, evs'[e].fd = evs[e].fd, evs'[e].sid = evs[e].sid, evs'[e].status = "add",
         \A f \in Events : f # e /\ f # h => evs'[f] = evs[f],
         ioev' = [ioev EXCEPT ![evs[e].fd] = e],
         UNCHANGED <<started, open, ses, table, timers, changes, clpc, ready, cur, tgt, cspc>>
  PROVE  C!IndInv'
<1>0. C!TypeOK /\ C!FdsInv /\ C!RegistryInv /\ C!QueueInv /\ C!LoopInv /\ C!SessionsInv /\ C!ChainInv
  BY DEF C!IndInv
<1>t. /\ \A f \in Events : evs[f].fd \in Fds \cup {None} /\ evs[f].sid \in Sids \cup {None}
      /\ \A fd \in Fds \cup {None} : ioev[fd] \in Events \cup {None}
      /\ \A x \in Sids : ses[x].ev \in Events \cup {None}
      /\ changes \subseteq Events /\ batch \subseteq Events /\ ready \subseteq Fds /\ table \subseteq Sids
      /\ open \subseteq Fds /\ ioev \in [Fds \cup {None} -> Events \cup {None}]
  BY <1>0 DEF C!TypeOK, C!EventRecords, C!SessionRecords
<1>b. /\ e \in Events /\ cur = None /\ ~C!Husk(e) /\ evs[e].sid # None /\ evs[e].fd \in Fds \cup {None}
      /\ \A f, g \in Events : C!Live(f) /\ C!Live(g) /\ evs[f].fd = evs[g].fd /\ evs[f].fd # None => f = g
  BY Batched
<1>p. PICK d : d = evs[e].fd
  OBVIOUS
<1>i. ioev'[d] = e /\ \A fd \in Fds \cup {None} : fd # d => ioev'[fd] = ioev[fd]
  BY <1>b, <1>p, <1>t
<1>h. h # None => evs[h].fd = None /\ evs[h].sid = None /\ h \in Events /\ C!Live(h) /\ d \in Fds /\ ioev[d] = h /\ ~C!Live(h)'
  BY <1>b, <1>p, <1>t DEF C!Husk, C!Live
<1>1. /\ \A f \in Events : f # h => /\ evs'[f].kind = evs[f].kind /\ evs'[f].fd = evs[f].fd /\ evs'[f].sid = evs[f].sid
                                    /\ (C!Live(f)' <=> C!Live(f)) /\ (C!Husk(f)' <=> C!Husk(f))
      /\ \A x \in Sids : C!Alive(x)' <=> C!Alive(x)
      /\ \A f \in Events : C!Live(f)' => f # h
  <2>1. \A f \in Events : f # h => evs'[f].kind = evs[f].kind /\ evs'[f].fd = evs[f].fd /\ evs'[f].sid = evs[f].sid
    BY <1>b
  <2>2. \A f \in Events : C!Live(f)' => f # h
    BY <1>h, NoneIs
  <2> QED
    BY <2>1, <2>2 DEF C!Live, C!Husk, C!Alive
<1>2. C!FdsInv'
  <2>1. \A f \in Events : C!Live(f)' => evs'[f].fd \in open' \cup {None}
    BY <1>0, <1>1 DEF C!FdsInv
  <2>2. ASSUME NEW fd \in open PROVE \E f \in Events : C!Live(f)' /\ evs'[f].fd = fd
    <3>1. PICK f \in Events : C!Live(f) /\ evs[f].fd = fd
      BY <1>0 DEF C!FdsInv
    <3>2. f # h
      BY <1>h, <1>t, <3>1, NoneIs
    <3> QED
      BY <1>1, <3>1, <3>2
  <2>3. \A f, g \in Events : C!Live(f)' /\ C!Live(g)' /\ evs'[f].fd = evs'[g].fd /\ evs'[f].fd # None => f = g
    BY <1>1, <1>b
  <2> QED
    BY <2>1, <2>2, <2>3 DEF C!FdsInv
<1>r. ASSUME NEW fd \in Fds, fd # d, ioev[fd] # None
      PROVE  ioev[fd] \in Events /\ ioev[fd] # e /\ ioev[fd] # h
  <2>1. ioev[fd] \in Events /\ ioev[fd] # e
    BY <1>0, <1>b, <1>p, <1>r, <1>t DEF C!RegistryInv
  <2>2. ioev[fd] # h
    BY <1>0, <1>h, <1>r DEF C!RegistryInv
  <2> QED
    BY <2>1, <2>2
<1>3. C!RegistryInv'
  <2>1. C!Pending = batch /\ C!Pending' = batch \ {e}
    BY DEF C!Pending
  <2>2. ASSUME NEW fd \in Fds, ioev'[fd] # None
        PROVE  /\ C!Live(ioev[fd])' /\ fd \in open
               /\ \/ evs'[ioev'[fd]].fd = fd
                  \/ C!Husk(ioev[fd])' /\ \E x \in C!Pending' : C!Live(x)' /\ evs'[x].fd = fd /\ evs'[x].status = "add"
    <3>1. CASE fd = d
      <4>1. ioev'[fd] = e /\ evs'[e].fd = fd /\ evs[e].fd # None /\ evs'[e].kind = evs[e].kind
        BY <1>i, <1>p, <3>1, NoneIs
      <4>2. fd \in open
        BY <1>0, <1>b, <1>p, <3>1, <4>1 DEF C!FdsInv
      <4> QED
        BY <4>1, <4>2 DEF C!Live
    <3>2. CASE fd # d
      <4>1. ioev'[fd] = ioev[fd] /\ ioev[fd] # None
        BY <1>i, <2>2, <3>2
      <4>2. ioev[fd] \in Events /\ ioev[fd] # e /\ ioev[fd] # h
        BY <1>r, <3>2, <4>1
      <4>3. PICK y \in Events : y = ioev[fd]
        BY <4>2
      <4>4. /\ C!Live(y) /\ fd \in open
            /\ \/ evs[y].fd = fd
               \/ C!Husk(y) /\ \E x \in C!Pending : C!Live(x) /\ evs[x].fd = fd /\ evs[x].status = "add"
        BY <1>0, <4>1, <4>3 DEF C!RegistryInv
      <4>5. ASSUME NEW x \in C!Pending, C!Live(x), evs[x].fd = fd, evs[x].status = "add"
            PROVE  x \in C!Pending' /\ C!Live(x)' /\ evs'[x].fd = fd /\ evs'[x].status = "add"
        <5>1. x \in Events /\ x # e /\ x # h
          BY <1>h, <1>p, <1>t, <2>1, <3>2, <4>5, NoneIs
        <5> QED
          BY <1>1, <2>1, <4>5, <5>1
      <4>6. /\ C!Live(y)' /\ (C!Husk(y)' <=> C!Husk(y)) /\ evs'[y].fd = evs[y].fd
        BY <1>1, <4>2, <4>3, <4>4
      <4> QED
        BY <4>1, <4>3, <4>4, <4>5, <4>6
    <3> QED
      BY <3>1, <3>2
  <2>3. ASSUME NEW f \in Events, C!Live(f)', evs'[f].status = "del"
        PROVE  evs'[f].fd # None /\ ioev'[evs'[f].fd] = f
    <3>1. C!Live(f) /\ f # e /\ f # h /\ evs'[f] = evs[f]
      BY <1>1, <2>3
    <3>2. evs[f].fd # None /\ ioev[evs[f].fd] = f
      BY <1>0, <2>3, <3>1 DEF C!RegistryInv
    <3>3. evs[f].fd # d
      BY <1>b, <1>p, <3>1, <3>2
    <3> QED
      BY <1>i, <1>t, <3>1, <3>2, <3>3
  <2>4. ASSUME ioev'[None] # None 
        PROVE  C!Live(ioev[None])' /\ evs'[ioev'[None]].fd = None /\ evs'[ioev'[None]].sid # None
    <3>1. CASE d = None
      <4>1. ioev'[None] = e /\ evs'[e].kind = evs[e].kind /\ evs'[e].fd = None /\ evs'[e].sid # None
        BY <1>b, <1>i, <1>p, <3>1
      <4> QED
        BY <4>1 DEF C!Live
    <3>2. CASE d # None
      <4>1. ioev'[None] = ioev[None]
        BY <1>i, <3>2
      <4>2. PICK y \in Events : y = ioev[None]
        BY <1>t, <2>4, <4>1
      <4>3. C!Live(y) /\ evs[y].fd = None /\ evs[y].sid # None
        BY <1>0, <2>4, <4>1, <4>2 DEF C!RegistryInv
      <4>4. y # h
        BY <1>h, <4>3, NoneIs
      <4>5. C!Live(y)' /\ evs'[y].fd = None /\ evs'[y].sid # None
        BY <1>1, <4>3, <4>4
      <4> QED
        BY <4>1, <4>2, <4>5 DEF C!Live
    <3> QED
      BY <3>1, <3>2
  <2>5. \A fd, gd \in Fds : ioev'[fd] = ioev'[gd] /\ ioev'[fd] # None => fd = gd
    <3>1. \A fd, gd \in Fds : ioev[fd] = ioev[gd] /\ ioev[fd] # None => fd = gd
      BY <1>0 DEF C!RegistryInv
    <3> QED
      BY <1>i, <1>r, <3>1, NoneIs, <1>b
  <2> QED
    BY <2>2, <2>3, <2>4, <2>5 DEF C!RegistryInv
<1>4. C!QueueInv'
  <2>2. \A f \in Events : C!Live(f)' /\ evs'[f].kind \in C!Dialing =>
          ~(f \in changes' /\ f \in batch') /\ (evs'[f].status = "add" => f \notin changes' \cup batch')
    <3>1. \A f \in Events : C!Live(f) /\ evs[f].kind \in C!Dialing =>
          ~(f \in changes /\ f \in batch) /\ (evs[f].status = "add" => f \notin changes \cup batch)
      BY <1>0 DEF C!QueueInv
    <3> QED
      BY <1>1, <3>1
  <2>3. \A f \in Events : C!Husk(f)' => f \notin changes' \cup batch'
    <3>1. \A f \in Events : C!Husk(f) => f \notin changes \cup batch
      BY <1>0 DEF C!QueueInv
    <3>2. \A f \in Events : C!Husk(f)' => C!Live(f)'
      BY DEF C!Husk
    <3> QED
      BY <1>1, <3>1, <3>2
  <2> QED
    BY <2>2, <2>3 DEF C!QueueInv, C!Dialing
<1>5. C!LoopInv'
  BY <1>b DEF C!LoopInv
<1>6. C!SessionsInv'
  <2>1. \A x \in Sids : C!Alive(x)' => ses[x].ev # None /\ C!Live(ses[x].ev)' /\ evs'[ses[x].ev].sid = x
    <3>1. \A x \in Sids : C!Alive(x) => ses[x].ev \in Events /\ ses[x].ev # None /\ C!Live(ses[x].ev) /\ evs[ses[x].ev].sid = x
      BY <1>0, <1>t DEF C!SessionsInv
    <3>2. \A x \in Sids : C!Alive(x) => ses[x].ev # h
      BY <1>h, <3>1, NoneIs
    <3> QED
      BY <1>1, <3>1, <3>2
  <2>2. ASSUME NEW f \in Events, C!Live(f)'
        PROVE  /\ evs'[f].sid = None => evs'[f].fd = None
               /\ evs'[f].sid # None =>
                    /\ C!Alive(evs[f].sid)'
                    /\ ses[evs'[f].sid].ev = f
                    /\ evs'[f].kind \in {"passive", "ssl_passive"} => ses[evs'[f].sid].mgr \notin Clients
    <3>1. C!Live(f) /\ evs'[f].sid = evs[f].sid /\ evs'[f].fd = evs[f].fd /\ evs'[f].kind = evs[f].kind
      BY <1>1, <2>2
    <3>2. /\ evs[f].sid = None => evs[f].fd = None
          /\ evs[f].sid # None =>
                    /\ C!Alive(evs[f].sid) /\ ses[evs[f].sid].ev = f
                    /\ evs[f].kind \in {"passive", "ssl_passive"} => ses[evs[f].sid].mgr \notin Clients
      BY <1>0, <3>1 DEF C!SessionsInv
    <3>3. evs[f].sid # None => C!Alive(evs[f].sid)'
      BY <3>1, <3>2 DEF C!Alive
    <3> QED
      BY <3>1, <3>2, <3>3
  <2>3. \A x \in table : C!Alive(x)' /\ evs'[ses[x].ev].kind = "stream"
    <3>1. \A x \in table : x \in Sids /\ C!Alive(x) /\ evs[ses[x].ev].kind = "stream" /\ ses[x].ev \in Events /\ evs[ses[x].ev].sid = x
      BY <1>0, <1>t DEF C!SessionsInv
    <3>2. \A x \in table : ses[x].ev # h
      BY <1>h, <3>1, NoneIs
    <3> QED
      BY <1>1, <3>1, <3>2
  <2>4. \A t \in Threads : cspc[t] # "idle" => tgt[t] \in table
    BY <1>0 DEF C!SessionsInv
  <2> QED
    BY <2>1, <2>2, <2>3, <2>4 DEF C!SessionsInv
<1>7. C!ChainInv'
  <2>1. \A f \in Events : f # h => (C!Owns(f)' <=> C!Owns(f))
    BY <1>1 DEF C!Owns
  <2>2. \A m : C!Mine(m)' = C!Mine(m)
    <3>1. \A m : \A f \in Events : f # h => (f \in C!Mine(m)' <=> f \in C!Mine(m))
      BY <1>1, <2>1 DEF C!Mine
    <3>2. \A m : h \notin C!Mine(m)' /\ h \notin C!Mine(m)
      BY <1>h, NoneIs DEF C!Mine, C!Owns
    <3> QED
      BY <3>1, <3>2 DEF C!Mine
  <2> QED
    BY <1>0, <2>2 DEF C!ChainInv
<1> QED
  BY <1>2, <1>3, <1>4, <1>5, <1>6, <1>7 DEF C!IndInv

(* An event that has a session is deleted, and its descriptor and session with it. *)
LEMMA DeathStep ==
  ASSUME C!IndInv, ~crashed, C!TypeOK', clpc = "apply", NEW e \in batch, C!Live(e), batch' = batch \ {e},
         NEW x \in Events, C!Live(x), NEW s \in Sids, evs[x].sid = s,
         \/ /\ x = e /\ evs[x].fd # None /\ ioev[evs[x].fd] = x
            /\ ioev' = [ioev EXCEPT ![evs[x].fd] = None]
         \/ /\ x # e /\ evs[x].fd = None /\ evs[e].fd = None /\ ioev[None] = x
            /\ ioev' = [ioev EXCEPT ![None] = e],
         ~C!Live(x)',
         \A f \in Events : f # x => evs'[f].kind = evs[f].kind /\ evs'[f].fd = evs[f].fd /\ evs'[f].sid = evs[f].sid,
         \A f \in Events : f # x /\ f # e => evs'[f].status = evs[f].status,
         e # x => evs'[e].status = "add",
         open' = open \ {evs[x].fd},
         ses'[s].mgr = None, \A y \in Sids : y # s => ses'[y] = ses[y],
         C!DelSession(s),
         UNCHANGED <<started, changes, clpc, ready, cur, tgt, cspc>>
  PROVE  C!IndInv'
<1>0. C!TypeOK /\ C!FdsInv /\ C!RegistryInv /\ C!QueueInv /\ C!LoopInv /\ C!SessionsInv /\ C!ChainInv
  BY DEF C!IndInv
<1>t. /\ \A f \in Events : evs[f].fd \in Fds \cup {None} /\ evs[f].sid \in Sids \cup {None}
      /\ \A fd \in Fds \cup {None} : ioev[fd] \in Events \cup {None}
      /\ \A y \in Sids : ses[y].ev \in Events \cup {None}
      /\ changes \subseteq Events /\ batch \subseteq Events /\ ready \subseteq Fds /\ table \subseteq Sids
      /\ open \subseteq Fds /\ ioev \in [Fds \cup {None} -> Events \cup {None}]
  BY <1>0 DEF C!TypeOK, C!EventRecords, C!SessionRecords
<1>b. /\ e \in Events /\ cur = None /\ ~C!Husk(e) /\ evs[e].sid # None /\ evs[e].fd \in Fds \cup {None}
      /\ \A f, g \in Events : C!Live(f) /\ C!Live(g) /\ evs[f].fd = evs[g].fd /\ evs[f].fd # None => f = g
      /\ \A f \in Events : C!Live(f) /\ evs[f].sid # None => C!Alive(evs[f].sid) /\ ses[evs[f].sid].ev = f
  BY Batched
<1>p. PICK d, m : d = evs[x].fd /\ m = ses[s].mgr
  OBVIOUS
<1>s. /\ s # None /\ C!Alive(s) /\ ses[s].ev = x /\ m \in Managers /\ d \in Fds \cup {None} /\ ~C!Husk(x)
      /\ \A f \in Events : C!Live(f) /\ f # x => evs[f].sid # s
  <2>1. s # None /\ C!Alive(s) /\ ses[s].ev = x
    BY <1>b, NoneIs
  <2>2. m \in Managers
    BY <1>0, <1>p, <2>1 DEF C!TypeOK, C!SessionRecords, C!Alive
  <2> QED
    BY <1>b, <1>p, <1>t, <2>1, <2>2 DEF C!Husk
<1>l. /\ table' = table \ {s} /\ timers' = IF m \in Clients THEN [timers EXCEPT ![m] = @ + 1] ELSE timers
      /\ \A t \in Threads : cspc[t] # "idle" => tgt[t] # s
  BY <1>p DEF C!DelSession, C!OnDelSession, C!Unread
<1>1. /\ \A f \in Events : f # x => (C!Live(f)' <=> C!Live(f)) /\ (C!Husk(f)' <=> C!Husk(f))
      /\ \A y \in Sids : y # s => (C!Alive(y)' <=> C!Alive(y))
      /\ ~C!Alive(s)' /\ \A f \in Events : C!Live(f)' => f # x
  BY DEF C!Live, C!Husk, C!Alive
<1>2. C!FdsInv'
  <2>1. \A f \in Events : C!Live(f)' => evs'[f].fd \in open' \cup {None}
    <3>1. \A f \in Events : C!Live(f) => evs[f].fd \in open \cup {None}
      BY <1>0 DEF C!FdsInv
    <3> QED
      BY <1>1, <1>b, <3>1
  <2>2. ASSUME NEW fd \in open' PROVE \E f \in Events : C!Live(f)' /\ evs'[f].fd = fd
    <3>1. PICK f \in Events : C!Live(f) /\ evs[f].fd = fd
      BY <1>0 DEF C!FdsInv
    <3> QED
      BY <1>1, <3>1
  <2>3. \A f, g \in Events : C!Live(f)' /\ C!Live(g)' /\ evs'[f].fd = evs'[g].fd /\ evs'[f].fd # None => f = g
    BY <1>1, <1>b
  <2> QED
    BY <2>1, <2>2, <2>3 DEF C!FdsInv
<1>r. ASSUME NEW fd \in Fds, fd # d, ioev[fd] # None
      PROVE  ioev[fd] \in Events /\ ioev[fd] # x /\ ioev'[fd] = ioev[fd]
  <2>1. CASE d \in Fds
    <3>1. ioev[d] = x /\ ioev' = [ioev EXCEPT ![d] = None]
      BY <1>p, <2>1, NoneIs
    <3> QED
      BY <1>0, <1>r, <1>t, <2>1, <3>1 DEF C!RegistryInv
  <2>2. CASE d = None
    <3>1. ioev[fd] # x
      BY <1>0, <1>p, <1>r, <1>s, <2>2, NoneIs DEF C!RegistryInv
    <3>2. ioev' = [ioev EXCEPT ![None] = e]
      BY <1>p, <2>2
    <3> QED
      BY <1>r, <1>t, <3>1, <3>2, NoneIs
  <2> QED
    BY <1>s, <2>1, <2>2
<1>i. /\ \A fd \in Fds : ioev'[fd] # None => fd # d /\ ioev[fd] # None /\ ioev'[fd] = ioev[fd]
      /\ d # None => ioev'[None] = ioev[None] /\ x = e /\ ioev'[d] = None
      /\ d = None => ioev'[None] = e /\ x # e /\ evs[e].fd = None
  <2>1. CASE d # None
    <3>1. ioev' = [ioev EXCEPT ![d] = None] /\ x = e
      BY <1>p, <2>1
    <3> QED
      BY <1>s, <1>t, <2>1, <3>1
  <2>2. CASE d = None
    <3>1. ioev' = [ioev EXCEPT ![None] = e] /\ x # e /\ evs[e].fd = None
      BY <1>p, <2>2
    <3> QED
      BY <1>s, <1>t, <2>2, <3>1, NoneIs
  <2> QED
    BY <2>1, <2>2
<1>3. C!RegistryInv'
  <2>1. C!Pending = batch /\ C!Pending' = batch \ {e}
    BY DEF C!Pending
  <2>2. ASSUME NEW fd \in Fds, ioev'[fd] # None
        PROVE  /\ C!Live(ioev[fd])' /\ fd \in open'
               /\ \/ evs'[ioev'[fd]].fd = fd
                  \/ C!Husk(ioev[fd])' /\ \E z \in C!Pending' : C!Live(z)' /\ evs'[z].fd = fd /\ evs'[z].status = "add"
    <3>1. fd # d /\ ioev[fd] # None /\ ioev'[fd] = ioev[fd] /\ ioev[fd] # x
      BY <1>i, <1>r, <2>2
    <3>2. PICK y \in Events : y = ioev[fd]
      BY <1>r, <3>1
    <3>3. /\ C!Live(y) /\ fd \in open
          /\ \/ evs[y].fd = fd
             \/ C!Husk(y) /\ \E z \in C!Pending : C!Live(z) /\ evs[z].fd = fd /\ evs[z].status = "add"
      BY <1>0, <3>1, <3>2 DEF C!RegistryInv
    <3>4. ASSUME NEW z \in C!Pending, C!Live(z), evs[z].fd = fd, evs[z].status = "add"
          PROVE  z \in C!Pending' /\ C!Live(z)' /\ evs'[z].fd = fd /\ evs'[z].status = "add"
      <4>1. z \in Events /\ z # e /\ z # x
        BY <1>i, <1>p, <1>t, <2>1, <3>1, <3>4, NoneIs
      <4> QED
        BY <1>1, <2>1, <3>4, <4>1
    <3>5. C!Live(y)' /\ (C!Husk(y)' <=> C!Husk(y)) /\ evs'[y].fd = evs[y].fd /\ fd \in open'
      BY <1>1, <1>p, <3>1, <3>2, <3>3
    <3> QED
      BY <3>1, <3>2, <3>3, <3>4, <3>5
  <2>3. ASSUME NEW f \in Events, C!Live(f)', evs'[f].status = "del"
        PROVE  evs'[f].fd # None /\ ioev'[evs'[f].fd] = f
    <3>1. C!Live(f) /\ f # e /\ f # x /\ evs'[f].fd = evs[f].fd /\ evs[f].status = "del"
      BY <1>1, <2>3
    <3>2. evs[f].fd # None /\ ioev[evs[f].fd] = f /\ evs[f].fd \in Fds
      BY <1>0, <1>t, <3>1 DEF C!RegistryInv
    <3>3. evs[f].fd # d
      BY <1>b, <1>p, <3>1, <3>2
    <3> QED
      BY <1>r, <3>1, <3>2, <3>3, NoneIs
  <2>4. ASSUME ioev'[None] # None 
        PROVE  C!Live(ioev[None])' /\ evs'[ioev'[None]].fd = None /\ evs'[ioev'[None]].sid # None
    <3>1. CASE d = None
      <4>1. ioev'[None] = e /\ evs'[e].kind = evs[e].kind /\ evs'[e].fd = None /\ evs'[e].sid # None
        BY <1>b, <1>i, <3>1
      <4> QED
        BY <4>1 DEF C!Live
    <3>2. CASE d # None
      <4>1. ioev'[None] = ioev[None]
        BY <1>i, <3>2
      <4>2. PICK y \in Events : y = ioev[None]
        BY <1>t, <2>4, <4>1
      <4>3. C!Live(y) /\ evs[y].fd = None /\ evs[y].sid # None /\ y # x
        BY <1>0, <1>p, <2>4, <3>2, <4>1, <4>2 DEF C!RegistryInv
      <4>5. C!Live(y)' /\ evs'[y].fd = None /\ evs'[y].sid # None
        BY <1>1, <4>3
      <4> QED
        BY <4>1, <4>2, <4>5 DEF C!Live
    <3> QED
      BY <3>1, <3>2
  <2>5. \A fd, gd \in Fds : ioev'[fd] = ioev'[gd] /\ ioev'[fd] # None => fd = gd
    <3>1. \A fd, gd \in Fds : ioev[fd] = ioev[gd] /\ ioev[fd] # None => fd = gd
      BY <1>0 DEF C!RegistryInv
    <3> QED
      BY <1>i, <3>1
  <2> QED
    BY <2>2, <2>3, <2>4, <2>5 DEF C!RegistryInv
<1>4. C!QueueInv'
  <2>2. \A f \in Events : C!Live(f)' /\ evs'[f].kind \in C!Dialing =>
          ~(f \in changes' /\ f \in batch') /\ (evs'[f].status = "add" => f \notin changes' \cup batch')
    <3>1. \A f \in Events : C!Live(f) /\ evs[f].kind \in C!Dialing =>
          ~(f \in changes /\ f \in batch) /\ (evs[f].status = "add" => f \notin changes \cup batch)
      BY <1>0 DEF C!QueueInv
    <3> QED
      BY <1>1, <3>1
  <2>3. \A f \in Events : C!Husk(f)' => f \notin changes' \cup batch'
    <3>1. \A f \in Events : C!Husk(f) => f \notin changes \cup batch
      BY <1>0 DEF C!QueueInv
    <3>2. \A f \in Events : C!Husk(f)' => C!Live(f)'
      BY DEF C!Husk
    <3> QED
      BY <1>1, <3>1, <3>2
  <2> QED
    BY <2>2, <2>3 DEF C!QueueInv, C!Dialing
<1>5. C!LoopInv'
  BY <1>b DEF C!LoopInv
<1>6. C!SessionsInv'
  <2>1. \A y \in Sids : C!Alive(y)' => ses'[y].ev # None /\ C!Live(ses[y].ev)' /\ evs'[ses'[y].ev].sid = y
    <3>1. \A y \in Sids : C!Alive(y) => ses[y].ev \in Events /\ ses[y].ev # None /\ C!Live(ses[y].ev) /\ evs[ses[y].ev].sid = y
      BY <1>0, <1>t DEF C!SessionsInv
    <3>2. \A y \in Sids : C!Alive(y)' => C!Alive(y) /\ y # s /\ ses'[y] = ses[y] /\ ses[y].ev # x
      BY <1>1, <3>1
    <3> QED
      BY <1>1, <3>1, <3>2
  <2>2. ASSUME NEW f \in Events, C!Live(f)'
        PROVE  /\ evs'[f].sid = None => evs'[f].fd = None
               /\ evs'[f].sid # None =>
                    /\ C!Alive(evs[f].sid)'
                    /\ ses'[evs'[f].sid].ev = f
                    /\ evs'[f].kind \in {"passive", "ssl_passive"} => ses'[evs'[f].sid].mgr \notin Clients
    <3>1. C!Live(f) /\ evs'[f].sid = evs[f].sid /\ evs'[f].fd = evs[f].fd /\ evs'[f].kind = evs[f].kind /\ evs[f].sid # s
      BY <1>1, <1>s, <2>2
    <3>2. /\ evs[f].sid = None => evs[f].fd = None
          /\ evs[f].sid # None =>
                    /\ C!Alive(evs[f].sid) /\ ses[evs[f].sid].ev = f
                    /\ evs[f].kind \in {"passive", "ssl_passive"} => ses[evs[f].sid].mgr \notin Clients
      BY <1>0, <3>1 DEF C!SessionsInv
    <3>3. evs[f].sid # None => ses'[evs[f].sid] = ses[evs[f].sid]
      BY <1>t, <3>1
    <3>4. evs[f].sid # None => C!Alive(evs[f].sid)'
      BY <3>1, <3>2, <3>3 DEF C!Alive
    <3> QED
      BY <3>1, <3>2, <3>3, <3>4
  <2>3. \A y \in table' : C!Alive(y)' /\ evs'[ses'[y].ev].kind = "stream"
    <3>1. \A y \in table : y \in Sids /\ C!Alive(y) /\ evs[ses[y].ev].kind = "stream" /\ ses[y].ev \in Events /\ evs[ses[y].ev].sid = y
      BY <1>0, <1>t DEF C!SessionsInv
    <3>2. \A y \in table' : y \in table /\ y # s /\ ses'[y] = ses[y] /\ ses[y].ev # x
      BY <1>l, <3>1
    <3> QED
      BY <1>1, <3>1, <3>2
  <2>4. \A t \in Threads : cspc[t] # "idle" => tgt[t] \in table'
    BY <1>0, <1>l DEF C!SessionsInv
  <2> QED
    BY <2>1, <2>2, <2>3, <2>4 DEF C!SessionsInv
<1>7. C!ChainInv'
  <2>1. \A f \in Events : f # x => (C!Owns(f)' <=> C!Owns(f))
    BY <1>1 DEF C!Owns
  <2>2. C!Owns(x) /\ ~C!Owns(x)'
    BY <1>b DEF C!Owns
  <2>3. \A c : \A f \in Events : f # x => (f \in C!Mine(c)' <=> f \in C!Mine(c))
    <3>1. \A f \in Events : f # x /\ C!Live(f) /\ evs[f].sid # None => ses'[evs[f].sid] = ses[evs[f].sid]
      BY <1>s, <1>t
    <3> QED
      BY <2>1, <3>1 DEF C!Mine, C!Owns
  <2>4. \A c : x \notin C!Mine(c)' /\ (x \in C!Mine(c) <=> c = m)
    BY <1>p, <1>s, <2>2 DEF C!Mine
  <2>5. ASSUME NEW c \in Clients, c # m PROVE C!Mine(c)' = C!Mine(c) /\ timers'[c] = timers[c]
    <3>1. \A f \in Events : f \in C!Mine(c)' <=> f \in C!Mine(c)
      BY <2>3, <2>4, <2>5
    <3>2. C!Mine(c)' = C!Mine(c)
      BY <3>1 DEF C!Mine
    <3>3. timers'[c] = timers[c]
      BY <1>0, <1>l, <2>5, NoneIs DEF C!TypeOK
    <3> QED
      BY <3>2, <3>3
  <2>6. ASSUME m \in Clients PROVE m \in started /\ C!Mine(m)' = {} /\ timers'[m] = 1
    <3>1. m \in started /\ timers[m] = 0 /\ \E f \in Events : C!Mine(m) = {f}
      BY <1>0, <2>4, <2>6 DEF C!ChainInv
    <3>2. C!Mine(m) = {x}
      BY <2>4, <3>1
    <3>3. \A f \in Events : f \notin C!Mine(m)'
      BY <2>3, <2>4, <3>2
    <3>4. C!Mine(m)' = {}
      BY <3>3 DEF C!Mine
    <3>5. timers'[m] = 1
      BY <1>0, <1>l, <1>s, <2>6, <3>1 DEF C!TypeOK
    <3> QED
      BY <3>1, <3>4, <3>5
  <2> QED
    BY <1>0, <2>5, <2>6 DEF C!ChainInv
<1> QED
  BY <1>2, <1>3, <1>4, <1>5, <1>6, <1>7 DEF C!IndInv

(* What deleting an event writes. *)
LEMMA DestroyWrites ==
  ASSUME C!TypeOK, NEW x \in Events, NEW e \in Events, NEW r \in C!EventRecords,
         C!Destroy(x, e, r), evs[x].sid \in Sids
  PROVE  /\ evs' \in [Events -> C!EventRecords] /\ evs'[x] = C!NoEvent
         /\ e # x => evs'[e] = r
         /\ \A f \in Events : f # x /\ f # e => evs'[f] = evs[f]
         /\ open' = open \ {evs[x].fd}
         /\ C!DelSession(evs[x].sid)
         /\ ses' \in [Sids -> C!SessionRecords] /\ ses'[evs[x].sid] = C!NoSession
         /\ \A y \in Sids : y # evs[x].sid => ses'[y] = ses[y]
<1>0. evs \in [Events -> C!EventRecords] /\ ses \in [Sids -> C!SessionRecords]
  BY DEF C!TypeOK
<1>1. C!NoEvent \in C!EventRecords /\ C!NoSession \in C!SessionRecords
  BY DEF C!NoEvent, C!NoSession, C!EventRecords, C!SessionRecords, C!Kinds
<1>2. evs[x].sid # None
  BY NoneIs
<1>3. /\ evs' = [f \in Events |-> IF f = x THEN C!NoEvent ELSE IF f = e THEN r ELSE evs[f]]
      /\ open' = open \ {evs[x].fd}
      /\ C!DelSession(evs[x].sid)
      /\ ses' = [ses EXCEPT ![evs[x].sid] = C!NoSession]
  BY <1>2 DEF C!Destroy
<1>4. /\ evs' \in [Events -> C!EventRecords] /\ evs'[x] = C!NoEvent
      /\ e # x => evs'[e] = r
      /\ \A f \in Events : f # x /\ f # e => evs'[f] = evs[f]
  <2>1. \A f \in Events : (IF f = x THEN C!NoEvent ELSE IF f = e THEN r ELSE evs[f]) \in C!EventRecords
    BY <1>0, <1>1
  <2> QED
    BY <1>3, <2>1
<1>5. /\ ses' \in [Sids -> C!SessionRecords] /\ ses'[evs[x].sid] = C!NoSession
      /\ \A y \in Sids : y # evs[x].sid => ses'[y] = ses[y]
  BY <1>0, <1>1, <1>3
<1> QED
  BY <1>3, <1>4, <1>5

(* Registering an event leaves its kind, descriptor and session alone. *)
LEMMA RegisteredRecord ==
  ASSUME NEW r \in C!EventRecords
  PROVE  /\ C!Registered(r) \in C!EventRecords
         /\ C!Registered(r).kind = r.kind /\ C!Registered(r).fd = r.fd
         /\ C!Registered(r).sid = r.sid /\ C!Registered(r).status = "add"
<1>1. PICK b \in BOOLEAN : b = (r.fd # None)
  OBVIOUS
<1>2. C!Registered(r) = [r EXCEPT !.status = "add", !.base = b]
  BY <1>1 DEF C!Registered
<1> QED
  BY <1>2 DEF C!EventRecords

(* del_session() leaves table and timers well typed. *)
LEMMA DeadTypes ==
  ASSUME C!TypeOK, NEW s \in Sids, C!Alive(s), C!DelSession(s)
  PROVE  table' \subseteq Sids /\ timers' \in [Managers -> Nat]
<1>1. ses[s].mgr \in Managers
  BY DEF C!TypeOK, C!SessionRecords, C!Alive
<1>2. table' = table \ {s}
      /\ timers' = IF ses[s].mgr \in Clients THEN [timers EXCEPT ![ses[s].mgr] = @ + 1] ELSE timers
  BY DEF C!DelSession, C!OnDelSession
<1> QED
  BY <1>1, <1>2 DEF C!TypeOK

(* One element of the changelist: registered, registered over an older event, or deleted. *)
LEMMA ApplyStep ==
  ASSUME C!IndInv, ~crashed, NEW e \in Events, C!Apply(e)
  PROVE  C!IndInv'
<1>0. C!TypeOK /\ C!FdsInv /\ C!RegistryInv /\ C!QueueInv /\ C!SessionsInv
      /\ evs \in [Events -> C!EventRecords] /\ evs[e] \in C!EventRecords
      /\ ioev \in [Fds \cup {None} -> Events \cup {None}]
  BY DEF C!IndInv, C!TypeOK
<1>1. /\ clpc = "apply" /\ e \in batch /\ batch' = batch \ {e}
      /\ UNCHANGED <<started, changes, clpc, ready, cur, tgt, cspc>>
  BY DEF C!Apply, C!sendvars
<1>2. CASE crashed' = TRUE
  BY <1>2 DEF C!IndInv
<1>3. CASE C!Live(e)
  <2>1. IF evs[e].status # "del" THEN C!AddEventInner(e) ELSE C!DelEventInner(e)
    BY <1>3 DEF C!Apply
  <2>2. /\ cur = None /\ ~C!Husk(e) /\ evs[e].sid \in Sids /\ evs[e].sid # None /\ evs[e].fd \in Fds \cup {None}
        /\ \A f, g \in Events : C!Live(f) /\ C!Live(g) /\ evs[f].fd = evs[g].fd /\ evs[f].fd # None => f = g
        /\ \A f \in Events : C!Live(f) /\ evs[f].sid # None => C!Alive(evs[f].sid) /\ ses[evs[f].sid].ev = f
    BY <1>1, <1>3, Batched
  <2>3. PICK r : r = C!Registered(evs[e])
    OBVIOUS
  <2>4. r \in C!EventRecords /\ r.kind = evs[e].kind /\ r.fd = evs[e].fd /\ r.sid = evs[e].sid /\ r.status = "add"
    BY <1>0, <2>3, RegisteredRecord
  <2>5. PICK old : old = ioev[evs[e].fd]
    OBVIOUS
  <2>6. old \in Events \cup {None}
    BY <1>0, <2>2, <2>5
  <2>7. ASSUME C!AddEventInner(e), old \in {None, e}
        PROVE  C!IndInv'
    <3>1. /\ ioev' = [ioev EXCEPT ![evs[e].fd] = e]
          /\ evs' = [evs EXCEPT ![e] = r]
          /\ UNCHANGED <<open, ses, table, timers>>
      BY <2>3, <2>5, <2>7 DEF C!AddEventInner
    <3>2. evs' \in [Events -> C!EventRecords] /\ evs'[e] = r /\ \A f \in Events : f # e => evs'[f] = evs[f]
      BY <1>0, <2>4, <3>1
    <3>3. ioev' \in [Fds \cup {None} -> Events \cup {None}]
      BY <1>0, <3>1
    <3>4. C!TypeOK'
      BY <1>0, <1>1, <3>1, <3>2, <3>3 DEF C!TypeOK
    <3>5. None \in Events \cup {None} /\ None # e
      BY NoneIs
    <3> QED
      BY <1>1, <1>3, <2>4, <3>1, <3>2, <3>4, <3>5, RegisterStep
  <2>8. ASSUME C!AddEventInner(e), old \notin {None, e}, evs[e].fd # None
        PROVE  C!IndInv'
    <3>1. ioev' = [ioev EXCEPT ![evs[e].fd] = e] /\ C!Destroy(old, e, r)
      BY <2>3, <2>5, <2>8 DEF C!AddEventInner
    <3>2. old \in Events /\ evs[e].fd \in Fds
      BY <2>2, <2>6, <2>8
    <3>3. C!Live(old) /\ C!Husk(old)
      BY <1>0, <1>3, <2>2, <2>5, <2>8, <3>2 DEF C!RegistryInv
    <3>4. evs[old].sid = None /\ evs[old].fd = None
      BY <3>3 DEF C!Husk
    <3>5. /\ evs' = [f \in Events |-> IF f = old THEN C!NoEvent ELSE IF f = e THEN r ELSE evs[f]]
          /\ open' = open \ {None} /\ UNCHANGED <<ses, table, timers>>
      BY <3>1, <3>4 DEF C!Destroy
    <3>6. open' = open
      BY <1>0, <3>5, NoneIs DEF C!TypeOK
    <3>7. C!NoEvent \in C!EventRecords /\ C!NoEvent.kind = "free"
      BY DEF C!NoEvent, C!EventRecords, C!Kinds
    <3>8. /\ evs' \in [Events -> C!EventRecords] /\ evs'[e] = r /\ evs'[old] = C!NoEvent
          /\ \A f \in Events : f # e /\ f # old => evs'[f] = evs[f]
      <4>1. \A f \in Events : (IF f = old THEN C!NoEvent ELSE IF f = e THEN r ELSE evs[f]) \in C!EventRecords
        BY <1>0, <2>4, <3>7
      <4> QED
        BY <2>8, <3>2, <3>5, <4>1
    <3>9. ioev' \in [Fds \cup {None} -> Events \cup {None}]
      BY <1>0, <3>1
    <3>10. C!TypeOK'
      BY <1>0, <1>1, <3>5, <3>6, <3>8, <3>9 DEF C!TypeOK
    <3> QED
      BY <1>1, <1>3, <2>4, <2>5, <2>6, <2>8, <3>1, <3>3, <3>5, <3>6, <3>7, <3>8, <3>10, RegisterStep
  <2>9. ASSUME C!AddEventInner(e), old \notin {None, e}, evs[e].fd = None
        PROVE  C!IndInv'
    <3>1. ioev' = [ioev EXCEPT ![None] = e] /\ C!Destroy(old, e, r) /\ ioev[None] = old
      BY <2>3, <2>5, <2>9 DEF C!AddEventInner
    <3>2. old \in Events /\ old # e
      BY <2>6, <2>9
    <3>3. C!Live(old) /\ evs[old].fd = None /\ evs[old].sid # None
      BY <1>0, <2>9, <3>1 DEF C!RegistryInv
    <3>4. PICK s : s = evs[old].sid
      OBVIOUS
    <3>5. s \in Sids /\ C!Alive(s)
      BY <1>0, <2>2, <3>2, <3>3, <3>4 DEF C!EventRecords
    <3>6. /\ evs' \in [Events -> C!EventRecords] /\ evs'[old] = C!NoEvent /\ evs'[e] = r
          /\ \A f \in Events : f # old /\ f # e => evs'[f] = evs[f]
          /\ open' = open \ {evs[old].fd} /\ C!DelSession(s)
          /\ ses' \in [Sids -> C!SessionRecords] /\ ses'[s] = C!NoSession
          /\ \A y \in Sids : y # s => ses'[y] = ses[y]
      BY <1>0, <2>4, <3>1, <3>2, <3>4, <3>5, DestroyWrites
    <3>7. ~C!Live(old)' /\ ses'[s].mgr = None
      BY <3>6, <2>5 DEF C!Live, C!NoEvent, C!NoSession
    <3>8. table' \subseteq Sids /\ timers' \in [Managers -> Nat] /\ open' \subseteq Fds
          /\ ioev' \in [Fds \cup {None} -> Events \cup {None}]
      BY <1>0, <3>1, <3>5, <3>6, DeadTypes DEF C!TypeOK
    <3>9. C!TypeOK'
      BY <1>0, <1>1, <3>6, <3>8 DEF C!TypeOK
    <3>10. /\ \A f \in Events : f # old => evs'[f].kind = evs[f].kind /\ evs'[f].fd = evs[f].fd /\ evs'[f].sid = evs[f].sid
           /\ \A f \in Events : f # old /\ f # e => evs'[f].status = evs[f].status
           /\ evs'[e].status = "add"
      BY <2>4, <3>6
    <3> QED
      BY <1>1, <1>3, <2>9, <3>1, <3>2, <3>3, <3>4, <3>5, <3>6, <3>7, <3>9, <3>10, DeathStep
  <2>10. ASSUME C!DelEventInner(e), evs[e].status = "del"
         PROVE  C!IndInv'
    <3>1. evs[e].fd # None /\ ioev[evs[e].fd] = e
      BY <1>0, <1>3, <2>10 DEF C!RegistryInv
    <3>2. ioev' = [ioev EXCEPT ![evs[e].fd] = None] /\ C!Destroy(e, e, C!NoEvent)
      BY <2>10, <3>1, NoneIs DEF C!DelEventInner
    <3>3. C!NoEvent \in C!EventRecords
      BY DEF C!NoEvent, C!EventRecords, C!Kinds
    <3>4. PICK s : s = evs[e].sid
      OBVIOUS
    <3>5. s \in Sids /\ C!Alive(s)
      BY <1>3, <2>2, <3>4
    <3>6. /\ evs' \in [Events -> C!EventRecords] /\ evs'[e] = C!NoEvent
          /\ \A f \in Events : f # e => evs'[f] = evs[f]
          /\ open' = open \ {evs[e].fd} /\ C!DelSession(s)
          /\ ses' \in [Sids -> C!SessionRecords] /\ ses'[s] = C!NoSession
          /\ \A y \in Sids : y # s => ses'[y] = ses[y]
      BY <1>0, <3>2, <3>3, <3>4, <3>5, DestroyWrites
    <3>7. ~C!Live(e)' /\ ses'[s].mgr = None
      BY <3>6 DEF C!Live, C!NoEvent, C!NoSession
    <3>8. table' \subseteq Sids /\ timers' \in [Managers -> Nat] /\ open' \subseteq Fds
          /\ ioev' \in [Fds \cup {None} -> Events \cup {None}]
      BY <1>0, <3>2, <3>5, <3>6, DeadTypes DEF C!TypeOK
    <3>9. C!TypeOK'
      BY <1>0, <1>1, <3>6, <3>8 DEF C!TypeOK
    <3> QED
      BY <1>1, <1>3, <3>1, <3>2, <3>4, <3>5, <3>6, <3>7, <3>9, DeathStep
  <2> QED
    BY <2>1, <2>7, <2>8, <2>9, <2>10
<1> QED
  BY <1>2, <1>3 DEF C!Apply

(* While the behaviour is about the session, the connections stay as they are. *)
LEMMA ConnectionsStand ==
  ASSUME C!IndInv, UNCHANGED cvars
  PROVE  C!IndInv'
<1>1. CASE crashed
  BY <1>1 DEF C!IndInv, cvars
<1>2. CASE ~crashed
  <2>1. C!TypeOK /\ C!SessionsInv
    BY <1>2 DEF C!IndInv
  <2>2. C!TypeOK'
    BY <2>1 DEF C!TypeOK, cvars
  <2>3. \A t \in Threads : cspc'[t] # "idle" => tgt'[t] \in table
    BY <2>1 DEF C!SessionsInv, cvars
  <2> QED
    BY <1>2, <2>2, <2>3, QuietConnections DEF cvars
<1> QED
  BY <1>1, <1>2

(* Every step of the loop, the timer, the senders and main() keeps the invariant. *)
LEMMA ConnectionsStep ==
  ASSUME C!IndInv, C!Next
  PROVE  C!IndInv'
<1>1. CASE C!LoopStep
  <2>1. ~crashed
    BY <1>1 DEF C!LoopStep
  <2>2. CASE C!Flip \/ C!Poll \/ C!EndDispatch
    BY <2>1, <2>2, TurnStep
  <2>3. CASE C!Arm
    BY <2>1, <2>3, ArmStep
  <2>4. ASSUME NEW e \in Events, C!Apply(e)
        PROVE  C!IndInv'
    BY <2>1, <2>4, ApplyStep
  <2>5. ASSUME NEW e \in Events, C!Handle(e)
        PROVE  C!IndInv'
    <3>1. CASE C!Skip(e)
      BY <2>1, <3>1, QuietSkip
    <3>2. CASE C!Accept(e) \/ C!AcceptSsl(e)
      BY <2>1, <3>2, BirthAccept
    <3>3. CASE C!Dial(e) \/ C!DialSsl(e)
      BY <2>1, <3>3, HandoverDial
    <3>4. CASE \/ C!Transfer(e) \/ C!Broken(e) \/ C!HandleClose(e)
               \/ C!Handshake(e) \/ C!SslWrite(e) \/ C!SslRead(e)
      BY <2>1, <3>4, QuietHandlers
    <3> QED
      BY <2>5, <3>1, <3>2, <3>3, <3>4 DEF C!Handle
  <2> QED
    BY <1>1, <2>2, <2>3, <2>4, <2>5 DEF C!LoopStep
<1>2. CASE ~crashed /\ (C!SslReadFull \/ C!SslReadEnds)
  BY <1>2, QuietSpin
<1>3. CASE ~crashed /\ \E m \in Managers : C!Start(m) \/ C!Reconnect(m)
  BY <1>3, BirthConnect
<1>4. CASE \E t \in Threads : C!SendStep(t)
  <2>1. ~crashed
    BY <1>4 DEF C!SendStep
  <2> QED
    BY <1>4, <2>1, QuietThreads
<1>5. CASE ~crashed /\ \E s \in Sids : C!CheckTimeouts(s)
  BY <1>5, QuietThreads
<1> QED
  BY <1>1, <1>2, <1>3, <1>4, <1>5 DEF C!Next

(* The parts of the invariant say what OwnersSound and OneChain say. *)
LEMMA OwnersFollow == C!IndInv => OwnersSound
<1> SUFFICES ASSUME C!IndInv, ~crashed PROVE C!OwnersSound /\ C!OneChain
  BY DEF OwnersSound, C!OwnersSound, C!OneChain
<1>0. C!TypeOK /\ C!FdsInv /\ C!RegistryInv /\ C!LoopInv /\ C!SessionsInv /\ C!ChainInv
  BY DEF C!IndInv
<1>c. \A S : C!Cardinality(S) = Cardinality(S)
  BY DEF C!Cardinality, Cardinality
<1>t. /\ \A f \in Events : evs[f].fd \in Fds \cup {None} /\ evs[f].sid \in Sids \cup {None}
      /\ \A fd \in Fds \cup {None} : ioev[fd] \in Events \cup {None}
      /\ open \subseteq Fds /\ cur \in Events \cup {None}
  BY <1>0 DEF C!TypeOK, C!EventRecords
<1>1. ASSUME NEW fd \in open, fd \notin {evs[e].fd : e \in {cur} \ {None}}
      PROVE  C!Cardinality({e \in Events : C!Live(e) /\ evs[e].fd = fd}) = 1
  <2>1. PICK f \in Events : C!Live(f) /\ evs[f].fd = fd
    BY <1>0 DEF C!FdsInv
  <2>2. fd # None /\ (clpc = "arm" => evs[cur].fd # fd)
    BY <1>0, <1>1, <1>t, NoneIs DEF C!LoopInv
  <2>3. \A g \in Events : C!Live(g) /\ evs[g].fd = fd => g = f
    <3>1. ASSUME NEW g \in Events, C!Live(g), evs[g].fd = fd PROVE g = f
      <4>1. g = f \/ (clpc = "arm" /\ cur \in {g, f})
        BY <1>0, <2>1, <2>2, <3>1 DEF C!FdsInv
      <4> QED
        BY <2>1, <2>2, <3>1, <4>1
    <3> QED
      BY <3>1
  <2>4. {e \in Events : C!Live(e) /\ evs[e].fd = fd} = {f}
    BY <2>1, <2>3
  <2> QED
    BY <1>c, <2>4, FS_Singleton
<1>2. \A e \in Events : C!Live(e) => evs[e].fd \in open \cup {None}
  BY <1>0 DEF C!FdsInv
<1>3. /\ \A s \in Sids : C!Alive(s) => C!Live(ses[s].ev) /\ evs[ses[s].ev].sid = s
      /\ \A s \in table : C!Alive(s)
      /\ \A t \in Threads : cspc[t] # "idle" => tgt[t] \in table
  BY <1>0 DEF C!SessionsInv
<1>4. ASSUME NEW e \in Events, NEW f \in Events, C!Owns(e), C!Owns(f), evs[e].sid = evs[f].sid, evs[e].sid # None
      PROVE  e = f
  <2>1. PICK old : old = ioev[evs[cur].fd]
    OBVIOUS
  <2>2. /\ C!Live(e) /\ C!Live(f) /\ (clpc = "arm" => cur # e /\ cur # f)
    BY <1>4 DEF C!Owns
  <2>3. /\ ses[evs[e].sid].ev = e \/ (clpc = "arm" /\ e = old /\ ses[evs[e].sid].ev = cur)
        /\ ses[evs[e].sid].ev = f \/ (clpc = "arm" /\ f = old /\ ses[evs[e].sid].ev = cur)
    BY <1>0, <1>4, <2>1, <2>2 DEF C!SessionsInv
  <2> QED
    BY <2>2, <2>3
<1>5. \A fd \in Fds : ioev[fd] # None => C!Live(ioev[fd])
  BY <1>0 DEF C!RegistryInv
<1>6. C!OwnersSound
  BY <1>1, <1>2, <1>3, <1>4, <1>5 DEF C!OwnersSound
<1>7. ASSUME NEW m \in Clients \cap started
      PROVE  C!Chain(m) = 1
  <2>1. CASE timers[m] = 1 /\ C!Mine(m) = {}
    BY <1>c, <2>1, FS_EmptySet DEF C!Chain
  <2>2. CASE timers[m] = 0 /\ \E e \in Events : C!Mine(m) = {e}
    <3>1. PICK e \in Events : C!Mine(m) = {e}
      BY <2>2
    <3>2. C!Cardinality(C!Mine(m)) = 1
      BY <1>c, <3>1, FS_Singleton
    <3> QED
      BY <2>2, <3>2 DEF C!Chain
  <2> QED
    BY <1>0, <2>1, <2>2 DEF C!ChainInv
<1> QED
  BY <1>6, <1>7 DEF C!OneChain

(* OwnersSound for any managers, threads, descriptors and events: ~netio_event() closes what its    *)
(* event owns and no more, the reactor finds live events only, senders keep their session, and a    *)
(* client manager never has two connections, attempts or timers, nor none.                          *)
THEOREM ConnectionsOwned == InitAll /\ [][NextAll]_allvars => []OwnersSound
<1>1. InitAll => C!IndInv
  BY InitConnections DEF InitAll
<1>2. C!IndInv /\ [NextAll]_allvars => C!IndInv'
  BY ConnectionsStand, ConnectionsStep DEF NextAll, allvars
<1> QED
  BY <1>1, <1>2, OwnersFollow, PTL

-----------------------------------------------------------------------------
(* The receive path, SessionRecv, as R.                                         *)

(* Among some numbers there is a least one. *)
LEMMA LeastNumber ==
  ASSUME NEW X, X \subseteq Nat, X # {}
  PROVE  \E x \in X : \A y \in X : x <= y
<1> DEFINE Less == OpToRel(<, Nat)
<1>1. IsWellFoundedOn(Less, Nat)
  BY NatLessThanWellFounded
<1>2. \E x \in X : \A y \in X : ~(<<y, x>> \in Less)
  BY <1>1, WFMin
<1>3. \A x, y \in Nat : y < x => <<y, x>> \in Less
  BY DEF OpToRel
<1>4. PICK x \in X : \A y \in X : ~(<<y, x>> \in Less)
  BY <1>2
<1> HIDE DEF Less
<1>5. ASSUME NEW y \in X PROVE x <= y
  <2>1. x \in Nat /\ y \in Nat /\ ~(y < x)
    BY <1>3, <1>4, <1>5
  <2> QED
    BY <2>1
<1> QED
  BY <1>4, <1>5

(* Induction: a set that has 0, and the next of each of its numbers, has them all. *)
LEMMA AllNumbers ==
  ASSUME NEW X, 0 \in X, \A n \in Nat : n \in X => n + 1 \in X
  PROVE  Nat \subseteq X
<1> SUFFICES ASSUME NEW n \in Nat, n \notin X PROVE FALSE
  OBVIOUS
<1>1. PICK x \in Nat \ X : \A y \in Nat \ X : x <= y
  <2>1. Nat \ X \subseteq Nat /\ Nat \ X # {}
    OBVIOUS
  <2> QED
    BY <2>1, LeastNumber
<1>2. x # 0
  OBVIOUS
<1>3. x - 1 \in Nat /\ (x - 1) + 1 = x
  BY <1>2
<1> QED
  BY <1>1, <1>3


(* Strong induction: a set that has every number below which it has all has them all. *)
LEMMA AllFromBelow ==
  ASSUME NEW X, \A n \in Nat : (\A m \in 0 .. n - 1 : m \in X) => n \in X
  PROVE  Nat \subseteq X
<1> SUFFICES ASSUME NEW n \in Nat, n \notin X PROVE FALSE
  OBVIOUS
<1>1. PICK x \in Nat \ X : \A y \in Nat \ X : x <= y
  <2>1. Nat \ X \subseteq Nat /\ Nat \ X # {}
    OBVIOUS
  <2> QED
    BY <2>1, LeastNumber
<1>2. \A m \in 0 .. x - 1 : m \in X
  BY <1>1
<1> QED
  BY <1>2

-----------------------------------------------------------------------------
(* Varints, for any radix. *)
Octet == [bits : Nat, more : BOOLEAN]

(* write_varint() of v, when w has what it writes of smaller values. *)
Varint(w, r, v) ==
  IF v < r THEN <<[bits |-> v, more |-> FALSE]>>
  ELSE <<[bits |-> v % r, more |-> TRUE]>> \o w[v \div r]

(* w is write_varint() up to n. *)
Upto(w, r, n) == w \in [0 .. n -> Seq(Octet)] /\ \A v \in 0 .. n : w[v] = Varint(w, r, v)

(* w is write_varint(). *)
Writes(w, r) == w = [v \in Nat |-> Varint(w, r, v)]

(* The quotient is smaller. *)
LEMMA Quotient ==
  ASSUME NEW r \in Nat, r > 1, NEW v \in Nat, v >= r
  PROVE  v \div r \in 0 .. v - 1 /\ v % r \in 0 .. r - 1 /\ v = (v % r) + r * (v \div r)
<1>1. v \div r \in Nat
  OBVIOUS
<1>2. v \div r < v
  OBVIOUS
<1>3. v % r \in 0 .. r - 1
  OBVIOUS
<1>4. v = (v % r) + r * (v \div r)
  OBVIOUS
<1> QED
  BY <1>1, <1>2, <1>3, <1>4

(* An octet in front of octets. *)
LEMMA VarintType ==
  ASSUME NEW r \in Nat, r > 1, NEW v \in Nat, NEW w, v >= r => w[v \div r] \in Seq(Octet)
  PROVE  Varint(w, r, v) \in Seq(Octet)
<1>1. CASE v < r
  <2>1. [bits |-> v, more |-> FALSE] \in Octet
    BY DEF Octet
  <2> QED
    BY <1>1, <2>1 DEF Varint
<1>2. CASE v >= r
  <2>1. [bits |-> v % r, more |-> TRUE] \in Octet
    BY <1>2, Quotient DEF Octet
  <2>2. <<[bits |-> v % r, more |-> TRUE]>> \in Seq(Octet)
    BY <2>1
  <2>3. <<[bits |-> v % r, more |-> TRUE]>> \o w[v \div r] \in Seq(Octet)
    BY <1>2, <2>2
  <2>4. ~(v < r)
    BY <1>2
  <2> QED
    BY <2>3, <2>4 DEF Varint
<1> QED
  BY <1>1, <1>2

(* write_varint() up to every number. *)
LEMMA UptoExists ==
  ASSUME NEW r \in Nat, r > 1, NEW n \in Nat
  PROVE  \E w : Upto(w, r, n)
<1> DEFINE X == {k \in Nat : \E w : Upto(w, r, k)}
<1>1. 0 \in X
  <2> DEFINE w == [v \in 0 .. 0 |-> <<[bits |-> v, more |-> FALSE]>>]
  <2>1. \A v \in 0 .. 0 : Varint(w, r, v) = <<[bits |-> v, more |-> FALSE]>>
    <3>1. \A v \in 0 .. 0 : v < r
      OBVIOUS
    <3> HIDE DEF w
    <3> QED
      BY <3>1 DEF Varint
  <2>2. \A v \in 0 .. 0 : Varint(w, r, v) \in Seq(Octet)
    <3>1. \A v \in 0 .. 0 : v \in Nat /\ ~(v >= r)
      OBVIOUS
    <3> HIDE DEF w
    <3> QED
      BY <3>1, VarintType
  <2>3. Upto(w, r, 0)
    BY <2>1, <2>2 DEF Upto
  <2> QED
    BY <2>3
<1>2. ASSUME NEW k \in Nat, k \in X PROVE k + 1 \in X
  <2>1. PICK f : Upto(f, r, k)
    BY <1>2
  <2>2. f \in [0 .. k -> Seq(Octet)] /\ \A v \in 0 .. k : f[v] = Varint(f, r, v)
    BY <2>1 DEF Upto
  <2>3. \A v \in 0 .. k + 1 : v >= r => v \div r \in 0 .. k /\ v \div r \in 0 .. v - 1
    BY Quotient
  <2> DEFINE w == [v \in 0 .. k + 1 |-> IF v = k + 1 THEN Varint(f, r, k + 1) ELSE f[v]]
  <2>4. w \in [0 .. k + 1 -> Seq(Octet)]
    <3>1. k + 1 >= r => f[(k + 1) \div r] \in Seq(Octet)
      <4>1. k + 1 \in 0 .. k + 1
        OBVIOUS
      <4>2. k + 1 >= r => (k + 1) \div r \in 0 .. k
        BY <2>3, <4>1
      <4> QED
        BY <2>2, <4>2
    <3>2. Varint(f, r, k + 1) \in Seq(Octet)
      BY <3>1, VarintType
    <3>3. \A v \in 0 .. k + 1 : v # k + 1 => f[v] \in Seq(Octet)
      BY <2>2
    <3> QED
      BY <3>2, <3>3
  <2>5. ASSUME NEW v \in 0 .. k + 1 PROVE w[v] = Varint(w, r, v)
    <3>1. v >= r => w[v \div r] = f[v \div r]
      <4>1. \A q \in 0 .. k : w[q] = f[q]
        OBVIOUS
      <4> HIDE DEF w
      <4> QED
        BY <2>3, <4>1
    <3>2. Varint(w, r, v) = Varint(f, r, v)
      <4> HIDE DEF w
      <4> QED
        BY <3>1 DEF Varint
    <3>3. w[v] = Varint(f, r, v)
      BY <2>2
    <3> QED
      BY <3>2, <3>3
  <2>6. Upto(w, r, k + 1)
    BY <2>4, <2>5 DEF Upto
  <2> QED
    BY <2>6
<1>3. Nat \subseteq X
  <2> HIDE DEF X
  <2> QED
    BY <1>1, <1>2, AllNumbers
<1> QED
  BY <1>3

(* And one only. *)
LEMMA UptoUnique ==
  ASSUME NEW r \in Nat, r > 1, NEW f, NEW g, NEW n \in Nat, NEW m \in Nat, Upto(f, r, n),
         Upto(g, r, m), NEW v \in Nat, v <= n, v <= m
  PROVE  f[v] = g[v]
<1> DEFINE X == {k \in Nat : k <= n /\ k <= m => f[k] = g[k]}
<1>1. ASSUME NEW k \in Nat, \A j \in 0 .. k - 1 : j \in X, k <= n, k <= m PROVE f[k] = g[k]
  <2>1. f[k] = Varint(f, r, k) /\ g[k] = Varint(g, r, k)
    BY <1>1 DEF Upto
  <2>2. k >= r => k \div r \in 0 .. k - 1
    BY Quotient
  <2>3. k >= r => f[k \div r] = g[k \div r]
    BY <1>1, <2>2
  <2> QED
    BY <2>1, <2>3 DEF Varint
<1>2. \A k \in Nat : (\A j \in 0 .. k - 1 : j \in X) => k \in X
  BY <1>1
<1>3. Nat \subseteq X
  <2> HIDE DEF X
  <2> QED
    BY <1>2, AllFromBelow
<1> QED
  BY <1>3

(* The recursive definition of write_varint() defines something. *)
LEMMA WritesExists == ASSUME NEW r \in Nat, r > 1 PROVE \E w : Writes(w, r)
<1> DEFINE upto(n) == CHOOSE w : Upto(w, r, n)
           w == [v \in Nat |-> upto(v)[v]]
<1>1. \A n \in Nat : Upto(upto(n), r, n)
  <2> TAKE n \in Nat
  <2>1. \E x : Upto(x, r, n)
    BY UptoExists
  <2> QED
    BY <2>1, Zenon
<1> HIDE DEF upto
<1>2. ASSUME NEW v \in Nat PROVE w[v] = Varint(w, r, v)
  <2>1. upto(v)[v] = Varint(upto(v), r, v)
    BY <1>1 DEF Upto
  <2>2. v >= r => v \div r \in Nat /\ v \div r <= v
    BY Quotient
  <2>3. v >= r => upto(v)[v \div r] = upto(v \div r)[v \div r]
    <3>1. ASSUME v >= r, NEW q \in Nat, q = v \div r, q <= v PROVE upto(v)[q] = upto(q)[q]
      BY <1>1, <3>1, UptoUnique
    <3> QED
      BY <2>2, <3>1
  <2>4. v >= r => upto(v)[v \div r] = w[v \div r]
    BY <2>2, <2>3
  <2>5. Varint(upto(v), r, v) = Varint(w, r, v)
    <3> HIDE DEF w
    <3> QED
      BY <2>4 DEF Varint
  <2> QED
    BY <2>1, <2>5
<1>3. Writes(w, r)
  <2>1. w = [v \in Nat |-> w[v]]
    OBVIOUS
  <2> HIDE DEF w
  <2> QED
    BY <1>2, <2>1 DEF Writes
<1> QED
  BY <1>3

(* A sequence of values, each made from the one before it by the function of its turn. *)
Unfolds(D, F, x, n) ==
  \E g \in [0 .. n -> D] : g[0] = x /\ \A i \in 1 .. n : g[i] = F[i][g[i - 1]]

(* There is such a thing for all functions on D. *)
LEMMA Unfolded ==
  ASSUME NEW D, NEW n \in Nat, NEW F \in [1 .. n -> [D -> D]], NEW x \in D
  PROVE  Unfolds(D, F, x, n)
<1> DEFINE X == {k \in Nat : k <= n => Unfolds(D, F, x, k)}
<1> USE DEF Unfolds
<1>1. 0 \in X
  <2>1. [i \in 0 .. 0 |-> x] \in [0 .. 0 -> D]
    OBVIOUS
  <2>2. /\ [i \in 0 .. 0 |-> x][0] = x
        /\ \A i \in 1 .. 0 : [j \in 0 .. 0 |-> x][i] = F[i][[j \in 0 .. 0 |-> x][i - 1]]
    OBVIOUS
  <2> QED
    BY <2>1, <2>2
<1>2. ASSUME NEW k \in Nat, k \in X, k + 1 <= n PROVE Unfolds(D, F, x, k + 1)
  <2>1. PICK g \in [0 .. k -> D] : g[0] = x /\ \A i \in 1 .. k : g[i] = F[i][g[i - 1]]
    BY <1>2
  <2>2. k + 1 \in 1 .. n /\ F[k + 1] \in [D -> D]
    BY <1>2
  <2> DEFINE h == [i \in 0 .. k + 1 |-> IF i = k + 1 THEN F[k + 1][g[k]] ELSE g[i]]
  <2>3. h \in [0 .. k + 1 -> D]
    BY <2>1, <2>2
  <2>4. h[0] = x /\ \A i \in 1 .. k + 1 : h[i] = F[i][h[i - 1]]
    BY <2>1
  <2> QED
    BY <2>3, <2>4
<1>3. \A k \in Nat : k \in X => k + 1 \in X
  BY <1>2
<1>4. Nat \subseteq X
  <2> HIDE DEF X
  <2> QED
    BY <1>1, <1>3, AllNumbers
<1> QED
  BY <1>4

(* An octet and its parts. *)
LEMMA OctetFacts ==
  ASSUME NEW b \in Nat, NEW m \in BOOLEAN
  PROVE  \E o \in Octet : o = [bits |-> b, more |-> m] /\ o.bits = b /\ o.more = m
<1>1. PICK o : o = [bits |-> b, more |-> m]
  OBVIOUS
<1>2. o \in Octet /\ o.bits = b /\ o.more = m
  BY <1>1 DEF Octet
<1> QED
  BY <1>1, <1>2

(* An octet in front of a sequence. *)
LEMMA FrontFacts ==
  ASSUME NEW S, NEW x \in S, NEW s \in Seq(S)
  PROVE  /\ <<x>> \o s \in Seq(S) /\ Len(<<x>> \o s) = Len(s) + 1
         /\ (<<x>> \o s)[1] = x
         /\ \A i \in 2 .. Len(s) + 1 : (<<x>> \o s)[i] = s[i - 1]
<1>1. <<x>> \in Seq(S) /\ Len(<<x>>) = 1 /\ <<x>>[1] = x
  OBVIOUS
<1> QED
  BY <1>1, ConcatProperties

(* What write_varint() writes: every octet but the last says that there is more. *)
LEMMA WritesShape ==
  ASSUME NEW r \in Nat, r > 1, NEW w, Writes(w, r), NEW v \in Nat
  PROVE  /\ w[v] \in Seq(Octet) /\ Len(w[v]) \in Nat \ {0}
         /\ ~w[v][Len(w[v])].more
         /\ \A i \in 1 .. Len(w[v]) - 1 : w[v][i].more
<1> DEFINE Shaped(s) == /\ s \in Seq(Octet) /\ Len(s) \in Nat \ {0} /\ ~s[Len(s)].more
                        /\ \A i \in 1 .. Len(s) - 1 : s[i].more
           X == {k \in Nat : Shaped(w[k])}
<1>1. \A k \in Nat : w[k] = Varint(w, r, k)
  BY DEF Writes
<1>2. ASSUME NEW k \in Nat, \A j \in 0 .. k - 1 : j \in X PROVE Shaped(w[k])
  <2>1. CASE k < r
    <3>1. PICK o \in Octet : o = [bits |-> k, more |-> FALSE] /\ o.bits = k /\ o.more = FALSE
      BY OctetFacts
    <3>2. w[k] = <<o>>
      BY <1>1, <2>1, <3>1 DEF Varint
    <3> QED
      BY <3>1, <3>2
  <2>2. CASE k >= r
    <3>1. PICK o \in Octet : o = [bits |-> k % r, more |-> TRUE] /\ o.bits = k % r /\ o.more = TRUE
      <4>1. k % r \in Nat
        BY <2>2, Quotient
      <4> QED
        BY <4>1, OctetFacts
    <3>2. PICK s : s = w[k \div r]
      OBVIOUS
    <3>3. Shaped(s)
      <4>1. k \div r \in 0 .. k - 1
        BY <2>2, Quotient
      <4> QED
        BY <1>2, <3>2, <4>1
    <3>4. w[k] = <<o>> \o s
      <4>1. ~(k < r)
        BY <2>2
      <4> QED
        BY <1>1, <3>1, <3>2, <4>1 DEF Varint
    <3>5. /\ <<o>> \o s \in Seq(Octet) /\ Len(<<o>> \o s) = Len(s) + 1
          /\ (<<o>> \o s)[1] = o
          /\ \A i \in 2 .. Len(s) + 1 : (<<o>> \o s)[i] = s[i - 1]
      BY <3>3, FrontFacts
    <3>6. (<<o>> \o s)[Len(s) + 1] = s[Len(s)]
      <4>1. Len(s) + 1 \in 2 .. Len(s) + 1 /\ (Len(s) + 1) - 1 = Len(s)
        BY <3>3
      <4> QED
        BY <3>5, <4>1
    <3>7. ASSUME NEW i \in 1 .. Len(s) PROVE (<<o>> \o s)[i].more
      <4>1. CASE i = 1
        BY <3>1, <3>5, <4>1
      <4>2. CASE i # 1
        <5>1. i \in 2 .. Len(s) + 1 /\ i - 1 \in 1 .. Len(s) - 1
          BY <3>3, <4>2
        <5> QED
          BY <3>3, <3>5, <5>1
      <4> QED
        BY <4>1, <4>2
    <3> QED
      BY <3>3, <3>4, <3>5, <3>6, <3>7
  <2> QED
    BY <2>1, <2>2
<1>3. Nat \subseteq X
  <2>1. \A k \in Nat : (\A j \in 0 .. k - 1 : j \in X) => k \in X
    BY <1>2
  <2> HIDE DEF X
  <2> QED
    BY <2>1, AllFromBelow
<1> QED
  BY <1>3

(* The octets from p + 1 to hi give f, from the last one backwards. *)
Adds(d, f, r, p, hi) ==
  \A i \in p + 1 .. hi : f[i] = d[i].bits + IF i < hi THEN r * f[i + 1] ELSE 0

(* Behind p, d has the octets of s. *)
Has(d, p, s) == \A i \in 1 .. Len(s) : d[p + i] = s[i]

Gives(f, p, v) == f[p + 1] = v

(* read_varint() adds up what write_varint() has taken apart. *)
LEMMA ReadBack ==
  ASSUME NEW r \in Nat, r > 1, NEW w, Writes(w, r), NEW v \in Nat, NEW d, NEW f, NEW p \in Nat,
         NEW hi, hi = p + Len(w[v]), Has(d, p, w[v]), Adds(d, f, r, p, hi)
  PROVE  Gives(f, p, v)
<1> DEFINE P(k) == \A a : \A q \in Nat :
                     Has(a, q, w[k]) /\ Adds(a, f, r, q, q + Len(w[k])) => f[q + 1] = k
           X == {k \in Nat : P(k)}
<1>1. \A k \in Nat : w[k] = Varint(w, r, k)
  BY DEF Writes
<1>2. ASSUME NEW k \in Nat, \A j \in 0 .. k - 1 : P(j) PROVE P(k)
  <2> SUFFICES ASSUME NEW a, NEW q \in Nat, Has(a, q, w[k]), Adds(a, f, r, q, q + Len(w[k]))
               PROVE  f[q + 1] = k
    OBVIOUS
  <2>1. CASE k < r
    <3>1. w[k] = <<[bits |-> k, more |-> FALSE]>>
      BY <1>1, <2>1 DEF Varint
    <3>2. Len(w[k]) = 1 /\ w[k][1].bits = k
      BY <3>1
    <3>3. a[q + 1].bits = k
      BY <3>2 DEF Has
    <3>4. f[q + 1] = a[q + 1].bits + 0
      BY <3>2 DEF Adds
    <3> QED
      BY <3>3, <3>4
  <2>2. CASE k >= r
    <3>1. PICK o \in Octet : o = [bits |-> k % r, more |-> TRUE] /\ o.bits = k % r /\ o.more = TRUE
      <4>1. k % r \in Nat
        BY <2>2, Quotient
      <4> QED
        BY <4>1, OctetFacts
    <3>2. PICK j \in 0 .. k - 1 : j = k \div r /\ k = (k % r) + r * j
      BY <2>2, Quotient
    <3>3. w[j] \in Seq(Octet) /\ Len(w[j]) \in Nat \ {0}
      BY WritesShape
    <3>4. w[k] = <<o>> \o w[j]
      <4>1. ~(k < r)
        BY <2>2
      <4> QED
        BY <1>1, <3>1, <3>2, <4>1 DEF Varint
    <3>5. /\ Len(w[k]) = Len(w[j]) + 1 /\ w[k][1] = o
          /\ \A i \in 2 .. Len(w[j]) + 1 : w[k][i] = w[j][i - 1]
      BY <3>3, <3>4, FrontFacts
    <3>6. a[q + 1].bits = k % r
      <4>1. 1 \in 1 .. Len(w[k])
        BY <3>3, <3>5
      <4> QED
        BY <3>1, <3>5, <4>1 DEF Has
    <3>7. Has(a, q + 1, w[j])
      <4> SUFFICES ASSUME NEW i \in 1 .. Len(w[j]) PROVE a[(q + 1) + i] = w[j][i]
        BY DEF Has
      <4>1. /\ i + 1 \in 1 .. Len(w[k]) /\ i + 1 \in 2 .. Len(w[j]) + 1 /\ (i + 1) - 1 = i
            /\ (q + 1) + i = q + (i + 1)
        BY <3>3, <3>5, SMTT(40)
      <4>2. a[q + (i + 1)] = w[k][i + 1]
        BY <4>1 DEF Has
      <4>3. w[k][i + 1] = w[j][i]
        BY <3>5, <4>1
      <4> QED
        BY <4>1, <4>2, <4>3
    <3>8. PICK n \in Nat \ {0} : n = Len(w[j]) /\ Len(w[k]) = n + 1
      BY <3>3, <3>5
    <3>9. Adds(a, f, r, q + 1, (q + 1) + Len(w[j]))
      <4>1. PICK top \in Nat : top = q + Len(w[k]) /\ top = (q + 1) + Len(w[j])
        <5>1. \A x, y \in Nat : x + (y + 1) = (x + 1) + y /\ x + (y + 1) \in Nat
          OBVIOUS
        <5>2. q + (n + 1) = (q + 1) + n /\ q + (n + 1) \in Nat
          BY ONLY <5>1, q \in Nat, n \in Nat
        <5> QED
          BY <3>8, <5>2
      <4>2. Adds(a, f, r, q, top)
        BY <4>1
      <4>3. Adds(a, f, r, q + 1, top)
        BY <4>2 DEF Adds
      <4> QED
        BY <4>1, <4>3
    <3>10. f[(q + 1) + 1] = j
      <4>1. P(j)
        BY <1>2
      <4>2. q + 1 \in Nat
        OBVIOUS
      <4> QED
        BY <3>7, <3>9, <4>1, <4>2
    <3>11. f[q + 1] = a[q + 1].bits + r * f[(q + 1) + 1]
      <4>1. q + 1 \in q + 1 .. q + Len(w[k]) /\ q + 1 < q + Len(w[k])
        BY <3>8, SMTT(40)
      <4> QED
        BY <4>1 DEF Adds
    <3> QED
      BY <3>2, <3>6, <3>10, <3>11
  <2> QED
    BY <2>1, <2>2
<1>3. Nat \subseteq X
  <2>1. \A k \in Nat : (\A j \in 0 .. k - 1 : j \in X) => k \in X
    BY <1>2
  <2> HIDE DEF X
  <2> QED
    BY <2>1, AllFromBelow
<1>4. P(v)
  BY <1>3
<1>5. f[p + 1] = v
  <2> HIDE DEF P
  <2> QED
    BY <1>4 DEF P
<1> QED
  BY <1>5 DEF Gives

(* f is what read_varint() adds up from p + 1 on, and at most to hi. *)
Sums(f, d, r, p, hi) ==
  f = [i \in p + 1 .. hi |-> d[i].bits + IF d[i].more /\ i < hi THEN r * f[i + 1] ELSE 0]

(* It adds something up. *)
LEMMA SumsExists ==
  ASSUME NEW r \in Nat, NEW d, NEW p \in Nat, NEW hi \in Nat, p < hi,
         \A i \in p + 1 .. hi : d[i].bits \in Nat
  PROVE  \E f : Sums(f, d, r, p, hi)
<1>1. PICK n \in Nat : n = hi - (p + 1)
  OBVIOUS
<1>0. \A i \in p + 1 .. hi :
        /\ hi - i \in 0 .. n /\ hi - (hi - i) = i
        /\ i < hi => hi - i \in 1 .. n /\ (hi - i) - 1 = hi - (i + 1) /\ i + 1 \in p + 1 .. hi
  BY <1>1
<1>2. PICK b \in [0 .. n -> Nat] : \A j \in 0 .. n : b[j] = d[hi - j].bits
  <2>1. \A j \in 0 .. n : hi - j \in p + 1 .. hi
    BY <1>1
  <2>2. \A j \in 0 .. n : d[hi - j].bits \in Nat
    BY <2>1
  <2>3. [j \in 0 .. n |-> d[hi - j].bits] \in [0 .. n -> Nat]
    BY <2>2
  <2> QED
    BY <2>3
<1> DEFINE F == [j \in 1 .. n |-> [x \in Nat |-> b[j] + IF d[hi - j].more THEN r * x ELSE 0]]
<1>3. F \in [1 .. n -> [Nat -> Nat]]
  <2>1. ASSUME NEW j \in 1 .. n, NEW x \in Nat
        PROVE  b[j] + (IF d[hi - j].more THEN r * x ELSE 0) \in Nat
    <3>1. PICK y \in Nat : y = IF d[hi - j].more THEN r * x ELSE 0
      <4>1. r * x \in Nat
        OBVIOUS
      <4> QED
        BY <4>1, Zenon
    <3>2. b[j] \in Nat
      OBVIOUS
    <3> QED
      BY <3>1, <3>2
  <2> QED
    BY <2>1
<1>4. PICK g \in [0 .. n -> Nat] : g[0] = b[0] /\ \A j \in 1 .. n : g[j] = F[j][g[j - 1]]
  <2>1. b[0] \in Nat
    OBVIOUS
  <2>2. Unfolds(Nat, F, b[0], n)
    <3> HIDE DEF F
    <3> QED
      BY <1>3, <2>1, Unfolded
  <2> HIDE DEF F
  <2> QED
    BY <2>2 DEF Unfolds
<1>5. \A j \in 1 .. n : g[j] = b[j] + IF d[hi - j].more THEN r * g[j - 1] ELSE 0
  <2>1. \A j \in 1 .. n : g[j - 1] \in Nat
    OBVIOUS
  <2> QED
    BY <1>4, <2>1
<1> DEFINE f == [i \in p + 1 .. hi |-> g[hi - i]]
<1>6. ASSUME NEW i \in p + 1 .. hi
      PROVE  f[i] = d[i].bits + IF d[i].more /\ i < hi THEN r * f[i + 1] ELSE 0
  <2>1. hi - i \in 0 .. n /\ hi - (hi - i) = i
    BY <1>0, Zenon
  <2>2. b[hi - i] = d[i].bits
    BY <1>2, <2>1
  <2>3. CASE i = hi
    <3>1. hi - i = 0
      BY <2>3
    <3>2. f[i] = b[0] /\ b[0] = d[i].bits /\ b[0] \in Nat
      BY <1>4, <2>2, <3>1
    <3> QED
      BY <2>3, <3>2
  <2>4. CASE i < hi
    <3>1. hi - i \in 1 .. n /\ (hi - i) - 1 = hi - (i + 1) /\ i + 1 \in p + 1 .. hi
      BY <1>0, <2>4, Zenon
    <3>2. f[i] = b[hi - i] + IF d[i].more THEN r * g[hi - (i + 1)] ELSE 0
      BY <1>5, <2>1, <3>1
    <3>3. f[i + 1] = g[hi - (i + 1)]
      BY <3>1
    <3> QED
      BY <2>2, <2>4, <3>2, <3>3
  <2> QED
    BY <2>3, <2>4
<1>7. Sums(f, d, r, p, hi)
  <2>1. f = [i \in p + 1 .. hi |-> f[i]]
    OBVIOUS
  <2> HIDE DEF f
  <2> QED
    BY <1>6, <2>1 DEF Sums
<1> QED
  BY <1>7

(* As far as d goes, it has s behind p. *)
Agrees(d, p, s) == \A i \in 1 .. Len(s) : p + i <= Len(d) => d[p + i] = s[i]

(* The first octet behind p that says there is no more, at most m octets away. *)
Ends(d, p, m, last) ==
  /\ last \in p + 1 .. Len(d) /\ last <= p + m /\ ~d[last].more
  /\ \A i \in p + 1 .. Len(d) : i <= p + m /\ ~d[i].more => last <= i

(* From p to last d has the octets s, and they give v. *)
Reads(d, r, p, last, s, v) ==
  /\ last = p + Len(s) /\ last <= Len(d) /\ last \in Nat
  /\ (CHOOSE f : Sums(f, d, r, p, Len(d)))[p + 1] = v

(* It is the last one of what write_varint() wrote, and the octets give the value. *)
LEMMA EndsFacts ==
  ASSUME NEW r \in Nat, r > 1, NEW w, Writes(w, r), NEW v \in Nat, NEW m \in Nat,
         NEW d \in Seq(Octet), NEW p \in Nat, Agrees(d, p, w[v]), NEW last, Ends(d, p, m, last)
  PROVE  Reads(d, r, p, last, w[v], v)
<1>1. PICK k \in Nat : k = Len(d)
  OBVIOUS
<1>2. /\ last \in p + 1 .. k /\ last <= p + m /\ ~d[last].more
      /\ \A i \in p + 1 .. k : i <= p + m /\ ~d[i].more => last <= i
  BY <1>1 DEF Ends
<1>3. /\ w[v] \in Seq(Octet) /\ Len(w[v]) \in Nat \ {0} /\ ~w[v][Len(w[v])].more
      /\ \A i \in 1 .. Len(w[v]) - 1 : w[v][i].more
  BY WritesShape
<1>4. PICK n \in Nat \ {0} : n = Len(w[v])
  BY <1>3
<1>5. ~(last < p + n)
  <2> SUFFICES ASSUME last < p + n PROVE FALSE
    OBVIOUS
  <2>1. last - p \in 1 .. n - 1 /\ last - p \in 1 .. n /\ p + (last - p) = last
    BY <1>2
  <2>2. d[last] = w[v][last - p]
    BY <1>1, <1>2, <1>4, <2>1 DEF Agrees
  <2>3. w[v][last - p].more
    BY <1>3, <1>4, <2>1
  <2> QED
    BY <1>2, <2>2, <2>3
<1>6. p + n \in p + 1 .. k /\ p + n <= p + m /\ p + n <= last
  BY <1>2, <1>5
<1>7. d[p + n] = w[v][n]
  <2>1. n \in 1 .. Len(w[v]) /\ p + n <= Len(d)
    BY <1>1, <1>4, <1>6
  <2> QED
    BY <2>1 DEF Agrees
<1>8. last <= p + n
  BY <1>2, <1>3, <1>4, <1>6, <1>7
<1>9. last = p + n
  BY <1>2, <1>6, <1>8
<1>10. PICK f : f = (CHOOSE g : Sums(g, d, r, p, k)) /\ Sums(f, d, r, p, k)
  <2>1. p \in Nat /\ p < k
    BY <1>2
  <2>2. \A i \in p + 1 .. k : d[i].bits \in Nat
    <3>1. \A i \in p + 1 .. k : d[i] \in Octet
      BY <1>1, <1>2
    <3> QED
      BY <3>1 DEF Octet
  <2>3. \E g : Sums(g, d, r, p, k)
    BY <2>1, <2>2, SumsExists
  <2>4. Sums((CHOOSE g : Sums(g, d, r, p, k)), d, r, p, k)
    BY <2>3, Zenon
  <2> QED
    BY <2>4, Zenon
<1>11. Adds(d, f, r, p, last)
  <2>1. ASSUME NEW i \in p + 1 .. last
        PROVE  i \in p + 1 .. k /\ (i < last => d[i].more /\ i < k) /\ (~(i < last) => ~d[i].more)
    BY <1>2
  <2>2. \A i \in p + 1 .. k : f[i] = d[i].bits + IF d[i].more /\ i < k THEN r * f[i + 1] ELSE 0
    BY <1>10 DEF Sums
  <2>3. ASSUME NEW i \in p + 1 .. last
        PROVE  f[i] = d[i].bits + IF i < last THEN r * f[i + 1] ELSE 0
    BY <2>1, <2>2
  <2> QED
    BY <2>3 DEF Adds
<1>12. Has(d, p, w[v])
  <2>1. \A i \in 1 .. n : p + i <= k
    BY <1>6
  <2> QED
    BY <1>1, <1>4, <2>1 DEF Has, Agrees
<1>13. f[p + 1] = v
  <2>1. last = p + Len(w[v])
    BY <1>4, <1>9
  <2>2. Gives(f, p, v)
    BY <1>11, <1>12, <2>1, ReadBack
  <2> QED
    BY <1>11, <1>12, <2>2 DEF Gives
<1>14. last <= k /\ last \in Nat
  BY <1>2
<1> QED
  BY <1>1, <1>4, <1>9, <1>10, <1>13, <1>14 DEF Reads

(* The minimum that read_varint() finds. *)
LEMMA EndsMin ==
  ASSUME NEW d \in Seq(Octet), NEW p \in Nat, NEW m \in Nat,
         NEW ends, ends = {i \in p + 1 .. Len(d) : i <= p + m /\ ~d[i].more}, ends # {},
         NEW last, last = CHOOSE x \in ends : \A y \in ends : x <= y
  PROVE  Ends(d, p, m, last)
<1>1. \E x \in ends : \A y \in ends : x <= y
  <2>1. ends \subseteq Nat
    OBVIOUS
  <2> QED
    BY <2>1, LeastNumber
<1>2. last \in ends /\ \A y \in ends : last <= y
  BY <1>1, Zenon
<1> QED
  BY <1>2 DEF Ends

-----------------------------------------------------------------------------
(***************************************************************************)
(* The receive path (SessionRecv): a connection of its own, with its buffers. *)
(***************************************************************************)
(* The recursive definition is write_varint(). *)
LEMMA ReceiverWrites ==
  ASSUME R!Framed PROVE R!Radix \in Nat /\ R!Radix > 1 /\ Writes(R!WriteVarint, R!Radix)
<1>1. R!Radix \in Nat /\ R!Radix > 1
  BY DEF R!Framed
<1>2. PICK r \in Nat : r = R!Radix /\ r > 1
  BY <1>1
<1>3. R!WriteVarint = CHOOSE w : Writes(w, r)
  BY <1>2 DEF R!WriteVarint, Writes, Varint, R!Octet
<1>4. \E w : Writes(w, r)
  BY <1>2, WritesExists
<1>5. Writes(R!WriteVarint, r)
  BY <1>3, <1>4, Zenon
<1> QED
  BY <1>1, <1>2, <1>5

(* read_varint() where a varint begins, if it does not throw. *)
LEMMA ReadVarintFacts ==
  ASSUME R!WidthAssumption, R!Framed, NEW d \in Seq(Octet), NEW p \in Nat, NEW v \in Nat,
         Agrees(d, p, R!WriteVarint[v]), R!ReadVarint(d, p).ok
  PROVE  /\ R!ReadVarint(d, p).value = v
         /\ R!ReadVarint(d, p).next = p + Len(R!WriteVarint[v])
         /\ p + Len(R!WriteVarint[v]) <= Len(d)
<1>1. R!Radix \in Nat /\ R!Radix > 1 /\ Writes(R!WriteVarint, R!Radix)
  BY ReceiverWrites
<1>2. PICK r \in Nat : r = R!Radix /\ r > 1
  BY <1>1
<1>3. PICK w : w = R!WriteVarint /\ Writes(w, r)
  BY <1>1, <1>2
<1>4. MaxOctets \in Nat
  BY DEF R!WidthAssumption
<1>5. PICK ends : ends = {i \in p + 1 .. Len(d) : i <= p + MaxOctets /\ ~d[i].more}
  OBVIOUS
<1>6. PICK last : last = CHOOSE x \in ends : \A y \in ends : x <= y
  OBVIOUS
<1>7. ends # {}
  <2> SUFFICES ASSUME ends = {} PROVE FALSE
    OBVIOUS
  <2>1. R!ReadVarint(d, p) = R!Failed
    BY <1>5 DEF R!ReadVarint
  <2>2. R!Failed.ok = FALSE
    BY DEF R!Failed
  <2> QED
    BY <2>1, <2>2
<1>8. PICK x : x = (CHOOSE f : Sums(f, d, r, p, Len(d)))[p + 1]
  OBVIOUS
<1>9. R!ReadVarint(d, p) = [ok |-> TRUE, value |-> x, next |-> last]
  BY <1>2, <1>5, <1>6, <1>7, <1>8 DEF R!ReadVarint, R!Min, Sums
<1>10. Ends(d, p, MaxOctets, last)
  BY <1>4, <1>5, <1>6, <1>7, EndsMin
<1>11. Agrees(d, p, w[v])
  BY <1>3
<1>12. last = p + Len(w[v]) /\ last <= Len(d) /\ x = v
  <2>1. Reads(d, r, p, last, w[v], v)
    BY <1>2, <1>3, <1>4, <1>10, <1>11, EndsFacts
  <2> QED
    BY <1>8, <2>1 DEF Reads
<1> QED
  BY <1>3, <1>9, <1>12

(* A protocol whose size is written in full. *)
Fits(prot) ==
  /\ prot \in [id : Nat, size : Nat]
  /\ R!CompactIntSize(prot.size) = Len(R!WriteVarint[prot.size])

(* The two parts of a concatenation. *)
LEMMA AgreesSplit ==
  ASSUME NEW d \in Seq(Octet), NEW p \in Nat, NEW a \in Seq(Octet), NEW b \in Seq(Octet),
         Agrees(d, p, a \o b)
  PROVE  Agrees(d, p, a) /\ Agrees(d, p + Len(a), b)
<1>1. PICK n \in Nat, m \in Nat, k \in Nat : n = Len(a) /\ m = Len(b) /\ k = Len(d)
  OBVIOUS
<1>2. /\ Len(a \o b) = n + m
      /\ \A i \in 1 .. n : (a \o b)[i] = a[i]
      /\ \A i \in 1 .. m : (a \o b)[n + i] = b[i]
  BY <1>1
<1>3. \A i \in 1 .. n + m : p + i <= k => d[p + i] = (a \o b)[i]
  BY <1>1, <1>2 DEF Agrees
<1>4. ASSUME NEW i \in 1 .. n, p + i <= k PROVE d[p + i] = a[i]
  <2>1. i \in 1 .. n + m
    OBVIOUS
  <2> QED
    BY <1>2, <1>3, <1>4, <2>1
<1>5. ASSUME NEW i \in 1 .. m, (p + n) + i <= k PROVE d[(p + n) + i] = b[i]
  <2>1. n + i \in 1 .. n + m /\ (p + n) + i = p + (n + i)
    OBVIOUS
  <2> QED
    BY <1>2, <1>3, <1>5, <2>1
<1> QED
  BY <1>1, <1>4, <1>5 DEF Agrees

(* protocol::encode() of such a protocol. *)
LEMMA EncodeFacts ==
  ASSUME R!Framed, NEW prot, Fits(prot)
  PROVE  /\ R!WriteVarint[prot.id] \in Seq(Octet) /\ R!WriteVarint[prot.size] \in Seq(Octet)
         /\ R!Encode(prot) \in Seq(Octet)
         /\ Len(R!Encode(prot)) = Len(R!WriteVarint[prot.id]) + Len(R!WriteVarint[prot.size]) + prot.size
         /\ Len(R!WriteVarint[prot.id]) > 0
         /\ \E body \in Seq(Octet) :
              R!Encode(prot) = R!WriteVarint[prot.id] \o R!WriteVarint[prot.size] \o body
<1>1. R!Radix \in Nat /\ R!Radix > 1 /\ Writes(R!WriteVarint, R!Radix)
  BY ReceiverWrites
<1>2. prot.id \in Nat /\ prot.size \in Nat
  BY DEF Fits
<1>3. PICK w : w = R!WriteVarint
  OBVIOUS
<1>4. PICK a \in Seq(Octet), b \in Seq(Octet) : a = w[prot.id] /\ b = w[prot.size] /\ Len(a) > 0
  <2>1. w[prot.id] \in Seq(Octet) /\ Len(w[prot.id]) \in Nat \ {0} /\ w[prot.size] \in Seq(Octet)
    BY <1>1, <1>2, <1>3, WritesShape
  <2> QED
    BY <2>1
<1>5. R!CompactIntSize(prot.size) = Len(b)
  BY <1>3, <1>4 DEF Fits
<1>6. SubSeq(b, 1, Len(b)) = b
  BY SubSeqFull
<1>7. PICK body : body = [i \in 1 .. prot.size |-> R!Octet(0, FALSE)]
  OBVIOUS
<1>8. body \in Seq(Octet) /\ Len(body) = prot.size
  <2>1. R!Octet(0, FALSE) \in Octet
    BY DEF R!Octet, Octet
  <2>2. body \in [1 .. prot.size -> Octet]
    BY <1>7, <2>1
  <2>3. PICK n \in Nat : n = prot.size
    BY <1>2
  <2>4. body \in Seq(Octet)
    BY <2>2, <2>3, IsASeq
  <2>5. DOMAIN body = 1 .. n
    BY <1>7, <2>3
  <2>6. Len(body) = n
    BY <2>4, <2>5
  <2> QED
    BY <2>3, <2>4, <2>6
<1>9. R!Encode(prot) = a \o b \o body
  BY <1>3, <1>4, <1>5, <1>6, <1>7 DEF R!Encode
<1>10. a \o b \o body \in Seq(Octet) /\ Len(a \o b \o body) = Len(a) + Len(b) + prot.size
  BY <1>2, <1>8
<1> QED
  BY <1>3, <1>4, <1>8, <1>9, <1>10

(* What protocol::decode() makes of the beginning of an encoded protocol. *)
Decodes(res, d, p, prot) ==
  IF res.kind = "frame"
  THEN res.prots = <<prot>> /\ res.next = p + Len(R!Encode(prot)) /\ res.next <= Len(d)
  ELSE res.next = p

(* decode() at p, without its cases. *)
LEMMA DecodeCases ==
  ASSUME NEW d \in Seq(Octet), NEW p \in 0 .. Len(d), NEW id, NEW size,
         id = R!ReadVarint(d, p), size = R!ReadVarint(d, id.next)
  PROVE  \/ R!Decode(d, p) = R!Wait(p)
         \/ R!Decode(d, p) = R!Throw(p)
         \/ /\ p < Len(d) /\ id.ok /\ size.ok /\ ~(Len(d) - size.next < size.value)
            /\ R!Decode(d, p) = [kind |-> "frame", next |-> size.next + size.value,
                                 prots |-> <<[id |-> id.value, size |-> size.value]>>]
<1>1. Len(d) - p < 1 \/ p < Len(d)
  OBVIOUS
<1> QED
  BY <1>1 DEF R!Decode

(* decode() of the beginning of an encoded protocol. *)
LEMMA DecodeFacts ==
  ASSUME R!WidthAssumption, R!Framed, NEW d \in Seq(Octet), NEW p \in 0 .. Len(d), NEW prot,
         Fits(prot), Agrees(d, p, R!Encode(prot))
  PROVE  Decodes(R!Decode(d, p), d, p, prot)
<1>1. PICK id, size : id = R!ReadVarint(d, p) /\ size = R!ReadVarint(d, id.next)
  OBVIOUS
<1>2. CASE R!Decode(d, p) = R!Wait(p)
  BY <1>2 DEF R!Wait, Decodes
<1>3. CASE R!Decode(d, p) = R!Throw(p)
  BY <1>3 DEF R!Throw, Decodes
<1>4. CASE /\ p < Len(d) /\ id.ok /\ size.ok /\ ~(Len(d) - size.next < size.value)
           /\ R!Decode(d, p) = [kind |-> "frame", next |-> size.next + size.value,
                                prots |-> <<[id |-> id.value, size |-> size.value]>>]
  <2>1. PICK a \in Seq(Octet), b \in Seq(Octet), body \in Seq(Octet) :
          /\ a = R!WriteVarint[prot.id] /\ b = R!WriteVarint[prot.size]
          /\ R!Encode(prot) = a \o b \o body
          /\ Len(R!Encode(prot)) = Len(a) + Len(b) + prot.size
    BY EncodeFacts
  <2>2. prot.id \in Nat /\ prot.size \in Nat
    BY DEF Fits
  <2>3. p \in Nat /\ p + Len(a) \in Nat /\ a \o b \in Seq(Octet)
    OBVIOUS
  <2>4. Agrees(d, p, a \o b)
    <3>1. PICK c \in Seq(Octet) : c = a \o b /\ R!Encode(prot) = c \o body
      BY <2>1, <2>3
    <3>2. Agrees(d, p, c \o body)
      BY <3>1
    <3>3. Agrees(d, p, c)
      BY <2>3, <3>2, AgreesSplit
    <3> QED
      BY <3>1, <3>3
  <2>5. Agrees(d, p, a) /\ Agrees(d, p + Len(a), b)
    BY <2>3, <2>4, AgreesSplit
  <2>6. id.value = prot.id /\ id.next = p + Len(a)
    <3>1. Agrees(d, p, R!WriteVarint[prot.id]) /\ R!ReadVarint(d, p).ok
      BY <1>1, <1>4, <2>1, <2>5
    <3>2. /\ R!ReadVarint(d, p).value = prot.id
          /\ R!ReadVarint(d, p).next = p + Len(R!WriteVarint[prot.id])
      BY <2>2, <2>3, <3>1, ReadVarintFacts
    <3> QED
      BY <1>1, <2>1, <3>2
  <2>7. size.value = prot.size /\ size.next = (p + Len(a)) + Len(b)
    <3>1. PICK q \in Nat : q = p + Len(a) /\ id.next = q
      BY <2>3, <2>6
    <3>2. size = R!ReadVarint(d, q) /\ Agrees(d, q, R!WriteVarint[prot.size])
      BY <1>1, <2>1, <2>5, <3>1
    <3>3. size.value = prot.size /\ size.next = q + Len(R!WriteVarint[prot.size])
      BY <1>4, <2>2, <3>2, ReadVarintFacts
    <3> QED
      BY <2>1, <3>1, <3>3
  <2>8. [id |-> id.value, size |-> size.value] = prot
    BY <2>6, <2>7 DEF Fits
  <2>9. /\ size.next + size.value = p + (Len(a) + Len(b) + prot.size)
        /\ size.next + size.value <= Len(d)
    <3>1. Len(a) \in Nat /\ Len(b) \in Nat /\ Len(d) \in Nat
      OBVIOUS
    <3> QED
      BY <1>4, <2>2, <2>3, <2>7, <3>1
  <2>10. PICK res : res = R!Decode(d, p)
    OBVIOUS
  <2>11. /\ res.kind = "frame" /\ res.next = size.next + size.value
         /\ res.prots = <<[id |-> id.value, size |-> size.value]>>
    BY <1>4, <2>10
  <2> QED
    BY <2>1, <2>8, <2>9, <2>10, <2>11 DEF Decodes
<1> QED
  BY <1>1, <1>2, <1>3, <1>4, DecodeCases

(* decode() where nothing is left. *)
LEMMA DecodeNothing ==
  ASSUME NEW d \in Seq(Octet), NEW p, p = Len(d)
  PROVE  R!Decode(d, p).kind # "frame" /\ R!Decode(d, p).next = p
<1>1. Len(d) - p < 1
  OBVIOUS
<1>2. R!Decode(d, p) = R!Wait(p)
  BY <1>1 DEF R!Decode
<1> QED
  BY <1>2 DEF R!Wait

(* f encodes the protocols of s, from the last one backwards. *)
Chains(f, s) ==
  f = [n \in 1 .. Len(s) + 1 |-> IF n > Len(s) THEN << >> ELSE R!Encode(s[n]) \o f[n + 1]]

(* There is such an f. *)
LEMMA ChainsExists ==
  ASSUME R!Framed, NEW s, NEW len \in Nat, Len(s) = len, \A i \in 1 .. len : Fits(s[i])
  PROVE  \E f \in [1 .. len + 1 -> Seq(Octet)] : Chains(f, s)
<1>1. PICK e \in [1 .. len -> Seq(Octet)] : \A i \in 1 .. len : e[i] = R!Encode(s[i])
  <2>1. \A i \in 1 .. len : R!Encode(s[i]) \in Seq(Octet)
    BY EncodeFacts
  <2>2. [i \in 1 .. len |-> R!Encode(s[i])] \in [1 .. len -> Seq(Octet)]
    BY <2>1
  <2> QED
    BY <2>2
<1> DEFINE D == Seq(Octet)
           F == [j \in 1 .. len |-> [x \in D |-> e[(len + 1) - j] \o x]]
<1>2. \A j \in 1 .. len : (len + 1) - j \in 1 .. len
  OBVIOUS
<1>3. F \in [1 .. len -> [D -> D]]
  <2>1. \A j \in 1 .. len : \A x \in D : e[(len + 1) - j] \o x \in D
    BY <1>2
  <2> HIDE DEF D
  <2> QED
    BY <2>1
<1>4. PICK g \in [0 .. len -> D] : g[0] = << >> /\ \A j \in 1 .. len : g[j] = F[j][g[j - 1]]
  <2>1. << >> \in D
    OBVIOUS
  <2> HIDE DEF D, F
  <2>2. Unfolds(D, F, << >>, len)
    BY <1>3, <2>1, Unfolded
  <2> QED
    BY <2>2 DEF Unfolds
<1>5. \A j \in 1 .. len : g[j] = e[(len + 1) - j] \o g[j - 1]
  <2>1. \A j \in 1 .. len : g[j - 1] \in D
    <3> HIDE DEF D
    <3> QED
      OBVIOUS
  <2> HIDE DEF D
  <2> QED
    BY <1>4, <2>1
<1> DEFINE f == [n \in 1 .. len + 1 |-> g[(len + 1) - n]]
<1>6. f \in [1 .. len + 1 -> D]
  <2>1. \A n \in 1 .. len + 1 : (len + 1) - n \in 0 .. len
    OBVIOUS
  <2> HIDE DEF D
  <2> QED
    BY <2>1
<1>7. ASSUME NEW n \in 1 .. len + 1
      PROVE  f[n] = IF n > len THEN << >> ELSE R!Encode(s[n]) \o f[n + 1]
  <2>1. CASE n > len
    <3>1. (len + 1) - n = 0
      BY <2>1
    <3>2. f[n] = g[0]
      BY <3>1
    <3> QED
      BY <1>4, <2>1, <3>2
  <2>2. CASE ~(n > len)
    <3>1. /\ (len + 1) - n \in 1 .. len /\ (len + 1) - ((len + 1) - n) = n /\ n \in 1 .. len
          /\ ((len + 1) - n) - 1 = (len + 1) - (n + 1) /\ n + 1 \in 1 .. len + 1
      BY <2>2
    <3>2. f[n] = e[n] \o f[n + 1]
      BY <1>5, <3>1
    <3> QED
      BY <1>1, <2>2, <3>1, <3>2
  <2> QED
    BY <2>1, <2>2
<1>8. Chains(f, s)
  <2>1. f = [n \in 1 .. len + 1 |-> f[n]]
    OBVIOUS
  <2> HIDE DEF f
  <2> QED
    BY <1>7, <2>1 DEF Chains
<1> QED
  BY <1>6, <1>8

(* The octets of a conversation from the k-th protocol on. *)
LEMMA EncodeFromFacts ==
  ASSUME R!Framed, NEW s \in Conversations, NEW k \in 1 .. Len(s) + 1
  PROVE  /\ R!EncodeFrom(s, k) \in Seq(Octet)
         /\ k = Len(s) + 1 => R!EncodeFrom(s, k) = << >>
         /\ k <= Len(s) => /\ Fits(s[k]) /\ k + 1 \in 1 .. Len(s) + 1
                           /\ R!EncodeFrom(s, k) = R!Encode(s[k]) \o R!EncodeFrom(s, k + 1)
<1>1. s \in Seq([id : Nat, size : Nat]) /\ \A i \in 1 .. Len(s) : Fits(s[i])
  <2>1. /\ s \in Seq([id : Nat, size : Nat])
        /\ \A i \in DOMAIN s : R!CompactIntSize(s[i].size) = Len(R!WriteVarint[s[i].size])
    BY DEF R!Framed
  <2>2. DOMAIN s = 1 .. Len(s) /\ \A i \in 1 .. Len(s) : s[i] \in [id : Nat, size : Nat]
    BY <2>1, ElementOfSeq, LenProperties
  <2> QED
    BY <2>1, <2>2 DEF Fits
<1>2. PICK len \in Nat : len = Len(s)
  BY <1>1
<1>3. \E f \in [1 .. len + 1 -> Seq(Octet)] : Chains(f, s)
  BY <1>1, <1>2, ChainsExists
<1>4. PICK f : f = (CHOOSE g : Chains(g, s)) /\ Chains(f, s)
  <2>1. \E g : Chains(g, s)
    BY <1>3
  <2>2. Chains((CHOOSE g : Chains(g, s)), s)
    BY <2>1, Zenon
  <2> QED
    BY <2>2, Zenon
<1>5. \A n \in 1 .. len + 1 : R!EncodeFrom(s, n) = f[n]
  BY <1>4 DEF R!EncodeFrom, Chains
<1>6. \A n \in 1 .. len + 1 : f[n] = IF n > len THEN << >> ELSE R!Encode(s[n]) \o f[n + 1]
  BY <1>2, <1>4 DEF Chains
<1>7. PICK h \in [1 .. len + 1 -> Seq(Octet)] : Chains(h, s)
  BY <1>3
<1>8. \A n \in 1 .. len + 1 : h[n] = IF n > len THEN << >> ELSE R!Encode(s[n]) \o h[n + 1]
  BY <1>2, <1>7 DEF Chains
<1>9. \A n \in 1 .. len + 1 : f[n] = h[n]
  <2> DEFINE X == {j \in Nat : j <= len => f[(len + 1) - j] = h[(len + 1) - j]}
  <2>1. 0 \in X
    <3>1. (len + 1) - 0 \in 1 .. len + 1 /\ (len + 1) - 0 > len
      OBVIOUS
    <3>2. f[(len + 1) - 0] = << >> /\ h[(len + 1) - 0] = << >>
      BY <1>6, <1>8, <3>1
    <3> QED
      BY <3>2
  <2>2. ASSUME NEW j \in Nat, j \in X, j + 1 <= len
        PROVE  f[(len + 1) - (j + 1)] = h[(len + 1) - (j + 1)]
    <3>1. PICK n \in 1 .. len + 1 : n = (len + 1) - (j + 1) /\ n + 1 = (len + 1) - j /\ ~(n > len)
      BY <2>2
    <3>2. f[n + 1] = h[n + 1]
      BY <2>2, <3>1
    <3>3. f[n] = h[n]
      BY <1>6, <1>8, <3>1, <3>2
    <3> QED
      BY <3>1, <3>3
  <2>3. Nat \subseteq X
    <3>1. \A j \in Nat : j \in X => j + 1 \in X
      BY <2>2
    <3> HIDE DEF X
    <3> QED
      BY <2>1, <3>1, AllNumbers
  <2> TAKE n \in 1 .. len + 1
  <2>4. (len + 1) - n \in Nat /\ (len + 1) - n <= len /\ (len + 1) - ((len + 1) - n) = n
    OBVIOUS
  <2>5. (len + 1) - n \in X
    BY <2>3, <2>4
  <2> QED
    BY <2>4, <2>5
<1>10. R!EncodeFrom(s, k) = h[k] /\ h[k] \in Seq(Octet)
  BY <1>2, <1>5, <1>7, <1>9
<1>11. k = len + 1 => h[k] = << >>
  <2>1. k \in 1 .. len + 1 /\ (k = len + 1 => k > len)
    BY <1>2
  <2> QED
    BY <1>8, <2>1
<1>12. ASSUME k <= len
       PROVE  /\ Fits(s[k]) /\ k + 1 \in 1 .. len + 1
              /\ R!EncodeFrom(s, k) = R!Encode(s[k]) \o R!EncodeFrom(s, k + 1)
  <2>1. k + 1 \in 1 .. len + 1 /\ k \in 1 .. len /\ ~(k > len)
    BY <1>2, <1>12
  <2>2. R!EncodeFrom(s, k + 1) = h[k + 1]
    BY <1>5, <1>9, <2>1
  <2>3. h[k] = R!Encode(s[k]) \o h[k + 1]
    BY <1>2, <1>8, <2>1
  <2> QED
    BY <1>1, <1>2, <1>10, <2>1, <2>2, <2>3
<1> QED
  BY <1>2, <1>10, <1>11, <1>12

-----------------------------------------------------------------------------
(* Buffers as sequences. *)

(* What is left of a buffer from p on. *)
Left(d, p) == SubSeq(d, p + 1, Len(d))

(* Its octets. *)
LEMMA LeftFacts ==
  ASSUME NEW S, NEW d \in Seq(S), NEW p \in 0 .. Len(d)
  PROVE  /\ Left(d, p) \in Seq(S) /\ Len(Left(d, p)) = Len(d) - p
         /\ \A i \in 1 .. Len(d) - p : Left(d, p)[i] = d[p + i]
<1>1. PICK n \in Nat : n = Len(d)
  OBVIOUS
<1>2. /\ Left(d, p) \in Seq(S)
      /\ Len(Left(d, p)) = IF p + 1 <= n THEN n - (p + 1) + 1 ELSE 0
      /\ \A i \in 1 .. n - (p + 1) + 1 : Left(d, p)[i] = d[(p + 1) + i - 1]
  BY <1>1, SubSeqProperties DEF Left
<1>3. \A i \in 1 .. n - p : (p + 1) + i - 1 = p + i /\ i \in 1 .. n - (p + 1) + 1
  BY <1>1
<1> QED
  BY <1>1, <1>2, <1>3

(* c is a and b, of lengths n and m. *)
Joined(c, a, b, n, m) ==
  Len(c) = n + m /\ \A i \in 1 .. n + m : c[i] = IF i <= n THEN a[i] ELSE b[i - n]

(* A concatenation of sequences of known lengths. *)
LEMMA ConcatIs ==
  ASSUME NEW S, NEW a \in Seq(S), NEW b \in Seq(S), NEW n \in Nat, NEW m \in Nat,
         Len(a) = n, Len(b) = m
  PROVE  a \o b \in Seq(S) /\ Joined(a \o b, a, b, n, m)
  BY ConcatProperties DEF Joined

(* b goes behind a in two pieces, of n octets and the others. *)
Pieces(a, b, n) == (a \o SubSeq(b, 1, n)) \o Left(b, n) = a \o b

(* The two pieces. *)
LEMMA CutFacts ==
  ASSUME NEW S, NEW b \in Seq(S), NEW n \in 0 .. Len(b)
  PROVE  \E x \in Seq(S), y \in Seq(S) :
           /\ x = SubSeq(b, 1, n) /\ y = Left(b, n)
           /\ Len(x) = n /\ Len(y) = Len(b) - n
<1>1. SubSeq(b, 1, n) \in Seq(S) /\ Len(SubSeq(b, 1, n)) = n
  BY SubSeqProperties
<1>2. Left(b, n) \in Seq(S) /\ Len(Left(b, n)) = Len(b) - n
  BY LeftFacts
<1> QED
  BY <1>1, <1>2

(* A buffer that is moved behind another in two pieces. *)
LEMMA TwoPieces ==
  ASSUME NEW S, NEW a \in Seq(S), NEW b \in Seq(S), NEW n \in 0 .. Len(b)
  PROVE  /\ SubSeq(b, 1, n) \in Seq(S) /\ Len(SubSeq(b, 1, n)) = n
         /\ Left(b, n) \in Seq(S) /\ Len(Left(b, n)) = Len(b) - n
         /\ Pieces(a, b, n)
<1>1. SubSeq(b, 1, n) \in Seq(S) /\ Len(SubSeq(b, 1, n)) = n
  BY SubSeqProperties
<1>2. Left(b, n) \in Seq(S) /\ Len(Left(b, n)) = Len(b) - n
  BY LeftFacts
<1>3. SubSeq(b, 1, n) \o Left(b, n) = b
  <2>1. SubSeq(b, 1, Len(b)) = b
    BY SubSeqFull
  <2>2. 1 \in 1 .. Len(b) + 1 /\ n \in 1 - 1 .. Len(b) /\ Len(b) \in n .. Len(b)
    OBVIOUS
  <2> QED
    BY <2>1, <2>2, ConcatAdjacentSubSeq DEF Left
<1> QED
  <2>1. PICK x \in Seq(S), y \in Seq(S) : x = SubSeq(b, 1, n) /\ y = Left(b, n) /\ x \o y = b
    BY <1>1, <1>2, <1>3
  <2>2. (a \o x) \o y = a \o (x \o y)
    BY ConcatAssociative, SMTT(40)
  <2> QED
    BY <1>1, <1>2, <2>1, <2>2 DEF Pieces

(* More behind a buffer that is read from p on. *)
LEMMA LeftConcat ==
  ASSUME NEW S, NEW a \in Seq(S), NEW b \in Seq(S), NEW p \in 0 .. Len(a)
  PROVE  Left(a \o b, p) = Left(a, p) \o b
<1>1. PICK n \in Nat, m \in Nat : n = Len(a) /\ m = Len(b)
  OBVIOUS
<1>2. /\ a \o b \in Seq(S) /\ Len(a \o b) = n + m
      /\ \A i \in 1 .. n + m : (a \o b)[i] = IF i <= n THEN a[i] ELSE b[i - n]
  BY <1>1, ConcatProperties
<1>3. /\ Left(a \o b, p) \in Seq(S) /\ Len(Left(a \o b, p)) = n + m - p
      /\ \A i \in 1 .. n + m - p : Left(a \o b, p)[i] = (a \o b)[p + i]
  <2>1. PICK c \in Seq(S) : c = a \o b /\ Len(c) = n + m
    BY <1>2
  <2>2. p \in 0 .. Len(c)
    BY <1>1, <2>1
  <2>3. /\ Left(c, p) \in Seq(S) /\ Len(Left(c, p)) = Len(c) - p
        /\ \A i \in 1 .. Len(c) - p : Left(c, p)[i] = c[p + i]
    BY <2>2, LeftFacts
  <2> QED
    BY <2>1, <2>3
<1>4. /\ Left(a, p) \in Seq(S) /\ Len(Left(a, p)) = n - p
      /\ \A i \in 1 .. n - p : Left(a, p)[i] = a[p + i]
  BY <1>1, LeftFacts
<1>5. /\ Left(a, p) \o b \in Seq(S) /\ Len(Left(a, p) \o b) = (n - p) + m
      /\ \A i \in 1 .. (n - p) + m :
           (Left(a, p) \o b)[i] = IF i <= n - p THEN Left(a, p)[i] ELSE b[i - (n - p)]
  <2>1. PICK x \in Seq(S), q \in Nat : x = Left(a, p) /\ q = n - p /\ Len(x) = q
    BY <1>1, <1>4
  <2>2. Len(x) = q /\ Len(b) = m
    BY <1>1, <2>1
  <2>3. x \o b \in Seq(S) /\ Joined(x \o b, x, b, q, m)
    BY <2>2, ConcatIs
  <2> QED
    BY <2>1, <2>3 DEF Joined
<1>6. ASSUME NEW i \in 1 .. (n - p) + m PROVE Left(a \o b, p)[i] = (Left(a, p) \o b)[i]
  <2>1. i \in 1 .. n + m - p /\ p + i \in 1 .. n + m /\ (p + i) - n = i - (n - p)
        /\ (p + i <= n <=> i <= n - p) /\ (i <= n - p => i \in 1 .. n - p)
    BY <1>1
  <2>2. Left(a \o b, p)[i] = IF p + i <= n THEN a[p + i] ELSE b[(p + i) - n]
    BY <1>2, <1>3, <2>1
  <2> QED
    BY <1>4, <1>5, <2>1, <2>2
<1>7. n + m - p = (n - p) + m
  OBVIOUS
<1> QED
  BY <1>3, <1>5, <1>6, <1>7, SeqEqual

(* The front of a stream that is there in full is taken from it. *)
LEMMA TakeFront ==
  ASSUME NEW S, NEW d \in Seq(S), NEW p \in 0 .. Len(d), NEW t \in Seq(S), NEW a \in Seq(S),
         NEW c \in Seq(S), Left(d, p) \o t = a \o c, p + Len(a) <= Len(d)
  PROVE  Left(d, p + Len(a)) \o t = c
<1>1. PICK n \in Nat, m \in Nat, k \in Nat, l \in Nat :
        n = Len(d) /\ m = Len(t) /\ k = Len(a) /\ l = Len(c)
  OBVIOUS
<1>2. /\ Left(d, p) \in Seq(S) /\ Len(Left(d, p)) = n - p
      /\ \A i \in 1 .. n - p : Left(d, p)[i] = d[p + i]
  BY <1>1, LeftFacts
<1>3. /\ Len(Left(d, p) \o t) = (n - p) + m
      /\ \A i \in 1 .. (n - p) + m :
           (Left(d, p) \o t)[i] = IF i <= n - p THEN Left(d, p)[i] ELSE t[i - (n - p)]
  <2>1. PICK x \in Seq(S), q \in Nat : x = Left(d, p) /\ q = n - p /\ Len(x) = q
    BY <1>1, <1>2
  <2>2. Len(x) = q /\ Len(t) = m
    BY <1>1, <2>1
  <2>3. x \o t \in Seq(S) /\ Joined(x \o t, x, t, q, m)
    BY <2>2, ConcatIs
  <2> QED
    BY <2>1, <2>3 DEF Joined
<1>4. Len(a \o c) = k + l /\ \A i \in 1 .. k + l : (a \o c)[i] = IF i <= k THEN a[i] ELSE c[i - k]
  BY <1>1, ConcatProperties
<1>5. (n - p) + m = k + l /\ p + k <= n /\ p + k \in 0 .. n
  BY <1>1, <1>3, <1>4
<1>6. /\ Left(d, p + k) \in Seq(S) /\ Len(Left(d, p + k)) = n - (p + k)
      /\ \A i \in 1 .. n - (p + k) : Left(d, p + k)[i] = d[(p + k) + i]
  <2>1. PICK q \in 0 .. Len(d) : q = p + k
    BY <1>1, <1>5
  <2>2. /\ Left(d, q) \in Seq(S) /\ Len(Left(d, q)) = Len(d) - q
        /\ \A i \in 1 .. Len(d) - q : Left(d, q)[i] = d[q + i]
    BY LeftFacts
  <2> QED
    BY <1>1, <2>1, <2>2
<1>7. /\ Left(d, p + k) \o t \in Seq(S) /\ Len(Left(d, p + k) \o t) = (n - (p + k)) + m
      /\ \A i \in 1 .. (n - (p + k)) + m :
           (Left(d, p + k) \o t)[i] =
             IF i <= n - (p + k) THEN Left(d, p + k)[i] ELSE t[i - (n - (p + k))]
  <2>1. PICK x \in Seq(S), q \in Nat : x = Left(d, p + k) /\ q = n - (p + k) /\ Len(x) = q
    BY <1>1, <1>5, <1>6
  <2>2. Len(x) = q /\ Len(t) = m
    BY <1>1, <2>1
  <2>3. x \o t \in Seq(S) /\ Joined(x \o t, x, t, q, m)
    BY <2>2, ConcatIs
  <2> QED
    BY <2>1, <2>3 DEF Joined
<1>8. (n - (p + k)) + m = l
  BY <1>5
<1>9. ASSUME NEW i \in 1 .. l PROVE (Left(d, p + k) \o t)[i] = c[i]
  <2>1. /\ k + i \in 1 .. k + l /\ k + i \in 1 .. (n - p) + m /\ ~(k + i <= k) /\ (k + i) - k = i
        /\ i \in 1 .. (n - (p + k)) + m
    BY <1>5
  <2>2. (a \o c)[k + i] = c[i]
    BY <1>4, <2>1
  <2>3. CASE i <= n - (p + k)
    <3>1. /\ k + i <= n - p /\ k + i \in 1 .. n - p /\ p + (k + i) = (p + k) + i
          /\ i \in 1 .. n - (p + k)
      BY <1>5, <2>3
    <3>2. (Left(d, p) \o t)[k + i] = d[(p + k) + i]
      BY <1>2, <1>3, <2>1, <3>1
    <3>3. (Left(d, p + k) \o t)[i] = d[(p + k) + i]
      BY <1>6, <1>7, <2>1, <2>3, <3>1
    <3> QED
      BY <2>2, <3>2, <3>3
  <2>4. CASE ~(i <= n - (p + k))
    <3>1. ~(k + i <= n - p) /\ (k + i) - (n - p) = i - (n - (p + k))
      BY <1>5, <2>4
    <3>2. (Left(d, p) \o t)[k + i] = t[i - (n - (p + k))]
      BY <1>3, <2>1, <3>1
    <3>3. (Left(d, p + k) \o t)[i] = t[i - (n - (p + k))]
      BY <1>7, <2>1, <2>4
    <3> QED
      BY <2>2, <3>2, <3>3
  <2> QED
    BY <2>3, <2>4
<1>10. Left(d, p + k) \o t = c
  BY <1>1, <1>7, <1>8, <1>9, SeqEqual
<1> QED
  BY <1>1, <1>10

(* What is there of a stream agrees with the front of it. *)
LEMMA StreamAgrees ==
  ASSUME NEW d \in Seq(Octet), NEW p \in 0 .. Len(d), NEW t \in Seq(Octet), NEW a \in Seq(Octet),
         NEW c \in Seq(Octet), Left(d, p) \o t = a \o c
  PROVE  Agrees(d, p, a)
<1>1. PICK n \in Nat, m \in Nat, k \in Nat, l \in Nat :
        n = Len(d) /\ m = Len(t) /\ k = Len(a) /\ l = Len(c)
  OBVIOUS
<1>2. /\ Left(d, p) \in Seq(Octet) /\ Len(Left(d, p)) = n - p
      /\ \A i \in 1 .. n - p : Left(d, p)[i] = d[p + i]
  BY <1>1, LeftFacts
<1>3. \A i \in 1 .. (n - p) + m :
        (Left(d, p) \o t)[i] = IF i <= n - p THEN Left(d, p)[i] ELSE t[i - (n - p)]
  <2>1. PICK x \in Seq(Octet), q \in Nat : x = Left(d, p) /\ q = n - p /\ Len(x) = q
    BY <1>1, <1>2
  <2>2. Len(x) = q /\ Len(t) = m
    BY <1>1, <2>1
  <2>3. x \o t \in Seq(Octet) /\ Joined(x \o t, x, t, q, m)
    BY <2>2, ConcatIs
  <2> QED
    BY <2>1, <2>3 DEF Joined
<1>4. \A i \in 1 .. k + l : (a \o c)[i] = IF i <= k THEN a[i] ELSE c[i - k]
  BY <1>1, ConcatProperties
<1>5. ASSUME NEW i \in 1 .. k, p + i <= n PROVE d[p + i] = a[i]
  <2>1. i \in 1 .. k + l /\ i \in 1 .. n - p /\ i <= n - p /\ i <= k /\ i \in 1 .. (n - p) + m
    BY <1>1, <1>5
  <2> QED
    BY <1>2, <1>3, <1>4, <2>1
<1> QED
  BY <1>1, <1>5 DEF Agrees

(* A prefix is what something can follow. *)
LEMMA PrefixFacts ==
  ASSUME NEW S, NEW x \in Seq(S), NEW e \in Seq(S)
  PROVE  /\ R!IsPrefix(x, e) => \E l \in Seq(S) : x \o l = e
         /\ \A l \in Seq(S) : x \o l = e => R!IsPrefix(x, e)
<1>1. PICK n \in Nat, m \in Nat : n = Len(x) /\ m = Len(e)
  OBVIOUS
<1>2. SubSeq(x, 1, n) = x
  BY <1>1, SubSeqFull
<1>3. ASSUME R!IsPrefix(x, e) PROVE \E l \in Seq(S) : x \o l = e
  <2>1. n \in 0 .. Len(e) /\ x = SubSeq(e, 1, n)
    BY <1>1, <1>2, <1>3 DEF R!IsPrefix
  <2>2. << >> \in Seq(S)
    OBVIOUS
  <2>3. (<< >> \o SubSeq(e, 1, n)) \o Left(e, n) = << >> \o e /\ Left(e, n) \in Seq(S)
    <3>1. PICK z \in Seq(S) : z = << >>
      BY <2>2
    <3>2. n \in 0 .. Len(e)
      BY <2>1
    <3>3. Pieces(z, e, n) /\ Left(e, n) \in Seq(S)
      BY <3>2, TwoPieces
    <3> QED
      BY <3>1, <3>3 DEF Pieces
  <2>4. << >> \o e = e /\ << >> \o x = x
    BY ConcatEmptySeq
  <2>5. x \o Left(e, n) = e
    BY <2>1, <2>3, <2>4
  <2> QED
    BY <2>3, <2>5
<1>4. ASSUME NEW l \in Seq(S), x \o l = e PROVE R!IsPrefix(x, e)
  <2>1. n <= m
    BY <1>1, <1>4
  <2>2. SubSeq(x \o l, 1, n) = SubSeq(x, 1, n)
    <3>1. Len(x) \in 1 - 1 .. Len(x) /\ 1 \in 1 .. Len(x) + 1
      OBVIOUS
    <3> QED
      BY <1>1, <3>1, SubSeqOfConcat1
  <2> QED
    BY <1>1, <1>4, <2>1, <2>2 DEF R!IsPrefix
<1> QED
  BY <1>3, <1>4

-----------------------------------------------------------------------------
(* What has been received, what is on its way and what is lost or unsent are the *)
(* protocols from the k-th on.                                                 *)
Flows(d, p, rb, so, lost, talk, k) ==
  Left(d, p) \o rb \o so \o lost = R!EncodeFrom(talk, k)

(* Three buffers in a row. *)
LEMMA RowType ==
  ASSUME NEW S, NEW a \in Seq(S), NEW b \in Seq(S), NEW c \in Seq(S)
  PROVE  a \o b \in Seq(S) /\ a \o b \o c \in Seq(S)
<1>1. a \o b \in Seq(S)
  BY ConcatProperties
<1>2. \A d \in Seq(S) : d \o c \in Seq(S)
  BY ConcatProperties
<1> QED
  BY <1>1, <1>2, Zenon

(* The invariant, with what the connection still has or has lost. *)
LEMMA Opened ==
  ASSUME R!Framed, R!IndInv
  PROVE  /\ R!Typed /\ R!FramesWhole /\ (peer = "reset" => socket = << >>)
         /\ Len(decoded) + 1 \in 1 .. Len(sending) + 1
         /\ \E lost \in Seq(Octet) :
              /\ peer # "reset" => lost = unsent
              /\ Flows(reados, pos, readbuf, socket, lost, sending, Len(decoded) + 1)
<1>1. R!Typed /\ R!FramesWhole /\ R!BuffersHoldRest /\ R!Held
  BY DEF R!IndInv
<1>2. /\ sending \in Conversations /\ pos \in 0 .. Len(reados)
      /\ readbuf \in Seq(Octet) /\ reados \in Seq(Octet) /\ socket \in Seq(Octet)
      /\ unsent \in Seq(Octet) /\ decoded \in Seq([id : Nat, size : Nat])
  BY <1>1 DEF R!Typed, R!TypeOK, R!Octets, Octet
<1>3. Len(decoded) + 1 \in 1 .. Len(sending) + 1
  <2>1. sending \in Seq([id : Nat, size : Nat])
    BY <1>2 DEF R!Framed
  <2>2. Len(decoded) <= Len(sending)
    BY <1>1 DEF R!FramesWhole, R!IsPrefix
  <2>3. Len(decoded) \in Nat /\ Len(sending) \in Nat
    BY <1>2, <2>1
  <2> QED
    BY <2>2, <2>3
<1>4. PICK e \in Seq(Octet) : e = R!EncodeFrom(sending, Len(decoded) + 1)
  BY <1>2, <1>3, EncodeFromFacts
<1>5. PICK x \in Seq(Octet) : x = Left(reados, pos) \o readbuf \o socket
  <2>1. Left(reados, pos) \in Seq(Octet)
    BY <1>2, LeftFacts
  <2> QED
    BY <1>2, <2>1, RowType
<1>6. CASE peer # "reset"
  <2>1. Flows(reados, pos, readbuf, socket, unsent, sending, Len(decoded) + 1)
    BY <1>1, <1>6 DEF R!BuffersHoldRest, Flows, Left
  <2> QED
    BY <1>1, <1>2, <1>3, <2>1 DEF R!Held
<1>7. CASE peer = "reset"
  <2>1. R!IsPrefix(x, e)
    BY <1>1, <1>4, <1>5 DEF R!Held, Left
  <2>2. PICK lost \in Seq(Octet) : x \o lost = e
    BY <2>1, PrefixFacts
  <2>3. Flows(reados, pos, readbuf, socket, lost, sending, Len(decoded) + 1)
    BY <1>4, <1>5, <2>2 DEF Flows
  <2> QED
    BY <1>1, <1>3, <1>7, <2>3 DEF R!Held
<1> QED
  BY <1>6, <1>7

(* And after a step. *)
LEMMA Closed ==
  ASSUME R!Framed, R!Typed', R!FramesWhole', peer' = "reset" => socket' = << >>,
         NEW lost \in Seq(Octet), peer' # "reset" => lost = unsent',
         Len(decoded') + 1 \in 1 .. Len(sending') + 1,
         Flows(reados', pos', readbuf', socket', lost, sending', Len(decoded') + 1)
  PROVE  R!IndInv'
<1>1. /\ sending' \in Conversations /\ pos' \in 0 .. Len(reados')
      /\ readbuf' \in Seq(Octet) /\ reados' \in Seq(Octet) /\ socket' \in Seq(Octet)
      /\ R!TypeOK'
  BY DEF R!Typed, R!TypeOK, R!Octets, Octet
<1>2. PICK e \in Seq(Octet) : e = R!EncodeFrom(sending', Len(decoded') + 1)
  BY <1>1, EncodeFromFacts
<1>3. PICK x \in Seq(Octet) : x = Left(reados', pos') \o readbuf' \o socket'
  <2>1. Left(reados', pos') \in Seq(Octet)
    BY <1>1, LeftFacts
  <2> QED
    BY <1>1, <2>1, RowType
<1>4. x \o lost = e
  BY <1>2, <1>3 DEF Flows
<1>5. R!IsPrefix(x, e)
  BY <1>4, PrefixFacts
<1>6. R!Held'
  BY <1>2, <1>3, <1>5 DEF R!Held, Left
<1>7. R!BuffersHoldRest'
  BY <1>1, <1>2, <1>3, <1>4 DEF R!BuffersHoldRest, Left
<1> QED
  BY <1>6, <1>7 DEF R!IndInv

(* The smaller of two numbers. *)
LEMMA MinFacts ==
  ASSUME NEW a \in Int, NEW b \in Int
  PROVE  R!Min({a, b}) \in {a, b} /\ R!Min({a, b}) <= a /\ R!Min({a, b}) <= b
<1>1. \E x \in {a, b} : \A y \in {a, b} : x <= y
  BY a <= b \/ b <= a
<1>2. /\ (CHOOSE x \in {a, b} : \A y \in {a, b} : x <= y) \in {a, b}
      /\ \A y \in {a, b} : (CHOOSE x \in {a, b} : \A y2 \in {a, b} : x <= y2) <= y
  BY <1>1, Zenon
<1>3. R!Min({a, b}) \in {a, b} /\ \A y \in {a, b} : R!Min({a, b}) <= y
  BY <1>2 DEF R!Min
<1> QED
  BY <1>3

(* Brackets do not matter. *)
Grouped(a, b, c) == (a \o b) \o c = a \o (b \o c)

(* A fact of the library, about given sequences. *)
LEMMA Groups ==
  ASSUME NEW S, NEW a \in Seq(S), NEW b \in Seq(S), NEW c \in Seq(S)
  PROVE  Grouped(a, b, c)
  BY ConcatAssociative DEF Grouped

(* A chain of four, its members cut differently. *)
LEMMA Regroup ==
  ASSUME NEW S, NEW a \in Seq(S), NEW b \in Seq(S), NEW c \in Seq(S), NEW e \in Seq(S)
  PROVE  ((a \o b) \o c) \o e = (a \o b) \o (c \o e)
<1>1. PICK d \in Seq(S) : d = a \o b
  BY ConcatProperties
<1>2. Grouped(d, c, e)
  BY Groups
<1> QED
  BY <1>1, <1>2 DEF Grouped

(* The octets that the beginning of on_recv() moves. *)
LEMMA MoveInKeeps ==
  ASSUME R!CapAssumption, NEW lost \in Seq(Octet), NEW talk, NEW k, reados \in Seq(Octet),
         readbuf \in Seq(Octet), socket \in Seq(Octet), Len(readbuf) <= ReadCap,
         Len(reados) <= ReadCap, pos \in 0 .. Len(reados), R!MoveIn,
         Flows(reados, pos, readbuf, socket, lost, talk, k)
  PROVE  /\ reados' \in Seq(Octet) /\ readbuf' \in Seq(Octet) /\ state' = "recving"
         /\ Len(readbuf') <= ReadCap /\ Len(reados') <= ReadCap /\ pos \in 0 .. Len(reados')
         /\ Flows(reados', pos, readbuf', socket, lost, talk, k)
<1>1. PICK n : n = R!Min({Len(readbuf), ReadCap - Len(reados)})
  OBVIOUS
<1>2. ReadCap \in Nat /\ Len(readbuf) \in Nat /\ Len(reados) \in Nat
  BY DEF R!CapAssumption
<1>3. n \in 0 .. Len(readbuf) /\ n <= ReadCap - Len(reados)
  <2>1. Len(readbuf) \in Int /\ ReadCap - Len(reados) \in Int
    BY <1>2
  <2>2. n \in {Len(readbuf), ReadCap - Len(reados)} /\ n <= Len(readbuf) /\ n <= ReadCap - Len(reados)
    <3>1. PICK a \in Int, b \in Int : a = Len(readbuf) /\ b = ReadCap - Len(reados)
      BY <2>1
    <3>2. n = R!Min({a, b})
      BY <1>1, <3>1, Zenon
    <3>3. n \in {a, b} /\ n <= a /\ n <= b
      BY <3>2, MinFacts
    <3> QED
      BY <3>1, <3>3
  <2> QED
    BY <1>2, <2>2
<1>4. PICK x, y : x = SubSeq(readbuf, 1, n) /\ y = Left(readbuf, n)
  OBVIOUS
<1>5. PICK l \in Seq(Octet) : l = Left(reados, pos)
  BY LeftFacts
<1>6. x \in Seq(Octet) /\ y \in Seq(Octet) /\ Len(x) = n /\ Len(y) = Len(readbuf) - n
      /\ Pieces(l, readbuf, n)
  BY <1>3, <1>4, TwoPieces
<1>7. reados' = reados \o x /\ readbuf' = y /\ state' = "recving"
  BY <1>1, <1>4 DEF R!MoveIn, Left
<1>8. Left(reados', pos) = l \o x
  BY <1>5, <1>6, <1>7, LeftConcat
<1>9. (l \o x) \o y = l \o readbuf
  BY <1>4, <1>6 DEF Pieces
<1>10. Flows(reados', pos, readbuf', socket, lost, talk, k)
  <2>1. Left(reados', pos) \o readbuf' = Left(reados, pos) \o readbuf
    BY <1>5, <1>7, <1>8, <1>9, Zenon
  <2>2. Left(reados, pos) \o readbuf \o socket \o lost = R!EncodeFrom(talk, k)
    BY DEF Flows
  <2>3. Left(reados', pos) \o readbuf' \o socket \o lost = R!EncodeFrom(talk, k)
    BY <2>1, <2>2, Zenon
  <2> QED
    BY <2>3 DEF Flows
<1>11. reados' \in Seq(Octet) /\ Len(reados') = Len(reados) + n
  <2>1. reados \o x \in Seq(Octet) /\ Len(reados \o x) = Len(reados) + Len(x)
    BY <1>6, ConcatProperties
  <2> QED
    BY <1>6, <1>7, <2>1
<1>12. Len(reados') <= ReadCap /\ pos \in 0 .. Len(reados') /\ Len(readbuf') <= ReadCap
  BY <1>2, <1>3, <1>6, <1>7, <1>11
<1> QED
  BY <1>6, <1>7, <1>10, <1>11, <1>12

-----------------------------------------------------------------------------
(* t is what is behind l, in one piece. *)
Follows(l, rb, so, lost, t) == t = (rb \o so) \o lost /\ ((l \o rb) \o so) \o lost = l \o t

(* What is behind the unread part, in one piece. *)
LEMMA Behind ==
  ASSUME NEW S, NEW l \in Seq(S), NEW rb \in Seq(S), NEW so \in Seq(S), NEW lost \in Seq(S)
  PROVE  \E t \in Seq(S) : Follows(l, rb, so, lost, t)
<1>1. PICK a \in Seq(S) : a = rb \o so
  BY ConcatProperties
<1>2. PICK t \in Seq(S) : t = a \o lost
  BY ConcatProperties
<1>3. Grouped(l, rb, so) /\ Grouped(l, a, lost)
  BY Groups
<1>4. (l \o rb) \o so = l \o a
  BY <1>1, <1>3 DEF Grouped
<1>5. (l \o a) \o lost = l \o t
  BY <1>2, <1>3 DEF Grouped
<1> QED
  BY <1>1, <1>2, <1>4, <1>5 DEF Follows

(* A turn of the loop in on_recv(): the next protocol, or nothing. *)
Turn(res, d, p, t, talk, k) ==
  IF res.kind = "frame"
  THEN /\ k <= Len(talk) /\ res.prots = <<talk[k]>> /\ res.next \in 0 .. Len(d)
       /\ Left(d, res.next) \o t = R!EncodeFrom(talk, k + 1)
  ELSE res.next = p

(* decode() finds the protocol that is next in the stream, or leaves all there. *)
LEMMA TurnFacts ==
  ASSUME R!WidthAssumption, R!Framed, NEW d \in Seq(Octet), NEW p \in 0 .. Len(d),
         NEW t \in Seq(Octet), NEW talk \in Conversations, NEW k \in 1 .. Len(talk) + 1,
         Left(d, p) \o t = R!EncodeFrom(talk, k)
  PROVE  Turn(R!Decode(d, p), d, p, t, talk, k)
<1>1. PICK len \in Nat : len = Len(talk)
  BY DEF R!Framed
<1>2. PICK res : res = R!Decode(d, p)
  OBVIOUS
<1>3. CASE k = len + 1
  <2>1. PICK l \in Seq(Octet) : l = Left(d, p) /\ Len(l) = Len(d) - p
    BY LeftFacts
  <2>2. l \o t = << >>
    BY <1>1, <1>3, <2>1, EncodeFromFacts
  <2>3. Len(l \o t) = Len(l) + Len(t)
    BY ConcatProperties
  <2>4. Len(l) = 0
    BY <2>2, <2>3
  <2>5. p = Len(d)
    BY <2>1, <2>4
  <2>6. res.kind # "frame" /\ res.next = p
    BY <1>2, <2>5, DecodeNothing
  <2> QED
    BY <1>2, <2>6 DEF Turn
<1>4. CASE k <= len
  <2>1. PICK prot : prot = talk[k]
    OBVIOUS
  <2>2. Fits(prot) /\ k + 1 \in 1 .. Len(talk) + 1
    BY <1>1, <1>4, <2>1, EncodeFromFacts
  <2>3. PICK c \in Seq(Octet) : c = R!EncodeFrom(talk, k + 1)
    BY <2>2, EncodeFromFacts
  <2>4. PICK a \in Seq(Octet) : a = R!Encode(prot)
    BY <2>2, EncodeFacts
  <2>5. Left(d, p) \o t = a \o c
    BY <1>1, <1>4, <2>1, <2>3, <2>4, EncodeFromFacts
  <2>6. Agrees(d, p, a)
    BY <2>5, StreamAgrees
  <2>7. Decodes(res, d, p, prot)
    BY <1>2, <2>2, <2>4, <2>6, DecodeFacts
  <2>8. CASE res.kind = "frame"
    <3>1. res.prots = <<prot>> /\ res.next = p + Len(a) /\ p + Len(a) <= Len(d)
      BY <2>4, <2>7, <2>8 DEF Decodes
    <3>2. Left(d, p + Len(a)) \o t = c
      BY <2>5, <3>1, TakeFront
    <3>3. Left(d, res.next) \o t = c
      BY <3>1, <3>2
    <3>4. res.next \in 0 .. Len(d)
      BY <3>1
    <3> QED
      BY <1>1, <1>2, <1>4, <2>1, <2>3, <2>8, <3>1, <3>3, <3>4 DEF Turn
  <2>9. CASE res.kind # "frame"
    BY <1>2, <2>7, <2>9 DEF Decodes, Turn
  <2> QED
    BY <2>8, <2>9
<1> QED
  BY <1>1, <1>3, <1>4

(* A sequence of one element. *)
LEMMA Single ==
  ASSUME NEW S, NEW v \in S
  PROVE  /\ <<v>> \in Seq(S) /\ Len(<<v>>) = 1
         /\ \A s \in Seq(S) : Len(s) = 1 /\ s[1] = v => s = <<v>>
<1>1. <<v>> \in Seq(S) /\ Len(<<v>>) = 1 /\ <<v>>[1] = v
  OBVIOUS
<1>2. ASSUME NEW s \in Seq(S), Len(s) = 1, s[1] = v PROVE s = <<v>>
  <2>1. PICK t \in Seq(S) : t = <<v>> /\ Len(t) = 1 /\ t[1] = v
    BY <1>1
  <2>2. s = t
    BY <1>2, <2>1, SeqEqual
  <2> QED
    BY <2>1, <2>2
<1> QED
  BY <1>1, <1>2

(* The first element, as a sequence. *)
LEMMA FirstPiece ==
  ASSUME NEW S, NEW l \in Seq(S), Len(l) >= 1
  PROVE  SubSeq(l, 1, 1) = <<l[1]>> /\ l[1] \in S
<1>1. PICK one \in Nat : one = 1
  OBVIOUS
<1>2. l[one] \in S /\ one \in 0 .. Len(l)
  BY <1>1
<1>3. PICK s \in Seq(S) : s = SubSeq(l, 1, one) /\ Len(s) = one
  BY <1>2, CutFacts
<1>4. SubSeq(l, 1, one)[1] = l[1]
  BY <1>1, <1>2, SubSeqProperties
<1>5. s = <<l[1]>>
  BY <1>1, <1>2, <1>3, <1>4, Single
<1> QED
  BY <1>1, <1>2, <1>3, <1>5

(* y is x with the k-th element of e, still a beginning of e. *)
Grows(y, x, e, k) == y = x \o <<e[k]>> /\ Len(y) = k /\ R!IsPrefix(y, e)

(* A beginning grows by the element that is next. *)
LEMMA PrefixGrows ==
  ASSUME NEW S, NEW x \in Seq(S), NEW e \in Seq(S), R!IsPrefix(x, e), NEW k, k = Len(x) + 1,
         k <= Len(e)
  PROVE  \E y \in Seq(S) : Grows(y, x, e, k)
<1>1. PICK l \in Seq(S) : x \o l = e
  BY PrefixFacts
<1>2. PICK n \in Nat, m \in Nat : n = Len(x) /\ m = Len(l)
  OBVIOUS
<1>3. Joined(e, x, l, n, m)
  BY <1>1, <1>2, ConcatIs
<1>4. m >= 1 /\ e[k] = l[1] /\ l[1] \in S
  <2>1. Len(e) = n + m /\ \A i \in 1 .. n + m : e[i] = IF i <= n THEN x[i] ELSE l[i - n]
    BY <1>3 DEF Joined
  <2>2. k = n + 1 /\ k <= n + m
    BY <1>2, <2>1
  <2>3. m >= 1
    BY <2>2
  <2>4. k \in 1 .. n + m /\ ~(k <= n) /\ k - n = 1
    BY <2>2
  <2>5. e[k] = l[1]
    BY <2>1, <2>4
  <2>6. l[1] \in S
    BY <1>2, <2>3
  <2> QED
    BY <2>3, <2>5, <2>6
<1>5. PICK v \in S : v = e[k]
  BY <1>4
<1>6. SubSeq(l, 1, 1) = <<v>>
  BY <1>2, <1>4, <1>5, FirstPiece
<1>7. PICK r \in Seq(S) : r = Left(l, 1)
  BY <1>2, <1>4, TwoPieces
<1>8. Pieces(x, l, 1)
  BY <1>2, <1>4, TwoPieces
<1>9. PICK y \in Seq(S) : y = x \o <<v>> /\ Len(y) = n + 1
  <2>1. PICK s \in Seq(S) : s = <<v>> /\ Len(s) = 1
    BY Single
  <2>2. x \o s \in Seq(S) /\ Len(x \o s) = n + 1
    BY <1>2, <2>1, ConcatProperties
  <2> QED
    BY <2>1, <2>2
<1>10. y \o r = e
  BY <1>1, <1>6, <1>7, <1>8, <1>9 DEF Pieces
<1>11. R!IsPrefix(y, e)
  BY <1>10, PrefixFacts
<1> QED
  BY <1>2, <1>5, <1>9, <1>11 DEF Grows
-----------------------------------------------------------------------------
(* What the variables are. *)
LEMMA TypedFacts ==
  ASSUME R!CapAssumption, R!Framed, R!Typed
  PROVE  /\ sending \in Conversations /\ sending \in Seq([id : Nat, size : Nat])
         /\ decoded \in Seq([id : Nat, size : Nat])
         /\ readbuf \in Seq(Octet) /\ reados \in Seq(Octet) /\ socket \in Seq(Octet)
         /\ unsent \in Seq(Octet) /\ Left(reados, pos) \in Seq(Octet)
         /\ pos \in 0 .. Len(reados) /\ Len(socket) <= SocketCap
         /\ Len(readbuf) <= ReadCap /\ Len(reados) <= ReadCap
         /\ ReadCap \in Nat /\ SocketCap \in Nat /\ ShrinkAt \in Nat
<1>1. /\ sending \in Conversations /\ decoded \in Seq([id : Nat, size : Nat])
      /\ readbuf \in Seq(Octet) /\ reados \in Seq(Octet) /\ socket \in Seq(Octet)
      /\ unsent \in Seq(Octet)
      /\ pos \in 0 .. Len(reados) /\ Len(socket) <= SocketCap
      /\ Len(readbuf) <= ReadCap /\ Len(reados) <= ReadCap
  BY DEF R!Typed, R!TypeOK, R!Octets, Octet
<1>2. sending \in Seq([id : Nat, size : Nat])
  BY <1>1 DEF R!Framed
<1>3. Left(reados, pos) \in Seq(Octet)
  BY <1>1, LeftFacts
<1>4. ReadCap \in Nat /\ SocketCap \in Nat /\ ShrinkAt \in Nat
  BY DEF R!CapAssumption
<1> QED
  BY <1>1, <1>2, <1>3, <1>4

(* A step that hands nothing over. *)
LEMMA NothingDecoded ==
  ASSUME R!Framed, R!IndInv, UNCHANGED <<sending, decoded>>
  PROVE  R!FramesWhole' /\ Len(decoded') + 1 \in 1 .. Len(sending') + 1
<1>1. R!FramesWhole /\ Len(decoded) + 1 \in 1 .. Len(sending) + 1
  BY Opened
<1>2. R!FramesWhole'
  BY <1>1 DEF R!FramesWhole
<1> QED
  BY <1>1, <1>2

(* The peer sends some octets. *)
LEMMA PeerSendKeeps ==
  ASSUME R!CapAssumption, R!Framed, R!IndInv, R!PeerSend PROVE R!IndInv'
<1>1. /\ R!Typed /\ peer = "open" /\ UNCHANGED <<sending, peer, readbuf, reados, pos, state, rstatus, rlpc, decoded>>
      /\ \E lost \in Seq(Octet) :
           /\ peer # "reset" => lost = unsent
           /\ Flows(reados, pos, readbuf, socket, lost, sending, Len(decoded) + 1)
  BY Opened DEF R!PeerSend
<1>2. Flows(reados, pos, readbuf, socket, unsent, sending, Len(decoded) + 1)
  BY <1>1
<1>3. PICK n \in 1 .. Len(unsent) :
        /\ Len(socket) + n <= SocketCap
        /\ socket' = socket \o SubSeq(unsent, 1, n)
        /\ unsent' = SubSeq(unsent, n + 1, Len(unsent))
  BY DEF R!PeerSend
<1>4. /\ readbuf \in Seq(Octet) /\ socket \in Seq(Octet) /\ unsent \in Seq(Octet)
      /\ Left(reados, pos) \in Seq(Octet)
  BY <1>1, TypedFacts
<1>5. PICK z \in Seq(Octet) : z = Left(reados, pos) \o readbuf
  BY <1>4, ConcatProperties
<1>6. PICK zs \in Seq(Octet) : zs = z \o socket
  BY <1>4, ConcatProperties
<1>7. PICK x \in Seq(Octet), y \in Seq(Octet) :
        x = SubSeq(unsent, 1, n) /\ y = Left(unsent, n) /\ Len(x) = n
  <2>1. n \in 0 .. Len(unsent)
    BY <1>3, <1>4
  <2> QED
    BY <1>4, <2>1, CutFacts
<1>8. (zs \o x) \o y = zs \o unsent
  <2>1. Pieces(zs, unsent, n)
    <3>1. n \in 0 .. Len(unsent)
      BY <1>3, <1>4
    <3> QED
      BY <1>4, <3>1, TwoPieces
  <2> QED
    BY <1>7, <2>1 DEF Pieces
<1>9. zs \o x = z \o (socket \o x)
  <2>1. Grouped(z, socket, x)
    BY <1>4, Groups
  <2> QED
    BY <1>6, <2>1 DEF Grouped
<1>10. Flows(reados', pos', readbuf', socket', unsent', sending', Len(decoded') + 1)
  <2>1. zs \o unsent = R!EncodeFrom(sending, Len(decoded) + 1)
    BY <1>2, <1>5, <1>6 DEF Flows
  <2>2. socket' = socket \o x /\ unsent' = y
    BY <1>3, <1>7 DEF Left
  <2>3. (z \o socket') \o unsent' = R!EncodeFrom(sending, Len(decoded) + 1)
    BY <1>8, <1>9, <2>1, <2>2, Zenon
  <2> QED
    BY <1>1, <1>5, <2>3 DEF Flows
<1>11. R!Typed' /\ unsent' \in Seq(Octet)
  <2>1. socket \o x \in Seq(Octet) /\ Len(socket \o x) = Len(socket) + Len(x)
    BY <1>4, ConcatProperties
  <2>2. socket' \in Seq(Octet) /\ Len(socket') <= SocketCap /\ unsent' \in Seq(Octet)
    BY <1>3, <1>7, <2>1 DEF Left
  <2> QED
    BY <1>1, <2>2 DEF R!Typed, R!TypeOK, R!Octets, Octet
<1>12. R!FramesWhole' /\ Len(decoded') + 1 \in 1 .. Len(sending') + 1
  BY <1>1, NothingDecoded
<1> QED
  BY <1>1, <1>10, <1>11, <1>12, Closed

(* The connection is lost with what the kernel holds. *)
LEMMA PeerResetKeeps ==
  ASSUME R!CapAssumption, R!Framed, R!IndInv, R!PeerReset PROVE R!IndInv'
<1>1. /\ R!Typed /\ peer' = "reset" /\ socket' = << >>
      /\ UNCHANGED <<sending, unsent, readbuf, reados, pos, state, rstatus, rlpc, decoded>>
  BY Opened DEF R!PeerReset
<1>2. PICK lost \in Seq(Octet) :
        Flows(reados, pos, readbuf, socket, lost, sending, Len(decoded) + 1)
  BY Opened
<1>3. /\ readbuf \in Seq(Octet) /\ socket \in Seq(Octet) /\ Left(reados, pos) \in Seq(Octet)
      /\ SocketCap \in Nat
  BY <1>1, TypedFacts
<1>4. PICK z \in Seq(Octet) : z = Left(reados, pos) \o readbuf
  BY <1>3, ConcatProperties
<1>5. PICK gone \in Seq(Octet) : gone = socket \o lost
  BY <1>3, ConcatProperties
<1>6. (z \o socket) \o lost = z \o gone
  <2>1. Grouped(z, socket, lost)
    BY <1>3, Groups
  <2> QED
    BY <1>5, <2>1 DEF Grouped
<1>7. z \o << >> = z
  BY ConcatEmptySeq
<1>8. Flows(reados', pos', readbuf', socket', gone, sending', Len(decoded') + 1)
  <2>1. (z \o socket) \o lost = R!EncodeFrom(sending, Len(decoded) + 1)
    BY <1>2, <1>4 DEF Flows
  <2>2. (z \o socket') \o gone = R!EncodeFrom(sending, Len(decoded) + 1)
    BY <1>1, <1>6, <1>7, <2>1
  <2> QED
    BY <1>1, <1>4, <2>2 DEF Flows
<1>9. R!Typed'
  <2>1. socket' \in Seq(Octet) /\ Len(socket') <= SocketCap
    BY <1>1, <1>3
  <2> QED
    BY <1>1, <2>1 DEF R!Typed, R!TypeOK, R!Octets, Octet
<1>10. R!FramesWhole' /\ Len(decoded') + 1 \in 1 .. Len(sending') + 1
  BY <1>1, NothingDecoded
<1> QED
  BY <1>1, <1>8, <1>9, <1>10, Closed

(* The peer shuts the connection down, or handle_close() looks at the state. *)
LEMMA NothingMoves ==
  ASSUME R!CapAssumption, R!Framed, R!IndInv, R!Typed', peer' = "reset" => peer = "reset",
         peer = "reset" => peer' = "reset",
         UNCHANGED <<sending, unsent, socket, readbuf, reados, pos, decoded>>
  PROVE  R!IndInv'
<1>1. PICK lost \in Seq(Octet) :
        /\ peer # "reset" => lost = unsent
        /\ Flows(reados, pos, readbuf, socket, lost, sending, Len(decoded) + 1)
  BY Opened
<1>2. Flows(reados', pos', readbuf', socket', lost, sending', Len(decoded') + 1)
  BY <1>1
<1>3. R!FramesWhole' /\ Len(decoded') + 1 \in 1 .. Len(sending') + 1
  BY NothingDecoded
<1>4. (peer' = "reset" => socket' = << >>) /\ (peer' # "reset" => lost = unsent')
  BY <1>1, Opened
<1> QED
  BY <1>2, <1>3, <1>4, Closed

(* recv() fills _readbuf. *)
LEMMA ReceiveKeeps ==
  ASSUME R!CapAssumption, R!Framed, R!IndInv, R!Receive PROVE R!IndInv'
<1>1. /\ R!Typed /\ UNCHANGED <<sending, unsent, peer, reados, pos, state, rstatus, rlpc, decoded>>
      /\ (peer = "reset" => socket = << >>)
  BY Opened DEF R!Receive, R!peervars
<1>2. PICK lost \in Seq(Octet) :
        /\ peer # "reset" => lost = unsent
        /\ Flows(reados, pos, readbuf, socket, lost, sending, Len(decoded) + 1)
  BY Opened
<1>3. PICK n : n = R!Min({Len(socket), ReadCap - Len(readbuf)})
  OBVIOUS
<1>4. /\ n > 0 /\ readbuf' = readbuf \o SubSeq(socket, 1, n)
      /\ socket' = SubSeq(socket, n + 1, Len(socket))
  BY <1>3 DEF R!Receive
<1>5. /\ readbuf \in Seq(Octet) /\ socket \in Seq(Octet) /\ Left(reados, pos) \in Seq(Octet)
      /\ Len(socket) <= SocketCap /\ ReadCap \in Nat /\ SocketCap \in Nat
  BY <1>1, TypedFacts
<1>6. n \in 1 .. Len(socket) /\ n <= ReadCap - Len(readbuf)
  <2>1. Len(socket) \in Nat /\ ReadCap - Len(readbuf) \in Int
    BY <1>5
  <2>2. n \in {Len(socket), ReadCap - Len(readbuf)} /\ n <= Len(socket) /\ n <= ReadCap - Len(readbuf)
    <3>1. PICK a \in Int, b \in Int : a = Len(socket) /\ b = ReadCap - Len(readbuf)
      BY <2>1
    <3>2. n = R!Min({a, b})
      BY <1>3, <3>1, Zenon
    <3>3. n \in {a, b} /\ n <= a /\ n <= b
      BY <3>2, MinFacts
    <3> QED
      BY <3>1, <3>3
  <2> QED
    BY <1>4, <2>1, <2>2
<1>7. PICK x \in Seq(Octet), y \in Seq(Octet) :
        x = SubSeq(socket, 1, n) /\ y = Left(socket, n) /\ Len(x) = n /\ Len(y) = Len(socket) - n
  <2>1. n \in 0 .. Len(socket)
    BY <1>5, <1>6
  <2> QED
    BY <1>5, <2>1, CutFacts
<1>8. PICK l \in Seq(Octet) : l = Left(reados, pos)
  BY <1>5
<1>9. PICK z \in Seq(Octet) : z = l \o readbuf
  BY <1>5, ConcatProperties
<1>10. (z \o x) \o y = z \o socket
  <2>1. Pieces(z, socket, n)
    <3>1. n \in 0 .. Len(socket)
      BY <1>5, <1>6
    <3> QED
      BY <1>5, <3>1, TwoPieces
  <2> QED
    BY <1>7, <2>1 DEF Pieces
<1>11. z \o x = l \o (readbuf \o x)
  <2>1. Grouped(l, readbuf, x)
    BY <1>5, Groups
  <2> QED
    BY <1>9, <2>1 DEF Grouped
<1>12. readbuf' = readbuf \o x /\ socket' = y
  BY <1>4, <1>7 DEF Left
<1>13. Flows(reados', pos', readbuf', socket', lost, sending', Len(decoded') + 1)
  <2>1. (z \o socket) \o lost = R!EncodeFrom(sending, Len(decoded) + 1)
    BY <1>2, <1>8, <1>9 DEF Flows
  <2>2. ((l \o readbuf') \o socket') \o lost = R!EncodeFrom(sending, Len(decoded) + 1)
    BY <1>10, <1>11, <1>12, <2>1, Zenon
  <2> QED
    BY <1>1, <1>8, <2>2 DEF Flows
<1>14. R!Typed'
  <2>1. readbuf \o x \in Seq(Octet) /\ Len(readbuf \o x) = Len(readbuf) + Len(x)
    BY <1>5, ConcatProperties
  <2>2. readbuf' \in Seq(Octet) /\ Len(readbuf') <= ReadCap
    BY <1>5, <1>6, <1>7, <1>12, <2>1
  <2>3. socket' \in Seq(Octet) /\ Len(socket') <= SocketCap
    BY <1>5, <1>6, <1>7, <1>12
  <2> QED
    BY <1>1, <2>2, <2>3 DEF R!Typed, R!TypeOK, R!Octets, Octet
<1>15. R!FramesWhole' /\ Len(decoded') + 1 \in 1 .. Len(sending') + 1
  BY <1>1, NothingDecoded
<1>16. peer' # "reset"
  <2>1. socket # << >>
    BY <1>5, <1>6
  <2> QED
    BY <1>1, <2>1
<1> QED
  BY <1>1, <1>2, <1>13, <1>14, <1>15, <1>16, Closed

(* The beginning of on_recv(), called for a full _readbuf or after recv(). *)
LEMMA MoveInStep ==
  ASSUME R!CapAssumption, R!Framed, R!IndInv, R!MoveIn, rstatus' \in {"add", "del"},
         rlpc' \in {"full", "decode"}, UNCHANGED <<sending, unsent, peer, socket, pos, decoded>>
  PROVE  R!IndInv'
<1>1. R!Typed /\ (peer = "reset" => socket = << >>)
  BY Opened
<1>2. PICK lost \in Seq(Octet) :
        /\ peer # "reset" => lost = unsent
        /\ Flows(reados, pos, readbuf, socket, lost, sending, Len(decoded) + 1)
  BY Opened
<1>3. /\ readbuf \in Seq(Octet) /\ socket \in Seq(Octet) /\ reados \in Seq(Octet)
      /\ pos \in 0 .. Len(reados) /\ Len(readbuf) <= ReadCap /\ Len(reados) <= ReadCap
  BY <1>1, TypedFacts
<1>4. PICK talk, k : talk = sending /\ k = Len(decoded) + 1
  OBVIOUS
<1>5. /\ reados' \in Seq(Octet) /\ readbuf' \in Seq(Octet) /\ state' = "recving"
      /\ Len(readbuf') <= ReadCap /\ Len(reados') <= ReadCap /\ pos \in 0 .. Len(reados')
      /\ Flows(reados', pos, readbuf', socket, lost, talk, k)
  <2>1. Flows(reados, pos, readbuf, socket, lost, talk, k)
    BY <1>2, <1>4
  <2> QED
    BY <1>3, <2>1, MoveInKeeps
<1>6. R!Typed'
  BY <1>1, <1>5 DEF R!Typed, R!TypeOK, R!Octets, Octet
<1>7. R!FramesWhole' /\ Len(decoded') + 1 \in 1 .. Len(sending') + 1
  BY NothingDecoded
<1>8. Flows(reados', pos', readbuf', socket', lost, sending', Len(decoded') + 1)
  BY <1>4, <1>5
<1>9. (peer' = "reset" => socket' = << >>) /\ (peer' # "reset" => lost = unsent')
  BY <1>1, <1>2
<1> QED
  BY <1>6, <1>7, <1>8, <1>9, Closed

(* handle_read() begins. *)
LEMMA StartReadKeeps ==
  ASSUME R!CapAssumption, R!Framed, R!IndInv, R!StartRead PROVE R!IndInv'
<1>1. R!Typed /\ UNCHANGED <<sending, unsent, peer, socket, pos, rstatus, decoded>>
  BY Opened DEF R!StartRead, R!peervars
<1>2. CASE Len(readbuf) = ReadCap
  <2>1. R!MoveIn /\ rlpc' = "full"
    BY <1>2 DEF R!StartRead
  <2>2. rstatus' \in {"add", "del"}
    BY <1>1 DEF R!Typed, R!TypeOK
  <2> QED
    BY <1>1, <2>1, <2>2, MoveInStep
<1>3. CASE Len(readbuf) # ReadCap
  <2>1. rlpc' = "recv" /\ UNCHANGED <<readbuf, reados, state>>
    BY <1>3 DEF R!StartRead
  <2>2. R!Typed'
    BY <1>1, <2>1 DEF R!Typed, R!TypeOK
  <2> QED
    BY <1>1, <2>1, <2>2, NothingMoves
<1> QED
  BY <1>2, <1>3

(* recv() finds nothing more, or no room. *)
LEMMA EndReceiveKeeps ==
  ASSUME R!CapAssumption, R!Framed, R!IndInv, R!EndReceive PROVE R!IndInv'
<1>1. R!Typed /\ R!MoveIn /\ rlpc' = "decode" /\ UNCHANGED <<sending, unsent, peer, socket, pos, decoded>>
  BY Opened DEF R!EndReceive, R!peervars
<1>2. rstatus' \in {"add", "del"}
  BY <1>1 DEF R!EndReceive, R!Typed, R!TypeOK
<1> QED
  BY <1>1, <1>2, MoveInStep

(* What is left of a buffer after try_shrink(). *)
LEMMA ShrinkFacts ==
  ASSUME R!CapAssumption, reados \in Seq(Octet), pos \in 0 .. Len(reados), R!TryShrink(pos)
  PROVE  /\ reados' \in Seq(Octet) /\ pos' \in 0 .. Len(reados') /\ Len(reados') <= Len(reados)
         /\ Left(reados', pos') = Left(reados, pos)
<1>1. CASE pos > ShrinkAt
  <2>1. reados' = Left(reados, pos) /\ pos' = 0
    BY <1>1 DEF R!TryShrink, Left
  <2>2. PICK l \in Seq(Octet) : l = Left(reados, pos) /\ Len(l) = Len(reados) - pos
    BY LeftFacts
  <2>3. SubSeq(l, 1, Len(l)) = l
    BY SubSeqFull
  <2>4. Left(l, 0) = l
    BY <2>3 DEF Left
  <2>5. Len(l) <= Len(reados) /\ 0 \in 0 .. Len(l)
    BY <2>2
  <2> QED
    BY <2>1, <2>2, <2>4, <2>5
<1>2. CASE ~(pos > ShrinkAt)
  <2>1. reados' = reados /\ pos' = pos
    BY <1>2 DEF R!TryShrink
  <2> QED
    BY <2>1
<1> QED
  BY <1>1, <1>2

(* A turn of the loop in on_recv(). *)
LEMMA DecodeStepKeeps ==
  ASSUME R!WidthAssumption, R!CapAssumption, R!Framed, R!IndInv, R!DecodeStep PROVE R!IndInv'
<1>1. /\ R!Typed /\ R!FramesWhole /\ UNCHANGED <<sending, unsent, peer, socket, readbuf, rstatus>>
      /\ (peer = "reset" => socket = << >>) /\ Len(decoded) + 1 \in 1 .. Len(sending) + 1
  BY Opened DEF R!DecodeStep, R!peervars
<1>2. PICK lost \in Seq(Octet) :
        /\ peer # "reset" => lost = unsent
        /\ Flows(reados, pos, readbuf, socket, lost, sending, Len(decoded) + 1)
  BY Opened
<1>3. /\ readbuf \in Seq(Octet) /\ socket \in Seq(Octet) /\ reados \in Seq(Octet)
      /\ pos \in 0 .. Len(reados) /\ Len(reados) <= ReadCap /\ ReadCap \in Nat
      /\ Left(reados, pos) \in Seq(Octet)
      /\ sending \in Conversations /\ sending \in Seq([id : Nat, size : Nat])
      /\ decoded \in Seq([id : Nat, size : Nat])
  BY <1>1, TypedFacts
<1>4. PICK k \in 1 .. Len(sending) + 1 : k = Len(decoded) + 1
  BY <1>1
<1>5. PICK t \in Seq(Octet) : t = (readbuf \o socket) \o lost
  <2>1. PICK a \in Seq(Octet) : a = readbuf \o socket
    BY <1>3, ConcatProperties
  <2>2. a \o lost \in Seq(Octet)
    BY ConcatProperties
  <2> QED
    BY <2>1, <2>2
<1>6. \A l \in Seq(Octet) : ((l \o readbuf) \o socket) \o lost = l \o t
  <2> TAKE l \in Seq(Octet)
  <2>1. PICK u \in Seq(Octet) : Follows(l, readbuf, socket, lost, u)
    BY <1>3, Behind
  <2> QED
    BY <1>5, <2>1 DEF Follows
<1>7. Left(reados, pos) \o t = R!EncodeFrom(sending, k)
  <2>1. ((Left(reados, pos) \o readbuf) \o socket) \o lost = R!EncodeFrom(sending, k)
    BY <1>2, <1>4 DEF Flows
  <2> QED
    BY <1>3, <1>6, <2>1, Zenon
<1>8. PICK d : d = R!Decode(reados, pos)
  OBVIOUS
<1>9. Turn(d, reados, pos, t, sending, k)
  BY <1>3, <1>7, <1>8, TurnFacts
<1>10. \/ /\ d.kind = "frame" /\ decoded' = decoded \o d.prots /\ pos' = d.next
          /\ UNCHANGED <<reados, state, rlpc>>
       \/ /\ d.kind # "frame"
          /\ state' = IF d.kind = "throw" THEN "closing" ELSE state
          /\ R!TryShrink(d.next)
          /\ rlpc' = IF rlpc = "full" THEN "recv" ELSE "close"
          /\ UNCHANGED decoded
  BY <1>8 DEF R!DecodeStep
<1>11. (peer' = "reset" => socket' = << >>) /\ (peer' # "reset" => lost = unsent')
  BY <1>1, <1>2
<1>12. CASE d.kind = "frame"
  <2>1. decoded' = decoded \o d.prots /\ pos' = d.next /\ UNCHANGED <<reados, state, rlpc>>
    BY <1>10, <1>12
  <2>2. /\ k <= Len(sending) /\ d.prots = <<sending[k]>> /\ pos' \in 0 .. Len(reados)
        /\ Left(reados, pos') \o t = R!EncodeFrom(sending, k + 1)
    BY <1>9, <1>12, <2>1 DEF Turn
  <2>3. decoded' \in Seq([id : Nat, size : Nat]) /\ Len(decoded') = k /\ R!IsPrefix(decoded', sending)
    <3>1. R!IsPrefix(decoded, sending)
      BY <1>1 DEF R!FramesWhole
    <3>2. PICK y \in Seq([id : Nat, size : Nat]) : Grows(y, decoded, sending, k)
      BY <1>3, <1>4, <2>2, <3>1, PrefixGrows
    <3> QED
      BY <2>1, <2>2, <3>2 DEF Grows
  <2>4. R!Typed'
    BY <1>1, <2>1, <2>2, <2>3 DEF R!Typed, R!TypeOK
  <2>5. R!FramesWhole'
    BY <1>1, <2>3 DEF R!FramesWhole
  <2>6. PICK l \in Seq(Octet) : l = Left(reados', pos')
    BY <1>3, <2>1, <2>2, LeftFacts
  <2>7. l \o t = R!EncodeFrom(sending', k + 1)
    BY <1>1, <2>1, <2>2, <2>6
  <2>8. ((l \o readbuf') \o socket') \o lost = R!EncodeFrom(sending', k + 1)
    BY <1>1, <1>6, <2>7
  <2>9. Flows(reados', pos', readbuf', socket', lost, sending', Len(decoded') + 1)
    BY <2>3, <2>6, <2>8 DEF Flows
  <2>10. Len(decoded') + 1 \in 1 .. Len(sending') + 1
    BY <1>1, <1>3, <2>2, <2>3
  <2> QED
    BY <1>11, <2>4, <2>5, <2>9, <2>10, Closed
<1>13. CASE d.kind # "frame"
  <2>1. d.next = pos
    BY <1>9, <1>13 DEF Turn
  <2>2. /\ state' = IF d.kind = "throw" THEN "closing" ELSE state
        /\ R!TryShrink(pos) /\ rlpc' = IF rlpc = "full" THEN "recv" ELSE "close"
        /\ UNCHANGED decoded
    BY <1>10, <1>13, <2>1
  <2>3. /\ reados' \in Seq(Octet) /\ pos' \in 0 .. Len(reados') /\ Len(reados') <= Len(reados)
        /\ Left(reados', pos') = Left(reados, pos)
    BY <1>3, <2>2, ShrinkFacts
  <2>4. Len(reados') <= ReadCap
    BY <1>3, <2>3
  <2>5. R!Typed'
    BY <1>1, <2>2, <2>3, <2>4 DEF R!Typed, R!TypeOK, R!Octets, Octet
  <2>6. R!FramesWhole' /\ Len(decoded') + 1 \in 1 .. Len(sending') + 1
    BY <1>1, <2>2, NothingDecoded
  <2>7. Flows(reados', pos', readbuf', socket', lost, sending', Len(decoded') + 1)
    BY <1>1, <1>2, <2>2, <2>3 DEF Flows
  <2> QED
    BY <1>11, <2>5, <2>6, <2>7, Closed
<1> QED
  BY <1>12, <1>13

(* A connection before anything is sent. *)
LEMMA ReceiverInit ==
  ASSUME R!CapAssumption, R!Framed, R!Init PROVE R!IndInv
<1>1. /\ sending \in Conversations /\ unsent = R!EncodeFrom(sending, 1)
      /\ socket = << >> /\ peer = "open" /\ readbuf = << >> /\ reados = << >> /\ pos = 0
      /\ decoded = << >>
  BY DEF R!Init
<1>2. sending \in Seq([id : Nat, size : Nat])
  BY <1>1 DEF R!Framed
<1>3. PICK e \in Seq(Octet) : e = R!EncodeFrom(sending, 1)
  <2>1. 1 \in 1 .. Len(sending) + 1
    BY <1>2
  <2> QED
    BY <1>1, <2>1, EncodeFromFacts
<1>4. PICK z \in Seq(Octet) : z = << >>
  BY EmptySeq
<1>5. z \o z = z /\ z \o e = e
  BY <1>4, ConcatEmptySeq
<1>6. Left(reados, pos) = z
  BY <1>1, <1>4 DEF Left
<1>7. Left(reados, pos) \o readbuf \o socket = z
  BY <1>1, <1>4, <1>5, <1>6
<1>8. R!IsPrefix(z, e)
  BY <1>5, PrefixFacts
<1>9. Len(decoded) + 1 = 1
  BY <1>1
<1>10. R!Typed
  <2>1. decoded \in Seq([id : Nat, size : Nat]) /\ Len(z) = 0
    BY <1>1, <1>4
  <2>2. R!TypeOK
    BY <1>1, <1>4, <2>1 DEF R!TypeOK, R!Init, R!CapAssumption
  <2> QED
    BY <1>1, <1>3, <1>4, <2>1, <2>2 DEF R!Typed, R!Octets, Octet
<1>11. R!FramesWhole
  <2>1. decoded \in Seq([id : Nat, size : Nat])
    BY <1>1
  <2>2. decoded \o sending = sending
    BY <1>1, <1>2, ConcatEmptySeq
  <2>3. R!IsPrefix(decoded, sending)
    BY <1>2, <2>1, <2>2, PrefixFacts
  <2> QED
    BY <2>3 DEF R!FramesWhole
<1>12. R!Held
  BY <1>1, <1>3, <1>7, <1>8, <1>9 DEF R!Held, Left
<1>13. R!BuffersHoldRest
  BY <1>1, <1>3, <1>5, <1>7, <1>9, <1>10 DEF R!BuffersHoldRest, R!Typed, Left
<1> QED
  BY <1>10, <1>11, <1>12, <1>13 DEF R!IndInv

(* Every step of the peer and of the reactor thread. *)
LEMMA ReceiverStep ==
  ASSUME R!WidthAssumption, R!CapAssumption, R!Framed, R!IndInv, [R!Next]_R!vars
  PROVE  R!IndInv'
<1>1. R!Typed
  BY DEF R!IndInv
<1>2. CASE R!PeerClose
  <2>1. /\ peer = "open" /\ peer' = "closed"
        /\ UNCHANGED <<sending, unsent, socket, readbuf, reados, pos, state, rstatus, rlpc, decoded>>
    BY <1>2 DEF R!PeerClose
  <2>2. R!Typed'
    BY <1>1, <2>1 DEF R!Typed, R!TypeOK
  <2> QED
    BY <2>1, <2>2, NothingMoves
<1>3. CASE R!HandleClose
  <2>1. /\ rstatus' = IF state = "closing" THEN "del" ELSE rstatus
        /\ rlpc' = "wait"
        /\ UNCHANGED <<sending, unsent, peer, socket, readbuf, reados, pos, state, decoded>>
    BY <1>3 DEF R!HandleClose, R!peervars
  <2>2. R!Typed'
    BY <1>1, <2>1 DEF R!Typed, R!TypeOK
  <2> QED
    BY <2>1, <2>2, NothingMoves
<1>4. CASE UNCHANGED R!vars
  <2>1. UNCHANGED <<sending, unsent, socket, peer, readbuf, reados, pos, state, rstatus, rlpc, decoded>>
    BY <1>4 DEF R!vars
  <2>2. R!Typed'
    BY <1>1, <2>1 DEF R!Typed, R!TypeOK
  <2> QED
    BY <2>1, <2>2, NothingMoves
<1> QED
  BY <1>2, <1>3, <1>4, PeerSendKeeps, PeerResetKeeps, StartReadKeeps, ReceiveKeeps, EndReceiveKeeps,
     DecodeStepKeeps DEF R!Next, R!LoopStep

(* A step of the suite is a step of the receive path or leaves it as it was. *)
LEMMA ReceiverSuite ==
  /\ InitAll => R!IndInv
  /\ R!IndInv /\ [NextAll]_allvars => R!IndInv'
<1>1. R!WidthAssumption /\ R!CapAssumption /\ R!Framed
  BY ReceiverAssumption
<1>2. InitAll => R!IndInv
  BY <1>1, ReceiverInit DEF InitAll
<1>3. ASSUME R!IndInv, [NextAll]_allvars PROVE R!IndInv'
  <2>1. R!Next \/ UNCHANGED rvars
    BY <1>3 DEF NextAll, allvars
  <2>2. [R!Next]_R!vars
    BY <2>1 DEF rvars, R!vars
  <2> QED
    BY <1>1, <1>3, <2>2, ReceiverStep
<1> QED
  BY <1>2, <1>3

(* The thread pool gets the protocols the peer sent, each once and in order, however the stream *)
(* is cut into pieces.                                                                          *)
THEOREM FramesStayWhole == InitAll /\ [][NextAll]_allvars => []FramesWhole
<1>1. R!IndInv => FramesWhole
  BY DEF R!IndInv, FramesWhole
<1> QED
  BY <1>1, ReceiverSuite, PTL

(* on_recv() loses and repeats no octet between the socket and the last protocol handed over. *)
THEOREM BuffersStayWhole == InitAll /\ [][NextAll]_allvars => []BuffersHoldRest
<1>1. R!IndInv => BuffersHoldRest
  BY DEF R!IndInv, BuffersHoldRest
<1> QED
  BY <1>1, ReceiverSuite, PTL

-----------------------------------------------------------------------------
(* f joins the pieces of s, from the last one backwards. *)
Joins(f, s) ==
  f = [n \in 1 .. Len(s) + 1 |-> IF n > Len(s) THEN << >> ELSE s[n] \o f[n + 1]]

(* There is such an f. *)
LEMMA JoinsExists ==
  ASSUME NEW S, NEW s, NEW len \in Nat, Len(s) = len, \A i \in 1 .. len : s[i] \in Seq(S)
  PROVE  \E f \in [1 .. len + 1 -> Seq(S)] : Joins(f, s)
<1>1. PICK e \in [1 .. len -> Seq(S)] : \A i \in 1 .. len : e[i] = s[i]
  <2>1. [i \in 1 .. len |-> s[i]] \in [1 .. len -> Seq(S)]
    OBVIOUS
  <2> QED
    BY <2>1
<1> DEFINE D == Seq(S)
           F == [j \in 1 .. len |-> [x \in D |-> e[(len + 1) - j] \o x]]
<1>2. \A j \in 1 .. len : (len + 1) - j \in 1 .. len
  OBVIOUS
<1>3. F \in [1 .. len -> [D -> D]]
  <2>1. \A j \in 1 .. len : \A x \in D : e[(len + 1) - j] \o x \in D
    BY <1>2
  <2> HIDE DEF D
  <2> QED
    BY <2>1
<1>4. PICK g \in [0 .. len -> D] : g[0] = << >> /\ \A j \in 1 .. len : g[j] = F[j][g[j - 1]]
  <2>1. << >> \in D
    OBVIOUS
  <2> HIDE DEF D, F
  <2>2. Unfolds(D, F, << >>, len)
    BY <1>3, <2>1, Unfolded
  <2> QED
    BY <2>2 DEF Unfolds
<1>5. \A j \in 1 .. len : g[j] = e[(len + 1) - j] \o g[j - 1]
  <2>1. \A j \in 1 .. len : g[j - 1] \in D
    <3> HIDE DEF D
    <3> QED
      OBVIOUS
  <2> HIDE DEF D
  <2> QED
    BY <1>4, <2>1
<1> DEFINE f == [n \in 1 .. len + 1 |-> g[(len + 1) - n]]
<1>6. f \in [1 .. len + 1 -> D]
  <2>1. \A n \in 1 .. len + 1 : (len + 1) - n \in 0 .. len
    OBVIOUS
  <2> HIDE DEF D
  <2> QED
    BY <2>1
<1>7. ASSUME NEW n \in 1 .. len + 1
      PROVE  f[n] = IF n > len THEN << >> ELSE s[n] \o f[n + 1]
  <2>1. CASE n > len
    <3>1. (len + 1) - n = 0
      BY <2>1
    <3>2. f[n] = g[0]
      BY <3>1
    <3> QED
      BY <1>4, <2>1, <3>2
  <2>2. CASE ~(n > len)
    <3>1. /\ (len + 1) - n \in 1 .. len /\ (len + 1) - ((len + 1) - n) = n /\ n \in 1 .. len
          /\ ((len + 1) - n) - 1 = (len + 1) - (n + 1) /\ n + 1 \in 1 .. len + 1
      BY <2>2
    <3>2. f[n] = e[n] \o f[n + 1]
      BY <1>5, <3>1
    <3> QED
      BY <1>1, <2>2, <3>1, <3>2
  <2> QED
    BY <2>1, <2>2
<1>8. Joins(f, s)
  <2>1. f = [n \in 1 .. len + 1 |-> f[n]]
    OBVIOUS
  <2> HIDE DEF f
  <2> QED
    BY <1>7, <2>1 DEF Joins
<1> QED
  BY <1>6, <1>8

(* The k-th piece is in front. *)
JoinStep(s, k) == V!JoinFrom(s, k) = s[k] \o V!JoinFrom(s, k + 1)

(* The pieces from the k-th on. *)
LEMMA JoinFacts ==
  ASSUME NEW S, NEW s, NEW l \in Nat, Len(s) = l, \A i \in 1 .. l : s[i] \in Seq(S),
         NEW k \in 1 .. l + 1
  PROVE  /\ V!JoinFrom(s, k) \in Seq(S)
         /\ k = l + 1 => V!JoinFrom(s, k) = << >>
         /\ k <= l => JoinStep(s, k)
<1>1. \A i \in 1 .. l : s[i] \in Seq(S)
  OBVIOUS
<1>2. PICK len \in Nat : len = l /\ len = Len(s)
  OBVIOUS
<1>3. \E f \in [1 .. len + 1 -> Seq(S)] : Joins(f, s)
  BY <1>1, <1>2, JoinsExists
<1>4. PICK f : f = (CHOOSE g : Joins(g, s)) /\ Joins(f, s)
  <2>1. \E g : Joins(g, s)
    BY <1>3
  <2>2. Joins((CHOOSE g : Joins(g, s)), s)
    BY <2>1, Zenon
  <2> QED
    BY <2>2, Zenon
<1>5. \A n \in 1 .. len + 1 : V!JoinFrom(s, n) = f[n]
  BY <1>4 DEF V!JoinFrom, Joins
<1>6. \A n \in 1 .. len + 1 : f[n] = IF n > len THEN << >> ELSE s[n] \o f[n + 1]
  <2>1. f = [n \in 1 .. len + 1 |-> IF n > len THEN << >> ELSE s[n] \o f[n + 1]]
    BY <1>2, <1>4, Zenon DEF Joins
  <2> QED
    BY <2>1, Zenon
<1>7. PICK h \in [1 .. len + 1 -> Seq(S)] : Joins(h, s)
  BY <1>3
<1>8. \A n \in 1 .. len + 1 : h[n] = IF n > len THEN << >> ELSE s[n] \o h[n + 1]
  BY <1>2, <1>7 DEF Joins
<1>9. \A n \in 1 .. len + 1 : f[n] = h[n]
  <2> DEFINE X == {j \in Nat : j <= len => f[(len + 1) - j] = h[(len + 1) - j]}
  <2>1. 0 \in X
    <3>1. (len + 1) - 0 \in 1 .. len + 1 /\ (len + 1) - 0 > len
      OBVIOUS
    <3>2. f[(len + 1) - 0] = << >> /\ h[(len + 1) - 0] = << >>
      BY <1>6, <1>8, <3>1
    <3> QED
      BY <3>2
  <2>2. ASSUME NEW j \in Nat, j \in X, j + 1 <= len
        PROVE  f[(len + 1) - (j + 1)] = h[(len + 1) - (j + 1)]
    <3>1. PICK n \in 1 .. len + 1 : n = (len + 1) - (j + 1) /\ n + 1 = (len + 1) - j /\ ~(n > len)
      BY <2>2
    <3>2. f[n + 1] = h[n + 1]
      BY <2>2, <3>1
    <3>3. f[n] = h[n]
      BY <1>6, <1>8, <3>1, <3>2
    <3> QED
      BY <3>1, <3>3
  <2>3. Nat \subseteq X
    <3>1. \A j \in Nat : j \in X => j + 1 \in X
      BY <2>2
    <3> HIDE DEF X
    <3> QED
      BY <2>1, <3>1, AllNumbers
  <2> TAKE n \in 1 .. len + 1
  <2>4. (len + 1) - n \in Nat /\ (len + 1) - n <= len /\ (len + 1) - ((len + 1) - n) = n
    OBVIOUS
  <2>5. (len + 1) - n \in X
    BY <2>3, <2>4
  <2> QED
    BY <2>4, <2>5
<1>10. V!JoinFrom(s, k) = h[k] /\ h[k] \in Seq(S)
  BY <1>2, <1>5, <1>7, <1>9
<1>11. k = len + 1 => h[k] = << >>
  <2>1. k \in 1 .. len + 1 /\ (k = len + 1 => k > len)
    BY <1>2
  <2> QED
    BY <1>8, <2>1
<1>12. ASSUME k <= len
       PROVE  /\ k + 1 \in 1 .. len + 1
              /\ V!JoinFrom(s, k) = s[k] \o V!JoinFrom(s, k + 1)
  <2>1. k + 1 \in 1 .. len + 1 /\ k \in 1 .. len /\ ~(k > len)
    BY <1>2, <1>12
  <2>2. V!JoinFrom(s, k + 1) = h[k + 1]
    BY <1>5, <1>9, <2>1
  <2>3. h[k] = s[k] \o h[k + 1]
    BY <1>2, <1>8, <2>1
  <2> QED
    BY <1>1, <1>2, <1>10, <2>1, <2>2, <2>3
<1> QED
  BY <1>2, <1>10, <1>11, <1>12 DEF JoinStep
(* JoinFrom(), with its pieces of a given kind. *)
Joint(S, s, l, j) ==
  /\ \A k \in 1 .. l + 1 : j[k] \in Seq(S)
  /\ j[l + 1] = << >>
  /\ \A k \in 1 .. l : j[k] = s[k] \o j[k + 1]

(* JoinFrom() as a function of its second argument. *)
LEMMA JointFacts ==
  ASSUME NEW S, NEW s, NEW l \in Nat, Len(s) = l, \A i \in 1 .. l : s[i] \in Seq(S)
  PROVE  \E j : /\ \A k \in 1 .. l + 1 : j[k] = V!JoinFrom(s, k)
                /\ Joint(S, s, l, j)
<1>1. PICK j : j = [k \in 1 .. l + 1 |-> V!JoinFrom(s, k)]
  OBVIOUS
<1>2. \A k \in 1 .. l + 1 : j[k] = V!JoinFrom(s, k)
  BY <1>1
<1>3. ASSUME NEW k \in 1 .. l + 1 PROVE j[k] \in Seq(S)
  BY <1>2, JoinFacts
<1>4. j[l + 1] = << >>
  <2>1. l + 1 \in 1 .. l + 1
    OBVIOUS
  <2> QED
    BY <1>2, <2>1, JoinFacts
<1>5. ASSUME NEW k \in 1 .. l PROVE j[k] = s[k] \o j[k + 1]
  <2>1. k \in 1 .. l + 1 /\ k + 1 \in 1 .. l + 1 /\ k <= l
    OBVIOUS
  <2>2. JoinStep(s, k)
    BY <2>1, JoinFacts
  <2> QED
    BY <1>2, <2>1, <2>2 DEF JoinStep
<1> QED
  BY <1>2, <1>3, <1>4, <1>5 DEF Joint

(* t has one piece more than s. *)
Extends(t, s, y, k) == V!JoinFrom(t, k) = V!JoinFrom(s, k) \o y

(* One more piece at the end. *)
LEMMA JoinAppend ==
  ASSUME NEW S, NEW s, NEW t, NEW l \in Nat, Len(s) = l, Len(t) = l + 1, NEW y \in Seq(S),
         \A i \in 1 .. l : s[i] \in Seq(S) /\ t[i] = s[i], t[l + 1] = y,
         NEW k \in 1 .. l + 1
  PROVE  Extends(t, s, y, k)
<1>1. PICK g : (\A n \in 1 .. l + 1 : g[n] = V!JoinFrom(s, n)) /\ Joint(S, s, l, g)
  BY JointFacts
<1>2. PICK m \in Nat : m = l + 1
  OBVIOUS
<1>3. \A i \in 1 .. m : t[i] \in Seq(S)
  BY <1>2
<1>4. PICK h : (\A n \in 1 .. m + 1 : h[n] = V!JoinFrom(t, n)) /\ Joint(S, t, m, h)
  BY <1>2, <1>3, JointFacts
<1>5. \A n \in 1 .. l + 1 : g[n] \in Seq(S)
  BY <1>1 DEF Joint
<1> DEFINE P(j) == h[m - j] = g[m - j] \o y
           X == {j \in Nat : j <= l => P(j)}
<1>6. 0 \in X
  <2>1. m - 0 = m /\ m \in 1 .. m /\ g[m] = << >>
    BY <1>1, <1>2 DEF Joint
  <2>2. h[m] = t[m] \o h[m + 1] /\ h[m + 1] = << >>
    BY <1>4, <2>1 DEF Joint
  <2>3. y \o << >> = y /\ << >> \o y = y
    BY ConcatEmptySeq
  <2> QED
    BY <1>2, <2>1, <2>2, <2>3
<1>7. ASSUME NEW j \in Nat, j \in X, j + 1 <= l PROVE P(j + 1)
  <2>1. PICK n \in 1 .. l : n = m - (j + 1) /\ n + 1 = m - j /\ n \in 1 .. m /\ n + 1 \in 1 .. l + 1
    BY <1>2, <1>7
  <2>2. h[n + 1] = g[n + 1] \o y
    BY <1>7, <2>1
  <2>3. h[n] = t[n] \o h[n + 1]
    BY <1>4, <2>1 DEF Joint
  <2>4. g[n] = s[n] \o g[n + 1] /\ s[n] \in Seq(S) /\ t[n] = s[n]
    BY <1>1, <2>1 DEF Joint
  <2>5. PICK a \in Seq(S), b \in Seq(S) : a = s[n] /\ b = g[n + 1]
    BY <1>5, <2>1, <2>4
  <2>6. Grouped(a, b, y)
    BY Groups
  <2>7. h[n] = g[n] \o y
    BY <2>2, <2>3, <2>4, <2>5, <2>6 DEF Grouped
  <2> QED
    BY <2>1, <2>7
<1>8. Nat \subseteq X
  <2>1. \A j \in Nat : j \in X => j + 1 \in X
    <3> HIDE DEF P
    <3> QED
      BY <1>7
  <2> HIDE DEF X
  <2> QED
    BY <1>6, <2>1, AllNumbers
<1>9. m - k \in Nat /\ m - k <= l /\ m - (m - k) = k /\ k \in 1 .. m + 1
  BY <1>2
<1>10. h[k] = g[k] \o y
  BY <1>8, <1>9
<1> QED
  BY <1>1, <1>4, <1>9, <1>10 DEF Extends
-----------------------------------------------------------------------------
(* The recursive definition is write_varint(). *)
LEMMA ValueWrites ==
  ASSUME V!Sound PROVE V!Radix \in Nat /\ V!Radix > 1 /\ Writes(V!WriteVarint, V!Radix)
<1>1. V!Radix \in Nat /\ V!Radix > 1
  BY DEF V!Sound
<1>2. PICK r \in Nat : r = V!Radix /\ r > 1
  BY <1>1
<1>3. V!WriteVarint = CHOOSE w : Writes(w, r)
  BY <1>2 DEF V!WriteVarint, Writes, Varint
<1>4. \E w : Writes(w, r)
  BY <1>2, WritesExists
<1>5. Writes(V!WriteVarint, r)
  BY <1>3, <1>4, Zenon
<1> QED
  BY <1>1, <1>2, <1>5

(* What it writes are octets. *)
LEMMA ValueOctetsType ==
  ASSUME V!Sound, NEW v \in Nat PROVE V!WriteVarint[v] \in Seq(Octet)
  BY ValueWrites, WritesShape

(* A pop() at p: an exception, or the value whose octets are s. *)
Gets(r, d, p, s, v) ==
  \/ r.ok = FALSE
  \/ r.ok = TRUE /\ r.v = v /\ r.next = p + Len(s) /\ p + Len(s) <= Len(d)

(* Exceptions. *)
LEMMA ThrownGets ==
  ASSUME NEW q, NEW d, NEW p, NEW s, NEW v PROVE Gets(V!Thrown(q), d, p, s, v)
  BY DEF V!Thrown, Gets

(* Values. *)
LEMMA PoppedGets ==
  ASSUME NEW d, NEW p, NEW s, NEW v, NEW q, q = p + Len(s), q <= Len(d)
  PROVE  Gets(V!Popped(v, q), d, p, s, v)
  BY DEF V!Popped, Gets

(* read_varint() where a varint begins. *)
LEMMA VarintGets ==
  ASSUME V!Sound, buf \in Seq(Octet), NEW p \in Nat, NEW v \in Nat, Agrees(buf, p, V!WriteVarint[v])
  PROVE  Gets(V!ReadVarint(p), buf, p, V!WriteVarint[v], v)
<1>1. V!Radix \in Nat /\ V!Radix > 1 /\ Writes(V!WriteVarint, V!Radix)
  BY ValueWrites
<1>2. PICK r \in Nat : r = V!Radix /\ r > 1
  BY <1>1
<1>3. PICK w : w = V!WriteVarint /\ Writes(w, r)
  BY <1>1, <1>2
<1>4. ValueOctets \in Nat
  BY DEF V!Sound
<1>5. PICK ends : ends = {i \in p + 1 .. Len(buf) : i <= p + ValueOctets /\ ~buf[i].more}
  OBVIOUS
<1>6. PICK last : last = CHOOSE x \in ends : \A y \in ends : x <= y
  OBVIOUS
<1>7. CASE ends = {}
  <2>1. V!ReadVarint(p) = V!Thrown(p)
    BY <1>5, <1>7 DEF V!ReadVarint
  <2> QED
    BY <2>1, ThrownGets
<1>8. CASE ends # {}
  <2>1. PICK x : x = (CHOOSE f : Sums(f, buf, r, p, Len(buf)))[p + 1]
    OBVIOUS
  <2>2. V!ReadVarint(p) = V!Popped(x, last)
    BY <1>2, <1>5, <1>6, <1>8, <2>1 DEF V!ReadVarint, V!Min, Sums
  <2>3. Ends(buf, p, ValueOctets, last)
    BY <1>4, <1>5, <1>6, <1>8, EndsMin
  <2>4. Agrees(buf, p, w[v])
    BY <1>3
  <2>5. last = p + Len(w[v]) /\ last <= Len(buf) /\ x = v
    <3>1. Reads(buf, r, p, last, w[v], v)
      BY <1>2, <1>3, <1>4, <2>3, <2>4, EndsFacts
    <3> QED
      BY <2>1, <3>1 DEF Reads
  <2> QED
    BY <1>3, <2>2, <2>5, PoppedGets
<1> QED
  BY <1>7, <1>8

(* Zigzag there and back, within the width. *)
LEMMA Zigzag ==
  ASSUME V!Sound, NEW x \in V!Ints
  PROVE  V!EncodeZigzag(x) \in Nat /\ V!DecodeZigzag(V!EncodeZigzag(x)) = x
<1>1. PICK h \in Nat : h = 2 ^ (Width - 1) /\ h > 0 /\ 2 ^ Width = 2 * h
  BY DEF V!Sound
<1>2. x \in -h .. h - 1
  BY <1>1 DEF V!Ints
<1>3. V!EncodeZigzag(x) = IF x < 0 THEN -(2 * x) - 1 ELSE 2 * x
  <2>1. CASE x < 0
    <3>1. (2 * x) % (2 * h) = 2 * x + 2 * h
      BY <1>2, <2>1
    <3> QED
      BY <1>1, <1>2, <2>1, <3>1 DEF V!EncodeZigzag
  <2>2. CASE ~(x < 0)
    <3>1. (2 * x) % (2 * h) = 2 * x
      BY <1>2, <2>2
    <3> QED
      BY <1>1, <1>2, <2>2, <3>1 DEF V!EncodeZigzag
  <2> QED
    BY <2>1, <2>2
<1>4. PICK u : u = V!EncodeZigzag(x)
  OBVIOUS
<1>5. CASE x < 0
  <2>1. u \in Nat /\ u % 2 = 1 /\ u \div 2 = -x - 1
    BY <1>2, <1>3, <1>4, <1>5
  <2> QED
    BY <1>2, <1>4, <2>1 DEF V!DecodeZigzag
<1>6. CASE ~(x < 0)
  <2>1. u \in Nat /\ u % 2 = 0 /\ u \div 2 = x
    BY <1>2, <1>3, <1>4, <1>6
  <2> QED
    BY <1>2, <1>4, <2>1 DEF V!DecodeZigzag
<1> QED
  BY <1>5, <1>6

(* pop() of an int. *)
LEMMA IntGets ==
  ASSUME V!Sound, buf \in Seq(Octet), NEW p \in Nat, NEW x \in V!Ints, NEW u, u = V!EncodeZigzag(x),
         Agrees(buf, p, V!WriteVarint[u])
  PROVE  Gets(V!PopInt(p), buf, p, V!WriteVarint[u], x)
<1>1. u \in Nat /\ V!DecodeZigzag(u) = x
  BY Zigzag
<1>2. PICK r, s : r = V!ReadVarint(p) /\ s = V!WriteVarint[u]
  OBVIOUS
<1>3. Gets(r, buf, p, s, u)
  BY <1>1, <1>2, VarintGets
<1>4. V!PopInt(p) = IF r.ok THEN V!Popped(V!DecodeZigzag(r.v), r.next) ELSE r
  BY <1>2 DEF V!PopInt
<1>5. CASE r.ok = FALSE
  BY <1>2, <1>4, <1>5 DEF Gets
<1>6. CASE r.ok # FALSE
  <2>1. r.ok = TRUE /\ r.v = u /\ r.next = p + Len(s) /\ p + Len(s) <= Len(buf)
    BY <1>3, <1>6 DEF Gets
  <2>2. V!PopInt(p) = V!Popped(x, r.next)
    BY <1>1, <1>4, <2>1
  <2> QED
    BY <1>2, <2>1, <2>2, PoppedGets
<1> QED
  BY <1>5, <1>6

(* Octets as they are. *)
LEMMA RawFacts ==
  ASSUME NEW host \in Seq(Nat)
  PROVE  /\ V!Raw(host) \in Seq(Octet) /\ Len(V!Raw(host)) = Len(host)
         /\ \A i \in 1 .. Len(host) : V!Raw(host)[i].bits = host[i]
<1>1. PICK n \in Nat : n = Len(host) /\ DOMAIN host = 1 .. n
  OBVIOUS
<1>2. \A i \in 1 .. n : [bits |-> host[i], more |-> FALSE] \in Octet
                        /\ [bits |-> host[i], more |-> FALSE].bits = host[i]
  BY <1>1 DEF Octet
<1>3. PICK f \in [1 .. n -> Octet] : \A i \in 1 .. n : f[i] = [bits |-> host[i], more |-> FALSE]
  <2>1. [i \in 1 .. n |-> [bits |-> host[i], more |-> FALSE]] \in [1 .. n -> Octet]
    BY <1>2
  <2> QED
    BY <2>1
<1>4. V!Raw(host) = f
  BY <1>1, <1>3 DEF V!Raw
<1>5. f \in Seq(Octet) /\ Len(f) = n
  BY <1>3
<1>6. \A i \in 1 .. n : f[i].bits = host[i]
  BY <1>2, <1>3
<1> QED
  BY <1>1, <1>4, <1>5, <1>6

(* n octets, when they are there. *)
LEMMA RawGets ==
  ASSUME buf \in Seq(Octet), NEW p \in Nat, NEW host \in Seq(Nat), Agrees(buf, p, V!Raw(host))
  PROVE  Gets(V!PopRaw(p, Len(host)), buf, p, V!Raw(host), host)
<1>1. PICK n \in Nat, k \in Nat : n = Len(host) /\ k = Len(buf)
  OBVIOUS
<1>2. PICK s \in Seq(Octet) : s = V!Raw(host) /\ Len(s) = n /\ \A i \in 1 .. n : s[i].bits = host[i]
  BY <1>1, RawFacts
<1>3. CASE p + n > k
  <2>1. V!PopRaw(p, n) = V!Thrown(p)
    BY <1>1, <1>3 DEF V!PopRaw
  <2> QED
    BY <1>1, <2>1, ThrownGets
<1>4. CASE ~(p + n > k)
  <2>1. V!PopRaw(p, n) = V!Popped([i \in 1 .. n |-> buf[p + i].bits], p + n)
    BY <1>1, <1>4 DEF V!PopRaw
  <2>2. \A i \in 1 .. n : buf[p + i].bits = host[i]
    <3> TAKE i \in 1 .. n
    <3>1. p + i <= k
      BY <1>4
    <3>2. buf[p + i] = s[i]
      BY <1>1, <1>2, <3>1 DEF Agrees
    <3> QED
      BY <1>2, <3>2
  <2>3. [i \in 1 .. n |-> buf[p + i].bits] = [i \in 1 .. n |-> host[i]]
    BY <2>2
  <2>4. [i \in 1 .. n |-> host[i]] = host
    BY <1>1
  <2>5. V!PopRaw(p, n) = V!Popped(host, p + n)
    BY <2>1, <2>3, <2>4
  <2>6. p + n = p + Len(s) /\ p + n <= Len(buf)
    BY <1>1, <1>2, <1>4
  <2> QED
    BY <1>1, <1>2, <2>5, <2>6, PoppedGets
<1> QED
  BY <1>3, <1>4

(* To network order and back. *)
LEMMA Swapped ==
  ASSUME NEW host \in Seq(Nat)
  PROVE  /\ V!HostToNetwork(host) \in Seq(Nat) /\ Len(V!HostToNetwork(host)) = Len(host)
         /\ V!NetworkToHost(V!HostToNetwork(host)) = host
<1>1. PICK n \in Nat : n = Len(host)
  OBVIOUS
<1>2. \A i \in 1 .. n : (n - i) + 1 \in 1 .. n /\ (n - ((n - i) + 1)) + 1 = i
  OBVIOUS
<1>3. PICK f \in [1 .. n -> Nat] : \A i \in 1 .. n : f[i] = host[(n - i) + 1]
  <2>1. \A i \in 1 .. n : host[(n - i) + 1] \in Nat
    BY <1>1, <1>2
  <2>2. [i \in 1 .. n |-> host[(n - i) + 1]] \in [1 .. n -> Nat]
    BY <2>1
  <2> QED
    BY <2>2
<1>4. V!HostToNetwork(host) = f
  BY <1>1, <1>3 DEF V!HostToNetwork, V!Reverse
<1>5. f \in Seq(Nat) /\ Len(f) = n
  BY <1>3
<1>6. V!NetworkToHost(f) = [i \in 1 .. n |-> f[(n - i) + 1]]
  BY <1>5 DEF V!NetworkToHost, V!Reverse
<1>7. \A i \in 1 .. n : f[(n - i) + 1] = host[i]
  BY <1>2, <1>3
<1>8. [i \in 1 .. n |-> f[(n - i) + 1]] = [i \in 1 .. n |-> host[i]]
  BY <1>7
<1>9. [i \in 1 .. n |-> host[i]] = host
  BY <1>1
<1> QED
  BY <1>1, <1>4, <1>5, <1>6, <1>8, <1>9

(* pop() of a pod. *)
LEMMA PodGets ==
  ASSUME buf \in Seq(Octet), NEW p \in Nat, NEW host \in Seq(Nat), NEW s,
         s = V!Raw(V!HostToNetwork(host)), Agrees(buf, p, s)
  PROVE  s \in Seq(Octet) /\ Gets(V!PopPod(p, Len(host)), buf, p, s, host)
<1>1. PICK b \in Seq(Nat) : b = V!HostToNetwork(host) /\ Len(b) = Len(host) /\ V!NetworkToHost(b) = host
  BY Swapped
<1>2. s \in Seq(Octet)
  BY <1>1, RawFacts
<1>3. PICK r : r = V!PopRaw(p, Len(host))
  OBVIOUS
<1>4. Gets(r, buf, p, s, b)
  BY <1>1, <1>3, RawGets
<1>5. V!PopPod(p, Len(host)) = IF r.ok THEN V!Popped(V!NetworkToHost(r.v), r.next) ELSE r
  BY <1>3 DEF V!PopPod
<1>6. CASE r.ok = FALSE
  BY <1>2, <1>5, <1>6 DEF Gets
<1>7. CASE r.ok # FALSE
  <2>1. r.ok = TRUE /\ r.v = b /\ r.next = p + Len(s) /\ p + Len(s) <= Len(buf)
    BY <1>4, <1>7 DEF Gets
  <2>2. V!PopPod(p, Len(host)) = V!Popped(host, r.next)
    BY <1>1, <1>5, <2>1
  <2> QED
    BY <1>2, <2>1, <2>2, PoppedGets
<1> QED
  BY <1>6, <1>7

(* s is a with b behind it, and so is what d has behind p. *)
After(d, p, a, b, s) ==
  /\ Agrees(d, p, a) /\ Agrees(d, p + Len(a), b)
  /\ p + Len(a) \in Nat /\ (p + Len(a)) + Len(b) = p + Len(s)

(* Two values, one behind the other. *)
LEMMA Appended ==
  ASSUME NEW d \in Seq(Octet), NEW p \in Nat, NEW a \in Seq(Octet), NEW b \in Seq(Octet),
         NEW s, s = a \o b, Agrees(d, p, s)
  PROVE  s \in Seq(Octet) /\ After(d, p, a, b, s)
<1>1. a \o b \in Seq(Octet) /\ Len(a \o b) = Len(a) + Len(b)
  BY ConcatProperties
<1>2. Agrees(d, p, a) /\ Agrees(d, p + Len(a), b)
  BY AgreesSplit
<1>3. Len(a) \in Nat /\ Len(b) \in Nat
  OBVIOUS
<1> QED
  BY <1>1, <1>2, <1>3 DEF After

(* pop() of octets. *)
LEMMA OctetsGets ==
  ASSUME V!Sound, buf \in Seq(Octet), NEW p \in Nat, NEW host \in Seq(Nat), NEW s,
         s = V!WriteVarint[Len(host)] \o V!Raw(host), Agrees(buf, p, s)
  PROVE  s \in Seq(Octet) /\ Gets(V!PopOctets(p), buf, p, s, host)
<1>1. PICK n \in Nat : n = Len(host)
  OBVIOUS
<1>2. PICK a \in Seq(Octet), b \in Seq(Octet) : a = V!WriteVarint[n] /\ b = V!Raw(host)
  BY <1>1, ValueOctetsType, RawFacts
<1>3. s = a \o b
  BY <1>1, <1>2
<1>4. /\ s \in Seq(Octet) /\ Agrees(buf, p, a) /\ Agrees(buf, p + Len(a), b)
      /\ p + Len(a) \in Nat /\ (p + Len(a)) + Len(b) = p + Len(s)
  <2>1. s \in Seq(Octet) /\ After(buf, p, a, b, s)
    BY <1>3, Appended
  <2> QED
    BY <2>1 DEF After
<1>5. PICK size : size = V!ReadVarint(p)
  OBVIOUS
<1>6. Gets(size, buf, p, a, n)
  BY <1>2, <1>4, <1>5, VarintGets
<1>7. V!PopOctets(p) = IF size.ok THEN V!PopRaw(size.next, size.v) ELSE size
  BY <1>5 DEF V!PopOctets
<1>8. CASE size.ok = FALSE
  BY <1>4, <1>7, <1>8 DEF Gets
<1>9. CASE size.ok # FALSE
  <2>1. size.ok = TRUE /\ size.v = n /\ size.next = p + Len(a)
    BY <1>6, <1>9 DEF Gets
  <2>2. PICK q \in Nat : q = p + Len(a)
    BY <1>4
  <2>3. PICK r : r = V!PopRaw(q, n)
    OBVIOUS
  <2>4. Gets(r, buf, q, b, host)
    BY <1>1, <1>2, <1>4, <2>2, <2>3, RawGets
  <2>5. V!PopOctets(p) = r
    BY <1>7, <2>1, <2>2, <2>3
  <2>6. q + Len(b) = p + Len(s)
    BY <1>4, <2>2
  <2> QED
    BY <1>4, <2>4, <2>5, <2>6 DEF Gets
<1> QED
  BY <1>8, <1>9

(* pop() of a pair. *)
LEMMA PairGets ==
  ASSUME V!Sound, buf \in Seq(Octet), NEW p \in Nat, NEW x \in V!Ints, NEW y \in V!Ints, NEW s,
         s = V!WriteVarint[V!EncodeZigzag(x)] \o V!WriteVarint[V!EncodeZigzag(y)],
         Agrees(buf, p, s)
  PROVE  s \in Seq(Octet) /\ Gets(V!PopPair(p), buf, p, s, <<x, y>>)
<1>1. PICK u \in Nat, w \in Nat : u = V!EncodeZigzag(x) /\ w = V!EncodeZigzag(y)
  BY Zigzag
<1>2. PICK a \in Seq(Octet), b \in Seq(Octet) : a = V!WriteVarint[u] /\ b = V!WriteVarint[w]
  BY ValueOctetsType
<1>3. s = a \o b
  BY <1>1, <1>2
<1>4. /\ s \in Seq(Octet) /\ Agrees(buf, p, a) /\ Agrees(buf, p + Len(a), b)
      /\ p + Len(a) \in Nat /\ (p + Len(a)) + Len(b) = p + Len(s)
  <2>1. s \in Seq(Octet) /\ After(buf, p, a, b, s)
    BY <1>3, Appended
  <2> QED
    BY <2>1 DEF After
<1>5. PICK q \in Nat : q = p + Len(a)
  BY <1>4
<1>6. PICK first, second : first = V!PopInt(p) /\ second = V!PopInt(first.next)
  OBVIOUS
<1>7. Gets(first, buf, p, a, x)
  BY <1>1, <1>2, <1>4, <1>6, IntGets
<1>8. V!PopPair(p) = IF first.ok /\ second.ok THEN V!Popped(<<first.v, second.v>>, second.next)
                     ELSE V!Thrown(first.next)
  BY <1>6 DEF V!PopPair
<1>9. CASE first.ok = FALSE
  BY <1>4, <1>8, <1>9, ThrownGets
<1>10. CASE first.ok # FALSE
  <2>1. first.ok = TRUE /\ first.v = x /\ first.next = q
    BY <1>5, <1>7, <1>10 DEF Gets
  <2>2. Gets(second, buf, q, b, y)
    <3>1. second = V!PopInt(q) /\ Agrees(buf, q, b)
      BY <1>4, <1>5, <1>6, <2>1
    <3> QED
      BY <1>1, <1>2, <3>1, IntGets
  <2>3. CASE second.ok = FALSE
    BY <1>4, <1>8, <2>3, ThrownGets
  <2>4. CASE second.ok # FALSE
    <3>1. second.ok = TRUE /\ second.v = y /\ second.next = q + Len(b) /\ q + Len(b) <= Len(buf)
      BY <2>2, <2>4 DEF Gets
    <3>2. V!PopPair(p) = V!Popped(<<x, y>>, second.next)
      BY <1>8, <2>1, <3>1
    <3>3. second.next = p + Len(s) /\ second.next <= Len(buf)
      BY <1>4, <1>5, <3>1
    <3> QED
      BY <1>4, <3>2, <3>3, PoppedGets
  <2> QED
    BY <2>3, <2>4
<1> QED
  BY <1>9, <1>10

(* The list after n elements, from the one before. *)
Taken(before) ==
  LET r == V!ReadVarint(before.next)
  IN IF before.ok /\ r.ok THEN V!Popped(Append(before.v, r.v), r.next) ELSE V!Thrown(before.next)

(* f is the function inside PopContainer(). *)
Takes(f, size) ==
  f = [n \in 0 .. size.v |-> IF n = 0 THEN V!Popped(<< >>, size.next) ELSE Taken(f[n - 1])]

(* There is such an f. *)
LEMMA TakesExists ==
  ASSUME NEW size, NEW m \in Nat, size.v = m PROVE \E f : Takes(f, size)
<1> DEFINE first == V!Popped(<< >>, size.next)
           P(f, k) == f = [n \in 0 .. k |-> IF n = 0 THEN first ELSE Taken(f[n - 1])]
           X == {k \in Nat : \E f : P(f, k)}
<1> HIDE DEF first
<1>1. 0 \in X
  <2>1. PICK f : f = [n \in 0 .. 0 |-> first]
    OBVIOUS
  <2>2. \A n \in 0 .. 0 : n = 0
    OBVIOUS
  <2>3. P(f, 0)
    BY <2>1, <2>2
  <2> HIDE DEF P
  <2> QED
    BY <2>3
<1>2. ASSUME NEW k \in Nat, k \in X PROVE k + 1 \in X
  <2>1. PICK f : P(f, k)
    BY <1>2
  <2>2. \A n \in 0 .. k : f[n] = IF n = 0 THEN first ELSE Taken(f[n - 1])
    BY <2>1
  <2>3. PICK g : g = [n \in 0 .. k + 1 |-> IF n <= k THEN f[n] ELSE Taken(f[k])]
    OBVIOUS
  <2>4. \A n \in 0 .. k : g[n] = f[n]
    BY <2>3
  <2>5. g[k + 1] = Taken(f[k])
    BY <2>3
  <2>6. ASSUME NEW n \in 0 .. k + 1 PROVE g[n] = IF n = 0 THEN first ELSE Taken(g[n - 1])
    <3>1. CASE n = 0
      <4>1. 0 \in 0 .. k
        OBVIOUS
      <4> QED
        BY <2>2, <2>4, <3>1, <4>1
    <3>2. CASE n \in 1 .. k
      <4>1. n \in 0 .. k /\ n - 1 \in 0 .. k /\ n # 0
        BY <3>2
      <4> QED
        BY <2>2, <2>4, <4>1
    <3>3. CASE n = k + 1
      <4>1. n # 0 /\ n - 1 = k /\ k \in 0 .. k
        BY <3>3
      <4> QED
        BY <2>4, <2>5, <3>3, <4>1
    <3> QED
      BY <3>1, <3>2, <3>3
  <2>7. g = [n \in 0 .. k + 1 |-> g[n]]
    BY <2>3
  <2>8. P(g, k + 1)
    BY <2>6, <2>7
  <2> HIDE DEF P
  <2> QED
    BY <2>8
<1>3. Nat \subseteq X
  <2> HIDE DEF X
  <2> QED
    BY <1>1, <1>2, AllNumbers
<1>4. PICK f : P(f, m)
  BY <1>3
<1> QED
  BY <1>4 DEF Takes, first

(* e is an exception, or the first n elements with j[n + 1] still to be read. *)
Halfway(e, n, list, j, total) ==
  \/ e.ok = FALSE
  \/ /\ e.ok = TRUE /\ e.v = SubSeq(list, 1, n)
     /\ e.next \in Nat /\ e.next <= Len(buf)
     /\ Agrees(buf, e.next, j[n + 1]) /\ e.next + Len(j[n + 1]) = total

(* One more element of a list, as a list. *)
LEMMA OneMore ==
  ASSUME NEW S, NEW s \in Seq(S), NEW n \in 1 .. Len(s)
  PROVE  Append(SubSeq(s, 1, n - 1), s[n]) = SubSeq(s, 1, n)
<1>1. PICK one \in 1 .. Len(s) : one = 1 /\ n \in one .. Len(s)
  OBVIOUS
<1>2. SubSeq(s, one, n) = SubSeq(s, one, n - 1) \o <<s[n]>>
  BY <1>1, SubSeqRecursiveSecond
<1>3. PICK a \in Seq(S) : a = SubSeq(s, 1, n - 1)
  <2>1. PICK j \in 0 .. Len(s) : j = n - 1
    OBVIOUS
  <2>2. PICK a \in Seq(S) : a = SubSeq(s, 1, j)
    BY CutFacts
  <2> QED
    BY <2>1, <2>2, Zenon
<1>4. PICK v \in S : v = s[n]
  OBVIOUS
<1>5. Append(a, v) = a \o <<v>>
  BY AppendIsConcat
<1> QED
  BY <1>1, <1>2, <1>3, <1>4, <1>5

(* One turn of the loop in pop_container(). *)
LEMMA TakenHalfway ==
  ASSUME V!Sound, buf \in Seq(Octet), NEW list \in Seq(Nat), NEW t, NEW j, NEW total,
         \A i \in 1 .. Len(list) : t[i] = V!WriteVarint[list[i]],
         Joint(Octet, t, Len(list), j), NEW e, NEW n \in 1 .. Len(list),
         Halfway(e, n - 1, list, j, total)
  PROVE  Halfway(Taken(e), n, list, j, total)
<1>1. PICK r : r = V!ReadVarint(e.next)
  OBVIOUS
<1>2. Taken(e) = IF e.ok /\ r.ok THEN V!Popped(Append(e.v, r.v), r.next) ELSE V!Thrown(e.next)
  BY <1>1 DEF Taken
<1>3. V!Thrown(e.next).ok = FALSE
  BY DEF V!Thrown
<1>4. CASE e.ok = FALSE
  BY <1>2, <1>3, <1>4 DEF Halfway
<1>5. CASE e.ok # FALSE
  <2>1. PICK len \in Nat : len = Len(list) /\ n \in 1 .. len /\ (n - 1) + 1 = n
    OBVIOUS
  <2>2. /\ e.ok = TRUE /\ e.v = SubSeq(list, 1, n - 1) /\ e.next \in Nat
        /\ Agrees(buf, e.next, j[n]) /\ e.next + Len(j[n]) = total
    BY <1>5, <2>1 DEF Halfway
  <2>3. PICK v \in Nat : v = list[n]
    BY <2>1
  <2>4. PICK a \in Seq(Octet) : a = V!WriteVarint[v] /\ a = t[n]
    BY <2>1, <2>3, ValueOctetsType
  <2>5. PICK b \in Seq(Octet) : b = j[n + 1] /\ j[n] = a \o b
    <3>1. n + 1 \in 1 .. len + 1
      BY <2>1
    <3> QED
      BY <2>1, <2>4, <3>1 DEF Joint
  <2>6. PICK p \in Nat : p = e.next
    BY <2>2
  <2>7. /\ Agrees(buf, p, a) /\ Agrees(buf, p + Len(a), b)
        /\ p + Len(a) \in Nat /\ (p + Len(a)) + Len(b) = p + Len(j[n])
    <3>1. After(buf, p, a, b, j[n])
      BY <2>2, <2>5, <2>6, Appended
    <3> QED
      BY <3>1 DEF After
  <2>8. Gets(r, buf, p, a, v)
    BY <1>1, <2>4, <2>6, <2>7, VarintGets
  <2>9. CASE r.ok = FALSE
    BY <1>2, <1>3, <2>9 DEF Halfway
  <2>10. CASE r.ok # FALSE
    <3>1. r.ok = TRUE /\ r.v = v /\ r.next = p + Len(a) /\ p + Len(a) <= Len(buf)
      BY <2>8, <2>10 DEF Gets
    <3>2. Append(e.v, r.v) = SubSeq(list, 1, n)
      BY <2>2, <2>3, <3>1, OneMore
    <3>3. PICK q \in Nat : q = p + Len(a)
      BY <2>7
    <3>4. PICK u : u = Taken(e)
      OBVIOUS
    <3>5. u.ok = TRUE /\ u.v = SubSeq(list, 1, n) /\ u.next = q
      <4>1. PICK x : x = Append(e.v, r.v)
        OBVIOUS
      <4>2. u = V!Popped(x, q)
        BY <1>2, <2>2, <3>1, <3>3, <3>4, <4>1
      <4>3. u.ok = TRUE /\ u.v = x /\ u.next = q
        BY ONLY <4>2 DEF V!Popped
      <4> QED
        BY <3>2, <4>1, <4>3
    <3>6. Agrees(buf, q, b) /\ q + Len(b) = total /\ q <= Len(buf)
      BY <2>2, <2>6, <2>7, <3>1, <3>3
    <3> QED
      BY <2>5, <3>4, <3>5, <3>6 DEF Halfway
  <2> QED
    BY <2>9, <2>10
<1> QED
  BY <1>4, <1>5

(* pop() of a container. *)
LEMMA ListGets ==
  ASSUME V!Sound, buf \in Seq(Octet), NEW p \in Nat, NEW list \in Seq(Nat), NEW s,
         s = V!WriteVarint[Len(list)]
               \o V!JoinFrom([i \in DOMAIN list |-> V!WriteVarint[list[i]]], 1),
         Agrees(buf, p, s)
  PROVE  s \in Seq(Octet) /\ Gets(V!PopContainer(p), buf, p, s, list)
<1>1. PICK n \in Nat : n = Len(list) /\ DOMAIN list = 1 .. n
  OBVIOUS
<1>2. PICK t : t = [i \in DOMAIN list |-> V!WriteVarint[list[i]]]
  OBVIOUS
<1>3. \A i \in 1 .. n : t[i] = V!WriteVarint[list[i]] /\ t[i] \in Seq(Octet)
  <2> TAKE i \in 1 .. n
  <2>1. list[i] \in Nat /\ t[i] = V!WriteVarint[list[i]]
    BY <1>1, <1>2
  <2> QED
    BY <2>1, ValueOctetsType
<1>4. Len(t) = n
  BY <1>1, <1>2
<1>5. PICK j : (\A k \in 1 .. n + 1 : j[k] = V!JoinFrom(t, k)) /\ Joint(Octet, t, n, j)
  BY <1>3, <1>4, JointFacts
<1>6. PICK a \in Seq(Octet) : a = V!WriteVarint[n]
  BY ValueOctetsType
<1>7. PICK b \in Seq(Octet) : b = j[1] /\ b = V!JoinFrom(t, 1)
  <2>1. 1 \in 1 .. n + 1
    OBVIOUS
  <2> QED
    BY <1>5, <2>1 DEF Joint
<1>8. s = a \o b
  BY <1>1, <1>2, <1>6, <1>7
<1>9. /\ s \in Seq(Octet) /\ Agrees(buf, p, a) /\ Agrees(buf, p + Len(a), b)
      /\ p + Len(a) \in Nat /\ (p + Len(a)) + Len(b) = p + Len(s)
  <2>1. s \in Seq(Octet) /\ After(buf, p, a, b, s)
    BY <1>8, Appended
  <2> QED
    BY <2>1 DEF After
<1>10. PICK size : size = V!ReadVarint(p)
  OBVIOUS
<1>11. Gets(size, buf, p, a, n)
  BY <1>6, <1>9, <1>10, VarintGets
<1>12. PICK elem : elem = CHOOSE f : Takes(f, size)
  OBVIOUS
<1>13. V!PopContainer(p) = IF size.ok THEN elem[size.v] ELSE size
  BY <1>10, <1>12 DEF V!PopContainer, Takes, Taken
<1>14. CASE size.ok = FALSE
  BY <1>9, <1>13, <1>14 DEF Gets
<1>15. CASE size.ok # FALSE
  <2>1. size.ok = TRUE /\ size.v = n /\ size.next = p + Len(a) /\ p + Len(a) <= Len(buf)
    BY <1>11, <1>15 DEF Gets
  <2>2. PICK total : total = p + Len(s)
    OBVIOUS
  <2>3. Takes(elem, size)
    <3>1. \E f : Takes(f, size)
      BY <2>1, TakesExists
    <3> QED
      BY <1>12, <3>1, Zenon
  <2>4. \A k \in 0 .. n : elem[k] = IF k = 0 THEN V!Popped(<< >>, size.next) ELSE Taken(elem[k - 1])
    BY <2>1, <2>3 DEF Takes
  <2> DEFINE P(k) == Halfway(elem[k], k, list, j, total)
             X == {k \in Nat : k <= n => P(k)}
  <2>5. 0 \in X
    <3>1. elem[0] = V!Popped(<< >>, size.next)
      BY <2>4
    <3>2. PICK e : e = elem[0]
      OBVIOUS
    <3>3. e.ok = TRUE /\ e.v = << >> /\ e.next = p + Len(a)
      BY <2>1, <3>1, <3>2 DEF V!Popped
    <3>4. SubSeq(list, 1, 0) = << >>
      BY SubSeqEmpty
    <3>5. 0 + 1 = 1 /\ Agrees(buf, p + Len(a), j[1]) /\ (p + Len(a)) + Len(j[1]) = total
      BY <1>7, <1>9, <2>2
    <3>6. Halfway(e, 0, list, j, total)
      BY <1>9, <2>1, <3>3, <3>4, <3>5 DEF Halfway
    <3> QED
      BY <3>2, <3>6
  <2>6. ASSUME NEW k \in Nat, k \in X, k + 1 <= n PROVE P(k + 1)
    <3>1. k + 1 \in 1 .. n /\ (k + 1) - 1 = k /\ k + 1 # 0 /\ k + 1 \in 0 .. n
      BY <2>6
    <3>2. Halfway(elem[k], k, list, j, total)
      BY <2>6
    <3>3. PICK m \in 1 .. n : m = k + 1 /\ m - 1 = k
      BY <3>1
    <3>4. Halfway(Taken(elem[k]), m, list, j, total)
      <4>1. \A i \in 1 .. n : t[i] = V!WriteVarint[list[i]]
        BY <1>3
      <4> QED
        BY <1>1, <1>5, <3>2, <3>3, <4>1, TakenHalfway
    <3>5. elem[k + 1] = Taken(elem[k])
      BY <2>4, <3>1
    <3> QED
      BY <3>3, <3>4, <3>5
  <2>7. Nat \subseteq X
    <3>1. \A k \in Nat : k \in X => k + 1 \in X
      <4> HIDE DEF P
      <4> QED
        BY <2>6
    <3> HIDE DEF X
    <3> QED
      BY <2>5, <3>1, AllNumbers
  <2>8. Halfway(elem[n], n, list, j, total)
    BY <2>7
  <2>9. V!PopContainer(p) = elem[n]
    BY <1>13, <2>1
  <2>10. SubSeq(list, 1, n) = list
    BY <1>1, SubSeqFull
  <2>11. j[n + 1] = << >> /\ Len(<< >>) = 0
    BY <1>5 DEF Joint
  <2>12. PICK e : e = elem[n]
    OBVIOUS
  <2>13. \/ e.ok = FALSE
         \/ e.ok = TRUE /\ e.v = list /\ e.next = total /\ total <= Len(buf)
    BY <2>8, <2>10, <2>11, <2>12 DEF Halfway
  <2> QED
    BY <1>9, <2>2, <2>9, <2>12, <2>13 DEF Gets
<1> QED
  BY <1>14, <1>15

(* What push() writes are octets. *)
LEMMA PushType ==
  ASSUME V!Sound, NEW x, V!Storable(x) PROVE V!Push(x) \in Seq(Octet)
<1>1. CASE x.t = "pod" /\ x.v \in Seq(Nat)
  <2>1. V!Push(x) = V!Raw(V!HostToNetwork(x.v))
    BY <1>1 DEF V!Push
  <2>2. V!HostToNetwork(x.v) \in Seq(Nat)
    BY <1>1, Swapped
  <2> QED
    BY <2>1, <2>2, RawFacts
<1>2. CASE x.t = "octets" /\ x.v \in Seq(Nat)
  <2>1. V!Push(x) = V!WriteVarint[Len(x.v)] \o V!Raw(x.v)
    BY <1>2 DEF V!Push
  <2>2. Len(x.v) \in Nat /\ V!Raw(x.v) \in Seq(Octet)
    BY <1>2, RawFacts
  <2>3. PICK a \in Seq(Octet), b \in Seq(Octet) : a = V!WriteVarint[Len(x.v)] /\ b = V!Raw(x.v)
    BY <2>2, ValueOctetsType
  <2>4. a \o b \in Seq(Octet)
    BY ConcatProperties
  <2> QED
    BY <2>1, <2>3, <2>4
<1>3. CASE x.t = "list" /\ x.v \in Seq(Nat)
  <2>1. PICK t : t = [i \in DOMAIN x.v |-> V!WriteVarint[x.v[i]]]
    OBVIOUS
  <2>2. V!Push(x) = V!WriteVarint[Len(x.v)] \o V!JoinFrom(t, 1)
    BY <1>3, <2>1 DEF V!Push
  <2>3. PICK n \in Nat : n = Len(x.v) /\ DOMAIN x.v = 1 .. n
    BY <1>3
  <2>4. Len(t) = n /\ \A i \in 1 .. n : t[i] \in Seq(Octet)
    <3>1. \A i \in 1 .. n : x.v[i] \in Nat
      BY <1>3, <2>3
    <3>2. \A i \in 1 .. n : V!WriteVarint[x.v[i]] \in Seq(Octet)
      BY <3>1, ValueOctetsType
    <3> QED
      BY <2>1, <2>3, <3>2
  <2>5. 1 \in 1 .. n + 1
    OBVIOUS
  <2>6. PICK a \in Seq(Octet), b \in Seq(Octet) : a = V!WriteVarint[n] /\ b = V!JoinFrom(t, 1)
    BY <2>4, <2>5, ValueOctetsType, JoinFacts
  <2>7. a \o b \in Seq(Octet)
    BY ConcatProperties
  <2> QED
    BY <2>2, <2>3, <2>6, <2>7
<1>4. CASE x.t = "uint" /\ x.v \in Nat
  BY <1>4, ValueOctetsType DEF V!Push
<1>5. CASE x.t = "int" /\ x.v \in V!Ints
  <2>1. V!Push(x) = V!WriteVarint[V!EncodeZigzag(x.v)]
    BY <1>5 DEF V!Push
  <2> QED
    BY <1>5, <2>1, Zigzag, ValueOctetsType
<1>6. CASE x.t = "pair" /\ x.v \in V!Ints \X V!Ints
  <2>1. V!Push(x) = V!WriteVarint[V!EncodeZigzag(x.v[1])] \o V!WriteVarint[V!EncodeZigzag(x.v[2])]
    BY <1>6 DEF V!Push
  <2>2. x.v[1] \in V!Ints /\ x.v[2] \in V!Ints
    BY <1>6
  <2>3. PICK a \in Seq(Octet), b \in Seq(Octet) :
          a = V!WriteVarint[V!EncodeZigzag(x.v[1])] /\ b = V!WriteVarint[V!EncodeZigzag(x.v[2])]
    BY <2>2, Zigzag, ValueOctetsType
  <2>4. a \o b \in Seq(Octet)
    BY ConcatProperties
  <2> QED
    BY <2>1, <2>3, <2>4
<1> QED
  BY <1>1, <1>2, <1>3, <1>4, <1>5, <1>6 DEF V!Storable

(* pop() of any value where push() has put it. *)
LEMMA PopGets ==
  ASSUME V!Sound, NEW x, V!Storable(x), buf \in Seq(Octet), vpos \in Nat,
         Agrees(buf, vpos, V!Push(x))
  PROVE  Gets(V!Pop(x), buf, vpos, V!Push(x), x.v)
<1>0. PICK s : s = V!Push(x)
  OBVIOUS
<1>1. CASE x.t = "pod" /\ x.v \in Seq(Nat)
  <2>1. s = V!Raw(V!HostToNetwork(x.v)) /\ V!Pop(x) = V!PopPod(vpos, Len(x.v))
    BY <1>0, <1>1 DEF V!Push, V!Pop
  <2> QED
    BY <1>0, <1>1, <2>1, PodGets
<1>2. CASE x.t = "octets" /\ x.v \in Seq(Nat)
  <2>1. s = V!WriteVarint[Len(x.v)] \o V!Raw(x.v) /\ V!Pop(x) = V!PopOctets(vpos)
    BY <1>0, <1>2 DEF V!Push, V!Pop
  <2> QED
    BY <1>0, <1>2, <2>1, OctetsGets
<1>3. CASE x.t = "list" /\ x.v \in Seq(Nat)
  <2>1. PICK list \in Seq(Nat) : list = x.v
    BY <1>3
  <2>2. /\ s = V!WriteVarint[Len(list)]
                 \o V!JoinFrom([i \in DOMAIN list |-> V!WriteVarint[list[i]]], 1)
        /\ V!Pop(x) = V!PopContainer(vpos)
    BY <1>0, <1>3, <2>1 DEF V!Push, V!Pop
  <2>3. Gets(V!PopContainer(vpos), buf, vpos, s, list)
    BY <1>0, <2>2, ListGets
  <2> QED
    BY <1>0, <2>1, <2>2, <2>3
<1>4. CASE x.t = "uint" /\ x.v \in Nat
  <2>1. s = V!WriteVarint[x.v] /\ V!Pop(x) = V!ReadVarint(vpos)
    BY <1>0, <1>4 DEF V!Push, V!Pop
  <2> QED
    BY <1>0, <1>4, <2>1, VarintGets
<1>5. CASE x.t = "int" /\ x.v \in V!Ints
  <2>1. PICK u : u = V!EncodeZigzag(x.v)
    OBVIOUS
  <2>2. s = V!WriteVarint[u] /\ V!Pop(x) = V!PopInt(vpos)
    BY <1>0, <1>5, <2>1 DEF V!Push, V!Pop
  <2> QED
    BY <1>0, <1>5, <2>1, <2>2, IntGets
<1>6. CASE x.t = "pair" /\ x.v \in V!Ints \X V!Ints
  <2>1. PICK y \in V!Ints, z \in V!Ints : x.v = <<y, z>> /\ x.v[1] = y /\ x.v[2] = z
    BY <1>6
  <2>2. /\ s = V!WriteVarint[V!EncodeZigzag(y)] \o V!WriteVarint[V!EncodeZigzag(z)]
        /\ V!Pop(x) = V!PopPair(vpos)
    BY <1>0, <1>6, <2>1 DEF V!Push, V!Pop
  <2>3. Gets(V!PopPair(vpos), buf, vpos, s, <<y, z>>)
    BY <1>0, <2>2, PairGets
  <2> QED
    BY <1>0, <2>1, <2>2, <2>3
<1> QED
  BY <1>1, <1>2, <1>3, <1>4, <1>5, <1>6 DEF V!Storable
(* f is the function inside PowerAbove(). *)
Powers(f, n) ==
  f = [m \in 0 .. n |-> IF m < 2 THEN 1 ELSE IF f[m - 1] >= m THEN f[m - 1] ELSE 2 * f[m - 1]]

(* frob_size() gives at least what was asked for. *)
LEMMA PowerFacts ==
  ASSUME NEW n \in Nat PROVE V!PowerAbove(n) \in Nat /\ V!PowerAbove(n) >= n
<1> DEFINE F == [i \in 1 .. n |-> [x \in Nat |-> IF i < 2 THEN 1 ELSE IF x >= i THEN x ELSE 2 * x]]
<1>1. F \in [1 .. n -> [Nat -> Nat]]
  OBVIOUS
<1>2. PICK g \in [0 .. n -> Nat] : g[0] = 1 /\ \A i \in 1 .. n : g[i] = F[i][g[i - 1]]
  <2> HIDE DEF F
  <2>1. Unfolds(Nat, F, 1, n)
    BY <1>1, Unfolded
  <2> QED
    BY <2>1 DEF Unfolds
<1>3. ASSUME NEW m \in 0 .. n
      PROVE  g[m] = IF m < 2 THEN 1 ELSE IF g[m - 1] >= m THEN g[m - 1] ELSE 2 * g[m - 1]
  <2>1. CASE m = 0
    BY <1>2, <2>1
  <2>2. CASE m \in 1 .. n
    <3>1. g[m - 1] \in Nat
      BY <2>2
    <3> QED
      BY <1>2, <2>2, <3>1
  <2> QED
    BY <2>1, <2>2
<1>4. Powers(g, n)
  <2>1. g = [m \in 0 .. n |-> g[m]]
    OBVIOUS
  <2> QED
    BY <1>3, <2>1 DEF Powers
<1>5. PICK f : f = CHOOSE h : Powers(h, n)
  OBVIOUS
<1>6. Powers(f, n)
  BY <1>4, <1>5, Zenon
<1>7. V!PowerAbove(n) = f[n]
  BY <1>5 DEF V!PowerAbove, Powers
<1>8. \A m \in 0 .. n : f[m] = IF m < 2 THEN 1 ELSE IF f[m - 1] >= m THEN f[m - 1] ELSE 2 * f[m - 1]
  BY <1>6 DEF Powers
<1> DEFINE P(m) == f[m] \in Nat /\ f[m] >= m /\ f[m] >= 1
           X == {m \in Nat : m <= n => P(m)}
<1>9. 0 \in X
  BY <1>8
<1>10. ASSUME NEW m \in Nat, m \in X, m + 1 <= n PROVE P(m + 1)
  <2>1. m + 1 \in 0 .. n /\ (m + 1) - 1 = m /\ P(m)
    BY <1>10
  <2>2. f[m + 1] = IF m + 1 < 2 THEN 1 ELSE IF f[m] >= m + 1 THEN f[m] ELSE 2 * f[m]
    <3>1. PICK j \in 0 .. n : j = m + 1 /\ j - 1 = m
      BY <2>1
    <3>2. f[j] = IF j < 2 THEN 1 ELSE IF f[j - 1] >= j THEN f[j - 1] ELSE 2 * f[j - 1]
      BY <1>8
    <3>3. f[j] = IF j < 2 THEN 1 ELSE IF f[m] >= j THEN f[m] ELSE 2 * f[m]
      BY <3>1, <3>2, Zenon
    <3> QED
      BY <3>1, <3>3, Zenon
  <2>3. PICK y \in Nat : y = f[m] /\ y >= m /\ y >= 1
    BY <2>1
  <2> DEFINE z == f[m + 1]
  <2>4. z = IF m + 1 < 2 THEN 1 ELSE IF y >= m + 1 THEN y ELSE 2 * y
    BY <2>2, <2>3, Zenon
  <2> HIDE DEF z
  <2>5. z \in Nat /\ z >= m + 1 /\ z >= 1
    BY ONLY m \in Nat, y \in Nat, <2>3, <2>4
  <2> QED
    BY <2>5 DEF z
<1>11. Nat \subseteq X
  <2>1. \A m \in Nat : m \in X => m + 1 \in X
    <3> HIDE DEF P
    <3> QED
      BY <1>10
  <2> HIDE DEF X
  <2> QED
    BY <1>9, <2>1, AllNumbers
<1>12. P(n)
  BY <1>11
<1> QED
  BY <1>7, <1>12

(* A beginning of s, by its elements. *)
Front(t, s) == Len(t) <= Len(s) /\ \A i \in 1 .. Len(t) : t[i] = s[i]

(* It is a subsequence. *)
LEMMA FrontIs ==
  ASSUME NEW S, NEW s \in Seq(S), NEW t \in Seq(S), Len(t) <= Len(s)
  PROVE  t = SubSeq(s, 1, Len(t)) <=> Front(t, s)
<1>1. PICK n \in Nat : n = Len(t) /\ n \in 0 .. Len(s)
  OBVIOUS
<1>2. PICK u \in Seq(S) : u = SubSeq(s, 1, n) /\ Len(u) = n
  BY <1>1, CutFacts
<1>3. \A i \in 1 .. n : u[i] = s[i]
  <2>1. \A i \in 1 .. n : s[i] \in S
    BY <1>1
  <2>2. \A i \in 1 .. n - 1 + 1 : SubSeq(s, 1, n)[i] = s[1 + i - 1]
    BY <2>1, SubSeqProperties
  <2>3. \A i \in 1 .. n : i \in 1 .. n - 1 + 1 /\ 1 + i - 1 = i
    OBVIOUS
  <2> QED
    BY <1>2, <2>2, <2>3
<1>4. t = u => Front(t, s)
  BY <1>1, <1>2, <1>3 DEF Front
<1>5. ASSUME Front(t, s) PROVE t = u
  <2>1. Len(t) = Len(u) /\ \A i \in 1 .. Len(t) : t[i] = u[i]
    BY <1>1, <1>2, <1>3, <1>5 DEF Front
  <2> QED
    BY <2>1, SeqEqual
<1> QED
  BY <1>1, <1>2, <1>4, <1>5

(* The encodings of some values. *)
Pushes(ps) == [i \in DOMAIN ps |-> V!Push(ps[i])]

(* They are octets. *)
LEMMA PushesFacts ==
  ASSUME V!Sound, NEW ps \in Seq(Values)
  PROVE  /\ Len(Pushes(ps)) = Len(ps)
         /\ \A i \in 1 .. Len(ps) : /\ Pushes(ps)[i] = V!Push(ps[i]) /\ V!Storable(ps[i])
                                    /\ Pushes(ps)[i] \in Seq(Octet)
<1>1. PICK n \in Nat : n = Len(ps) /\ DOMAIN ps = 1 .. n
  OBVIOUS
<1>2. Len(Pushes(ps)) = n
  BY <1>1 DEF Pushes
<1>3. ASSUME NEW i \in 1 .. n
      PROVE  Pushes(ps)[i] = V!Push(ps[i]) /\ V!Storable(ps[i]) /\ Pushes(ps)[i] \in Seq(Octet)
  <2>1. ps[i] \in Values
    BY <1>1
  <2>2. V!Storable(ps[i])
    BY <2>1 DEF V!Sound
  <2>3. Pushes(ps)[i] = V!Push(ps[i])
    BY <1>1 DEF Pushes
  <2> QED
    BY <2>2, <2>3, PushType
<1> QED
  BY <1>1, <1>2, <1>3

(* From p on there are the values from the k-th on. *)
Carries(b, p, w, ps, k) == Left(b, p) \o w = V!JoinFrom(Pushes(ps), k)

(* The invariant in these words. *)
LEMMA ValuesOpened ==
  ASSUME V!Sound, V!IndInv
  PROVE  /\ pushed \in Seq(Values) /\ wire \in Seq(Octet) /\ buf \in Seq(Octet) /\ cap \in Nat
         /\ got \in Seq(Values) /\ torn \in BOOLEAN /\ transpos \in 0 .. Len(buf)
         /\ Len(got) <= Len(pushed) /\ mark \in 0 .. Len(got) /\ Front(got, pushed)
         /\ ~torn => vpos \in 0 .. Len(buf) /\ Carries(buf, vpos, wire, pushed, Len(got) + 1)
         /\ Carries(buf, transpos, wire, pushed, mark + 1) /\ Len(buf) <= cap
<1>1. V!Typed /\ V!RoundTrip /\ V!Returns
  BY DEF V!IndInv
<1>2. /\ pushed \in Seq(Values) /\ wire \in Seq(Octet) /\ buf \in Seq(Octet) /\ cap \in Nat
      /\ got \in Seq(Values) /\ torn \in BOOLEAN /\ transpos \in 0 .. Len(buf)
      /\ Len(got) <= Len(pushed) /\ mark \in 0 .. Len(got) /\ (~torn => vpos \in 0 .. Len(buf))
  BY <1>1 DEF V!Typed, V!Octets, Octet
<1>3. got = SubSeq(pushed, 1, Len(got)) /\ Len(buf) <= cap
  BY <1>1 DEF V!RoundTrip
<1>4. Front(got, pushed)
  BY <1>2, <1>3, FrontIs
<1>5. ~torn => Carries(buf, vpos, wire, pushed, Len(got) + 1)
  BY <1>1 DEF V!RoundTrip, Carries, Left, Pushes
<1>6. Carries(buf, transpos, wire, pushed, mark + 1)
  BY <1>1 DEF V!Returns, Carries, Left, Pushes
<1> QED
  BY <1>2, <1>3, <1>4, <1>5, <1>6

(* And after a step. *)
LEMMA ValuesClosed ==
  ASSUME pushed' \in Seq(Values), wire' \in Seq(Octet), buf' \in Seq(Octet), cap' \in Nat,
         got' \in Seq(Values), torn' \in BOOLEAN, transpos' \in 0 .. Len(buf'),
         Len(got') <= Len(pushed'), mark' \in 0 .. Len(got'), Front(got', pushed'),
         ~torn' => vpos' \in 0 .. Len(buf') /\ Carries(buf', vpos', wire', pushed', Len(got') + 1),
         Carries(buf', transpos', wire', pushed', mark' + 1), Len(buf') <= cap'
  PROVE  V!IndInv'
<1>1. V!Typed'
  BY DEF V!Typed, V!Octets, Octet
<1>2. got' = SubSeq(pushed', 1, Len(got')) /\ transpos' <= Len(buf')
  BY FrontIs
<1>3. ~torn' => SubSeq(buf', vpos' + 1, Len(buf')) \o wire'
                 = V!JoinFrom([i \in DOMAIN pushed' |-> V!Push(pushed'[i])], Len(got') + 1)
  BY DEF Carries, Left, Pushes
<1>4. V!RoundTrip'
  BY <1>2, <1>3 DEF V!RoundTrip
<1>5. V!Returns'
  BY DEF V!Returns, Carries, Left, Pushes
<1> QED
  BY <1>1, <1>4, <1>5 DEF V!IndInv

(* A value that is pushed is behind all others. *)
LEMMA CarriesMore ==
  ASSUME V!Sound, NEW b \in Seq(Octet), NEW p \in 0 .. Len(b), NEW w \in Seq(Octet),
         NEW ps \in Seq(Values), NEW x \in Values, NEW k \in 1 .. Len(ps) + 1,
         Carries(b, p, w, ps, k), NEW qs, qs = Append(ps, x), NEW y, y = w \o V!Push(x)
  PROVE  Carries(b, p, y, qs, k)
<1>1. PICK n \in Nat : n = Len(ps)
  OBVIOUS
<1>2. PICK s, t : s = Pushes(ps) /\ t = Pushes(qs)
  OBVIOUS
<1>3. qs \in Seq(Values) /\ Len(qs) = n + 1 /\ qs[n + 1] = x /\ \A i \in 1 .. n : qs[i] = ps[i]
  BY <1>1, AppendProperties
<1>4. V!Storable(x)
  BY DEF V!Sound
<1>5. PICK z \in Seq(Octet) : z = V!Push(x)
  BY <1>4, PushType
<1>6. Len(s) = n /\ \A i \in 1 .. n : s[i] = V!Push(ps[i]) /\ s[i] \in Seq(Octet)
  BY <1>1, <1>2, PushesFacts
<1>7. Len(t) = n + 1 /\ \A i \in 1 .. n + 1 : t[i] = V!Push(qs[i])
  BY <1>1, <1>2, <1>3, PushesFacts
<1>8. (\A i \in 1 .. n : s[i] \in Seq(Octet) /\ t[i] = s[i]) /\ t[n + 1] = z
  BY <1>3, <1>5, <1>6, <1>7
<1>9. V!JoinFrom(t, k) = V!JoinFrom(s, k) \o z
  <2>1. k \in 1 .. n + 1
    BY <1>1
  <2>2. Extends(t, s, z, k)
    BY <1>6, <1>7, <1>8, <2>1, JoinAppend
  <2> QED
    BY <2>2 DEF Extends
<1>10. PICK l \in Seq(Octet) : l = Left(b, p)
  BY LeftFacts
<1>11. Grouped(l, w, z)
  BY Groups
<1>12. l \o w = V!JoinFrom(s, k)
  BY <1>2, <1>10 DEF Carries
<1>13. l \o y = V!JoinFrom(t, k)
  BY <1>5, <1>9, <1>11, <1>12 DEF Grouped
<1> QED
  BY <1>2, <1>10, <1>13 DEF Carries

(* A writer pushes a value. *)
LEMMA PushKeeps ==
  ASSUME V!Sound, V!IndInv, NEW x \in Values, V!Write(x) PROVE V!IndInv'
<1>1. /\ pushed \in Seq(Values) /\ wire \in Seq(Octet) /\ buf \in Seq(Octet) /\ cap \in Nat
      /\ got \in Seq(Values) /\ torn \in BOOLEAN /\ transpos \in 0 .. Len(buf)
      /\ Len(got) <= Len(pushed) /\ mark \in 0 .. Len(got) /\ Front(got, pushed)
      /\ ~torn => vpos \in 0 .. Len(buf) /\ Carries(buf, vpos, wire, pushed, Len(got) + 1)
      /\ Carries(buf, transpos, wire, pushed, mark + 1) /\ Len(buf) <= cap
  BY ValuesOpened
<1>2. /\ pushed' = Append(pushed, x) /\ wire' = wire \o V!Push(x)
      /\ UNCHANGED <<buf, cap, vpos, transpos, torn, got, mark>>
  BY DEF V!Write
<1>3. Len(pushed) \in Nat /\ Len(got) \in Nat
  BY <1>1
<1>4. mark + 1 \in 1 .. Len(pushed) + 1 /\ Len(got) + 1 \in 1 .. Len(pushed) + 1
  BY <1>1, <1>3
<1>5. Carries(buf, transpos, wire', pushed', mark + 1)
  BY <1>1, <1>2, <1>3, <1>4, CarriesMore
<1>6. ~torn => Carries(buf, vpos, wire', pushed', Len(got) + 1)
  BY <1>1, <1>2, <1>3, <1>4, CarriesMore
<1>7. pushed' \in Seq(Values) /\ Len(pushed') = Len(pushed) + 1 /\ \A i \in 1 .. Len(pushed) : pushed'[i] = pushed[i]
  BY <1>1, <1>2, <1>3, AppendProperties
<1>8. Front(got', pushed') /\ Len(got') <= Len(pushed')
  BY <1>1, <1>2, <1>3, <1>7 DEF Front
<1>9. wire' \in Seq(Octet)
  <2>1. V!Push(x) \in Seq(Octet)
    BY PushType DEF V!Sound
  <2> QED
    BY <1>1, <1>2, <2>1, ConcatProperties
<1>10. ~torn' => vpos' \in 0 .. Len(buf') /\ Carries(buf', vpos', wire', pushed', Len(got') + 1)
  BY <1>1, <1>2, <1>3, <1>6
<1>11. Carries(buf', transpos', wire', pushed', mark' + 1)
  BY <1>2, <1>5
<1>12. /\ buf' \in Seq(Octet) /\ cap' \in Nat /\ got' \in Seq(Values) /\ torn' \in BOOLEAN
       /\ transpos' \in 0 .. Len(buf') /\ mark' \in 0 .. Len(got') /\ Len(buf') <= cap'
  BY <1>1, <1>2
<1> QED
  BY <1>7, <1>8, <1>9, <1>10, <1>11, <1>12, ValuesClosed

(* Octets that arrive, from the wire to the buffer. *)
LEMMA CarriesMoved ==
  ASSUME NEW b \in Seq(Octet), NEW p \in 0 .. Len(b), NEW w \in Seq(Octet), NEW ps, NEW k,
         NEW n \in 0 .. Len(w), Carries(b, p, w, ps, k),
         NEW c, c = b \o SubSeq(w, 1, n), NEW u, u = Left(w, n)
  PROVE  Carries(c, p, u, ps, k)
<1>1. PICK x \in Seq(Octet) : x = SubSeq(w, 1, n)
  BY CutFacts
<1>2. PICK l \in Seq(Octet) : l = Left(b, p)
  BY LeftFacts
<1>3. Pieces(l, w, n)
  BY TwoPieces
<1>4. Left(c, p) = l \o x
  BY <1>1, <1>2, LeftConcat
<1>5. (l \o x) \o u = l \o w
  BY <1>1, <1>3 DEF Pieces
<1>6. l \o w = V!JoinFrom(Pushes(ps), k)
  BY <1>2 DEF Carries
<1> QED
  BY <1>4, <1>5, <1>6 DEF Carries

(* n octets arrive. *)
LEMMA ArriveKeeps ==
  ASSUME V!Sound, V!IndInv, NEW n \in 1 .. Len(wire), V!Arrive(n) PROVE V!IndInv'
<1>1. /\ pushed \in Seq(Values) /\ wire \in Seq(Octet) /\ buf \in Seq(Octet) /\ cap \in Nat
      /\ got \in Seq(Values) /\ torn \in BOOLEAN /\ transpos \in 0 .. Len(buf)
      /\ Len(got) <= Len(pushed) /\ mark \in 0 .. Len(got) /\ Front(got, pushed)
      /\ ~torn => vpos \in 0 .. Len(buf) /\ Carries(buf, vpos, wire, pushed, Len(got) + 1)
      /\ Carries(buf, transpos, wire, pushed, mark + 1) /\ Len(buf) <= cap
  BY ValuesOpened
<1>2. /\ buf' = buf \o SubSeq(wire, 1, n) /\ wire' = Left(wire, n)
      /\ cap' = IF cap >= Len(buf') THEN cap ELSE V!FrobSize(Len(buf'))
      /\ UNCHANGED <<pushed, vpos, transpos, torn, got, mark>>
  BY DEF V!Arrive, V!AppendOctets, Left
<1>3. n \in 0 .. Len(wire)
  BY <1>1
<1>4. PICK x \in Seq(Octet) : x = SubSeq(wire, 1, n) /\ wire' \in Seq(Octet)
  BY <1>1, <1>2, <1>3, CutFacts
<1>5. buf' \in Seq(Octet) /\ Len(buf) <= Len(buf') /\ Len(buf') \in Nat /\ Len(buf) \in Nat
  <2>1. buf \o x \in Seq(Octet) /\ Len(buf \o x) = Len(buf) + Len(x)
    BY <1>1, ConcatProperties
  <2>2. Len(x) \in Nat /\ Len(buf) \in Nat
    BY <1>1
  <2> QED
    BY <1>2, <1>4, <2>1, <2>2
<1>6. cap' \in Nat /\ Len(buf') <= cap'
  <2>1. PICK m \in Nat : m = Len(buf')
    BY <1>5
  <2>2. V!PowerAbove(m) \in Nat /\ V!PowerAbove(m) >= m /\ MinCap \in Nat
    BY PowerFacts DEF V!Sound
  <2>3. V!FrobSize(m) \in Nat /\ V!FrobSize(m) >= m
    BY <2>1, <2>2 DEF V!FrobSize
  <2> QED
    BY <1>1, <1>2, <2>1, <2>3
<1>7. Carries(buf', transpos', wire', pushed', mark' + 1)
  BY <1>1, <1>2, <1>3, CarriesMoved
<1>8. ~torn' => vpos' \in 0 .. Len(buf') /\ Carries(buf', vpos', wire', pushed', Len(got') + 1)
  <2>1. ~torn => Carries(buf', vpos, wire', pushed, Len(got) + 1)
    BY <1>1, <1>2, <1>3, CarriesMoved
  <2> QED
    BY <1>1, <1>2, <1>5, <2>1
<1>9. transpos' \in 0 .. Len(buf')
  BY <1>1, <1>2, <1>5
<1> QED
  BY <1>1, <1>2, <1>4, <1>5, <1>6, <1>7, <1>8, <1>9, ValuesClosed

(* The reader begins a transaction. *)
LEMMA BeginKeeps ==
  ASSUME V!Sound, V!IndInv, V!Begin PROVE V!IndInv'
<1>1. /\ pushed \in Seq(Values) /\ wire \in Seq(Octet) /\ buf \in Seq(Octet) /\ cap \in Nat
      /\ got \in Seq(Values) /\ torn \in BOOLEAN /\ transpos \in 0 .. Len(buf)
      /\ Len(got) <= Len(pushed) /\ mark \in 0 .. Len(got) /\ Front(got, pushed)
      /\ ~torn => vpos \in 0 .. Len(buf) /\ Carries(buf, vpos, wire, pushed, Len(got) + 1)
      /\ Carries(buf, transpos, wire, pushed, mark + 1) /\ Len(buf) <= cap
  BY ValuesOpened
<1>2. /\ ~torn /\ transpos' = vpos /\ mark' = Len(got)
      /\ UNCHANGED <<pushed, wire, buf, cap, vpos, torn, got>>
  BY DEF V!Begin
<1>3. /\ pushed' \in Seq(Values) /\ wire' \in Seq(Octet) /\ buf' \in Seq(Octet) /\ cap' \in Nat
      /\ got' \in Seq(Values) /\ torn' \in BOOLEAN /\ Len(got') <= Len(pushed')
      /\ Front(got', pushed') /\ Len(buf') <= cap'
  BY <1>1, <1>2
<1>4. vpos' \in 0 .. Len(buf') /\ Carries(buf', vpos', wire', pushed', Len(got') + 1)
  BY <1>1, <1>2
<1>5. transpos' \in 0 .. Len(buf') /\ Carries(buf', transpos', wire', pushed', mark' + 1)
  BY <1>1, <1>2
<1>6. mark' \in 0 .. Len(got')
  <2>1. Len(got) \in Nat
    BY <1>1
  <2> QED
    BY <1>2, <2>1
<1> QED
  BY <1>3, <1>4, <1>5, <1>6, ValuesClosed

(* What the reader pops next, and what is behind it. *)
LEMMA NextValue ==
  ASSUME V!Sound, buf \in Seq(Octet), vpos \in 0 .. Len(buf), wire \in Seq(Octet),
         pushed \in Seq(Values), NEW g \in Nat, g < Len(pushed),
         Carries(buf, vpos, wire, pushed, g + 1), NEW x, x = pushed[g + 1]
  PROVE  /\ x \in Values /\ V!Storable(x)
         /\ Gets(V!Pop(x), buf, vpos, V!Push(x), x.v)
         /\ V!Pop(x).ok = TRUE => Carries(buf, V!Pop(x).next, wire, pushed, g + 2)
<1>1. PICK n \in Nat : n = Len(pushed)
  OBVIOUS
<1>2. PICK s : s = Pushes(pushed)
  OBVIOUS
<1>3. Len(s) = n /\ \A i \in 1 .. n : /\ s[i] = V!Push(pushed[i]) /\ V!Storable(pushed[i])
                                     /\ s[i] \in Seq(Octet)
  BY <1>1, <1>2, PushesFacts
<1>4. g + 1 \in 1 .. n /\ g + 2 \in 1 .. n + 1 /\ g + 1 \in 1 .. n + 1 /\ (g + 1) + 1 = g + 2
  BY <1>1
<1>5. x \in Values /\ V!Storable(x)
  BY <1>1, <1>3, <1>4
<1>6. PICK a \in Seq(Octet) : a = V!Push(x) /\ a = s[g + 1]
  BY <1>3, <1>4
<1>7. PICK c \in Seq(Octet) : c = V!JoinFrom(s, g + 2)
  BY <1>3, <1>4, JoinFacts
<1>8. JoinStep(s, g + 1)
  <2>1. PICK k \in 1 .. n + 1 : k = g + 1 /\ k <= n
    BY <1>4
  <2>2. JoinStep(s, k)
    BY <1>3, <2>1, JoinFacts
  <2> QED
    BY <2>1, <2>2
<1>9. V!JoinFrom(s, g + 1) = a \o c
  BY <1>4, <1>6, <1>7, <1>8 DEF JoinStep
<1>10. Left(buf, vpos) \o wire = a \o c
  BY <1>2, <1>9 DEF Carries
<1>11. Agrees(buf, vpos, a)
  BY <1>10, StreamAgrees
<1>12. vpos \in Nat
  OBVIOUS
<1>13. Gets(V!Pop(x), buf, vpos, V!Push(x), x.v)
  BY <1>5, <1>6, <1>11, <1>12, PopGets
<1>14. ASSUME V!Pop(x).ok = TRUE PROVE Carries(buf, V!Pop(x).next, wire, pushed, g + 2)
  <2>1. V!Pop(x).next = vpos + Len(a) /\ vpos + Len(a) <= Len(buf)
    BY <1>6, <1>13, <1>14 DEF Gets
  <2>2. Left(buf, vpos + Len(a)) \o wire = c
    BY <1>10, <2>1, TakeFront
  <2> QED
    BY <1>2, <1>7, <2>1, <2>2 DEF Carries
<1> QED
  BY <1>5, <1>13, <1>14

(* The reader pops a value, or an exception is thrown. *)
LEMMA ReadKeeps ==
  ASSUME V!Sound, V!IndInv, V!Read PROVE V!IndInv'
<1>1. /\ pushed \in Seq(Values) /\ wire \in Seq(Octet) /\ buf \in Seq(Octet) /\ cap \in Nat
      /\ got \in Seq(Values) /\ torn \in BOOLEAN /\ transpos \in 0 .. Len(buf)
      /\ Len(got) <= Len(pushed) /\ mark \in 0 .. Len(got) /\ Front(got, pushed)
      /\ ~torn => vpos \in 0 .. Len(buf) /\ Carries(buf, vpos, wire, pushed, Len(got) + 1)
      /\ Carries(buf, transpos, wire, pushed, mark + 1) /\ Len(buf) <= cap
  BY ValuesOpened
<1>2. PICK x, r : x = pushed[Len(got) + 1] /\ r = V!Pop(x)
  OBVIOUS
<1>3. /\ ~torn /\ Len(got) < Len(pushed) /\ vpos' = r.next /\ torn' = ~r.ok
      /\ got' = IF r.ok THEN Append(got, [t |-> x.t, v |-> r.v]) ELSE got
      /\ UNCHANGED <<pushed, wire, buf, cap, transpos, mark>>
  BY <1>2 DEF V!Read
<1>4. PICK g \in Nat : g = Len(got)
  BY <1>1
<1>5. /\ x \in Values /\ V!Storable(x) /\ Gets(r, buf, vpos, V!Push(x), x.v)
      /\ r.ok = TRUE => Carries(buf, r.next, wire, pushed, g + 2)
  BY <1>1, <1>2, <1>3, <1>4, NextValue
<1>6. /\ pushed' \in Seq(Values) /\ wire' \in Seq(Octet) /\ buf' \in Seq(Octet) /\ cap' \in Nat
      /\ transpos' \in 0 .. Len(buf') /\ Len(buf') <= cap'
      /\ Carries(buf', transpos', wire', pushed', mark' + 1)
  BY <1>1, <1>3
<1>7. CASE r.ok = FALSE
  <2>1. torn' = TRUE /\ got' = got
    BY <1>3, <1>7
  <2>2. /\ got' \in Seq(Values) /\ torn' \in BOOLEAN /\ Len(got') <= Len(pushed')
        /\ mark' \in 0 .. Len(got') /\ Front(got', pushed')
    BY <1>1, <1>3, <2>1
  <2> QED
    BY <1>6, <2>1, <2>2, ValuesClosed
<1>8. CASE r.ok = TRUE
  <2>1. r.v = x.v /\ r.next = vpos + Len(V!Push(x)) /\ vpos + Len(V!Push(x)) <= Len(buf)
    BY <1>5, <1>8 DEF Gets
  <2>2. x = [t |-> x.t, v |-> x.v]
    BY <1>5 DEF V!Storable
  <2>3. got' = Append(got, [t |-> x.t, v |-> r.v])
    BY <1>3, <1>8
  <2>4. got' = Append(got, x)
    BY <2>1, <2>2, <2>3, Zenon
  <2>5. got' \in Seq(Values) /\ Len(got') = g + 1 /\ got'[g + 1] = x
        /\ \A i \in 1 .. g : got'[i] = got[i]
    BY <1>1, <1>4, <1>5, <2>4, AppendProperties
  <2>6. Front(got', pushed') /\ Len(got') <= Len(pushed')
    <3>1. pushed' = pushed /\ g + 1 <= Len(pushed) /\ \A i \in 1 .. g : got[i] = pushed[i]
      BY <1>1, <1>3, <1>4 DEF Front
    <3>2. ASSUME NEW i \in 1 .. g + 1 PROVE got'[i] = pushed[i]
      BY <1>2, <1>4, <2>5, <3>1
    <3> QED
      BY <2>5, <3>1, <3>2 DEF Front
  <2>7. torn' = FALSE /\ torn' \in BOOLEAN
    BY <1>3, <1>8
  <2>8. mark' \in 0 .. Len(got')
    BY <1>1, <1>3, <1>4, <2>5
  <2>9. vpos' \in 0 .. Len(buf')
    <3>1. Len(V!Push(x)) \in Nat
      BY <1>5, PushType
    <3> QED
      BY <1>1, <1>3, <2>1, <3>1
  <2>10. Carries(buf', vpos', wire', pushed', Len(got') + 1)
    <3>1. Carries(buf, vpos', wire, pushed, g + 2)
      BY <1>3, <1>5, <1>8
    <3>2. Len(got') + 1 = g + 2
      BY <2>5
    <3> QED
      BY <1>3, <3>1, <3>2
  <2> QED
    BY <1>6, <2>5, <2>6, <2>7, <2>8, <2>9, <2>10, ValuesClosed
<1> QED
  BY <1>5, <1>7, <1>8 DEF Gets

(* The reader goes back to where it began. *)
LEMMA RollbackKeeps ==
  ASSUME V!Sound, V!IndInv, V!Rollback PROVE V!IndInv'
<1>1. /\ pushed \in Seq(Values) /\ wire \in Seq(Octet) /\ buf \in Seq(Octet) /\ cap \in Nat
      /\ got \in Seq(Values) /\ torn \in BOOLEAN /\ transpos \in 0 .. Len(buf)
      /\ Len(got) <= Len(pushed) /\ mark \in 0 .. Len(got) /\ Front(got, pushed)
      /\ ~torn => vpos \in 0 .. Len(buf) /\ Carries(buf, vpos, wire, pushed, Len(got) + 1)
      /\ Carries(buf, transpos, wire, pushed, mark + 1) /\ Len(buf) <= cap
  BY ValuesOpened
<1>2. /\ vpos' = transpos /\ torn' = FALSE /\ got' = SubSeq(got, 1, mark)
      /\ UNCHANGED <<pushed, wire, buf, cap, transpos, mark>>
  BY DEF V!Rollback
<1>3. got' \in Seq(Values) /\ Len(got') = mark
  BY <1>1, <1>2, CutFacts
<1>4. got' = SubSeq(got, 1, Len(got')) /\ Len(got') <= Len(got)
  BY <1>1, <1>2, <1>3
<1>5. Front(got', got)
  BY <1>1, <1>3, <1>4, FrontIs
<1>6. Front(got', pushed') /\ Len(got') <= Len(pushed')
  <2>1. Len(got) \in Nat /\ Len(pushed) \in Nat /\ mark \in Nat
    BY <1>1
  <2> QED
    BY <1>1, <1>2, <1>3, <1>5, <2>1 DEF Front
<1>7. /\ pushed' \in Seq(Values) /\ wire' \in Seq(Octet) /\ buf' \in Seq(Octet) /\ cap' \in Nat
      /\ transpos' \in 0 .. Len(buf') /\ Len(buf') <= cap' /\ torn' \in BOOLEAN
      /\ Carries(buf', transpos', wire', pushed', mark' + 1)
  BY <1>1, <1>2
<1>8. mark' \in 0 .. Len(got')
  BY <1>1, <1>2, <1>3
<1>9. vpos' \in 0 .. Len(buf') /\ Carries(buf', vpos', wire', pushed', Len(got') + 1)
  BY <1>1, <1>2, <1>3
<1> QED
  BY <1>3, <1>6, <1>7, <1>8, <1>9, ValuesClosed

(* The reader commits: what is dropped has been read. *)
LEMMA CommitKeeps ==
  ASSUME V!Sound, V!IndInv, V!Commit PROVE V!IndInv'
<1>1. /\ pushed \in Seq(Values) /\ wire \in Seq(Octet) /\ buf \in Seq(Octet) /\ cap \in Nat
      /\ got \in Seq(Values) /\ torn \in BOOLEAN /\ transpos \in 0 .. Len(buf)
      /\ Len(got) <= Len(pushed) /\ mark \in 0 .. Len(got) /\ Front(got, pushed)
      /\ ~torn => vpos \in 0 .. Len(buf) /\ Carries(buf, vpos, wire, pushed, Len(got) + 1)
      /\ Carries(buf, transpos, wire, pushed, mark + 1) /\ Len(buf) <= cap
  BY ValuesOpened
<1>2. ~torn /\ V!TryShrink /\ UNCHANGED <<pushed, wire, cap, torn, got>>
  BY DEF V!Commit
<1>3. vpos \in 0 .. Len(buf) /\ Carries(buf, vpos, wire, pushed, Len(got) + 1)
  BY <1>1, <1>2
<1>4. /\ pushed' \in Seq(Values) /\ wire' \in Seq(Octet) /\ cap' \in Nat /\ torn' \in BOOLEAN
      /\ got' \in Seq(Values) /\ Len(got') <= Len(pushed') /\ Front(got', pushed')
  BY <1>1, <1>2
<1>5. CASE vpos > ValueShrinkAt
  <2>1. buf' = Left(buf, vpos) /\ vpos' = 0 /\ transpos' = 0 /\ mark' = Len(got)
    BY <1>2, <1>5 DEF V!TryShrink, Left
  <2>2. PICK l \in Seq(Octet) : l = Left(buf, vpos) /\ Len(l) = Len(buf) - vpos
    BY <1>1, <1>3, LeftFacts
  <2>3. SubSeq(l, 1, Len(l)) = l
    BY SubSeqFull
  <2>4. Left(l, 0) = l
    BY <2>3 DEF Left
  <2>5. Carries(l, 0, wire, pushed, Len(got) + 1)
    BY <1>3, <2>2, <2>4 DEF Carries
  <2>6. Carries(buf', vpos', wire', pushed', Len(got') + 1)
    BY <1>2, <2>1, <2>2, <2>5
  <2>7. Carries(buf', transpos', wire', pushed', mark' + 1)
    BY <1>2, <2>1, <2>2, <2>5
  <2>8. Len(l) \in Nat /\ Len(buf) \in Nat /\ Len(got) \in Nat
    BY <1>1
  <2>9. /\ buf' \in Seq(Octet) /\ vpos' \in 0 .. Len(buf') /\ transpos' \in 0 .. Len(buf')
        /\ mark' \in 0 .. Len(got') /\ Len(buf') <= cap'
    BY <1>1, <1>2, <1>3, <2>1, <2>2, <2>8
  <2> QED
    BY <1>4, <2>6, <2>7, <2>9, ValuesClosed
<1>6. CASE ~(vpos > ValueShrinkAt)
  <2>1. UNCHANGED <<buf, vpos, transpos, mark>>
    BY <1>2, <1>6 DEF V!TryShrink
  <2>2. /\ buf' \in Seq(Octet) /\ vpos' \in 0 .. Len(buf') /\ transpos' \in 0 .. Len(buf')
        /\ mark' \in 0 .. Len(got') /\ Len(buf') <= cap'
    BY <1>1, <1>2, <1>3, <2>1
  <2>3. Carries(buf', vpos', wire', pushed', Len(got') + 1)
    BY <1>2, <1>3, <2>1
  <2>4. Carries(buf', transpos', wire', pushed', mark' + 1)
    BY <1>1, <1>2, <2>1
  <2> QED
    BY <1>4, <2>2, <2>3, <2>4, ValuesClosed
<1> QED
  BY <1>5, <1>6

(* In the beginning nothing is pushed. *)
LEMMA ValuesInit ==
  ASSUME V!Sound, V!Init PROVE V!IndInv
<1>1. /\ pushed = << >> /\ wire = << >> /\ buf = << >> /\ cap = MinCap /\ vpos = 0
      /\ transpos = 0 /\ torn = FALSE /\ got = << >> /\ mark = 0
  BY DEF V!Init
<1>2. PICK s : s = Pushes(pushed)
  OBVIOUS
<1>3. PICK z \in Nat : z = 0
  OBVIOUS
<1>4. pushed \in Seq(Values) /\ Len(pushed) = 0 /\ got \in Seq(Values) /\ Len(got) = 0
  BY <1>1
<1>5. Len(s) = 0
  BY <1>2, <1>4, PushesFacts
<1>6. V!JoinFrom(s, 1) = << >>
  <2>1. z + 1 = 1 /\ 1 \in 1 .. z + 1 /\ \A i \in 1 .. z : s[i] \in Seq(Octet)
    BY <1>3
  <2>2. PICK k \in 1 .. z + 1 : k = 1 /\ k = z + 1
    BY <2>1
  <2> QED
    BY <1>3, <1>5, <2>1, <2>2, JoinFacts
<1>7. PICK e \in Seq(Octet) : e = << >> /\ Len(e) = 0
  <2>1. << >> \in Seq(Octet) /\ Len(<< >>) = 0
    OBVIOUS
  <2> QED
    BY <2>1
<1>8. Left(buf, 0) = << >>
  <2>1. SubSeq(e, 1, Len(e)) = e
    BY SubSeqFull
  <2> QED
    BY <1>1, <1>7, <2>1 DEF Left
<1>9. Left(buf, 0) \o wire = << >>
  <2>1. e \o e = e
    BY ConcatEmptySeq, <1>7
  <2> QED
    BY <1>1, <1>7, <1>8, <2>1
<1>10. SubSeq(buf, 0 + 1, Len(buf)) \o wire
         = V!JoinFrom([i \in DOMAIN pushed |-> V!Push(pushed[i])], 0 + 1)
  <2>1. Left(buf, 0) = SubSeq(buf, 0 + 1, Len(buf)) /\ 0 + 1 = 1
    BY DEF Left
  <2>2. s = [i \in DOMAIN pushed |-> V!Push(pushed[i])]
    BY <1>2 DEF Pushes
  <2>3. Left(buf, 0) \o wire = V!JoinFrom(s, 1)
    BY <1>6, <1>9, Zenon
  <2> QED
    BY <2>1, <2>2, <2>3, Zenon
<1>11. V!Typed
  <2>1. MinCap \in Nat
    BY DEF V!Sound
  <2>2. wire \in Seq(V!Octets) /\ buf \in Seq(V!Octets) /\ Len(buf) = 0
    BY <1>1, <1>7
  <2>3. /\ transpos \in 0 .. Len(buf) /\ vpos \in 0 .. Len(buf) /\ mark \in 0 .. Len(got)
        /\ Len(got) <= Len(pushed) /\ cap \in Nat
    <3>1. vpos = 0 /\ transpos = 0 /\ mark = 0 /\ cap = MinCap
      BY <1>1
    <3>2. Len(buf) = 0 /\ Len(got) = 0 /\ Len(pushed) = 0
      BY <1>4, <2>2
    <3> QED
      BY <2>1, <3>1, <3>2
  <2>4. torn \in BOOLEAN
    BY <1>1, Zenon
  <2> QED
    BY <1>4, <2>2, <2>3, <2>4 DEF V!Typed
<1>12. got = SubSeq(pushed, 1, Len(got))
  <2>1. Front(got, pushed)
    BY <1>4 DEF Front
  <2> QED
    BY <1>4, <2>1, FrontIs
<1>13. V!RoundTrip
  <2>1. Len(buf) <= cap /\ transpos <= Len(buf)
    BY <1>1, <1>7 DEF V!Sound
  <2> QED
    BY <1>1, <1>4, <1>10, <1>12, <2>1 DEF V!RoundTrip
<1>14. V!Returns
  BY <1>1, <1>10 DEF V!Returns
<1> QED
  BY <1>11, <1>13, <1>14 DEF V!IndInv

(* Every step of the writer and the reader. *)
LEMMA ValuesStep ==
  ASSUME V!Sound, V!IndInv, V!Next \/ UNCHANGED vvars PROVE V!IndInv'
<1>1. CASE UNCHANGED vvars
  <2>1. UNCHANGED <<pushed, wire, buf, cap, vpos, transpos, torn, got, mark>>
    BY <1>1 DEF vvars
  <2>2. V!Typed' /\ V!RoundTrip' /\ V!Returns'
    BY <2>1 DEF V!IndInv, V!Typed, V!RoundTrip, V!Returns
  <2> QED
    BY <2>2 DEF V!IndInv
<1> QED
  BY <1>1, PushKeeps, ArriveKeeps, BeginKeeps, ReadKeeps, RollbackKeeps, CommitKeeps DEF V!Next

(* octetsstream: the values that are popped are the values that were pushed, in their order, *)
(* whatever the pieces they arrive in and whatever the exceptions that interrupt the reader. *)
THEOREM ValuesRoundTrip == InitAll /\ [][NextAll]_allvars => []RoundTrip
<1>1. V!Sound
  BY ValuesAssumption
<1>2. InitAll => V!IndInv
  BY <1>1, ValuesInit DEF InitAll
<1>3. ASSUME V!IndInv, [NextAll]_allvars PROVE V!IndInv'
  <2>1. V!Next \/ UNCHANGED vvars
    BY <1>3 DEF NextAll, allvars
  <2> QED
    BY <1>1, <1>3, <2>1, ValuesStep
<1>4. V!IndInv => RoundTrip
  BY DEF V!IndInv, RoundTrip
<1> QED
  BY <1>2, <1>3, <1>4, PTL
=============================================================================
