------------------------------ MODULE Marshal ------------------------------
(***************************************************************************)
(* octetsstream (common/marshal.h, octets.h, varint.h, io/bytes_order.h):    *)
(* values pushed by a writer, received in pieces of any size and popped by a  *)
(* reader between BEGIN, COMMIT and ROLLBACK.  A pop that runs out of data    *)
(* throws, in the middle of a container too, and the reader rolls back and    *)
(* tries again when more has arrived.                                        *)
(*                                                                           *)
(* A value is [t, v]: "pod" (several octets, swapped to network order),       *)
(* "int" and "uint" of Width bits (compact), "octets", "pair" of ints,        *)
(* "list" of uints.  An octet is [bits, more] as in a varint.                 *)
(***************************************************************************)
EXTENDS Integers, Sequences, SequencesExt

CONSTANTS GroupBits, \* payload bits of a varint octet: 7
          MaxOctets, \* octets read_varint() looks at before shift reaches 64: 10
          Width,     \* bits of an int, 16, 32 or 64
          MinCap,    \* the smallest capacity of an octets: 16
          ShrinkAt,  \* try_shrink() drops what is read beyond this position: 0x100000
          Values,    \* values that are pushed
          MaxValues  \* bound on the values pushed

VARIABLES
  pushed,        \* history: the values pushed
  wire,          \* encoded octets that have not arrived
  buf, cap,      \* _data and its capacity
  pos, transpos, \* _pos, _transpos
  torn,          \* an exception is on its way to the reader's ROLLBACK
  got, mark      \* history: the values popped, and how many there were at transpos

vars == <<pushed, wire, buf, cap, pos, transpos, torn, got, mark>>

Init ==
  /\ pushed = <<>> /\ wire = <<>>
  /\ buf = <<>> /\ cap = MinCap
  /\ pos = 0 /\ transpos = 0 /\ torn = FALSE
  /\ got = <<>> /\ mark = 0

-----------------------------------------------------------------------------
(* push() *)

Radix == 2 ^ GroupBits

WriteVarint[value \in Nat] ==
  IF value < Radix
  THEN <<[bits |-> value, more |-> FALSE]>>
  ELSE <<[bits |-> value % Radix, more |-> TRUE]>> \o WriteVarint[value \div Radix]

(* Mutant: the sign is shifted away, not folded in. *)
EncodeZigzagNoSign(n) == (2 * n) % 2 ^ Width

(* (n << 1) ^ (n >> Width-1): the exclusive or with all ones is the complement. *)
EncodeZigzag(n) ==
  LET shifted == (2 * n) % 2 ^ Width IN IF n < 0 THEN 2 ^ Width - 1 - shifted ELSE shifted

Raw(bits) == [i \in DOMAIN bits |-> [bits |-> bits[i], more |-> FALSE]]

HostToNetwork(bits) == Reverse(bits)

(* Some pieces from the k-th on, one behind the other. *)
JoinFrom(pieces, k) ==
  LET octets[n \in 1 .. Len(pieces) + 1] ==
        IF n > Len(pieces) THEN << >> ELSE pieces[n] \o octets[n + 1]
  IN octets[k]

(* push() of a value; a container is its size and its elements. *)
Push(x) ==
  CASE x.t = "pod" -> Raw(HostToNetwork(x.v))
    [] x.t = "uint" -> WriteVarint[x.v]
    [] x.t = "int" -> WriteVarint[EncodeZigzag(x.v)]
    [] x.t = "octets" -> WriteVarint[Len(x.v)] \o Raw(x.v)
    [] x.t = "pair" -> WriteVarint[EncodeZigzag(x.v[1])] \o WriteVarint[EncodeZigzag(x.v[2])]
    [] x.t = "list" -> WriteVarint[Len(x.v)]
                         \o JoinFrom([i \in DOMAIN x.v |-> WriteVarint[x.v[i]]], 1)

-----------------------------------------------------------------------------
(* pop(): [ok, v, next]; an exception leaves _pos at next. *)

Thrown(p) == [ok |-> FALSE, v |-> 0, next |-> p]
Popped(v, p) == [ok |-> TRUE, v |-> v, next |-> p]

ReadVarint(p) ==
  LET ends == {i \in p + 1 .. Len(buf) : i <= p + MaxOctets /\ ~buf[i].more}
      last == Min(ends)
      value[i \in p + 1 .. Len(buf)] ==
        buf[i].bits + IF buf[i].more /\ i < Len(buf) THEN Radix * value[i + 1] ELSE 0
  IN IF ends = {} THEN Thrown(p) ELSE Popped(value[p + 1], last)

(* (n >> 1) ^ -(n & 1) *)
DecodeZigzag(u) == IF u % 2 = 1 THEN -(u \div 2) - 1 ELSE u \div 2

PopInt(p) ==
  LET r == ReadVarint(p) IN IF r.ok THEN Popped(DecodeZigzag(r.v), r.next) ELSE r

(* n octets, when they are there. *)
PopRaw(p, n) ==
  IF p + n > Len(buf) THEN Thrown(p)
  ELSE Popped([i \in 1 .. n |-> buf[p + i].bits], p + n)

PopOctets(p) ==
  LET size == ReadVarint(p) IN IF size.ok THEN PopRaw(size.next, size.v) ELSE size

NetworkToHost(bits) == Reverse(bits)

PopPod(p, n) ==
  LET r == PopRaw(p, n) IN IF r.ok THEN Popped(NetworkToHost(r.v), r.next) ELSE r

PopPair(p) ==
  LET first == PopInt(p)
      second == PopInt(first.next)
  IN IF first.ok /\ second.ok THEN Popped(<<first.v, second.v>>, second.next)
     ELSE Thrown(first.next)

(* The elements of a container, one after the other: elem[n] is the list after n. *)
PopContainer(p) ==
  LET size == ReadVarint(p)
      elem[n \in 0 .. size.v] ==
        IF n = 0 THEN Popped(<<>>, size.next)
        ELSE LET before == elem[n - 1]
                 r == ReadVarint(before.next)
             IN IF before.ok /\ r.ok THEN Popped(Append(before.v, r.v), r.next)
                ELSE Thrown(before.next)
  IN IF size.ok THEN elem[size.v] ELSE size

(* pop() of a value of x's type (and, a pod, of x's size). *)
Pop(x) ==
  CASE x.t = "pod" -> PopPod(pos, Len(x.v))
    [] x.t = "uint" -> ReadVarint(pos)
    [] x.t = "int" -> PopInt(pos)
    [] x.t = "octets" -> PopOctets(pos)
    [] x.t = "pair" -> PopPair(pos)
    [] x.t = "list" -> PopContainer(pos)

-----------------------------------------------------------------------------
(* The smallest power of two that is not below n. *)
PowerAbove(n) ==
  LET power[m \in 0 .. n] ==
        IF m < 2 THEN 1 ELSE IF power[m - 1] >= m THEN power[m - 1] ELSE 2 * power[m - 1]
  IN power[n]

(* frob_size() *)
FrobSize(n) == IF PowerAbove(n) < MinCap THEN MinCap ELSE PowerAbove(n)

(* octets::append() and reserve(). *)
AppendOctets(data) ==
  /\ buf' = buf \o data
  /\ cap' = IF cap >= Len(buf') THEN cap ELSE FrobSize(Len(buf'))

(* A writer pushes a value. *)
Write(x) ==
  /\ Len(pushed) < MaxValues
  /\ pushed' = Append(pushed, x)
  /\ wire' = wire \o Push(x)
  /\ UNCHANGED <<buf, cap, pos, transpos, torn, got, mark>>

(* n octets arrive and are appended to the reader's stream. *)
Arrive(n) ==
  /\ ~torn
  /\ n <= Len(wire)
  /\ AppendOctets(SubSeq(wire, 1, n))
  /\ wire' = SubSeq(wire, n + 1, Len(wire))
  /\ UNCHANGED <<pushed, pos, transpos, torn, got, mark>>

Begin ==
  /\ ~torn
  /\ transpos' = pos /\ mark' = Len(got)
  /\ UNCHANGED <<pushed, wire, buf, cap, pos, torn, got>>

(* The reader pops a value of the type that comes next; an exception ends in a rollback. *)
Read ==
  /\ ~torn /\ Len(got) < Len(pushed)
  /\ LET x == pushed[Len(got) + 1]
         r == Pop(x)
     IN /\ pos' = r.next
        /\ torn' = ~r.ok
        /\ got' = IF r.ok THEN Append(got, [t |-> x.t, v |-> r.v]) ELSE got
  /\ UNCHANGED <<pushed, wire, buf, cap, transpos, mark>>

Rollback ==
  /\ transpos <= Len(buf)
  /\ pos' = transpos /\ torn' = FALSE
  /\ got' = SubSeq(got, 1, mark)
  /\ UNCHANGED <<pushed, wire, buf, cap, transpos, mark>>

(* Beyond ShrinkAt what has been read goes, and with it the way back. *)
TryShrink ==
  IF pos > ShrinkAt
  THEN /\ buf' = SubSeq(buf, pos + 1, Len(buf)) /\ pos' = 0 /\ transpos' = 0
       /\ mark' = Len(got)
  ELSE UNCHANGED <<buf, pos, transpos, mark>>

Commit ==
  /\ ~torn
  /\ TryShrink
  /\ UNCHANGED <<pushed, wire, cap, torn, got>>

Next ==
  \/ \E x \in Values : Write(x)
  \/ \E n \in 1 .. Len(wire) : Arrive(n)
  \/ Begin \/ Read \/ Rollback \/ Commit

Spec == Init /\ [][Next]_vars

-----------------------------------------------------------------------------
(* However the octets are cut into pieces, and wherever an exception interrupted    *)
(* the reader before it rolled back, it gets the values that were pushed, in their  *)
(* order, and what it has not read is exactly the encoding of the rest; the buffer  *)
(* never holds more than its capacity (octetsstream push, pop and Transaction).     *)
RoundTrip ==
  /\ got = SubSeq(pushed, 1, Len(got))
  /\ ~torn => SubSeq(buf, pos + 1, Len(buf)) \o wire
                = JoinFrom([i \in DOMAIN pushed |-> Push(pushed[i])], Len(got) + 1)
  /\ Len(buf) <= cap /\ transpos <= Len(buf)

(***************************************************************************)
(* The inductive invariant of RoundTrip, and what it rests on: values that    *)
(* have the type their tag says, and integers that fit into Width bits.      *)
(***************************************************************************)
Ints == -(2 ^ (Width - 1)) .. 2 ^ (Width - 1) - 1

Storable(x) ==
  /\ x = [t |-> x.t, v |-> x.v]
  /\ \/ x.t \in {"pod", "octets", "list"} /\ x.v \in Seq(Nat)
     \/ x.t = "uint" /\ x.v \in Nat
     \/ x.t = "int" /\ x.v \in Ints
     \/ x.t = "pair" /\ x.v \in Ints \X Ints

Sound ==
  /\ Radix \in Nat \ {0, 1} /\ 2 ^ (Width - 1) \in Nat \ {0} /\ 2 ^ Width = 2 * 2 ^ (Width - 1)
  /\ MaxOctets \in Nat /\ MinCap \in Nat /\ ShrinkAt \in Nat
  /\ \A x \in Values : Storable(x)

Octets == [bits : Nat, more : BOOLEAN]

Typed ==
  /\ pushed \in Seq(Values) /\ wire \in Seq(Octets) /\ buf \in Seq(Octets) /\ cap \in Nat
  /\ got \in Seq(Values) /\ torn \in BOOLEAN
  /\ transpos \in 0 .. Len(buf) /\ (~torn => pos \in 0 .. Len(buf))
  /\ Len(got) <= Len(pushed) /\ mark \in 0 .. Len(got)

(* The way back: what is behind transpos is the encoding of what was not read there. *)
Returns ==
  SubSeq(buf, transpos + 1, Len(buf)) \o wire
    = JoinFrom([i \in DOMAIN pushed |-> Push(pushed[i])], mark + 1)

IndInv == Typed /\ RoundTrip /\ Returns
=============================================================================
