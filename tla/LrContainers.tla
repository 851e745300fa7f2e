---------------------------- MODULE LrContainers ----------------------------
(***************************************************************************)
(* The containers of thread/lr_*.h: each keeps two instances of a standard   *)
(* container behind a left_right (module LeftRight), and hands apply_write() *)
(* a function that changes one instance.  left_right calls it twice, first   *)
(* on the instance nobody reads, then, once readers have moved over, on the  *)
(* other.  An argument taken by value reference is given to both calls; one  *)
(* that is moved is spent by the first, and the second finds a moved-from    *)
(* value.  lr_map::operator[] inserts under apply_read().                    *)
(*                                                                           *)
(* A behaviour is about one container, of the kind chosen at the start.      *)
(***************************************************************************)
EXTENDS Naturals, Sequences

CONSTANTS Values,  \* elements and keys
          Moved,   \* a moved-from element, and what operator[] inserts
          MaxLen   \* bound on the elements of an instance

VARIABLES
  kind,     \* the container class
  inst,     \* the two instances: a sequence, or for the associative ones a set of keys
  side,     \* the instance that is read
  job,      \* the write between its two calls
  ideal,    \* history: the container as its callers mean it
  tainted   \* history: an element was moved in, or operator[] has inserted

vars == <<kind, inst, side, job, ideal, tainted>>

Sides == {"left", "right"}
Other(s) == IF s = "left" THEN "right" ELSE "left"
Ordered == {"list", "vector", "deque"}
Keyed == {"map", "unordered_map", "set"}

NoJob == [op |-> "none", arg |-> Moved, move |-> FALSE]

(* Both instances are built from the same arguments. *)
Init ==
  /\ kind \in Ordered \cup Keyed
  /\ ideal = IF kind \in Ordered THEN << >> ELSE {}
  /\ inst = [s \in Sides |-> ideal]
  /\ side = "left"
  /\ job = NoJob
  /\ tainted = FALSE

(***************************************************************************)
(* What the functions handed to apply_write() do to one instance c.          *)
(***************************************************************************)

(* lr_list *)
ListWrite(op, c, v) ==
  CASE op = "push_front" -> <<v>> \o c
    [] op = "push_back"  -> Append(c, v)
    [] op = "pop_front"  -> Tail(c)
    [] op = "pop_back"   -> SubSeq(c, 1, Len(c) - 1)
    [] op = "clear"      -> << >>

(* lr_deque *)
DequeWrite(op, c, v) == ListWrite(op, c, v)

(* lr_vector *)
VectorWrite(op, c, v) ==
  CASE op = "push_back" -> Append(c, v)
    [] op = "pop_back"  -> SubSeq(c, 1, Len(c) - 1)
    [] op = "clear"     -> << >>

(* lr_map: emplace keeps an element that is there. *)
MapWrite(op, c, v) ==
  CASE op = "emplace" -> c \cup {v}
    [] op = "erase"   -> c \ {v}
    [] op = "clear"   -> {}

(* lr_unordered_map: operator[] is a write here. *)
UnorderedMapWrite(op, c, v) == IF op = "subscript" THEN c \cup {v} ELSE MapWrite(op, c, v)

(* lr_set *)
SetWrite(op, c, v) == MapWrite(op, c, v)

Apply(op, c, v) ==
  CASE kind = "list"          -> ListWrite(op, c, v)
    [] kind = "deque"         -> DequeWrite(op, c, v)
    [] kind = "vector"        -> VectorWrite(op, c, v)
    [] kind = "map"           -> MapWrite(op, c, v)
    [] kind = "unordered_map" -> UnorderedMapWrite(op, c, v)
    [] kind = "set"           -> SetWrite(op, c, v)

(* The writes a caller may ask for.  pop on an empty sequence is undefined in   *)
(* the standard container and left to the caller; only the functions with a     *)
(* T&& or Args&& parameter move.                                                *)
Jobs ==
  LET inserts == IF kind = "vector" THEN {"push_back"}
                 ELSE IF kind \in Ordered THEN {"push_front", "push_back"} ELSE {"emplace"}
      removes == IF kind \in Keyed THEN {"erase"}
                 ELSE IF kind = "vector" THEN {"pop_back"} ELSE {"pop_front", "pop_back"}
      full == kind \in Ordered /\ Len(ideal) >= MaxLen
      bare == kind \in Ordered /\ ideal = << >> IN
  [op : IF full THEN {} ELSE inserts, arg : Values, move : BOOLEAN]
  \cup [op : IF bare THEN {} ELSE removes, arg : Values, move : {FALSE}]
  \cup [op : {"clear"}, arg : {Moved}, move : {FALSE}]
  \cup [op : IF kind = "unordered_map" THEN {"subscript"} ELSE {}, arg : Values, move : {FALSE}]

(* Mutant: the first call changes the instance that is being read. *)
FirstCallInPlace(j) ==
  /\ job = NoJob
  /\ inst' = [inst EXCEPT ![side] = Apply(j.op, @, j.arg)]
  /\ ideal' = Apply(j.op, ideal, j.arg)
  /\ tainted' = (tainted \/ j.move)
  /\ side' = Other(side)
  /\ job' = j
  /\ UNCHANGED kind

(* apply_write(): the first call, on the instance that is not read, and readers  *)
(* are sent there.                                                              *)
FirstCall(j) ==
  /\ job = NoJob
  /\ inst' = [inst EXCEPT ![Other(side)] = Apply(j.op, @, j.arg)]
  /\ ideal' = Apply(j.op, ideal, j.arg)
  /\ tainted' = (tainted \/ j.move)
  /\ side' = Other(side)
  /\ job' = j
  /\ UNCHANGED kind

(* The second call, with what the first has left of the argument. *)
SecondCall ==
  /\ job # NoJob
  /\ inst' = [inst EXCEPT ![Other(side)] = Apply(job.op, @, IF job.move THEN Moved ELSE job.arg)]
  /\ job' = NoJob
  /\ UNCHANGED <<kind, side, ideal, tainted>>

(* lr_map::operator[] under apply_read(): a missing key goes into the instance   *)
(* the reader happens to be on.                                                 *)
SubscriptRead(k) ==
  /\ kind = "map"
  /\ inst' = [inst EXCEPT ![side] = @ \cup {k}]
  /\ tainted' = (tainted \/ k \notin inst[side])
  /\ UNCHANGED <<kind, side, job, ideal>>

Next ==
  \/ \E j \in Jobs : FirstCall(j)
  \/ SecondCall
  \/ \E k \in Values : SubscriptRead(k)

Spec == Init /\ [][Next]_vars

(* Equal but for elements that were moved in. *)
Alike(c, d) ==
  /\ Len(c) = Len(d)
  /\ \A i \in 1 .. Len(c) : c[i] = d[i] \/ Moved \in {c[i], d[i]}

(* What a reader finds is the container its users mean: a sequence of the right   *)
(* length and order however its elements came in, holding at worst moved-from     *)
(* values, and, while nothing was moved in and operator[] of a map has not        *)
(* inserted, exactly the right elements (apply_write's two calls, lr_*.h).        *)
ReadersSeeIdeal ==
  /\ kind \in Ordered => Alike(inst[side], ideal)
  /\ ~tainted => inst[side] = ideal

(***************************************************************************)
(* The inductive invariant of ReadersSeeIdeal.                               *)
(***************************************************************************)

Contents == IF kind \in Ordered THEN Seq(Values \cup {Moved}) ELSE SUBSET (Values \cup {Moved})

Matches(c) ==
  /\ kind \in Ordered => Alike(c, ideal)
  /\ ~tainted => c = ideal

(* The instance nobody reads as the second call will leave it. *)
Upcoming ==
  LET c == inst[Other(side)] IN
  IF job = NoJob THEN c ELSE Apply(job.op, c, IF job.move THEN Moved ELSE job.arg)

IndInv ==
  /\ kind \in Ordered \cup Keyed /\ side \in Sides /\ tainted \in BOOLEAN
  /\ DOMAIN inst = Sides /\ {ideal, inst[side], Upcoming} \subseteq Contents
  /\ Matches(inst[side]) /\ Matches(Upcoming)
=============================================================================
