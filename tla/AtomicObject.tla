---------------------------- MODULE AtomicObject ----------------------------
(***************************************************************************)
(* What left_right<T> (thread/left_right.h) promises to its users: one      *)
(* object that every write changes in one indivisible step, and that every  *)
(* read observes as it was at one instant of the read.  The object is the   *)
(* sequence of the write operations applied to it.                          *)
(***************************************************************************)
EXTENDS Sequences

CONSTANTS Readers,   \* threads that call apply_read
          Ops,       \* the functors handed to apply_write
          NoVal      \* a reader that has not observed the object yet

VARIABLES val,       \* the operations applied so far
          snap       \* snap[r]: what reader r's current read has observed

avars == <<val, snap>>

AInit ==
  /\ val = << >>
  /\ snap = [r \in Readers |-> NoVal]

(* A write takes effect. *)
AWrite ==
  /\ \E op \in Ops : val' = Append(val, op)
  /\ UNCHANGED snap

(* A read takes its view of the whole object at once. *)
ARead(r) ==
  /\ snap[r] = NoVal
  /\ snap' = [snap EXCEPT ![r] = val]
  /\ UNCHANGED val

(* The read returns. *)
AReturn(r) ==
  /\ snap[r] # NoVal
  /\ snap' = [snap EXCEPT ![r] = NoVal]
  /\ UNCHANGED val

ANext == AWrite \/ \E r \in Readers : ARead(r) \/ AReturn(r)

ASpec == AInit /\ [][ANext]_avars
=============================================================================
