----------------------------- MODULE LeftRight -----------------------------
(***************************************************************************)
(* bee::left_right<T> with ri_distributed_counter (thread/left_right.h):     *)
(* two instances of an object, reads that take no lock, one writer at a      *)
(* time.  A writer changes the instance readers are not sent to, redirects   *)
(* the readers, waits until nobody can still be inside the old instance,     *)
(* and repeats the change there.                                             *)
(*                                                                           *)
(* Atomicity follows the code: every load, store and fetch_add on an atomic  *)
(* is a step of its own, is_empty() reads the per-thread counters one by     *)
(* one, and an invocation of the caller's functor is an interval (the pc     *)
(* stays at "reading", "write1" or "write2" while it runs).                  *)
(***************************************************************************)
EXTENDS Naturals, Sequences, FiniteSets

CONSTANTS Readers,   \* threads that call apply_read
          Writers,   \* threads that call apply_write
          Slots,     \* _counters_nums
          SlotOf,    \* SlotOf[r]: thread_to_idx() of reader r
          Ops,       \* the functors handed to apply_write
          NoVal,     \* no value observed
          NoWriter,  \* the writer lock is free
          MaxWrites  \* bound on the writes of a behaviour

ASSUME SlotsAssumption == Slots \in Nat \ {0}
ASSUME SlotOfAssumption == SlotOf \in [Readers -> 0 .. Slots - 1]
ASSUME ReadersAssumption == IsFiniteSet(Readers)
ASSUME NoWriterAssumption == NoWriter \notin Writers
ASSUME NoValAssumption == NoVal \notin Seq(Ops)
ASSUME MaxWritesAssumption == MaxWrites \in Nat

Side == {0, 1}       \* LEFT_RIGHT: READS_LEFT, READS_RIGHT; also a version index

VARIABLES
  inst,          \* inst[s]: operations applied to _left_inst / _right_inst
  left_right,    \* _left_right
  version_index, \* _version_index
  counter,       \* counter[v][s]: _read_indic[v]._counters[s]
  writer_lock,   \* holder of _writer_lock
  rpc, wpc,      \* where each reader and each writer is
  vi,            \* reader: the version index arrive() loaded
  side,          \* reader: the instance it reads
  ret,           \* reader: what the functor returned
  op,            \* writer: the functor it applies
  local_vi,      \* writer: the version index toggle_version_and_wait() loaded
  idx            \* writer: position of the is_empty() scan

vars == <<inst, left_right, version_index, counter, writer_lock, rpc,
          wpc, vi, side, ret, op, local_vi, idx>>
shared == <<inst, left_right, version_index, counter, writer_lock>>
rvars == <<rpc, vi, side, ret>>
wvars == <<wpc, op, local_vi, idx>>

ReaderPC == {"idle", "arrive", "arrived", "reading", "depart"}
WriterPC == {"idle", "write1", "publish", "toggle", "scan_next", "store_vi",
             "scan_prev", "write2", "unlock"}

GotoR(r, to) == rpc' = [rpc EXCEPT ![r] = to]
GotoW(w, to) == wpc' = [wpc EXCEPT ![w] = to]

Init ==
  /\ inst = [s \in Side |-> << >>]
  /\ left_right = 0
  /\ version_index = 0
  /\ counter = [v \in Side |-> [s \in 0 .. Slots - 1 |-> 0]]
  /\ writer_lock = NoWriter
  /\ rpc = [r \in Readers |-> "idle"]
  /\ wpc = [w \in Writers |-> "idle"]
  /\ vi = [r \in Readers |-> 0]
  /\ side = [r \in Readers |-> 0]
  /\ ret = [r \in Readers |-> NoVal]
  /\ op \in [Writers -> Ops]
  /\ local_vi = [w \in Writers |-> 0]
  /\ idx = [w \in Writers |-> 0]

(***************************************************************************)
(* apply_read                                                               *)
(***************************************************************************)

(* arrive(): load the version index ... *)
LoadVersion(r) ==
  /\ rpc[r] = "idle"
  /\ vi' = [vi EXCEPT ![r] = version_index]
  /\ GotoR(r, "arrive")
  /\ UNCHANGED <<shared, wvars, side, ret>>

(* ... and count this thread in on that indicator. *)
Arrive(r) ==
  /\ rpc[r] = "arrive"
  /\ counter' = [counter EXCEPT ![vi[r]][SlotOf[r]] = @ + 1]
  /\ GotoR(r, "arrived")
  /\ UNCHANGED <<inst, left_right, version_index, writer_lock, wvars, vi, side, ret>>

(* Choose the instance; the functor starts to read it. *)
LoadSide(r) ==
  /\ rpc[r] = "arrived"
  /\ side' = [side EXCEPT ![r] = left_right]
  /\ GotoR(r, "reading")
  /\ UNCHANGED <<shared, wvars, vi, ret>>

(* The functor returns. *)
FinishRead(r) ==
  /\ rpc[r] = "reading"
  /\ ret' = [ret EXCEPT ![r] = inst[side[r]]]
  /\ GotoR(r, "depart")
  /\ UNCHANGED <<shared, wvars, vi, side>>

(* depart(vi) *)
Depart(r) ==
  /\ rpc[r] = "depart"
  /\ counter' = [counter EXCEPT ![vi[r]][SlotOf[r]] = @ - 1]
  /\ GotoR(r, "idle")
  /\ UNCHANGED <<inst, left_right, version_index, writer_lock, wvars, vi, side, ret>>

(***************************************************************************)
(* apply_write                                                              *)
(***************************************************************************)

(* Take the writer lock; the functor starts on the instance not being read. *)
LockWriter(w) ==
  /\ wpc[w] = "idle"
  /\ writer_lock = NoWriter
  /\ Len(inst[left_right]) < MaxWrites
  /\ writer_lock' = w
  /\ \E o \in Ops : op' = [op EXCEPT ![w] = o]
  /\ GotoW(w, "write1")
  /\ UNCHANGED <<inst, left_right, version_index, counter, rvars, local_vi, idx>>

(* Mutant: the functor is first applied to the instance being read. *)
WriteFirstInPlace(w) ==
  /\ wpc[w] = "write1"
  /\ inst' = [inst EXCEPT ![left_right] = Append(@, op[w])]
  /\ GotoW(w, "publish")
  /\ UNCHANGED <<left_right, version_index, counter, writer_lock, rvars, op, local_vi, idx>>

(* The first invocation of the functor ends. *)
WriteFirst(w) ==
  /\ wpc[w] = "write1"
  /\ inst' = [inst EXCEPT ![1 - left_right] = Append(@, op[w])]
  /\ GotoW(w, "publish")
  /\ UNCHANGED <<left_right, version_index, counter, writer_lock, rvars, op, local_vi, idx>>

(* _left_right.store: readers from now on go to the changed instance. *)
Publish(w) ==
  /\ wpc[w] = "publish"
  /\ left_right' = 1 - left_right
  /\ GotoW(w, "toggle")
  /\ UNCHANGED <<inst, version_index, counter, writer_lock, rvars, op, local_vi, idx>>

(* toggle_version_and_wait() starts. *)
LoadLocalVersion(w) ==
  /\ wpc[w] = "toggle"
  /\ local_vi' = [local_vi EXCEPT ![w] = version_index]
  /\ idx' = [idx EXCEPT ![w] = 0]
  /\ GotoW(w, "scan_next")
  /\ UNCHANGED <<shared, rvars, op>>

(* One counter of is_empty(): go on to the next one, leave the wait loop     *)
(* after the last, start over when somebody is counted in.                   *)
Scan(w, v, here, after) ==
  /\ wpc[w] = here
  /\ \/ /\ counter[v][idx[w]] > 0
        /\ idx' = [idx EXCEPT ![w] = 0]
        /\ UNCHANGED wpc
     \/ /\ counter[v][idx[w]] = 0
        /\ idx[w] + 1 < Slots
        /\ idx' = [idx EXCEPT ![w] = @ + 1]
        /\ UNCHANGED wpc
     \/ /\ counter[v][idx[w]] = 0
        /\ idx[w] + 1 = Slots
        /\ idx' = [idx EXCEPT ![w] = 0]
        /\ GotoW(w, after)
  /\ UNCHANGED <<shared, rvars, op, local_vi>>

(* Mutant: no wait for stragglers of the previous toggle. *)
WaitNextSkipped(w) ==
  /\ wpc[w] = "scan_next"
  /\ GotoW(w, "store_vi")
  /\ UNCHANGED <<shared, rvars, op, local_vi, idx>>

WaitNext(w) == Scan(w, 1 - local_vi[w], "scan_next", "store_vi")

(* Mutant: the version index keeps its value. *)
ToggleVersionForgotten(w) ==
  /\ wpc[w] = "store_vi"
  /\ GotoW(w, "scan_prev")
  /\ UNCHANGED <<shared, rvars, op, local_vi, idx>>

(* _version_index.store(next_vi) *)
ToggleVersion(w) ==
  /\ wpc[w] = "store_vi"
  /\ version_index' = 1 - local_vi[w]
  /\ GotoW(w, "scan_prev")
  /\ UNCHANGED <<inst, left_right, counter, writer_lock, rvars, op, local_vi, idx>>

WaitPrev(w) == Scan(w, local_vi[w], "scan_prev", "write2")

(* Mutant: the second instance is not brought up to date. *)
WriteSecondForgotten(w) ==
  /\ wpc[w] = "write2"
  /\ GotoW(w, "unlock")
  /\ UNCHANGED <<shared, rvars, op, local_vi, idx>>

(* The second invocation of the functor ends. *)
WriteSecond(w) ==
  /\ wpc[w] = "write2"
  /\ inst' = [inst EXCEPT ![1 - left_right] = Append(@, op[w])]
  /\ GotoW(w, "unlock")
  /\ UNCHANGED <<left_right, version_index, counter, writer_lock, rvars, op, local_vi, idx>>

(* lock_guard's destructor. *)
UnlockWriter(w) ==
  /\ wpc[w] = "unlock"
  /\ writer_lock' = NoWriter
  /\ GotoW(w, "idle")
  /\ UNCHANGED <<inst, left_right, version_index, counter, rvars, op, local_vi, idx>>

ReadStep(r) == Arrive(r) \/ LoadSide(r) \/ FinishRead(r) \/ Depart(r)

WriteStep(w) ==
  \/ WriteFirst(w) \/ Publish(w) \/ LoadLocalVersion(w) \/ WaitNext(w)
  \/ ToggleVersion(w) \/ WaitPrev(w) \/ WriteSecond(w) \/ UnlockWriter(w)

Next ==
  \/ \E r \in Readers : LoadVersion(r) \/ ReadStep(r)
  \/ \E w \in Writers : LockWriter(w) \/ WriteStep(w)

Spec == Init /\ [][Next]_vars

(* A thread inside apply_read or apply_write keeps being scheduled; nobody   *)
(* is obliged to start an operation.                                         *)
FairSpec ==
  /\ Spec
  /\ \A r \in Readers : WF_vars(ReadStep(r))
  /\ \A w \in Writers : WF_vars(WriteStep(w))

-----------------------------------------------------------------------------
(* Every variable stays in its range. *)
TypeOK ==
  /\ inst \in [Side -> Seq(Ops)]
  /\ left_right \in Side
  /\ version_index \in Side
  /\ counter \in [Side -> [0 .. Slots - 1 -> Nat]]
  /\ writer_lock \in Writers \cup {NoWriter}
  /\ rpc \in [Readers -> ReaderPC]
  /\ wpc \in [Writers -> WriterPC]
  /\ vi \in [Readers -> Side]
  /\ side \in [Readers -> Side]
  /\ ret \in [Readers -> Seq(Ops) \cup {NoVal}]
  /\ op \in [Writers -> Ops]
  /\ local_vi \in [Writers -> Side]
  /\ idx \in [Writers -> 0 .. Slots - 1]

(* apply_write's functor never runs on an instance a reader's functor is      *)
(* inside of: the writer is alone on the instance it changes, both the first  *)
(* and the second time, although readers take no lock (left_right.h,          *)
(* apply_read / apply_write).                                                 *)
NoReadDuringWrite ==
  \A w \in Writers, r \in Readers :
    wpc[w] \in {"write1", "write2"} /\ rpc[r] = "reading" => side[r] = left_right

(* Whenever no write is under way the two instances have had the same         *)
(* operations applied in the same order, so the next redirection shows        *)
(* readers nothing but the new write (left_right.h, apply_write).             *)
InstancesAgree == writer_lock = NoWriter => inst[0] = inst[1]

(* A thread inside apply_write finishes even if readers keep coming: the      *)
(* two-indicator wait of toggle_version_and_wait() drains.                    *)
WriterFinishes == \A w \in Writers : wpc[w] = "toggle" ~> wpc[w] = "idle"

(* left_right<T> is an atomic object: a write takes effect where              *)
(* _left_right is stored, a read where it is loaded.                          *)
Snap == [r \in Readers |-> CASE rpc[r] = "reading" -> inst[side[r]]
                             [] rpc[r] = "depart" -> ret[r]
                             [] OTHER -> NoVal]

Atomic == INSTANCE AtomicObject WITH val <- inst[left_right], snap <- Snap

(* apply_read and apply_write implement AtomicObject: no read ever returns    *)
(* a half-applied write or mixes two versions (left_right.h).                 *)
ImplementsAtomicObject == Atomic!ASpec
-----------------------------------------------------------------------------
(* The inductive invariant behind NoReadDuringWrite and InstancesAgree.       *)

(* The lock is held exactly by the writer that is inside apply_write. *)
LockInv == \A w \in Writers : wpc[w] # "idle" <=> writer_lock = w

(* The readers indicator v counts in slot s. *)
Counted(v, s) == {r \in Readers : /\ vi[r] = v
                                  /\ SlotOf[r] = s
                                  /\ rpc[r] \in {"arrived", "reading", "depart"}}

CountInv == \A v \in Side : \A s \in 0 .. Slots - 1 :
              counter[v][s] = Cardinality(Counted(v, s))

(* What toggle_version_and_wait() has established so far about a reader       *)
(* that is still inside the instance readers no longer go to.                 *)
MayBeOld(w, r) ==
  \/ wpc[w] = "toggle"
  \/ wpc[w] = "scan_next" /\ (vi[r] = 1 - local_vi[w] => SlotOf[r] >= idx[w])
  \/ wpc[w] = "store_vi" /\ vi[r] = local_vi[w] /\ idx[w] = 0
  \/ wpc[w] = "scan_prev" /\ vi[r] = local_vi[w] /\ SlotOf[r] >= idx[w]

OldReadersInv ==
  \A r \in Readers : rpc[r] = "reading" /\ side[r] # left_right =>
    writer_lock \in Writers /\ MayBeOld(writer_lock, r)

(* How far apart the two instances are. *)
ContentInv ==
  /\ writer_lock = NoWriter => inst[0] = inst[1]
  /\ \A w \in Writers :
       /\ wpc[w] \in {"write1", "unlock"} => inst[0] = inst[1]
       /\ wpc[w] = "publish" => inst[1 - left_right] = Append(inst[left_right], op[w])
       /\ wpc[w] \in {"toggle", "scan_next", "store_vi", "scan_prev", "write2"} =>
            inst[left_right] = Append(inst[1 - left_right], op[w])

(* A reader about to depart has a result. *)
ReturnInv == \A r \in Readers : rpc[r] = "depart" => ret[r] \in Seq(Ops)

IndInv ==
  TypeOK /\ LockInv /\ CountInv /\ OldReadersInv /\ ContentInv /\ ReturnInv
=============================================================================
