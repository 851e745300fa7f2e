-------------------------- MODULE LeftRight_proof --------------------------
(***************************************************************************)
(* Proofs about LeftRight for every set of readers and writers, every        *)
(* number of counters and every hash of threads to counters; and about the   *)
(* containers that are built on it.                                          *)
(***************************************************************************)
EXTENDS MCLeftRight, FiniteSetTheorems, SequenceTheorems, TLAPS

(* The constructor establishes the invariant: both instances are built from    *)
(* the same arguments, nobody is counted in.                                   *)
LEMMA InitIndInv == Init => IndInv
<1> SUFFICES ASSUME Init PROVE IndInv
  OBVIOUS
<1> USE SlotsAssumption, SlotOfAssumption, NoWriterAssumption
<1>1. TypeOK
  BY DEF Init, TypeOK, Side, ReaderPC, WriterPC
<1>2. LockInv
  BY DEF Init, LockInv
<1>3. CountInv
  <2> SUFFICES ASSUME NEW v \in Side, NEW s \in 0 .. Slots - 1
               PROVE counter[v][s] = Cardinality(Counted(v, s))
    BY DEF CountInv
  <2>1. Counted(v, s) = {}
    BY DEF Init, Counted
  <2>2. counter[v][s] = 0
    BY DEF Init
  <2> QED
    BY <2>1, <2>2, FS_EmptySet
<1>4. OldReadersInv
  BY DEF Init, OldReadersInv
<1>5. ContentInv
  BY DEF Init, ContentInv, Side
<1>6. ReturnInv
  BY DEF Init, ReturnInv
<1> QED
  BY <1>1, <1>2, <1>3, <1>4, <1>5, <1>6 DEF IndInv

(* A reader that is counted in keeps its counter positive (depart() cannot     *)
(* underflow, is_empty() cannot miss it).                                      *)
LEMMA CountedPositive ==
  ASSUME IndInv, NEW r \in Readers, rpc[r] \in {"arrived", "reading", "depart"}
  PROVE  counter[vi[r]][SlotOf[r]] \in Nat \ {0}
<1> USE SlotOfAssumption, ReadersAssumption
<1> DEFINE In == Counted(vi[r], SlotOf[r])
<1>1. r \in In
  BY DEF Counted
<1>2. IsFiniteSet(In)
  BY FS_Subset DEF Counted
<1>3. Cardinality(In) \in Nat /\ Cardinality(In) # 0
  BY <1>1, <1>2, FS_CardinalityType, FS_EmptySet
<1>4. counter[vi[r]][SlotOf[r]] = Cardinality(In)
  BY DEF IndInv, CountInv, TypeOK
<1> QED
  BY <1>3, <1>4

(* Steps of the indicators keep CountInv: arrive() adds one reader to one set  *)
(* and one to its counter, depart() removes both.                              *)
LEMMA CountStep ==
  ASSUME IndInv, [Next]_vars, TypeOK'
  PROVE  CountInv'
<1> USE SlotsAssumption, SlotOfAssumption, ReadersAssumption
<1>0. TypeOK /\ CountInv
  BY DEF IndInv
<1> SUFFICES ASSUME NEW v \in Side, NEW s \in 0 .. Slots - 1
             PROVE  counter'[v][s] = Cardinality(Counted(v, s)')
  BY DEF CountInv
<1> DEFINE In == Counted(v, s)
<1>c. counter[v][s] = Cardinality(In) /\ counter[v][s] \in Nat
  <2>1. counter[v][s] = Cardinality(In)
    BY <1>0 DEF CountInv
  <2>2. counter[v][s] \in Nat
    BY <1>0 DEF TypeOK
  <2> QED
    BY <2>1, <2>2
<1>f. IsFiniteSet(In)
  BY FS_Subset DEF Counted
<1>1. ASSUME NEW r \in Readers, Arrive(r)
      PROVE  counter'[v][s] = Cardinality(In')
  <2>1. CASE v = vi[r] /\ s = SlotOf[r]
    <3>1. /\ vi' = vi
          /\ rpc[r] = "arrive" /\ rpc'[r] = "arrived"
          /\ \A q \in Readers : q # r => rpc'[q] = rpc[q]
      BY <1>0, <1>1 DEF Arrive, GotoR, TypeOK
    <3>2. In' = In \cup {r}
      BY <2>1, <3>1 DEF Counted
    <3>3. r \notin In
      BY <3>1 DEF Counted
    <3>4. counter'[v][s] = counter[v][s] + 1
      BY <1>0, <1>1, <2>1 DEF Arrive, TypeOK
    <3> QED
      BY <3>2, <3>3, <3>4, <1>c, <1>f, FS_AddElement, ZenonT(30)
  <2>2. CASE ~(v = vi[r] /\ s = SlotOf[r])
    <3>1. In' = In
      BY <1>0, <1>1, <2>2 DEF Counted, Arrive, GotoR, TypeOK
    <3>2. counter'[v][s] = counter[v][s]
      BY <1>0, <1>1, <2>2 DEF Arrive, TypeOK
    <3> QED
      BY <3>1, <3>2, <1>c
  <2> QED
    BY <2>1, <2>2
<1>2. ASSUME NEW r \in Readers, Depart(r)
      PROVE  counter'[v][s] = Cardinality(In')
  <2>1. CASE v = vi[r] /\ s = SlotOf[r]
    <3>1. In' = In \ {r} /\ r \in In
      BY <1>0, <1>2, <2>1 DEF Counted, Depart, GotoR, TypeOK
    <3>2. counter'[v][s] = counter[v][s] - 1
      BY <1>0, <1>2, <2>1 DEF Depart, TypeOK
    <3> QED
      BY <3>1, <3>2, <1>c, <1>f, FS_RemoveElement
  <2>2. CASE ~(v = vi[r] /\ s = SlotOf[r])
    <3>1. In' = In
      BY <1>0, <1>2, <2>2 DEF Counted, Depart, GotoR, TypeOK
    <3>2. counter'[v][s] = counter[v][s]
      BY <1>0, <1>2, <2>2 DEF Depart, TypeOK
    <3> QED
      BY <3>1, <3>2, <1>c
  <2> QED
    BY <2>1, <2>2
<1>3. ASSUME NEW r \in Readers, LoadVersion(r) \/ LoadSide(r) \/ FinishRead(r)
      PROVE  counter' = counter /\ In' = In
  BY <1>0, <1>3 DEF Counted, LoadVersion, LoadSide, FinishRead, GotoR, TypeOK,
                    shared
<1>4. ASSUME NEW w \in Writers, LockWriter(w) \/ WriteStep(w)
      PROVE  counter' = counter /\ In' = In
  BY <1>4 DEF Counted, LockWriter, WriteStep, WriteFirst, Publish, LoadLocalVersion,
              WaitNext, WaitPrev, Scan, ToggleVersion, WriteSecond, UnlockWriter,
              shared, rvars
<1>5. CASE UNCHANGED vars
  BY <1>5, <1>c DEF vars, Counted
<1> QED
  BY <1>1, <1>2, <1>3, <1>4, <1>5, <1>c DEF Next, ReadStep

(* Every step keeps the variables in range; that a depart() leaves a natural   *)
(* number behind needs CountInv.                                               *)
LEMMA TypeStep ==
  ASSUME IndInv, [Next]_vars
  PROVE  TypeOK'
<1> USE SlotsAssumption, SlotOfAssumption
<1>0. TypeOK
  BY DEF IndInv
<1>1. ASSUME NEW r \in Readers, Arrive(r)
      PROVE  TypeOK'
  <2>1. vi[r] \in Side /\ SlotOf[r] \in 0 .. Slots - 1
    BY <1>0 DEF TypeOK
  <2>2. counter[vi[r]] \in [0 .. Slots - 1 -> Nat]
    BY <1>0, <2>1 DEF TypeOK
  <2>3. [counter[vi[r]] EXCEPT ![SlotOf[r]] = @ + 1] \in [0 .. Slots - 1 -> Nat]
    BY <2>1, <2>2
  <2>4. counter' \in [Side -> [0 .. Slots - 1 -> Nat]]
    BY <1>0, <1>1, <2>1, <2>3 DEF TypeOK, Arrive
  <2>5. rpc' \in [Readers -> ReaderPC]
    BY <1>0, <1>1 DEF TypeOK, Arrive, GotoR, ReaderPC
  <2> QED
    BY <1>0, <1>1, <2>4, <2>5 DEF TypeOK, Arrive, wvars
<1>2. ASSUME NEW r \in Readers, Depart(r)
      PROVE  TypeOK'
  <2>1. vi[r] \in Side /\ SlotOf[r] \in 0 .. Slots - 1
    BY <1>0 DEF TypeOK
  <2>2. counter[vi[r]] \in [0 .. Slots - 1 -> Nat]
    BY <1>0, <2>1 DEF TypeOK
  <2>3. counter[vi[r]][SlotOf[r]] \in Nat \ {0}
    BY <1>2, CountedPositive DEF Depart
  <2>4. [counter[vi[r]] EXCEPT ![SlotOf[r]] = @ - 1] \in [0 .. Slots - 1 -> Nat]
    BY <2>1, <2>2, <2>3
  <2>5. counter' \in [Side -> [0 .. Slots - 1 -> Nat]]
    BY <1>0, <1>2, <2>1, <2>4 DEF TypeOK, Depart
  <2>6. rpc' \in [Readers -> ReaderPC]
    BY <1>0, <1>2 DEF TypeOK, Depart, GotoR, ReaderPC
  <2> QED
    BY <1>0, <1>2, <2>5, <2>6 DEF TypeOK, Depart, wvars
<1>3. ASSUME NEW r \in Readers, LoadVersion(r) \/ LoadSide(r) \/ FinishRead(r)
      PROVE  TypeOK'
  BY <1>0, <1>3, ZenonT(30) DEF TypeOK, LoadVersion, LoadSide, FinishRead, GotoR, shared, wvars,
                    ReaderPC
<1>4. ASSUME NEW w \in Writers, WriteFirst(w) \/ WriteSecond(w)
      PROVE  TypeOK'
  <2>1. 1 - left_right \in Side
    BY <1>0 DEF TypeOK, Side
  <2>2. Append(inst[1 - left_right], op[w]) \in Seq(Ops)
    BY <1>0, <2>1 DEF TypeOK
  <2>3. inst' \in [Side -> Seq(Ops)]
    BY <1>0, <1>4, <2>1, <2>2 DEF TypeOK, WriteFirst, WriteSecond
  <2>4. wpc' \in [Writers -> WriterPC]
    BY <1>0, <1>4 DEF TypeOK, WriteFirst, WriteSecond, GotoW, WriterPC
  <2> QED
    BY <1>0, <1>4, <2>3, <2>4 DEF TypeOK, WriteFirst, WriteSecond, rvars
<1>5. ASSUME NEW w \in Writers, LockWriter(w) \/ UnlockWriter(w)
      PROVE  TypeOK'
  <2>1. wpc' \in [Writers -> WriterPC]
    BY <1>0, <1>5 DEF TypeOK, LockWriter, UnlockWriter, GotoW, WriterPC
  <2> QED
    BY <1>0, <1>5, <2>1 DEF TypeOK, LockWriter, UnlockWriter, rvars
<1>6. ASSUME NEW w \in Writers, Publish(w) \/ LoadLocalVersion(w) \/ ToggleVersion(w)
      PROVE  TypeOK'
  <2>0. 0 \in 0 .. Slots - 1 /\ \A x \in Side : 1 - x \in Side
    BY DEF Side
  <2>1. CASE Publish(w)
    BY <1>0, <2>0, <2>1 DEF TypeOK, Publish, GotoW, WriterPC, rvars
  <2>2. CASE LoadLocalVersion(w)
    BY <1>0, <2>0, <2>2 DEF TypeOK, LoadLocalVersion, GotoW, WriterPC, shared, rvars
  <2>3. CASE ToggleVersion(w)
    <3>1. local_vi[w] \in Side
      BY <1>0 DEF TypeOK
    <3> QED
      BY <1>0, <2>0, <2>3, <3>1 DEF TypeOK, ToggleVersion, GotoW, WriterPC, rvars
  <2> QED
    BY <1>6, <2>1, <2>2, <2>3
<1>7. ASSUME NEW w \in Writers, WaitNext(w) \/ WaitPrev(w)
      PROVE  TypeOK'
  <2>1. idx' \in [Writers -> 0 .. Slots - 1]
    <3>1. \/ idx' = [idx EXCEPT ![w] = 0]
          \/ idx[w] + 1 < Slots /\ idx' = [idx EXCEPT ![w] = @ + 1]
      BY <1>7 DEF WaitNext, WaitPrev, Scan
    <3>2. idx \in [Writers -> 0 .. Slots - 1] /\ idx[w] \in 0 .. Slots - 1
      BY <1>0 DEF TypeOK
    <3> QED
      BY <3>1, <3>2
  <2>2. wpc' \in [Writers -> WriterPC]
    BY <1>0, <1>7 DEF TypeOK, WaitNext, WaitPrev, Scan, GotoW, WriterPC
  <2> QED
    BY <1>0, <1>7, <2>1, <2>2 DEF TypeOK, WaitNext, WaitPrev, Scan, shared, rvars
<1>8. CASE UNCHANGED vars
  BY <1>0, <1>8 DEF TypeOK, vars
<1> QED
  BY <1>1, <1>2, <1>3, <1>4, <1>5, <1>6, <1>7, <1>8 DEF Next, ReadStep, WriteStep

(* Only LockWriter takes the lock and only UnlockWriter gives it back. *)
LEMMA LockStep ==
  ASSUME IndInv, [Next]_vars
  PROVE  LockInv'
<1> USE NoWriterAssumption
<1>0. TypeOK /\ LockInv
  BY DEF IndInv
<1>1. ASSUME NEW r \in Readers, LoadVersion(r) \/ ReadStep(r)
      PROVE  LockInv'
  <2>1. UNCHANGED <<writer_lock, wpc>>
    BY <1>1 DEF LoadVersion, ReadStep, Arrive, LoadSide, FinishRead, Depart, shared,
                wvars
  <2> QED
    BY <1>0, <2>1 DEF LockInv
<1>2. ASSUME NEW w \in Writers, LockWriter(w)
      PROVE  LockInv'
  BY <1>0, <1>2 DEF LockInv, TypeOK, LockWriter, GotoW
<1>3. ASSUME NEW w \in Writers, UnlockWriter(w)
      PROVE  LockInv'
  BY <1>0, <1>3 DEF LockInv, TypeOK, UnlockWriter, GotoW
<1>4. ASSUME NEW w \in Writers, WriteStep(w), ~UnlockWriter(w)
      PROVE  LockInv'
  <2>1. writer_lock' = writer_lock /\ wpc[w] # "idle"
    BY <1>4 DEF WriteStep, WriteFirst, Publish, LoadLocalVersion, WaitNext, WaitPrev,
                Scan, ToggleVersion, WriteSecond, shared
  <2>2. \/ wpc' = wpc
        \/ \E to \in WriterPC \ {"idle"} : wpc' = [wpc EXCEPT ![w] = to]
    BY <1>4 DEF WriteStep, WriteFirst, Publish, LoadLocalVersion, WaitNext, WaitPrev,
                Scan, ToggleVersion, WriteSecond, GotoW, WriterPC
  <2> QED
    BY <1>0, <2>1, <2>2 DEF LockInv, TypeOK
<1>5. CASE UNCHANGED vars
  BY <1>0, <1>5 DEF LockInv, vars
<1> QED
  BY <1>1, <1>2, <1>3, <1>4, <1>5 DEF Next

(* The core of the argument: a reader still inside the instance that readers   *)
(* no longer go to is one toggle_version_and_wait() has yet to wait for.        *)
LEMMA OldReadersStep ==
  ASSUME IndInv, [Next]_vars
  PROVE  OldReadersInv'
<1> USE SlotsAssumption, SlotOfAssumption, NoWriterAssumption
<1>0. TypeOK /\ LockInv /\ OldReadersInv
  BY DEF IndInv
<1> SUFFICES ASSUME NEW q \in Readers, rpc'[q] = "reading", side'[q] # left_right'
             PROVE  writer_lock' \in Writers /\ MayBeOld(writer_lock, q)'
  BY DEF OldReadersInv
<1>1. ASSUME NEW r \in Readers, LoadVersion(r) \/ ReadStep(r)
      PROVE  writer_lock' \in Writers /\ MayBeOld(writer_lock, q)'
  <2>1. UNCHANGED <<writer_lock, left_right, wpc, local_vi, idx>>
    BY <1>1 DEF LoadVersion, ReadStep, Arrive, LoadSide, FinishRead, Depart, shared,
                wvars
  <2>2. q # r
    BY <1>0, <1>1 DEF TypeOK, LoadVersion, ReadStep, Arrive, LoadSide, FinishRead,
                      Depart, GotoR, shared
  <2>3. rpc'[q] = rpc[q] /\ side'[q] = side[q] /\ vi'[q] = vi[q]
    BY <1>0, <1>1, <2>2 DEF TypeOK, LoadVersion, ReadStep, Arrive, LoadSide,
                            FinishRead, Depart, GotoR
  <2> QED
    BY <1>0, <2>1, <2>3 DEF OldReadersInv, MayBeOld
<1>2. ASSUME NEW w \in Writers, Publish(w)
      PROVE  writer_lock' \in Writers /\ MayBeOld(writer_lock, q)'
  <2>1. writer_lock' = w
    BY <1>0, <1>2 DEF LockInv, Publish
  <2>2. wpc'[w] = "toggle"
    BY <1>0, <1>2 DEF TypeOK, Publish, GotoW
  <2> QED
    BY <2>1, <2>2 DEF MayBeOld
<1>3. ASSUME NEW w \in Writers, LockWriter(w) \/ WriteStep(w), ~Publish(w)
      PROVE  writer_lock' \in Writers /\ MayBeOld(writer_lock, q)'
  <2>0. UNCHANGED <<left_right, rpc, vi, side>>
    BY <1>3 DEF LockWriter, WriteStep, WriteFirst, LoadLocalVersion, WaitNext, WaitPrev,
                Scan, ToggleVersion, WriteSecond, UnlockWriter, shared, rvars
  <2>1. writer_lock \in Writers /\ MayBeOld(writer_lock, q)
    BY <1>0, <2>0 DEF OldReadersInv
  <2>2. wpc[writer_lock] \in {"toggle", "scan_next", "store_vi", "scan_prev"}
    BY <2>1 DEF MayBeOld
  <2>3. writer_lock = w
    BY <1>0, <1>3, <2>1 DEF LockInv, LockWriter, WriteStep, WriteFirst,
          LoadLocalVersion, WaitNext, WaitPrev, Scan, ToggleVersion, WriteSecond,
          UnlockWriter
  <2>4. /\ MayBeOld(w, q)
        /\ w \in Writers
        /\ SlotOf[q] \in 0 .. Slots - 1
        /\ idx[w] \in 0 .. Slots - 1
        /\ vi[q] \in Side /\ local_vi[w] \in Side
        /\ wpc \in [Writers -> WriterPC] /\ idx \in [Writers -> 0 .. Slots - 1]
        /\ local_vi \in [Writers -> Side]
    BY <1>0, <2>1, <2>3 DEF TypeOK
  <2>5. counter[vi[q]][SlotOf[q]] \in Nat \ {0}
    BY <2>0, CountedPositive
  <2>6. CASE LoadLocalVersion(w)
    BY <2>0, <2>3, <2>4, <2>6 DEF LoadLocalVersion, GotoW, MayBeOld, shared
  <2>7. CASE WaitNext(w)
    <3>1. vi[q] = 1 - local_vi[w] => SlotOf[q] >= idx[w]
      BY <2>4, <2>7 DEF MayBeOld, WaitNext, Scan
    <3>2. vi[q] # 1 - local_vi[w] => vi[q] = local_vi[w]
      BY <2>4 DEF Side
    <3>3. writer_lock' = w /\ local_vi' = local_vi /\ vi' = vi
      BY <2>0, <2>3, <2>7 DEF WaitNext, Scan, shared
    <3>4. CASE /\ counter[1 - local_vi[w]][idx[w]] > 0
               /\ idx' = [idx EXCEPT ![w] = 0] /\ wpc' = wpc
      <4>1. wpc'[w] = "scan_next" /\ idx'[w] = 0
        BY <2>4, <2>7, <3>4 DEF WaitNext, Scan
      <4> QED
        BY <2>4, <3>3, <4>1 DEF MayBeOld
    <3>5. CASE /\ counter[1 - local_vi[w]][idx[w]] = 0
               /\ idx' = [idx EXCEPT ![w] = @ + 1] /\ wpc' = wpc
      <4>1. wpc'[w] = "scan_next" /\ idx'[w] = idx[w] + 1
        BY <2>4, <2>7, <3>5 DEF WaitNext, Scan
      <4>2. vi[q] = 1 - local_vi[w] => SlotOf[q] # idx[w]
        BY <2>5, <3>5
      <4>3. vi[q] = 1 - local_vi[w] => SlotOf[q] >= idx[w] + 1
        BY <2>4, <3>1, <4>2
      <4> QED
        BY <3>3, <4>1, <4>3 DEF MayBeOld
    <3>6. CASE /\ counter[1 - local_vi[w]][idx[w]] = 0 /\ idx[w] + 1 = Slots
               /\ idx' = [idx EXCEPT ![w] = 0]
               /\ wpc' = [wpc EXCEPT ![w] = "store_vi"]
      <4>1. wpc'[w] = "store_vi" /\ idx'[w] = 0
        BY <2>4, <3>6
      <4>2. vi[q] = 1 - local_vi[w] => SlotOf[q] # idx[w]
        BY <2>5, <3>6
      <4>3. vi[q] = local_vi[w]
        BY <2>4, <3>1, <3>2, <3>6, <4>2
      <4> QED
        BY <3>3, <4>1, <4>3 DEF MayBeOld
    <3> QED
      BY <2>7, <3>4, <3>5, <3>6, <2>4, <3>3 DEF WaitNext, Scan, GotoW
  <2>8. CASE ToggleVersion(w)
    <3>1. vi[q] = local_vi[w] /\ idx[w] = 0
      BY <2>4, <2>8 DEF MayBeOld, ToggleVersion
    <3>2. wpc'[w] = "scan_prev"
      BY <2>4, <2>8 DEF ToggleVersion, GotoW
    <3> QED
      BY <2>0, <2>3, <2>4, <2>8, <3>1, <3>2 DEF MayBeOld, ToggleVersion
  <2>9. CASE WaitPrev(w)
    <3>1. vi[q] = local_vi[w] /\ SlotOf[q] >= idx[w]
      BY <2>4, <2>9 DEF MayBeOld, WaitPrev, Scan
    <3>3. writer_lock' = w /\ local_vi' = local_vi /\ vi' = vi
      BY <2>0, <2>3, <2>9 DEF WaitPrev, Scan, shared
    <3>4. CASE /\ counter[local_vi[w]][idx[w]] > 0
               /\ idx' = [idx EXCEPT ![w] = 0] /\ wpc' = wpc
      <4>1. wpc'[w] = "scan_prev" /\ idx'[w] = 0
        BY <2>4, <2>9, <3>4 DEF WaitPrev, Scan
      <4> QED
        BY <2>4, <3>1, <3>3, <4>1 DEF MayBeOld
    <3>5. CASE /\ counter[local_vi[w]][idx[w]] = 0
               /\ idx' = [idx EXCEPT ![w] = @ + 1] /\ wpc' = wpc
      <4>1. wpc'[w] = "scan_prev" /\ idx'[w] = idx[w] + 1
        BY <2>4, <2>9, <3>5 DEF WaitPrev, Scan
      <4>2. SlotOf[q] # idx[w]
        BY <2>5, <3>1, <3>5
      <4>3. SlotOf[q] >= idx[w] + 1
        BY <2>4, <3>1, <4>2
      <4> QED
        BY <3>1, <3>3, <4>1, <4>3 DEF MayBeOld
    <3>6. CASE counter[local_vi[w]][idx[w]] = 0 /\ idx[w] + 1 = Slots
      <4>1. SlotOf[q] # idx[w]
        BY <2>5, <3>1, <3>6
      <4> QED
        BY <2>4, <3>1, <3>6, <4>1
    <3> QED
      BY <2>9, <3>4, <3>5, <3>6, <2>4 DEF WaitPrev, Scan, GotoW
  <2> QED
    BY <1>3, <2>2, <2>3, <2>6, <2>7, <2>8, <2>9
       DEF LockWriter, WriteStep, WriteFirst, WriteSecond, UnlockWriter
<1>4. CASE UNCHANGED vars
  BY <1>0, <1>4 DEF vars, OldReadersInv, MayBeOld
<1> QED
  BY <1>1, <1>2, <1>3, <1>4 DEF Next

(* The two instances are at most the current write apart, in the direction     *)
(* the phase of apply_write says.                                              *)
LEMMA ContentStep ==
  ASSUME IndInv, [Next]_vars
  PROVE  ContentInv'
<1> USE NoWriterAssumption
<1>0. TypeOK /\ LockInv /\ ContentInv
  BY DEF IndInv
<1>a. /\ inst \in [Side -> Seq(Ops)] /\ left_right \in Side
      /\ op \in [Writers -> Ops] /\ wpc \in [Writers -> WriterPC]
  BY <1>0 DEF TypeOK
<1>1. ASSUME NEW r \in Readers, LoadVersion(r) \/ ReadStep(r)
      PROVE  ContentInv'
  <2>1. UNCHANGED <<inst, left_right, writer_lock, wpc, op>>
    BY <1>1 DEF LoadVersion, ReadStep, Arrive, LoadSide, FinishRead, Depart, shared,
                wvars
  <2> QED
    BY <1>0, <2>1 DEF ContentInv
<1>2. ASSUME NEW w \in Writers, LockWriter(w) \/ WriteStep(w)
      PROVE  ContentInv'
  <2>1. \A u \in Writers \ {w} : wpc[u] = "idle" /\ wpc'[u] = "idle"
    <3>1. wpc[w] = "idle" => writer_lock = NoWriter
      BY <1>2 DEF LockWriter, WriteStep, WriteFirst, Publish, LoadLocalVersion, WaitNext,
                  WaitPrev, Scan, ToggleVersion, WriteSecond, UnlockWriter
    <3>2. writer_lock = w \/ writer_lock = NoWriter
      BY <1>0, <3>1 DEF LockInv
    <3>3. \A u \in Writers \ {w} : wpc[u] = "idle"
      BY <1>0, <3>2 DEF LockInv
    <3>4. \A u \in Writers \ {w} : wpc'[u] = wpc[u]
      BY <1>2, <1>a DEF LockWriter, WriteStep, WriteFirst, Publish, LoadLocalVersion,
            WaitNext, WaitPrev, Scan, ToggleVersion, WriteSecond, UnlockWriter, GotoW
    <3> QED
      BY <3>3, <3>4
  <2> SUFFICES
        /\ writer_lock' = NoWriter => inst'[0] = inst'[1]
        /\ wpc'[w] \in {"write1", "unlock"} => inst'[0] = inst'[1]
        /\ wpc'[w] = "publish" =>
             inst'[1 - left_right'] = Append(inst'[left_right'], op'[w])
        /\ wpc'[w] \in {"toggle", "scan_next", "store_vi", "scan_prev", "write2"} =>
             inst'[left_right'] = Append(inst'[1 - left_right'], op'[w])
    BY <2>1 DEF ContentInv
  <2>2. CASE LockWriter(w)
    BY <1>0, <1>a, <2>2 DEF ContentInv, LockWriter, GotoW
  <2>3. CASE UnlockWriter(w)
    BY <1>0, <1>a, <2>3 DEF ContentInv, UnlockWriter, GotoW
  <2>l. ASSUME ~LockWriter(w), ~UnlockWriter(w)
        PROVE  writer_lock' # NoWriter
    <3>1. writer_lock' = writer_lock /\ wpc[w] # "idle"
      BY <1>2, <2>l DEF WriteStep, WriteFirst, Publish, LoadLocalVersion, WaitNext,
                        WaitPrev, Scan, ToggleVersion, WriteSecond, shared
    <3> QED
      BY <1>0, <3>1 DEF LockInv
  <2>s. /\ 1 - left_right \in Side
        /\ left_right # 1 - left_right
        /\ left_right = 0 \/ left_right = 1
        /\ 1 - (1 - left_right) = left_right
    BY <1>a DEF Side
  <2>4. CASE WriteFirst(w)
    <3>1. inst[0] = inst[1] /\ wpc'[w] = "publish" /\ UNCHANGED <<left_right, op>>
      BY <1>0, <1>a, <2>4 DEF ContentInv, WriteFirst, GotoW
    <3>2. /\ inst'[1 - left_right] = Append(inst[1 - left_right], op[w])
          /\ inst'[left_right] = inst[left_right]
      BY <1>a, <2>s, <2>4 DEF WriteFirst
    <3>3. inst[1 - left_right] = inst[left_right]
      BY <2>s, <3>1
    <3>4. writer_lock' # NoWriter
      BY <2>l, <2>4 DEF WriteFirst, LockWriter, UnlockWriter
    <3> QED
      BY <3>1, <3>2, <3>3, <3>4
  <2>5. CASE WriteSecond(w)
    <3>1. /\ inst[left_right] = Append(inst[1 - left_right], op[w])
          /\ wpc'[w] = "unlock" /\ UNCHANGED <<left_right, op>>
      BY <1>0, <1>a, <2>5 DEF ContentInv, WriteSecond, GotoW
    <3>2. /\ inst'[1 - left_right] = Append(inst[1 - left_right], op[w])
          /\ inst'[left_right] = inst[left_right]
      BY <1>a, <2>s, <2>5 DEF WriteSecond
    <3>3. inst'[0] = inst'[1]
      <4>1. inst'[left_right] = inst'[1 - left_right]
        BY <3>1, <3>2
      <4>2. left_right = 0 => 1 - left_right = 1
        OBVIOUS
      <4>3. left_right = 1 => 1 - left_right = 0
        OBVIOUS
      <4> QED
        BY <2>s, <4>1, <4>2, <4>3
    <3>4. writer_lock' # NoWriter
      BY <2>l, <2>5 DEF WriteSecond, LockWriter, UnlockWriter
    <3> QED
      BY <3>1, <3>3, <3>4
  <2>6. CASE Publish(w)
    <3>1. /\ inst[1 - left_right] = Append(inst[left_right], op[w])
          /\ wpc'[w] = "toggle" /\ UNCHANGED <<inst, op>>
          /\ left_right' = 1 - left_right
      BY <1>0, <1>a, <2>6 DEF ContentInv, Publish, GotoW
    <3>2. writer_lock' # NoWriter
      BY <2>l, <2>6 DEF Publish, LockWriter, UnlockWriter
    <3> QED
      BY <2>s, <3>1, <3>2
  <2>7. CASE LoadLocalVersion(w) \/ WaitNext(w) \/ ToggleVersion(w) \/ WaitPrev(w)
    <3>1. UNCHANGED <<inst, left_right, op>>
      BY <2>7 DEF LoadLocalVersion, WaitNext, ToggleVersion, WaitPrev, Scan, shared
    <3>2. wpc[w] \in {"toggle", "scan_next", "store_vi", "scan_prev"}
      BY <2>7 DEF LoadLocalVersion, WaitNext, ToggleVersion, WaitPrev, Scan
    <3>3. wpc'[w] \in {"scan_next", "store_vi", "scan_prev", "write2"}
      BY <1>a, <2>7 DEF LoadLocalVersion, WaitNext, ToggleVersion, WaitPrev, Scan, GotoW
    <3>4. inst[left_right] = Append(inst[1 - left_right], op[w])
      BY <1>0, <3>2 DEF ContentInv
    <3>5. writer_lock' # NoWriter
      BY <2>l, <3>2 DEF LockWriter, UnlockWriter
    <3> QED
      BY <3>1, <3>3, <3>4, <3>5
  <2> QED
    BY <1>2, <2>2, <2>3, <2>4, <2>5, <2>6, <2>7 DEF WriteStep
<1>3. CASE UNCHANGED vars
  BY <1>0, <1>3 DEF vars, ContentInv
<1> QED
  BY <1>1, <1>2, <1>3 DEF Next

(* A reader departs only after its functor has returned. *)
LEMMA ReturnStep ==
  ASSUME IndInv, [Next]_vars
  PROVE  ReturnInv'
<1>0. TypeOK /\ ReturnInv
  BY DEF IndInv
<1>1. ASSUME NEW r \in Readers, LoadVersion(r) \/ ReadStep(r)
      PROVE  ReturnInv'
  <2> SUFFICES ASSUME NEW q \in Readers, rpc'[q] = "depart"
               PROVE  ret'[q] \in Seq(Ops)
    BY DEF ReturnInv
  <2>1. CASE FinishRead(r)
    <3>1. inst[side[r]] \in Seq(Ops)
      BY <1>0 DEF TypeOK
    <3> QED
      BY <1>0, <2>1, <3>1 DEF TypeOK, ReturnInv, FinishRead, GotoR
  <2>2. CASE ~FinishRead(r)
    <3>1. ret' = ret /\ rpc[q] = "depart"
      BY <1>0, <1>1, <2>2 DEF TypeOK, LoadVersion, ReadStep, Arrive, LoadSide, Depart,
                              GotoR
    <3> QED
      BY <1>0, <3>1 DEF ReturnInv
  <2> QED
    BY <2>1, <2>2
<1>2. ASSUME NEW w \in Writers, LockWriter(w) \/ WriteStep(w)
      PROVE  ReturnInv'
  BY <1>0, <1>2 DEF ReturnInv, LockWriter, WriteStep, WriteFirst, Publish,
        LoadLocalVersion, WaitNext, WaitPrev, Scan, ToggleVersion, WriteSecond,
        UnlockWriter, rvars
<1>3. CASE UNCHANGED vars
  BY <1>0, <1>3 DEF vars, ReturnInv
<1> QED
  BY <1>1, <1>2, <1>3 DEF Next

(* The invariant holds throughout every behaviour of the wrapper. *)
THEOREM Inductive == Spec => []IndInv
<1>1. ASSUME IndInv, [Next]_vars
      PROVE  IndInv'
  BY <1>1, TypeStep, LockStep, CountStep, OldReadersStep, ContentStep, ReturnStep
     DEF IndInv
<1> QED
  BY <1>1, InitIndInv, PTL DEF Spec

(* Every variable of the wrapper stays in its range; in particular the reader  *)
(* counters never go below zero (ri_distributed_counter::depart).              *)
THEOREM TypeCorrect == Spec => []TypeOK
<1>1. IndInv => TypeOK
  BY DEF IndInv
<1> QED
  BY <1>1, Inductive, PTL

(* Mutual exclusion between apply_write's functor and the functors of readers  *)
(* that take no lock.                                                          *)
THEOREM WriterAlone == Spec => []NoReadDuringWrite
<1>1. ASSUME IndInv
      PROVE  NoReadDuringWrite
  <2> SUFFICES ASSUME NEW w \in Writers, NEW r \in Readers,
                      wpc[w] \in {"write1", "write2"}, rpc[r] = "reading",
                      side[r] # left_right
               PROVE  FALSE
    BY DEF NoReadDuringWrite
  <2>1. writer_lock \in Writers /\ MayBeOld(writer_lock, r)
    BY <1>1 DEF IndInv, OldReadersInv
  <2>2. writer_lock = w
    BY <1>1 DEF IndInv, LockInv
  <2> QED
    BY <2>1, <2>2 DEF MayBeOld
<1> QED
  BY <1>1, Inductive, PTL

(* When no write is under way both instances hold the same object              *)
(* (left_right::apply_write repeats the change on the second one).             *)
THEOREM InstancesEqual == Spec => []InstancesAgree
<1>1. IndInv => InstancesAgree
  BY DEF IndInv, ContentInv, InstancesAgree
<1> QED
  BY <1>1, Inductive, PTL

(* left_right<T> implements an atomic object: a write takes effect when        *)
(* _left_right is stored, a read when it is loaded, and nothing else shows.    *)
THEOREM Refinement == Spec => ImplementsAtomicObject
<1>1. Init => Atomic!AInit
  BY DEF Init, Atomic!AInit, Snap, Side
<1>2. ASSUME IndInv, [Next]_vars
      PROVE  [Atomic!ANext]_(Atomic!avars)
  <2>0. TypeOK /\ LockInv /\ ContentInv /\ ReturnInv
    BY <1>2 DEF IndInv
  <2>a. /\ inst \in [Side -> Seq(Ops)] /\ left_right \in Side
        /\ rpc \in [Readers -> ReaderPC] /\ side \in [Readers -> Side]
        /\ ret \in [Readers -> Seq(Ops) \cup {NoVal}]
    BY <2>0 DEF TypeOK
  <2>1. ASSUME NEW r \in Readers, LoadVersion(r) \/ ReadStep(r)
        PROVE  [Atomic!ANext]_(Atomic!avars)
    <3>0. UNCHANGED <<inst, left_right>>
      BY <2>1 DEF LoadVersion, ReadStep, Arrive, LoadSide, FinishRead, Depart, shared
    <3>1. CASE LoadVersion(r) \/ Arrive(r)
      <4>1. /\ side' = side /\ ret' = ret
            /\ rpc[r] \in {"idle", "arrive"} /\ rpc'[r] \in {"arrive", "arrived"}
            /\ \A q \in Readers : q # r => rpc'[q] = rpc[q]
        BY <2>a, <3>1 DEF LoadVersion, Arrive, GotoR
      <4>2. Snap' = Snap
        BY <3>0, <4>1 DEF Snap
      <4> QED
        BY <3>0, <4>2 DEF Atomic!avars
    <3>2. CASE LoadSide(r)
      <4>1. /\ ret' = ret /\ rpc[r] = "arrived" /\ rpc'[r] = "reading"
            /\ side'[r] = left_right
            /\ \A q \in Readers : q # r => rpc'[q] = rpc[q] /\ side'[q] = side[q]
        BY <2>a, <3>2 DEF LoadSide, GotoR
      <4>2. Snap[r] = NoVal
        BY <4>1 DEF Snap
      <4>3. Snap' = [Snap EXCEPT ![r] = inst[left_right]]
        BY <3>0, <4>1 DEF Snap
      <4>4. Atomic!ARead(r)
        BY <3>0, <4>2, <4>3 DEF Atomic!ARead
      <4> QED
        BY <4>4 DEF Atomic!ANext
    <3>3. CASE FinishRead(r)
      <4>1. /\ side' = side /\ rpc[r] = "reading" /\ rpc'[r] = "depart"
            /\ ret'[r] = inst[side[r]]
            /\ \A q \in Readers : q # r => rpc'[q] = rpc[q] /\ ret'[q] = ret[q]
        BY <2>a, <3>3 DEF FinishRead, GotoR
      <4>2. Snap' = Snap
        BY <3>0, <4>1 DEF Snap
      <4> QED
        BY <3>0, <4>2 DEF Atomic!avars
    <3>4. CASE Depart(r)
      <4>1. /\ side' = side /\ ret' = ret
            /\ rpc[r] = "depart" /\ rpc'[r] = "idle"
            /\ \A q \in Readers : q # r => rpc'[q] = rpc[q]
        BY <2>a, <3>4 DEF Depart, GotoR
      <4>2. Snap[r] # NoVal
        BY <2>0, <4>1, NoValAssumption DEF Snap, ReturnInv
      <4>3. Snap' = [Snap EXCEPT ![r] = NoVal]
        BY <3>0, <4>1 DEF Snap
      <4>4. Atomic!AReturn(r)
        BY <3>0, <4>2, <4>3 DEF Atomic!AReturn
      <4> QED
        BY <4>4 DEF Atomic!ANext
    <3> QED
      BY <2>1, <3>1, <3>2, <3>3, <3>4 DEF ReadStep
  <2>2. ASSUME NEW w \in Writers, WriteFirst(w) \/ WriteSecond(w)
        PROVE  [Atomic!ANext]_(Atomic!avars)
    <3>1. /\ UNCHANGED <<left_right, rpc, side, ret>>
          /\ wpc[w] \in {"write1", "write2"}
      BY <2>2 DEF WriteFirst, WriteSecond, rvars
    <3>2. inst'[left_right] = inst[left_right]
      <4>1. 1 - left_right \in Side /\ left_right # 1 - left_right
        BY <2>a DEF Side
      <4> QED
        BY <2>2, <2>a, <4>1 DEF WriteFirst, WriteSecond
    <3>3. \A r \in Readers : rpc[r] = "reading" => side[r] = left_right
      <4> SUFFICES ASSUME NEW r \in Readers, rpc[r] = "reading", side[r] # left_right
                   PROVE  FALSE
        OBVIOUS
      <4>1. writer_lock \in Writers /\ MayBeOld(writer_lock, r)
        BY <1>2 DEF IndInv, OldReadersInv
      <4>2. writer_lock = w
        BY <2>0, <3>1 DEF LockInv
      <4> QED
        BY <3>1, <4>1, <4>2 DEF MayBeOld
    <3>4. Snap' = Snap
      BY <3>1, <3>2, <3>3 DEF Snap
    <3> QED
      BY <3>1, <3>2, <3>4 DEF Atomic!avars
  <2>3. ASSUME NEW w \in Writers, Publish(w)
        PROVE  [Atomic!ANext]_(Atomic!avars)
    <3>1. /\ UNCHANGED <<inst, rpc, side, ret>> /\ left_right' = 1 - left_right
      BY <2>3 DEF Publish, rvars
    <3>2. inst[1 - left_right] = Append(inst[left_right], op[w]) /\ op[w] \in Ops
      BY <2>0, <2>3 DEF ContentInv, Publish, TypeOK
    <3>3. Snap' = Snap
      BY <3>1 DEF Snap
    <3>4. Atomic!AWrite
      BY <3>1, <3>2, <3>3 DEF Atomic!AWrite
    <3> QED
      BY <3>4 DEF Atomic!ANext
  <2>4. ASSUME NEW w \in Writers,
               \/ LockWriter(w) \/ LoadLocalVersion(w) \/ WaitNext(w)
               \/ ToggleVersion(w) \/ WaitPrev(w) \/ UnlockWriter(w)
        PROVE  [Atomic!ANext]_(Atomic!avars)
    <3>1. UNCHANGED <<inst, left_right, rpc, side, ret>>
      BY <2>4 DEF LockWriter, LoadLocalVersion, WaitNext, WaitPrev, Scan, ToggleVersion,
                  UnlockWriter, shared, rvars
    <3>2. Snap' = Snap
      BY <3>1 DEF Snap
    <3> QED
      BY <3>1, <3>2 DEF Atomic!avars
  <2>5. CASE UNCHANGED vars
    BY <2>5 DEF vars, Snap, Atomic!avars
  <2> QED
    BY <1>2, <2>1, <2>2, <2>3, <2>4, <2>5 DEF Next, WriteStep
<1> QED
  BY <1>1, <1>2, Inductive, PTL DEF Spec, ImplementsAtomicObject, Atomic!ASpec

-----------------------------------------------------------------------------
(***************************************************************************)
(* The containers.                                                           *)
(***************************************************************************)

(* Two sequences that are alike stay so under each write of a sequence, whether  *)
(* the second call of the write has the argument or a moved-from one.            *)
LEMMA WritesAlike ==
  ASSUME NEW c \in Seq(Values \cup {Moved}), NEW d \in Seq(Values \cup {Moved}), C!Alike(c, d),
         NEW a \in Values \cup {Moved}, NEW v \in {a, Moved}
  PROVE  /\ {<<v>> \o c, <<a>> \o d, Append(c, v), Append(d, a)} \subseteq Seq(Values \cup {Moved})
         /\ C!Alike(<<v>> \o c, <<a>> \o d)
         /\ C!Alike(Append(c, v), Append(d, a))
         /\ d # << >> =>
              /\ {Tail(c), Tail(d), SubSeq(c, 1, Len(c) - 1), SubSeq(d, 1, Len(d) - 1)}
                   \subseteq Seq(Values \cup {Moved})
              /\ C!Alike(Tail(c), Tail(d))
              /\ C!Alike(SubSeq(c, 1, Len(c) - 1), SubSeq(d, 1, Len(d) - 1))
<1> DEFINE E == Values \cup {Moved}
<1>0. /\ Len(c) = Len(d) /\ Len(c) \in Nat
      /\ \A i \in 1 .. Len(c) : c[i] = d[i] \/ Moved \in {c[i], d[i]}
      /\ v = a \/ Moved \in {v, a}
  BY DEF C!Alike
<1>a. c \in Seq(E) /\ d \in Seq(E) /\ a \in E /\ v \in E
  OBVIOUS
<1> HIDE DEF E
<1>1. /\ Append(c, v) \in Seq(E) /\ Append(d, a) \in Seq(E)
      /\ C!Alike(Append(c, v), Append(d, a))
  BY <1>0, <1>a DEF C!Alike
<1>2. /\ <<v>> \o c \in Seq(E) /\ <<a>> \o d \in Seq(E)
      /\ C!Alike(<<v>> \o c, <<a>> \o d)
  <2>1. /\ <<v>> \o c \in Seq(E) /\ <<a>> \o d \in Seq(E)
        /\ Len(<<v>> \o c) = Len(c) + 1 /\ Len(<<a>> \o d) = Len(c) + 1
        /\ \A i \in 1 .. Len(c) + 1 : /\ (<<v>> \o c)[i] = IF i = 1 THEN v ELSE c[i - 1]
                                      /\ (<<a>> \o d)[i] = IF i = 1 THEN a ELSE d[i - 1]
    BY <1>0, <1>a
  <2>2. ASSUME NEW i \in 1 .. Len(c) + 1
        PROVE  \/ (<<v>> \o c)[i] = (<<a>> \o d)[i]
               \/ Moved \in {(<<v>> \o c)[i], (<<a>> \o d)[i]}
    <3>1. CASE i = 1
      BY <1>0, <2>1, <3>1
    <3>2. CASE i # 1
      <4>1. i - 1 \in 1 .. Len(c)
        BY <1>0, <3>2
      <4> QED
        BY <1>0, <2>1, <3>2, <4>1
    <3> QED
      BY <3>1, <3>2
  <2> QED
    BY <2>1, <2>2 DEF C!Alike
<1>3. ASSUME d # << >>
      PROVE  /\ Tail(c) \in Seq(E) /\ Tail(d) \in Seq(E)
             /\ C!Alike(Tail(c), Tail(d))
             /\ SubSeq(c, 1, Len(c) - 1) \in Seq(E) /\ SubSeq(d, 1, Len(d) - 1) \in Seq(E)
             /\ C!Alike(SubSeq(c, 1, Len(c) - 1), SubSeq(d, 1, Len(d) - 1))
  <2>0. Len(c) > 0 /\ c # << >>
    BY <1>0, <1>a, <1>3
  <2>1. /\ Tail(c) \in Seq(E) /\ Tail(d) \in Seq(E)
        /\ Len(Tail(c)) = Len(c) - 1 /\ Len(Tail(d)) = Len(c) - 1
        /\ \A i \in 1 .. Len(c) - 1 : Tail(c)[i] = c[i + 1] /\ Tail(d)[i] = d[i + 1]
    BY <1>0, <1>a, <1>3, <2>0
  <2>2. C!Alike(Tail(c), Tail(d))
    <3>1. \A i \in 1 .. Len(c) - 1 : i + 1 \in 1 .. Len(c)
      BY <1>0
    <3> QED
      BY <1>0, <2>1, <3>1 DEF C!Alike
  <2>3. /\ SubSeq(c, 1, Len(c) - 1) \in Seq(E) /\ SubSeq(d, 1, Len(d) - 1) \in Seq(E)
        /\ Len(SubSeq(c, 1, Len(c) - 1)) = Len(c) - 1
        /\ Len(SubSeq(d, 1, Len(d) - 1)) = Len(c) - 1
        /\ \A i \in 1 .. Len(c) - 1 : /\ SubSeq(c, 1, Len(c) - 1)[i] = c[i]
                                      /\ SubSeq(d, 1, Len(d) - 1)[i] = d[i]
    BY <1>0, <1>a, <2>0
  <2>4. C!Alike(SubSeq(c, 1, Len(c) - 1), SubSeq(d, 1, Len(d) - 1))
    <3>1. \A i \in 1 .. Len(c) - 1 : i \in 1 .. Len(c)
      BY <1>0
    <3> QED
      BY <1>0, <2>3, <3>1 DEF C!Alike
  <2> QED
    BY <2>1, <2>2, <2>3, <2>4
<1> QED
  BY <1>1, <1>2, <1>3 DEF E

(* A write a caller may ask for, applied to an instance that matches: it       *)
(* matches the container its users mean after the write.                       *)
LEMMA ApplyMatches ==
  ASSUME C!IndInv, NEW j \in C!Jobs, NEW c \in C!Contents, C!Matches(c), NEW v \in {j.arg, Moved}
  PROVE  /\ C!Apply(j.op, c, v) \in C!Contents
         /\ C!Apply(j.op, ideal, j.arg) \in C!Contents
         /\ kind \in C!Ordered => C!Alike(C!Apply(j.op, c, v), C!Apply(j.op, ideal, j.arg))
<1>0. ideal \in C!Contents /\ kind \in C!Ordered \cup C!Keyed
  BY DEF C!IndInv
<1>1. /\ j.arg \in Values \cup {Moved}
      /\ j.op \in {"push_front", "push_back", "pop_front", "pop_back", "clear", "emplace", "erase", "subscript"}
      /\ kind \in C!Ordered => j.op \in {"push_front", "push_back", "pop_front", "pop_back", "clear"}
      /\ kind = "vector" => j.op \in {"push_back", "pop_back", "clear"}
      /\ kind \in C!Keyed => j.op \in {"emplace", "erase", "clear", "subscript"}
      /\ j.op = "subscript" => kind = "unordered_map"
      /\ kind \in C!Ordered /\ j.op \in {"pop_front", "pop_back"} => ideal # << >>
  BY <1>0 DEF C!Jobs, C!Ordered, C!Keyed
<1>2. CASE kind \in C!Ordered
  <2>1. /\ c \in Seq(Values \cup {Moved}) /\ ideal \in Seq(Values \cup {Moved})
        /\ C!Alike(c, ideal)
    BY <1>0, <1>2 DEF C!Contents, C!Matches
  <2>2. << >> \in Seq(Values \cup {Moved}) /\ C!Alike(<< >>, << >>)
    BY DEF C!Alike
  <2>3. kind \in {"list", "vector", "deque"}
    BY <1>2 DEF C!Ordered
  <2>4. CASE j.op = "push_front"
    BY <1>1, <1>2, <2>1, <2>3, <2>4, WritesAlike DEF C!Apply, C!ListWrite, C!DequeWrite, C!Contents
  <2>5. CASE j.op = "push_back"
    BY <1>1, <1>2, <2>1, <2>3, <2>5, WritesAlike
       DEF C!Apply, C!ListWrite, C!DequeWrite, C!VectorWrite, C!Contents
  <2>6. CASE j.op = "pop_front"
    BY <1>1, <1>2, <2>1, <2>3, <2>6, WritesAlike DEF C!Apply, C!ListWrite, C!DequeWrite, C!Contents
  <2>7. CASE j.op = "pop_back"
    BY <1>1, <1>2, <2>1, <2>3, <2>7, WritesAlike
       DEF C!Apply, C!ListWrite, C!DequeWrite, C!VectorWrite, C!Contents
  <2>8. CASE j.op = "clear"
    BY <1>2, <2>2, <2>3, <2>8 DEF C!Apply, C!ListWrite, C!DequeWrite, C!VectorWrite, C!Contents
  <2> QED
    BY <1>1, <1>2, <2>4, <2>5, <2>6, <2>7, <2>8
<1>3. CASE kind \notin C!Ordered
  <2>1. kind \in {"map", "unordered_map", "set"}
    BY <1>0, <1>3 DEF C!Keyed
  <2>2. c \subseteq Values \cup {Moved} /\ ideal \subseteq Values \cup {Moved}
        /\ v \in Values \cup {Moved}
    BY <1>0, <1>1, <1>3 DEF C!Contents
  <2>3. j.op \in {"emplace", "erase", "clear"} \/ (j.op = "subscript" /\ kind = "unordered_map")
    BY <1>1, <2>1 DEF C!Keyed
  <2>4. ASSUME NEW x \in SUBSET (Values \cup {Moved}), NEW w \in Values \cup {Moved}
        PROVE  C!Apply(j.op, x, w) \in SUBSET (Values \cup {Moved})
    BY <2>1, <2>3 DEF C!Apply, C!MapWrite, C!SetWrite, C!UnorderedMapWrite
  <2> QED
    BY <1>1, <1>3, <2>2, <2>4 DEF C!Contents
<1> QED
  BY <1>2, <1>3

(* The invariant of the containers: it holds at the start. *)
LEMMA InitContainers == C!Init => C!IndInv
<1> SUFFICES ASSUME C!Init PROVE C!IndInv
  OBVIOUS
<1>1. /\ kind \in C!Ordered \cup C!Keyed /\ cside = "left" /\ job = C!NoJob /\ tainted = FALSE
      /\ ideal = (IF kind \in C!Ordered THEN << >> ELSE {})
      /\ cinst = [s \in C!Sides |-> ideal]
  BY DEF C!Init
<1>2. ideal \in C!Contents
  <2>1. << >> \in Seq(Values \cup {Moved}) /\ {} \in SUBSET (Values \cup {Moved})
    OBVIOUS
  <2> QED
    BY <1>1, <2>1, Zenon DEF C!Contents
<1>3. cinst["left"] = ideal /\ cinst["right"] = ideal /\ C!Other(cside) = "right"
  BY <1>1 DEF C!Sides, C!Other
<1>4. C!Matches(ideal)
  <2>1. ideal = << >> => C!Alike(ideal, ideal)
    BY DEF C!Alike
  <2> QED
    BY <1>1, <2>1 DEF C!Matches
<1>5. C!Upcoming = ideal
  BY <1>1, <1>3 DEF C!Upcoming
<1> QED
  BY <1>1, <1>2, <1>3, <1>4, <1>5 DEF C!IndInv, C!Sides

(* Both calls of a write, and a read that inserts, keep it. *)
LEMMA ContainersStep == C!IndInv /\ [C!Next]_cvars => C!IndInv'
<1> SUFFICES ASSUME C!IndInv, [C!Next]_cvars PROVE C!IndInv'
  OBVIOUS
<1>0. /\ kind \in C!Ordered \cup C!Keyed /\ cside \in {"left", "right"} /\ tainted \in BOOLEAN
      /\ DOMAIN cinst = C!Sides /\ C!Sides = {"left", "right"}
      /\ ideal \in C!Contents /\ cinst[cside] \in C!Contents /\ C!Upcoming \in C!Contents
      /\ C!Matches(cinst[cside]) /\ C!Matches(C!Upcoming)
  BY DEF C!IndInv, C!Sides
<1> DEFINE o == C!Other(cside)
<1>1. o \in {"left", "right"} /\ o # cside /\ C!Other(o) = cside
  BY <1>0 DEF C!Other
<1> HIDE DEF o
<1>2. ASSUME NEW j \in C!Jobs, C!FirstCall(j) PROVE C!IndInv'
  <2>1. /\ job = C!NoJob /\ job' = j /\ cside' = o /\ UNCHANGED kind
        /\ cinst' = [cinst EXCEPT ![o] = C!Apply(j.op, cinst[o], j.arg)]
        /\ ideal' = C!Apply(j.op, ideal, j.arg)
        /\ tainted' = (tainted \/ j.move)
    BY <1>2 DEF C!FirstCall, o
  <2>2. C!Upcoming = cinst[o]
    BY <2>1 DEF C!Upcoming, o
  <2>3. j # C!NoJob
    <3>1. C!NoJob.op = "none"
      BY DEF C!NoJob
    <3>2. j.op # "none"
      BY <1>0 DEF C!Jobs, C!Ordered, C!Keyed
    <3> QED
      BY <3>1, <3>2
  <2>4. cinst'[o] = C!Apply(j.op, cinst[o], j.arg) /\ cinst'[cside] = cinst[cside]
        /\ DOMAIN cinst' = C!Sides
    BY <1>0, <1>1, <2>1
  <2> DEFINE v == IF j.move THEN Moved ELSE j.arg
  <2>5. C!Upcoming' = C!Apply(j.op, cinst[cside], v)
    BY <1>1, <2>1, <2>3, <2>4 DEF C!Upcoming, C!Apply
  <2>6. v \in {j.arg, Moved}
    OBVIOUS
  <2>7. /\ C!Apply(j.op, cinst[o], j.arg) \in C!Contents
        /\ kind \in C!Ordered => C!Alike(C!Apply(j.op, cinst[o], j.arg), ideal')
        /\ ideal' \in C!Contents
    BY <1>0, <2>1, <2>2, ApplyMatches
  <2> HIDE DEF v
  <2>8. /\ C!Apply(j.op, cinst[cside], v) \in C!Contents
        /\ kind \in C!Ordered => C!Alike(C!Apply(j.op, cinst[cside], v), ideal')
    BY <1>0, <2>1, <2>6, ApplyMatches
  <2>9. C!Contents' = C!Contents
    BY <2>1 DEF C!Contents
  <2>10. ~tainted' => cinst[o] = ideal /\ cinst[cside] = ideal /\ v = j.arg
    BY <1>0, <2>1, <2>2 DEF C!Matches, v
  <2>11. C!Matches(cinst[cside])' /\ C!Matches(C!Upcoming)'
    BY <2>1, <2>4, <2>5, <2>7, <2>8, <2>10 DEF C!Matches
  <2>12. tainted' \in BOOLEAN
    BY <2>1
  <2> QED
    BY <1>0, <1>1, <2>1, <2>4, <2>5, <2>7, <2>8, <2>9, <2>11, <2>12 DEF C!IndInv
<1>3. CASE C!SecondCall
  <2>1. /\ job # C!NoJob /\ job' = C!NoJob /\ UNCHANGED <<kind, cside, ideal, tainted>>
        /\ cinst' = [cinst EXCEPT ![o] = C!Upcoming]
    BY <1>3 DEF C!SecondCall, C!Upcoming, o
  <2>2. cinst'[o] = C!Upcoming /\ cinst'[cside] = cinst[cside] /\ DOMAIN cinst' = C!Sides
    BY <1>0, <1>1, <2>1
  <2>3. C!Upcoming' = C!Upcoming
    BY <2>1, <2>2 DEF C!Upcoming, C!Other, o
  <2> QED
    BY <1>0, <2>1, <2>2, <2>3 DEF C!IndInv, C!Matches, C!Contents
<1>4. ASSUME NEW k \in Values, C!SubscriptRead(k) PROVE C!IndInv'
  <2>1. /\ kind = "map" /\ cinst' = [cinst EXCEPT ![cside] = cinst[cside] \cup {k}]
        /\ tainted' = (tainted \/ k \notin cinst[cside])
        /\ UNCHANGED <<kind, cside, job, ideal>>
    BY <1>4 DEF C!SubscriptRead
  <2>2. /\ cinst'[cside] = cinst[cside] \cup {k} /\ cinst'[o] = cinst[o]
        /\ DOMAIN cinst' = C!Sides
    BY <1>0, <1>1, <2>1
  <2>3. C!Upcoming' = C!Upcoming
    BY <2>1, <2>2 DEF C!Upcoming, C!Other, C!Apply, o
  <2>4. kind \notin C!Ordered
    BY <2>1 DEF C!Ordered
  <2>5. cinst'[cside] \in C!Contents /\ tainted' \in BOOLEAN
    BY <1>0, <2>1, <2>2, <2>4 DEF C!Contents
  <2>6. ~tainted' => cinst'[cside] = ideal /\ C!Upcoming = ideal
    BY <1>0, <2>1, <2>2 DEF C!Matches
  <2> QED
    BY <1>0, <2>1, <2>2, <2>3, <2>4, <2>5, <2>6 DEF C!IndInv, C!Matches, C!Contents
<1>5. CASE UNCHANGED cvars
  BY <1>5 DEF cvars, C!IndInv, C!Matches, C!Contents, C!Upcoming, C!Apply
<1> QED
  BY <1>2, <1>3, <1>4, <1>5 DEF C!Next

(* Readers of a container find what its users mean: of the right length and order  *)
(* whatever was moved in, and exactly right while nothing was, between the two     *)
(* calls of apply_write() as after them, for any elements and any writes.          *)
THEOREM ContainersAgree == InitAll /\ [][NextAll]_allvars => []ReadersSeeIdeal
<1>1. InitAll => C!IndInv
  BY InitContainers DEF InitAll
<1>2. C!IndInv /\ [NextAll]_allvars => C!IndInv'
  <2>1. [NextAll]_allvars => [C!Next]_cvars
    BY DEF NextAll, allvars, cvars
  <2> QED
    BY <2>1, ContainersStep
<1>3. C!IndInv => ReadersSeeIdeal
  BY DEF C!IndInv, C!Matches, ReadersSeeIdeal, C!ReadersSeeIdeal
<1> QED
  BY <1>1, <1>2, <1>3, PTL
=============================================================================
