------------------------ MODULE AsyncAppender_proof -------------------------
(* Proofs about AsyncAppender: nothing that log() wrote to the ring is lost,   *)
(* repeated or reordered, and the file is reopened between records, for every  *)
(* capacity, threshold and set of record lengths; then about the rotator, as   *)
(* MCAsyncAppender instantiates it: a record goes to the file of its time; and  *)
(* about the formatter: no part of a pattern is lost.                          *)
EXTENDS MCAsyncAppender, SequenceTheorems, WellFoundedInduction, TLAPS

-----------------------------------------------------------------------------
(* Positions in the ring: a cursor moved on by at most the capacity wraps once. *)
LEMMA WrapsOnce ==
  ASSUME NEW a \in 0 .. N - 1, NEW k \in 0 .. N
  PROVE  (a + k) % N = IF a + k < N THEN a + k ELSE a + k - N
<1>1. N \in Nat \ {0}
  BY RingAssumption
<1>2. CASE a + k < N
  <2>1. a + k \in 0 .. N - 1
    BY <1>1, <1>2
  <2>2. (a + k) % N = a + k
    BY <1>1, <2>1
  <2> QED
    BY <1>2, <2>2
<1>3. CASE ~(a + k < N)
  <2>1. a + k \in N .. N + N - 1
    BY <1>1, <1>3
  <2>2. (a + k) % N = a + k - N
    BY <1>1, <2>1
  <2> QED
    BY <1>3, <2>2
<1> QED
  BY <1>2, <1>3

(* A cursor stays in the array. *)
LEMMA CursorType ==
  ASSUME NEW a \in 0 .. N - 1, NEW k \in 0 .. N
  PROVE  (a + k) % N \in 0 .. N - 1
  BY WrapsOnce, RingAssumption

(* A sequence is the concatenation of two when it agrees with each in turn. *)
LEMMA ConcatIs ==
  ASSUME NEW s \in Seq(Nat), NEW t \in Seq(Nat), NEW u \in Seq(Nat),
         Len(s) = Len(t) + Len(u),
         \A i \in 1 .. Len(t) : s[i] = t[i],
         \A i \in 1 .. Len(u) : s[Len(t) + i] = u[i]
  PROVE  s = t \o u
<1>1. /\ t \o u \in Seq(Nat) /\ Len(t \o u) = Len(t) + Len(u)
      /\ \A i \in 1 .. Len(t) + Len(u) :
           (t \o u)[i] = IF i <= Len(t) THEN t[i] ELSE u[i - Len(t)]
  BY ConcatProperties
<1>2. ASSUME NEW i \in 1 .. Len(s) PROVE s[i] = (t \o u)[i]
  <2>1. CASE i <= Len(t)
    BY <1>1, <2>1
  <2>2. CASE ~(i <= Len(t))
    <3>1. i - Len(t) \in 1 .. Len(u) /\ Len(t) + (i - Len(t)) = i
      BY <2>2
    <3> QED
      BY <1>1, <2>2, <3>1
  <2> QED
    BY <2>1, <2>2
<1> QED
  BY <1>1, <1>2, SeqEqual

(* The k octets of an array d from r on, one by one. *)
LEMMA OctetsFrom ==
  ASSUME NEW d \in [0 .. N - 1 -> Nat], NEW r \in 0 .. N - 1, NEW k \in 0 .. N,
         NEW u, u = [i \in 1 .. k |-> d[(r + i - 1) % N]]
  PROVE  /\ u \in Seq(Nat) /\ Len(u) = k
         /\ \A i \in 1 .. k : u[i] = d[(r + (i - 1)) % N]
<1>1. N \in Nat /\ k \in Nat
  BY RingAssumption
<1>2. \A i \in 1 .. k : r + i - 1 = r + (i - 1) /\ i - 1 \in 0 .. N
  BY <1>1
<1>3. \A i \in 1 .. k : d[(r + i - 1) % N] \in Nat
  BY <1>2, CursorType
<1> QED
  BY <1>1, <1>2, <1>3

(* The octets the ring holds. *)
LEMMA UnreadIs ==
  ASSUME TypeOK
  PROVE  /\ Unread \in Seq(Nat) /\ Len(Unread) = size - got
         /\ \A i \in 1 .. size - got : Unread[i] = data[(read_cursor + (i - 1)) % N]
<1>1. /\ data \in [0 .. N - 1 -> Nat] /\ read_cursor \in 0 .. N - 1
      /\ size - got \in 0 .. N
  BY RingAssumption DEF TypeOK
<1> QED
  BY <1>1, OctetsFrom DEF Unread

(* The octets it holds after a step. *)
LEMMA UnreadIsNext ==
  ASSUME TypeOK'
  PROVE  /\ Unread' \in Seq(Nat) /\ Len(Unread') = size' - got'
         /\ \A i \in 1 .. size' - got' : Unread'[i] = data'[(read_cursor' + (i - 1)) % N]
<1>1. /\ data' \in [0 .. N - 1 -> Nat] /\ read_cursor' \in 0 .. N - 1
      /\ size' - got' \in 0 .. N
  <2>1. /\ data' \in [0 .. N - 1 -> Nat] /\ read_cursor' \in 0 .. N - 1
        /\ size' \in 0 .. N /\ got' \in 0 .. size'
    BY DEF TypeOK
  <2>2. N \in Nat
    BY RingAssumption
  <2>3. \A m, n : m \in 0 .. N /\ n \in 0 .. m => m - n \in 0 .. N
    BY <2>2
  <2>4. size' - got' \in 0 .. N
    BY <2>1, <2>3
  <2> QED
    BY <2>1, <2>4
<1> QED
  BY <1>1, OctetsFrom DEF Unread

-----------------------------------------------------------------------------
(* memcpy() *)
LEMMA CopyIs ==
  ASSUME NEW d \in [0 .. N - 1 -> Nat], NEW at \in Nat, NEW src \in Seq(Nat)
  PROVE  /\ Copy(d, at, src) \in [0 .. N - 1 -> Nat]
         /\ \A i \in 0 .. N - 1 :
              Copy(d, at, src)[i] =
                IF at <= i /\ i < at + Len(src) THEN src[i - at + 1] ELSE d[i]
  BY RingAssumption DEF Copy

(* SubSeq, one by one. *)
LEMMA SubSeqIs ==
  ASSUME NEW s \in Seq(Nat), NEW m \in Nat \ {0}, NEW n \in 0 .. Len(s), m <= n + 1
  PROVE  /\ SubSeq(s, m, n) \in Seq(Nat) /\ Len(SubSeq(s, m, n)) = n - m + 1
         /\ \A i \in 1 .. n - m + 1 : SubSeq(s, m, n)[i] = s[m + i - 1]
  BY SubSeqProperties

(* ring_buffer::write() puts what fits behind what the ring holds, and changes *)
(* no octet that has not been read, whether or not it wraps around the end.    *)
LEMMA RingWriteAppends ==
  ASSUME TypeOK, CursorInv, got = 0, NEW src \in Seq(Nat), RingWrite(src),
         NEW len, len = Least(N - size, Len(src))
  PROVE  /\ len \in 0 .. Len(src) /\ size + len <= N
         /\ size' = size + len
         /\ data' \in [0 .. N - 1 -> Nat]
         /\ write_cursor' = (read_cursor + (size + len)) % N
         /\ \A i \in 1 .. size : data'[(read_cursor + (i - 1)) % N]
                                   = data[(read_cursor + (i - 1)) % N]
         /\ \A i \in 1 .. len : data'[(read_cursor + (size + i - 1)) % N] = src[i]
<1> DEFINE first == Least(N - write_cursor, len)
           at == (write_cursor + first) % N
           a == SubSeq(src, 1, first)
           b == SubSeq(src, first + 1, len)
           d1 == Copy(data, write_cursor, a)
<1>0. /\ N \in Nat /\ N > 0
      /\ size \in Nat /\ size <= N
      /\ read_cursor \in Nat /\ read_cursor < N
      /\ write_cursor \in Nat /\ write_cursor < N
  BY RingAssumption DEF TypeOK
<1>1. /\ N \in Nat \ {0} /\ size \in 0 .. N /\ read_cursor \in 0 .. N - 1
      /\ write_cursor \in 0 .. N - 1 /\ data \in [0 .. N - 1 -> Nat]
  BY RingAssumption DEF TypeOK
<1>2. len \in 0 .. Len(src) /\ len \in 0 .. N /\ size + len <= N /\ Len(src) \in Nat
  BY <1>1 DEF Least
<1>3. /\ first \in Nat /\ first <= len
      /\ first = IF write_cursor + len <= N THEN len ELSE N - write_cursor
  <2>1. len \in Nat
    BY <1>2
  <2> QED
    BY <1>0, <2>1 DEF Least
<1>a. len \in Nat /\ size + len <= N
  BY <1>2
<1>4. /\ size' = size + len /\ write_cursor' = (write_cursor + len) % N
      /\ data' = Copy(d1, at, b)
  BY DEF RingWrite
<1> HIDE DEF first
<1>5. write_cursor = IF read_cursor + size < N THEN read_cursor + size
                     ELSE read_cursor + size - N
  <2>1. write_cursor = (read_cursor + size) % N
    BY <1>1 DEF CursorInv
  <2> QED
    BY <1>1, <2>1, WrapsOnce
<1>6. write_cursor' = (read_cursor + (size + len)) % N
  <2> DEFINE p == (read_cursor + (size + len)) % N
             q == (write_cursor + len) % N
  <2>1. size + len \in 0 .. N
    BY <1>1, <1>2
  <2>2. p = IF read_cursor + (size + len) < N THEN read_cursor + (size + len)
            ELSE read_cursor + (size + len) - N
    BY <1>1, <2>1, WrapsOnce
  <2>3. q = IF write_cursor + len < N THEN write_cursor + len ELSE write_cursor + len - N
    BY <1>1, <1>2, WrapsOnce
  <2> HIDE DEF p, q
  <2>4. p = q
    <3>1. len \in Nat /\ size + len <= N
      BY <1>2
    <3> QED
      BY <1>0, <1>5, <2>2, <2>3, <3>1, SMTT(30)
  <2> QED
    BY <1>4, <2>4 DEF p, q
<1>7. at = IF write_cursor + first < N THEN write_cursor + first ELSE 0
  <2>1. first \in 0 .. N /\ write_cursor + first <= N
    BY <1>1, <1>2, <1>3
  <2>2. at = IF write_cursor + first < N THEN write_cursor + first
             ELSE write_cursor + first - N
    BY <1>1, <2>1, WrapsOnce
  <2> HIDE DEF at
  <2> QED
    BY <1>1, <2>1, <2>2
<1>8. a \in Seq(Nat) /\ Len(a) = first /\ \A i \in 1 .. first : a[i] = src[i]
  <2>1. first \in 0 .. Len(src) /\ 1 <= first + 1
    BY <1>2, <1>3
  <2> QED
    BY <2>1, SubSeqIs
<1>9. b \in Seq(Nat) /\ Len(b) = len - first
      /\ \A i \in 1 .. len - first : b[i] = src[first + i]
  <2>1. first + 1 \in Nat \ {0} /\ len \in 0 .. Len(src) /\ first + 1 <= len + 1
    BY <1>2, <1>3
  <2>2. len - (first + 1) + 1 = len - first
    BY <1>2, <1>3
  <2>3. /\ b \in Seq(Nat) /\ Len(b) = len - (first + 1) + 1
        /\ \A i \in 1 .. len - (first + 1) + 1 : b[i] = src[(first + 1) + i - 1]
    BY <2>1, SubSeqIs
  <2>4. \A i \in 1 .. len - first : (first + 1) + i - 1 = first + i
    BY <1>2, <1>3
  <2> QED
    BY <2>2, <2>3, <2>4
<1> HIDE DEF a, b, at
<1>10. /\ d1 \in [0 .. N - 1 -> Nat]
       /\ \A j \in 0 .. N - 1 :
            d1[j] = IF write_cursor <= j /\ j < write_cursor + first
                      THEN a[j - write_cursor + 1] ELSE data[j]
  <2>1. data \in [0 .. N - 1 -> Nat] /\ write_cursor \in Nat /\ a \in Seq(Nat)
    BY <1>0, <1>1, <1>8
  <2>2. Len(a) = first
    BY <1>8
  <2>3. /\ Copy(data, write_cursor, a) \in [0 .. N - 1 -> Nat]
        /\ \A j \in 0 .. N - 1 :
             Copy(data, write_cursor, a)[j] =
               IF write_cursor <= j /\ j < write_cursor + Len(a)
                 THEN a[j - write_cursor + 1] ELSE data[j]
    BY <2>1, CopyIs
  <2> QED
    BY <2>2, <2>3, Zenon
<1>11. at \in Nat
  BY <1>1, <1>3, <1>7
<1> HIDE DEF d1
<1>12. /\ data' \in [0 .. N - 1 -> Nat]
       /\ \A j \in 0 .. N - 1 :
            data'[j] = IF at <= j /\ j < at + (len - first) THEN b[j - at + 1] ELSE d1[j]
  <2>1. d1 \in [0 .. N - 1 -> Nat] /\ at \in Nat /\ b \in Seq(Nat)
    BY <1>9, <1>10, <1>11
  <2>2. Len(b) = len - first /\ data' = Copy(d1, at, b)
    BY <1>4, <1>9
  <2>3. /\ Copy(d1, at, b) \in [0 .. N - 1 -> Nat]
        /\ \A j \in 0 .. N - 1 :
             Copy(d1, at, b)[j] =
               IF at <= j /\ j < at + Len(b) THEN b[j - at + 1] ELSE d1[j]
    BY <2>1, CopyIs
  <2> QED
    BY <2>2, <2>3, Zenon
<1>13. ASSUME NEW i \in 1 .. size
       PROVE  data'[(read_cursor + (i - 1)) % N] = data[(read_cursor + (i - 1)) % N]
  <2> DEFINE j == (read_cursor + (i - 1)) % N
  <2>1. i - 1 \in 0 .. N
    BY <1>1
  <2>2. j = IF read_cursor + (i - 1) < N THEN read_cursor + (i - 1)
            ELSE read_cursor + (i - 1) - N
    BY <1>1, <2>1, WrapsOnce
  <2> HIDE DEF j
  <2>3. j \in 0 .. N - 1
    BY <1>1, <2>2
  <2>4. ~(write_cursor <= j /\ j < write_cursor + first)
    BY <1>1, <1>2, <1>3, <1>5, <2>2, SMTT(30)
  <2>5. ~(at <= j /\ j < at + (len - first))
    <3>1. CASE len = first
      <4>1. len - first = 0 /\ at \in Nat /\ j \in Nat
        BY <1>1, <1>a, <1>3, <1>11, <2>3, <3>1
      <4> QED
        BY <4>1
    <3>2. CASE len # first
      <4>1. at = 0 /\ first = N - write_cursor
        BY <1>0, <1>a, <1>3, <1>7, <3>2
      <4>2. j >= 0 /\ ~(j < len - first)
        BY <1>0, <1>a, <1>3, <1>5, <2>2, <4>1, SMTT(30)
      <4>3. at + (len - first) = len - first
        BY <1>a, <1>3, <4>1
      <4> QED
        BY ONLY <4>2, <4>3
    <3> QED
      BY <3>1, <3>2
  <2>6. data'[j] = data[j]
    BY <1>10, <1>12, <2>3, <2>4, <2>5
  <2> QED
    BY <2>6 DEF j
<1>14. ASSUME NEW i \in 1 .. len
       PROVE  data'[(read_cursor + (size + i - 1)) % N] = src[i]
  <2> DEFINE j == (read_cursor + (size + i - 1)) % N
  <2>1. size + i - 1 \in 0 .. N
    BY <1>1, <1>2
  <2>2. j = IF read_cursor + (size + i - 1) < N THEN read_cursor + (size + i - 1)
            ELSE read_cursor + (size + i - 1) - N
    BY <1>1, <2>1, WrapsOnce
  <2> HIDE DEF j
  <2>3. j \in 0 .. N - 1
    BY <1>1, <1>2, <2>2
  <2>4. CASE i <= first
    <3>1. j = write_cursor + i - 1
      BY <1>1, <1>2, <1>3, <1>5, <2>2, <2>4, SMTT(30)
    <3>2. ~(at <= j /\ j < at + (len - first))
      <4>1. write_cursor <= j /\ j < write_cursor + first /\ j \in Nat
        BY <1>0, <1>3, <2>3, <2>4, <3>1
      <4>2. at = write_cursor + first \/ (at = 0 /\ len - first <= write_cursor)
        BY <1>0, <1>a, <1>3, <1>7
      <4>3. len - first \in Nat /\ at \in Nat
        BY <1>a, <1>3, <1>11
      <4> QED
        BY <1>0, <4>1, <4>2, <4>3
    <3>3. data'[j] = a[j - write_cursor + 1]
      <4>1. write_cursor <= j /\ j < write_cursor + first
        BY <1>0, <1>3, <2>4, <3>1
      <4> QED
        BY <1>10, <1>12, <2>3, <3>2, <4>1
    <3>4. j - write_cursor + 1 = i /\ i \in 1 .. first
      BY <1>1, <1>2, <1>3, <2>4, <3>1
    <3> QED
      BY <1>8, <3>3, <3>4 DEF j
  <2>5. CASE ~(i <= first)
    <3>1. /\ at <= j /\ j < at + (len - first) /\ j - at + 1 = i - first
          /\ i - first \in 1 .. len - first /\ first + (i - first) = i
      BY <1>0, <1>a, <1>3, <1>5, <1>7, <2>2, <2>5, SMTT(30)
    <3> QED
      BY <1>9, <1>12, <2>3, <3>1 DEF j
  <2> QED
    BY <2>4, <2>5
<1> QED
  BY <1>2, <1>4, <1>6, <1>12, <1>13, <1>14

-----------------------------------------------------------------------------
(* IndInv holds of a new appender. *)
LEMMA InitIndInv == Init => IndInv
<1> SUFFICES ASSUME Init PROVE IndInv
  OBVIOUS
<1>1. TypeOK
  <2>1. N \in Nat \ {0} /\ N - 1 \in Nat
    BY RingAssumption
  <2>2. << >> \in Seq(Nat) /\ {0} \subseteq Nat /\ {} \subseteq Nat
    OBVIOUS
  <2>3. data \in [0 .. N - 1 -> Nat]
    BY DEF Init
  <2>4. size \in 0 .. N /\ got \in 0 .. size /\ write_cursor \in 0 .. N - 1 /\ read_cursor \in 0 .. N - 1
    BY <2>1 DEF Init
  <2> QED
    BY <2>2, <2>3, <2>4 DEF Init, TypeOK
<1>2. accepted = file \o Unread
  <2>1. Unread = << >>
    <3>1. Unread \in Seq(Nat) /\ Len(Unread) = 0
      BY <1>1, UnreadIs DEF Init
    <3> QED
      BY <3>1, EmptySeq
  <2> QED
    BY <2>1 DEF Init
<1>3. CursorInv
  <2>1. 0 \in 0 .. N - 1 /\ 0 \in 0 .. N /\ 0 + 0 < N /\ 0 - 0 = 0 /\ 0 + 0 = 0
    BY RingAssumption
  <2> QED
    BY <2>1, WrapsOnce DEF Init, CursorInv
<1>4. cuts \subseteq ends /\ LockInv /\ EndsInv
  BY DEF Init, LockInv, EndsInv
<1> QED
  BY <1>1, <1>2, <1>3, <1>4 DEF IndInv, RingIntact

(* log(): the ring grows by what was written, and the record ends there. *)
LEMMA LogStep ==
  ASSUME IndInv, NEW l \in Loggers, NEW len \in Lens, Log(l, len)
  PROVE  IndInv'
<1> DEFINE src == [i \in 1 .. len |-> Len(accepted) + i]
           written == Least(N - size, len)
           new == SubSeq(src, 1, written)
<1>0. TypeOK /\ CursorInv /\ accepted = file \o Unread /\ LockInv /\ EndsInv
  BY DEF IndInv, RingIntact
<1>1. /\ accepted \in Seq(Nat) /\ file \in Seq(Nat) /\ Len(accepted) \in Nat
      /\ len \in Nat /\ ends \subseteq Nat
  BY <1>0, LensAssumption DEF TypeOK
<1>2. src \in Seq(Nat) /\ Len(src) = len
  BY <1>1
<1>3. /\ UNCHANGED <<read_cursor, running, held, tpc, got, spc, file, cuts>>
      /\ accepted' = accepted \o new /\ ends' = ends \cup {Len(accepted) + written}
      /\ RingWrite(src) /\ ~held
      /\ notified' \in BOOLEAN /\ lpc' \in [Loggers -> {"idle", "write"}]
  BY <1>0 DEF Log, TypeOK
<1>4. got = 0
  BY <1>0, <1>3 DEF LockInv, TypeOK
<1> HIDE DEF src
<1>5. /\ written \in 0 .. len /\ size + written <= N /\ size' = size + written
      /\ data' \in [0 .. N - 1 -> Nat]
      /\ write_cursor' = (read_cursor + (size + written)) % N
      /\ \A i \in 1 .. size : data'[(read_cursor + (i - 1)) % N]
                                = data[(read_cursor + (i - 1)) % N]
      /\ \A i \in 1 .. written : data'[(read_cursor + (size + i - 1)) % N] = src[i]
  BY <1>0, <1>2, <1>3, <1>4, RingWriteAppends
<1> HIDE DEF written
<1>6. /\ new \in Seq(Nat) /\ Len(new) = written
      /\ \A i \in 1 .. written : new[i] = src[i]
  <2>1. src \in Seq(Nat) /\ 1 \in Nat \ {0} /\ written \in 0 .. Len(src) /\ 1 <= written + 1
    BY <1>1, <1>2, <1>5
  <2>2. /\ new \in Seq(Nat) /\ Len(new) = written - 1 + 1
        /\ \A i \in 1 .. written - 1 + 1 : new[i] = src[1 + i - 1]
    BY <2>1, SubSeqIs
  <2>3. written - 1 + 1 = written /\ \A i \in 1 .. written : 1 + i - 1 = i
    BY <1>1, <1>5
  <2> HIDE DEF new
  <2> QED
    BY <2>2, <2>3
<1> HIDE DEF new
<1>7. size \in Nat /\ N \in Nat /\ read_cursor \in 0 .. N - 1 /\ size + written \in 0 .. N
      /\ written \in Nat
  BY <1>0, <1>1, <1>5, RingAssumption DEF TypeOK
<1>8. TypeOK'
  <2>1. write_cursor' \in 0 .. N - 1
    BY <1>5, <1>7, CursorType
  <2>2. accepted' \in Seq(Nat) /\ ends' \subseteq Nat
    <3>1. accepted \o new \in Seq(Nat)
      BY <1>1, <1>6, ConcatProperties
    <3>2. Len(accepted) + written \in Nat
      BY <1>1, <1>7
    <3> QED
      BY <1>1, <1>3, <3>1, <3>2
  <2>3. size' \in 0 .. N /\ got' \in 0 .. size'
    BY <1>3, <1>4, <1>5, <1>7
  <2> QED
    BY <1>0, <1>3, <1>5, <2>1, <2>2, <2>3 DEF TypeOK
<1>9. Unread' = Unread \o new
  <2>1. /\ Unread \in Seq(Nat) /\ Len(Unread) = size
        /\ \A i \in 1 .. size : Unread[i] = data[(read_cursor + (i - 1)) % N]
    BY <1>0, <1>4, <1>7, UnreadIs, SMTT(30)
  <2>2. /\ Unread' \in Seq(Nat) /\ Len(Unread') = size'
        /\ \A i \in 1 .. size' : Unread'[i] = data'[(read_cursor + (i - 1)) % N]
    <3>1. /\ Unread' \in Seq(Nat) /\ Len(Unread') = size' - got'
          /\ \A i \in 1 .. size' - got' :
               Unread'[i] = data'[(read_cursor' + (i - 1)) % N]
      BY <1>8, UnreadIsNext
    <3>2. size' - got' = size' /\ read_cursor' = read_cursor
      BY <1>3, <1>4, <1>5, <1>7
    <3> QED
      BY <3>1, <3>2
  <2>3. \A i \in 1 .. Len(Unread) : Unread'[i] = Unread[i]
    <3>1. \A i \in 1 .. size : i \in 1 .. size'
      BY <1>5, <1>7
    <3> QED
      BY <1>5, <2>1, <2>2, <3>1
  <2>4. \A i \in 1 .. Len(new) : Unread'[Len(Unread) + i] = new[i]
    <3>1. \A i \in 1 .. written : size + i \in 1 .. size' /\ (size + i) - 1 = size + i - 1
      BY <1>5, <1>7
    <3> QED
      BY <1>5, <1>6, <2>1, <2>2, <3>1, ZenonT(30)
  <2>5. Len(Unread') = Len(Unread) + Len(new)
    BY <1>5, <1>6, <2>1, <2>2
  <2> QED
    BY <1>6, <2>1, <2>2, <2>3, <2>4, <2>5, ConcatIs
<1>10. accepted' = file' \o Unread'
  <2>1. Unread \in Seq(Nat)
    BY <1>0, UnreadIs
  <2>2. \A a, b, c \in Seq(Nat) : (a \o b) \o c = a \o (b \o c)
    BY ConcatAssociative, SMTT(30)
  <2> QED
    BY <1>0, <1>1, <1>3, <1>6, <1>9, <2>1, <2>2
<1>11. CursorInv'
  <2>1. size' - got' = size + written
    BY <1>3, <1>4, <1>5, <1>7
  <2> QED
    BY <1>3, <1>5, <2>1 DEF CursorInv
<1>12. EndsInv' /\ LockInv' /\ (cuts \subseteq ends)'
  <2>1. Len(accepted') = Len(accepted) + written
    <3>1. Len(accepted \o new) = Len(accepted) + Len(new)
      BY <1>1, <1>6, ConcatProperties
    <3> QED
      BY <1>3, <1>6, <3>1
  <2>2. cuts \subseteq ends
    BY DEF IndInv, RingIntact
  <2> QED
    BY <1>0, <1>3, <2>1, <2>2 DEF EndsInv, LockInv
<1> QED
  BY <1>8, <1>10, <1>11, <1>12 DEF IndInv, RingIntact

(* One piece of ring_buffer::read(): the octets leave the ring in the order in *)
(* which they came, and after the last piece the ring is empty.               *)
LEMMA ReadStep == ASSUME IndInv, Read PROVE IndInv'
<1> DEFINE n == Least(N - read_cursor, size - got)
           piece == [i \in 1 .. n |-> data[read_cursor + i - 1]]
<1>0. TypeOK /\ CursorInv /\ accepted = file \o Unread /\ LockInv /\ EndsInv
  BY DEF IndInv, RingIntact
<1>1. /\ N \in Nat /\ N > 0 /\ size \in Nat /\ size <= N /\ got \in Nat /\ got <= size
      /\ read_cursor \in Nat /\ read_cursor < N
      /\ read_cursor \in 0 .. N - 1 /\ data \in [0 .. N - 1 -> Nat]
      /\ file \in Seq(Nat) /\ accepted \in Seq(Nat)
  BY <1>0, RingAssumption DEF TypeOK
<1>2. /\ n \in Nat /\ n <= size - got /\ read_cursor + n <= N /\ n <= N
      /\ n = IF N - read_cursor <= size - got THEN N - read_cursor ELSE size - got
  BY <1>1 DEF Least
<1>3. /\ UNCHANGED <<data, write_cursor, running, notified, lpc, spc, accepted, ends, cuts>>
      /\ file' = file \o piece /\ read_cursor' = (read_cursor + n) % N /\ tpc = "read"
      /\ \/ /\ got + n < size /\ got' = got + n
            /\ UNCHANGED <<size, held, tpc>>
         \/ /\ ~(got + n < size) /\ size' = size - (got + n) /\ got' = 0
            /\ held' = FALSE /\ tpc' = "test"
  BY DEF Read
<1> HIDE DEF n
<1>4. piece \in Seq(Nat) /\ Len(piece) = n
      /\ \A i \in 1 .. n : piece[i] = data[read_cursor + i - 1]
  <2>1. \A i \in 1 .. n : read_cursor + i - 1 \in 0 .. N - 1
    BY <1>1, <1>2
  <2> QED
    BY <1>1, <1>2, <2>1
<1> HIDE DEF piece
<1>5. /\ read_cursor' \in Nat /\ read_cursor' < N
      /\ read_cursor + n < N => read_cursor' = read_cursor + n
      /\ read_cursor + n = N => read_cursor' = 0
  <2>1. n \in 0 .. N
    BY <1>1, <1>2
  <2>2. read_cursor' = IF read_cursor + n < N THEN read_cursor + n ELSE read_cursor + n - N
    BY <1>1, <1>3, <2>1, WrapsOnce
  <2> QED
    BY <1>1, <1>2, <2>2
<1>6. /\ size' \in Nat /\ size' <= N /\ got' \in Nat /\ got' <= size'
      /\ size' - got' = size - got - n
      /\ got' > 0 => tpc' = "read"
  BY <1>1, <1>2, <1>3
<1>7. TypeOK'
  <2>1. file' \in Seq(Nat)
    BY <1>1, <1>3, <1>4, ConcatProperties
  <2>2. read_cursor' \in 0 .. N - 1 /\ size' \in 0 .. N /\ got' \in 0 .. size'
    BY <1>1, <1>5, <1>6
  <2>3. held' \in BOOLEAN /\ tpc' \in {"test", "lock", "empty", "sleep", "wait", "read", "exited"}
    BY <1>0, <1>3 DEF TypeOK
  <2> QED
    BY <1>0, <1>3, <2>1, <2>2, <2>3 DEF TypeOK
<1>8. /\ Unread \in Seq(Nat) /\ Len(Unread) = size - got
      /\ \A i \in 1 .. size - got : Unread[i] = data[(read_cursor + (i - 1)) % N]
  BY <1>0, UnreadIs
<1>9. /\ Unread' \in Seq(Nat) /\ Len(Unread') = size - got - n
      /\ \A i \in 1 .. size - got - n : Unread'[i] = data[(read_cursor' + (i - 1)) % N]
  BY <1>3, <1>6, <1>7, UnreadIsNext
<1>10. Unread = piece \o Unread'
  <2>1. ASSUME NEW i \in 1 .. n PROVE Unread[i] = piece[i]
    <3>1. /\ i \in 1 .. size - got /\ i - 1 \in 0 .. N /\ read_cursor + (i - 1) < N
          /\ read_cursor + (i - 1) = read_cursor + i - 1
      BY <1>1, <1>2
    <3>2. (read_cursor + (i - 1)) % N = read_cursor + i - 1
      BY <1>1, <3>1, WrapsOnce
    <3> QED
      BY <1>4, <1>8, <3>1, <3>2
  <2>2. ASSUME NEW i \in 1 .. size - got - n PROVE Unread[n + i] = Unread'[i]
    <3>1. /\ n + i \in 1 .. size - got /\ n = N - read_cursor /\ read_cursor' = 0
          /\ i - 1 \in 0 .. N /\ (n + i) - 1 \in 0 .. N
          /\ read_cursor + ((n + i) - 1) >= N
          /\ read_cursor + ((n + i) - 1) - N = i - 1
          /\ 0 + (i - 1) < N /\ 0 + (i - 1) = i - 1
      BY <1>1, <1>2, <1>5
    <3>2. (read_cursor + ((n + i) - 1)) % N = i - 1
      <4>1. ~(read_cursor + ((n + i) - 1) < N)
        BY <1>1, <1>2, <3>1
      <4> QED
        BY <1>1, <3>1, <4>1, WrapsOnce
    <3>3. (read_cursor' + (i - 1)) % N = i - 1
      <4>1. 0 \in 0 .. N - 1
        BY <1>1
      <4> QED
        BY <3>1, <4>1, WrapsOnce
    <3> QED
      BY <1>8, <1>9, <3>1, <3>2, <3>3, SMTT(30)
  <2>3. Len(Unread) = Len(piece) + Len(Unread')
    BY <1>1, <1>2, <1>4, <1>8, <1>9
  <2>4. \A i \in 1 .. Len(piece) : Unread[i] = piece[i]
    BY <1>4, <2>1
  <2>5. \A i \in 1 .. Len(Unread') : Unread[Len(piece) + i] = Unread'[i]
    BY <1>4, <1>9, <2>2
  <2>6. Unread \in Seq(Nat) /\ piece \in Seq(Nat) /\ Unread' \in Seq(Nat)
    BY <1>4, <1>8, <1>9
  <2> QED
    BY <2>3, <2>4, <2>5, <2>6, ConcatIs
<1>11. accepted' = file' \o Unread'
  <2>1. \A a, b, c \in Seq(Nat) : (a \o b) \o c = a \o (b \o c)
    BY ConcatAssociative, SMTT(30)
  <2> QED
    BY <1>0, <1>1, <1>3, <1>4, <1>9, <1>10, <2>1, ZenonT(30)
<1>12. CursorInv'
  <2> DEFINE p == (read_cursor + (size - got)) % N
             q == (read_cursor' + (size - got - n)) % N
  <2>1. size - got \in 0 .. N /\ size - got - n \in 0 .. N /\ read_cursor' \in 0 .. N - 1
    BY <1>1, <1>2, <1>5
  <2>2. p = IF read_cursor + (size - got) < N THEN read_cursor + (size - got)
            ELSE read_cursor + (size - got) - N
    BY <1>1, <2>1, WrapsOnce
  <2>3. q = IF read_cursor' + (size - got - n) < N THEN read_cursor' + (size - got - n)
            ELSE read_cursor' + (size - got - n) - N
    BY <2>1, WrapsOnce
  <2> HIDE DEF p, q
  <2>4. p = q
    <3>1. CASE N - read_cursor <= size - got
      <4>1. /\ read_cursor' = 0 /\ n = N - read_cursor
            /\ ~(read_cursor + (size - got) < N)
            /\ 0 + (size - got - n) < N
            /\ 0 + (size - got - n) = read_cursor + (size - got) - N
        BY <1>1, <1>2, <1>5, <3>1
      <4> QED
        BY <2>2, <2>3, <4>1
    <3>2. CASE ~(N - read_cursor <= size - got)
      <4>1. /\ n = size - got /\ read_cursor' = read_cursor + n
            /\ read_cursor + n < N /\ size - got - n = 0
            /\ (read_cursor + n) + 0 = read_cursor + n
        BY <1>1, <1>2, <1>5, <3>2
      <4> QED
        BY <2>2, <2>3, <4>1
    <3> QED
      BY <3>1, <3>2
  <2> QED
    BY <1>0, <1>3, <1>6, <2>4 DEF CursorInv, p, q
<1>13. LockInv'
  BY <1>0, <1>3, <1>6 DEF LockInv
<1>14. EndsInv' /\ (cuts \subseteq ends)'
  <2>1. cuts \subseteq ends
    BY DEF IndInv, RingIntact
  <2>2. got' = 0 => size - got - n = 0
    BY <1>1, <1>2, <1>3
  <2>3. got' = 0 => Len(file') = Len(accepted)
    <3>1. Len(file' \o Unread') = Len(file') + Len(Unread') /\ Len(file') \in Nat
      <4>1. file' \in Seq(Nat) /\ Unread' \in Seq(Nat)
        BY <1>7, <1>9 DEF TypeOK
      <4> QED
        BY <4>1, ConcatProperties
    <3> QED
      BY <1>3, <1>9, <1>11, <2>2, <3>1
  <2> QED
    BY <1>0, <1>3, <2>1, <2>3 DEF EndsInv
<1> QED
  BY <1>7, <1>11, <1>12, <1>13, <1>14 DEF IndInv, RingIntact

(* The steps that leave the ring and the file alone. *)
LEMMA ControlStep ==
  ASSUME IndInv, UNCHANGED <<ring, got, accepted, ends, file>>,
         cuts' = cuts \/ (~held /\ cuts' = cuts \cup {Len(file)}),
         running' \in BOOLEAN, held' \in BOOLEAN, notified' \in BOOLEAN,
         tpc' \in {"test", "lock", "empty", "sleep", "wait", "read", "exited"},
         lpc' \in [Loggers -> {"idle", "write"}],
         spc' \in {"idle", "notify", "join", "done"},
         held' <=> tpc' \in {"empty", "sleep", "read"},
         tpc = "read" => tpc' = "read"
  PROVE  IndInv'
<1>0. TypeOK /\ CursorInv /\ accepted = file \o Unread /\ LockInv /\ EndsInv
      /\ cuts \subseteq ends
  BY DEF IndInv, RingIntact
<1>1. Len(file) \in Nat
  BY <1>0 DEF TypeOK
<1>2. TypeOK'
  BY <1>0, <1>1 DEF TypeOK, ring
<1>3. CursorInv' /\ EndsInv' /\ Unread' = Unread
  BY <1>0 DEF CursorInv, EndsInv, Unread, ring
<1>4. LockInv'
  BY <1>0 DEF LockInv
<1>5. (cuts \subseteq ends)'
  <2>1. ~held => got = 0
    BY <1>0 DEF LockInv, TypeOK
  <2> QED
    BY <1>0, <2>1 DEF EndsInv
<1> QED
  BY <1>0, <1>2, <1>3, <1>4, <1>5 DEF IndInv, RingIntact

(* IndInv is kept by every step. *)
LEMMA IndInvStep == IndInv /\ [Next]_vars => IndInv'
<1> SUFFICES ASSUME IndInv, [Next]_vars PROVE IndInv'
  OBVIOUS
<1>0. TypeOK /\ LockInv
  BY DEF IndInv, RingIntact
<1>1. CASE \E l \in Loggers, len \in Lens : Log(l, len)
  BY <1>1, LogStep
<1>2. CASE Read
  BY <1>2, ReadStep
<1>3. CASE \E l \in Loggers, event \in BOOLEAN : StartLog(l, event)
  BY <1>0, <1>3, ControlStep DEF StartLog, TypeOK, LockInv, ring, history
<1>4. CASE Rotate
  BY <1>0, <1>4, ControlStep DEF Rotate, TypeOK, LockInv, ring
<1>5. CASE TestRunning \/ Lock \/ TestEmpty
  <2>1. CASE TestRunning
    BY <1>0, <2>1, ControlStep DEF TestRunning, TypeOK, LockInv, ring, history
  <2>2. CASE Lock
    BY <1>0, <2>2, ControlStep DEF Lock, TypeOK, LockInv, ring, history
  <2>3. CASE TestEmpty
    BY <1>0, <2>3, ControlStep DEF TestEmpty, TypeOK, LockInv, ring, history
  <2> QED
    BY <1>5, <2>1, <2>2, <2>3
<1>6. CASE Sleep \/ TimeOut \/ Woken
  BY <1>0, <1>6, ControlStep DEF Sleep, TimeOut, Woken, TypeOK, LockInv, ring, history
<1>7. CASE ClearRunning \/ StopStep
  <2>1. CASE ClearRunning
    BY <1>0, <2>1, ControlStep DEF ClearRunning, TypeOK, LockInv, ring, history
  <2>2. CASE NotifyStop
    BY <1>0, <2>2, ControlStep DEF NotifyStop, TypeOK, LockInv, ring, history
  <2>3. CASE Join
    BY <1>0, <2>3, ControlStep DEF Join, TypeOK, LockInv, ring, history
  <2> QED
    BY <1>7, <2>1, <2>2, <2>3 DEF StopStep
<1>8. CASE UNCHANGED vars
  BY <1>0, <1>8, ControlStep DEF vars, TypeOK, LockInv, ring
<1> QED
  BY <1>1, <1>2, <1>3, <1>4, <1>5, <1>6, <1>7, <1>8 DEF Next, ThreadStep

(* Whatever the capacity, the threshold and the lengths: the file and the ring  *)
(* hold in order exactly what log() wrote, across every wrap of the ring and    *)
(* every cut record, and rotate() reopens the file between records.            *)
THEOREM RingStaysIntact == Spec => []RingIntact
<1>1. IndInv => RingIntact
  BY DEF IndInv
<1> QED
  BY <1>1, InitIndInv, IndInvStep, PTL DEF Spec

(***************************************************************************)
(* A record's way to its file (Log), for any number of records and days, any *)
(* levels, any interval of the checks and whatever the rotators' start of    *)
(* the day is off.                                                           *)
(***************************************************************************)

(* A time t of day d, and of the day after it. *)
LEMMA DayIs ==
  ASSUME NEW t \in Nat, NEW d \in Nat, d * Day <= t, t < (d + 1) * Day
  PROVE  L!DayOf(t) = d
<1>1. Day \in Nat \ {0}
  BY RotatorAssumption
<1>2. PICK q \in Int, r \in 0 .. Day - 1 : q = t \div Day /\ t = Day * q + r
  <2>1. t = Day * (t \div Day) + (t % Day) /\ t \div Day \in Int /\ t % Day \in 0 .. Day - 1
    BY <1>1
  <2> QED
    BY <2>1
<1>3. q < d + 1
  <2> SUFFICES ASSUME q >= d + 1 PROVE FALSE
    OBVIOUS
  <2>1. Day * q >= Day * (d + 1) /\ Day * (d + 1) = (d + 1) * Day
    BY <1>1
  <2> QED
    BY <1>1, <1>2, <2>1
<1>4. q > d - 1
  <2> SUFFICES ASSUME q + 1 <= d PROVE FALSE
    OBVIOUS
  <2>1. Day * (q + 1) <= Day * d /\ Day * (q + 1) = Day * q + Day /\ Day * d = d * Day
    BY <1>1
  <2> QED
    BY <1>1, <1>2, <2>1
<1> QED
  BY <1>2, <1>3, <1>4 DEF L!DayOf

(* The day of a time begins no later than the time, and ends after it. *)
LEMMA DayBounds ==
  ASSUME NEW t \in Nat
  PROVE  /\ L!DayOf(t) \in Nat
         /\ L!DayOf(t) * Day <= t /\ t < (L!DayOf(t) + 1) * Day
<1>1. Day \in Nat \ {0}
  BY RotatorAssumption
<1>2. PICK q \in Int, r \in 0 .. Day - 1 : q = t \div Day /\ t = Day * q + r
  <2>1. t = Day * (t \div Day) + (t % Day) /\ t \div Day \in Int /\ t % Day \in 0 .. Day - 1
    BY <1>1
  <2> QED
    BY <2>1
<1>3. q > 0 - 1
  <2> SUFFICES ASSUME q <= 0 - 1 PROVE FALSE
    OBVIOUS
  <2>1. Day * q <= Day * (0 - 1) /\ Day * (0 - 1) = 0 - Day
    BY <1>1
  <2> QED
    BY <1>1, <1>2, <2>1
<1>4. Day * q = q * Day /\ (q + 1) * Day = q * Day + Day
  BY <1>1
<1> QED
  BY <1>1, <1>2, <1>3, <1>4 DEF L!DayOf

(* Days are in order. *)
LEMMA DaysInOrder ==
  ASSUME NEW a \in Nat, NEW b \in Nat
  PROVE  /\ a * Day \in Nat /\ (a + 1) * Day = a * Day + Day
         /\ a <= b => a * Day <= b * Day
         /\ a * Day < b * Day => a < b
<1>1. Day \in Nat \ {0}
  BY RotatorAssumption
<1>2. a * Day \in Nat /\ (a + 1) * Day = a * Day + Day
  BY <1>1
<1>3. ASSUME a <= b PROVE a * Day <= b * Day
  BY <1>1, <1>3
<1>4. ASSUME b <= a PROVE b * Day <= a * Day
  BY <1>1, <1>4
<1>5. a * Day \in Int /\ b * Day \in Int
  BY <1>1
<1> QED
  BY <1>2, <1>3, <1>4, <1>5

(* A time within the clock's bound is of one of the days that have a file. *)
LEMMA DayHasFile ==
  ASSUME NEW t \in Nat, t <= MaxTime \/ t < Day
  PROVE  L!DayOf(t) \in L!Days
<1>1. MaxTime \in Nat /\ Day \in Nat \ {0}
  BY RotatorAssumption
<1>2. L!DayOf(t) \in Nat /\ L!DayOf(MaxTime) \in Nat
  BY <1>1, DayBounds
<1>3. CASE t < Day
  <2>1. 0 * Day = 0 /\ (0 + 1) * Day = Day
    BY <1>1
  <2>2. L!DayOf(t) = 0
    BY <1>1, <1>3, <2>1, DayIs
  <2> QED
    BY <1>2, <2>2 DEF L!Days
<1>4. CASE t <= MaxTime
  <2>1. L!DayOf(t) * Day <= t /\ MaxTime < (L!DayOf(MaxTime) + 1) * Day
    BY <1>1, DayBounds
  <2>2. PICK a \in Nat, b \in Nat : a = L!DayOf(t) /\ b = L!DayOf(MaxTime)
    BY <1>2
  <2>3. a * Day < (b + 1) * Day
    BY <1>1, <1>4, <2>1, <2>2, DaysInOrder
  <2>4. a < b + 1
    BY <2>3, DaysInOrder
  <2> QED
    BY <2>2, <2>4 DEF L!Days
<1> QED
  BY <1>3, <1>4

(* A deadline is an integer, no earlier than the end of its day and a check, nor than *)
(* the time the rotator waits for and a check.                                        *)
LEMMA DeadlineIs ==
  ASSUME NEW d \in Nat, NEW o \in Offsets
  PROVE  /\ L!Deadline(d, o) \in Int /\ (d + 1) * Day \in Int /\ o \in Int
         /\ (d + 1) * Day + CheckEvery - 1 <= L!Deadline(d, o)
         /\ (d + 1) * Day + o + CheckEvery - 1 <= L!Deadline(d, o)
<1>1. (d + 1) * Day \in Int /\ CheckEvery \in Int /\ o \in Int
  BY RotatorAssumption, DaysInOrder
<1> QED
  BY <1>1 DEF L!Deadline

(* The start of the next day, as the code computes it. *)
LEMMA NextDayIs ==
  ASSUME NEW t \in Nat, NEW o \in Offsets
  PROVE  L!NextDayStart(t, o) = (L!DayOf(t) + 1) * Day + o
<1>1. L!DayOf(t) \in Nat /\ o \in Int /\ Day \in Nat
  BY RotatorAssumption, DayBounds
<1>2. (L!DayOf(t) + 1) * Day = L!DayOf(t) * Day + Day /\ L!DayOf(t) * Day \in Nat
  BY <1>1, DaysInOrder
<1> QED
  BY <1>1, <1>2 DEF L!NextDayStart, L!GetTodayStart

(* The sets the variables range over stay what they are. *)
LEMMA SetsKept ==
  /\ L!Records' = L!Records /\ L!Days' = L!Days /\ L!Entries' = L!Entries
  /\ L!Rotators' = L!Rotators
  BY DEF L!Records, L!Days, L!DayOf, L!Entries, L!Rotators

(* The server starts with the day's file and nothing on the way. *)
LEMMA InitLog == L!Init => L!IndInv
<1> SUFFICES ASSUME L!Init PROVE L!IndInv
  OBVIOUS
<1>1. /\ Day \in Nat \ {0} /\ CheckEvery \in Nat \ {0} /\ MaxTime \in Nat /\ MaxRecords \in Nat
      /\ clock \in Nat /\ clock < Day /\ skew \in Offsets /\ skew \in Int
  BY RotatorAssumption DEF L!Init
<1>2. 0 * Day = 0 /\ (0 + 1) * Day = Day
  BY <1>1
<1>3. L!DayOf(clock) = 0
  BY <1>1, <1>2, DayIs
<1>4. L!DayOf(MaxTime) \in Nat
  BY <1>1, DayBounds
<1>5. /\ nextid = 0 /\ wire = <<>> /\ pool = {} /\ lfile = 0
      /\ rot = [suffix |-> 0, skew |-> skew, next |-> (0 + 1) * Day + skew,
                at |-> clock + CheckEvery, pc |-> "idle"]
      /\ files = [d \in L!Days |-> <<>>] /\ DOMAIN fate = 1 .. MaxRecords
  BY <1>1, <1>3, NextDayIs DEF L!Init
<1>6. L!TypeOK
  <2>1. rot \in L!Rotators /\ lfile \in L!Days
    BY <1>1, <1>2, <1>4, <1>5 DEF L!Rotators, L!Days
  <2> QED
    BY <1>1, <1>5, <2>1 DEF L!TypeOK
<1>7. L!RotatorInv
  <2>1. Day + CheckEvery - 1 <= L!Deadline(0, skew) /\ L!Deadline(0, skew) \in Int
    BY <1>1, <1>2, DeadlineIs
  <2> QED
    BY <1>1, <1>2, <1>5, <2>1 DEF L!RotatorInv
<1> QED
  BY <1>5, <1>6, <1>7 DEF L!IndInv, L!WayInv, L!RightFile

(* The rotators' steps and the clock's. *)
RotatorSteps ==
  \/ \E off \in Offsets : L!CheckRotate(off) \/ \E throws \in BOOLEAN : L!RotateInflux(off, throws)
  \/ L!Rotate
  \/ L!Tick

(* The rotator keeps within the deadline; no record moves. *)
LEMMA RotatorStep ==
  ASSUME L!TypeOK, L!RotatorInv, RotatorSteps
  PROVE  L!TypeOK' /\ L!RotatorInv' /\ UNCHANGED <<nextid, wire, pool, files, fate>>
<1>0. /\ clock \in Nat /\ lfile \in Nat /\ Day \in Nat \ {0} /\ CheckEvery \in Nat \ {0}
      /\ lfile * Day \in Nat /\ rot.next \in Int /\ rot.at \in Nat /\ rot.suffix \in Nat
      /\ rot.suffix \in L!Days /\ rot.skew \in Offsets /\ rot.suffix * Day \in Nat
      /\ MaxTime \in Nat /\ clock + CheckEvery \in Nat \ {0} /\ rot \in L!Rotators
      /\ skew \in Offsets /\ rot.pc \in {"idle", "rotate"}
  BY RotatorAssumption, DaysInOrder DEF L!TypeOK, L!Days, L!Rotators
<1>1. PICK a, b \in Int : a = L!Deadline(lfile, skew) /\ b = L!Deadline(rot.suffix, rot.skew)
  BY <1>0, DeadlineIs
<1>2. /\ lfile * Day <= clock /\ clock <= a /\ rot.suffix * Day <= clock
      /\ clock <= rot.at /\ rot.at <= b
      /\ rot.next = (rot.suffix + 1) * Day + rot.skew
      /\ rot.pc = "idle" => lfile = rot.suffix /\ skew = rot.skew
  BY <1>1 DEF L!RotatorInv
<1>3. ASSUME NEW off \in Offsets, L!CheckRotate(off), clock < rot.next
      PROVE  L!TypeOK' /\ L!RotatorInv' /\ UNCHANGED <<nextid, wire, pool, files, fate>>
  <2>1. /\ rot'.at = clock + CheckEvery /\ rot'.next = rot.next /\ rot'.suffix = rot.suffix
        /\ rot'.skew = rot.skew /\ rot'.pc = rot.pc /\ rot' \in L!Rotators
        /\ UNCHANGED <<clock, nextid, wire, pool, lfile, skew, files, fate>>
    BY <1>0, <1>3 DEF L!CheckRotate, L!Rotators
  <2>2. L!TypeOK'
    BY <2>1, SetsKept DEF L!TypeOK
  <2>3. clock + CheckEvery <= b
    <3>1. /\ (rot.suffix + 1) * Day + rot.skew + CheckEvery - 1 <= b /\ rot.skew \in Int
          /\ (rot.suffix + 1) * Day \in Int
      BY <1>0, <1>1, DeadlineIs
    <3> QED
      BY <1>0, <1>1, <1>2, <1>3, <3>1
  <2>4. rot'.at <= L!Deadline(rot.suffix, rot.skew) /\ clock <= rot'.at
    BY <1>0, <1>1, <2>1, <2>3
  <2>5. L!RotatorInv'
    BY <1>1, <1>2, <2>1, <2>4 DEF L!RotatorInv, L!Deadline
  <2> QED
    BY <2>1, <2>2, <2>5
<1>4. ASSUME NEW off \in Offsets, L!CheckRotate(off), ~(clock < rot.next)
      PROVE  L!TypeOK' /\ L!RotatorInv' /\ UNCHANGED <<nextid, wire, pool, files, fate>>
  <2>1. PICK d \in Nat : d = L!DayOf(clock) /\ d * Day <= clock /\ clock < (d + 1) * Day
    BY <1>0, DayBounds
  <2>2. d \in L!Days
    BY <1>0, <2>1, DayHasFile DEF L!TypeOK
  <2>3. /\ L!Deadline(d, off) \in Int /\ (d + 1) * Day \in Int /\ off \in Int
        /\ (d + 1) * Day + CheckEvery - 1 <= L!Deadline(d, off)
    BY DeadlineIs
  <2>4. /\ rot' = [suffix |-> d, skew |-> off, next |-> (d + 1) * Day + off,
                   at |-> clock + CheckEvery, pc |-> "rotate"]
        /\ UNCHANGED <<clock, nextid, wire, pool, lfile, skew, files, fate>>
    BY <1>0, <1>4, <2>1, NextDayIs DEF L!CheckRotate
  <2>5. L!TypeOK'
    <3>1. rot' \in L!Rotators
      BY <1>0, <2>2, <2>3, <2>4 DEF L!Rotators
    <3> QED
      BY <2>4, <3>1, SetsKept DEF L!TypeOK
  <2>6. L!RotatorInv'
    <3>1. clock + CheckEvery <= L!Deadline(d, off)
      BY <1>0, <2>1, <2>3
    <3>2. clock <= clock + CheckEvery
      BY <1>0
    <3> QED
      BY <1>1, <1>2, <2>1, <2>4, <3>1, <3>2 DEF L!RotatorInv, L!Deadline
  <2> QED
    BY <2>4, <2>5, <2>6
<1>5. ASSUME NEW off \in Offsets, NEW throws \in BOOLEAN, L!RotateInflux(off, throws)
      PROVE  L!TypeOK' /\ L!RotatorInv' /\ UNCHANGED <<nextid, wire, pool, files, fate>>
  <2>1. UNCHANGED <<clock, nextid, wire, pool, rot, lfile, skew, files, fate>>
    BY <1>5 DEF L!RotateInflux
  <2> QED
    BY <2>1 DEF L!TypeOK, L!RotatorInv, L!Deadline, L!Days, L!DayOf, L!Records, L!Rotators
<1>6. CASE L!Rotate
  <2>1. /\ rot'.at = rot.at /\ rot'.next = rot.next /\ rot'.pc = "idle" /\ rot' \in L!Rotators
        /\ rot'.suffix = rot.suffix /\ rot'.skew = rot.skew
        /\ UNCHANGED <<clock, nextid, wire, pool, files, fate>>
        /\ lfile' = rot.suffix /\ skew' = rot.skew
    BY <1>0, <1>6 DEF L!Rotate, L!Rotators
  <2>2. L!TypeOK'
    BY <1>0, <2>1, SetsKept DEF L!TypeOK
  <2>3. clock <= L!Deadline(rot.suffix, rot.skew)
    BY <1>0, <1>1, <1>2
  <2>4. L!RotatorInv'
    BY <1>1, <1>2, <2>1, <2>3 DEF L!RotatorInv, L!Deadline
  <2> QED
    BY <2>1, <2>2, <2>4
<1>7. CASE L!Tick
  <2>1. /\ UNCHANGED <<rot, nextid, wire, pool, lfile, skew, files, fate>> /\ rot.pc = "idle"
        /\ clock' = clock + 1 /\ clock < MaxTime /\ clock < rot.at
    BY <1>7 DEF L!Tick, L!rotvars
  <2>2. L!TypeOK'
    BY <1>0, <2>1, SetsKept DEF L!TypeOK
  <2>3. /\ clock + 1 <= rot.at /\ clock + 1 <= L!Deadline(lfile, skew)
        /\ lfile * Day <= clock + 1 /\ rot.suffix * Day <= clock + 1
    BY <1>0, <1>1, <1>2, <2>1
  <2>4. L!RotatorInv'
    BY <1>1, <1>2, <2>1, <2>3 DEF L!RotatorInv, L!Deadline
  <2> QED
    BY <2>1, <2>2, <2>4
<1> QED
  BY <1>3, <1>4, <1>5, <1>6, <1>7 DEF RotatorSteps

(* A step that moves no record keeps the records' part of the invariant. *)
LEMMA RecordsKept ==
  ASSUME L!IndInv, UNCHANGED <<nextid, wire, pool, files, fate>>
  PROVE  L!WayInv' /\ L!RightFile'
  BY DEF L!IndInv, L!WayInv, L!RightFile, L!Deadline, L!Days, L!DayOf

(* A step that leaves the rotator alone keeps the rotator's part. *)
LEMMA RotatorKept ==
  ASSUME L!IndInv, UNCHANGED <<clock, rot, lfile, skew>>
  PROVE  L!RotatorInv'
  BY DEF L!IndInv, L!RotatorInv, L!Deadline

(* A record more, on the wire or at its end. *)
LEMMA CommitStep ==
  ASSUME L!IndInv, NEW kind \in {"log", "influx"}, NEW level \in Levels, NEW drop \in BOOLEAN,
         L!Commit(kind, level, drop)
  PROVE  L!IndInv'
<1>0. L!TypeOK /\ L!WayInv /\ L!RightFile
  BY DEF L!IndInv
<1>1. PICK i \in 1 .. MaxRecords : i = nextid + 1
  BY <1>0, RotatorAssumption DEF L!Commit, L!TypeOK
<1>2. PICK end : /\ fate' = [fate EXCEPT ![i] = end]
                 /\ wire' = IF end = "way" THEN Append(wire, L!Record(kind, level)) ELSE wire
  <2>1. L!Record(kind, level).id = i
    BY <1>1 DEF L!Record
  <2> QED
    BY <2>1, Zenon DEF L!Commit
<1>3. /\ nextid' = i /\ UNCHANGED <<clock, pool, files, rot, lfile, skew>>
  BY <1>1 DEF L!Commit, L!rotvars
<1>4. /\ nextid \in Nat /\ wire \in Seq(L!Records) /\ L!Record(kind, level) \in L!Records
      /\ L!Record(kind, level).id = i
  BY <1>0, <1>1 DEF L!TypeOK, L!Record, L!Records
<1>5. /\ wire' \in Seq(L!Records)
      /\ \A n \in DOMAIN wire' : \/ n \in DOMAIN wire /\ wire'[n] = wire[n]
                                 \/ wire'[n].id = i /\ n = Len(wire) + 1 /\ end = "way"
      /\ Len(wire) \in Nat /\ DOMAIN wire = 1 .. Len(wire)
  <2>1. CASE end = "way"
    BY <1>2, <1>4, <2>1
  <2>2. CASE end # "way"
    BY <1>2, <1>4, <2>2
  <2> QED
    BY <2>1, <2>2
<1>6. /\ \A k \in 1 .. nextid : k # i /\ k \in 1 .. i /\ fate'[k] = fate[k]
      /\ fate'[i] = end /\ DOMAIN fate' = 1 .. MaxRecords
  BY <1>0, <1>1, <1>2, <1>4 DEF L!TypeOK
<1>7. L!TypeOK'
  BY <1>0, <1>1, <1>3, <1>5, <1>6, SetsKept DEF L!TypeOK
<1>8. L!WayInv'
  <2>1. \A n \in DOMAIN wire' : wire'[n].id \in 1 .. nextid' /\ fate'[wire'[n].id] = "way"
    BY <1>0, <1>1, <1>3, <1>5, <1>6 DEF L!WayInv
  <2>2. \A m, n \in DOMAIN wire' : wire'[m].id = wire'[n].id => m = n
    BY <1>0, <1>5, <1>6 DEF L!WayInv
  <2>3. \A r \in pool' : r.id \in 1 .. nextid' /\ \A n \in DOMAIN wire' : wire'[n].id # r.id
    BY <1>0, <1>3, <1>5, <1>6 DEF L!WayInv
  <2> QED
    BY <1>0, <1>3, <1>6, <2>1, <2>2, <2>3 DEF L!WayInv, L!Days, L!DayOf
<1>9. L!RightFile'
  <2>1. \A d \in L!Days : \A n \in DOMAIN files[d] : fate'[files[d][n].id] = "file"
    BY <1>0, <1>6 DEF L!WayInv, L!RightFile
  <2>2. \A r \in pool : fate'[r.id] = "way"
    BY <1>0, <1>6 DEF L!WayInv, L!RightFile
  <2> QED
    BY <1>0, <1>3, <2>1, <2>2 DEF L!RightFile, L!Deadline, L!Days, L!DayOf
<1> QED
  BY <1>3, <1>7, <1>8, <1>9, RotatorKept DEF L!IndInv

(* A record of the server's own, as a task. *)
LEMMA CommitOwnStep ==
  ASSUME L!IndInv, NEW kind \in {"log", "influx"}, NEW level \in Levels, L!CommitOwn(kind, level)
  PROVE  L!IndInv'
<1>0. L!TypeOK /\ L!WayInv /\ L!RightFile
  BY DEF L!IndInv
<1>1. PICK i \in 1 .. MaxRecords : i = nextid + 1
  BY <1>0, RotatorAssumption DEF L!CommitOwn, L!TypeOK
<1>2. PICK x : x = L!Record(kind, level)
  OBVIOUS
<1>3. x \in L!Records /\ x.id = i /\ nextid \in Nat
  BY <1>0, <1>1, <1>2 DEF L!TypeOK, L!Record, L!Records
<1>4. /\ nextid' = i /\ fate' = [fate EXCEPT ![i] = "way"] /\ pool' = pool \cup {x}
      /\ UNCHANGED <<clock, wire, files, rot, lfile, skew>>
  BY <1>1, <1>2, <1>3 DEF L!CommitOwn, L!rotvars
<1>5. /\ \A k \in 1 .. nextid : k # i /\ k \in 1 .. i /\ fate'[k] = fate[k]
      /\ fate'[i] = "way" /\ DOMAIN fate' = 1 .. MaxRecords
  BY <1>0, <1>1, <1>3, <1>4 DEF L!TypeOK
<1>6. L!TypeOK'
  BY <1>0, <1>1, <1>3, <1>4, <1>5, SetsKept DEF L!TypeOK
<1>7. L!WayInv'
  <2>1. \A n \in DOMAIN wire : wire[n].id \in 1 .. i /\ fate'[wire[n].id] = "way" /\ wire[n].id # i
    BY <1>0, <1>5 DEF L!WayInv
  <2>2. \A r \in pool' : r.id \in 1 .. i /\ \A n \in DOMAIN wire : wire[n].id # r.id
    BY <1>0, <1>1, <1>3, <1>4, <1>5, <2>1 DEF L!WayInv
  <2>3. \A r, q \in pool' : r.id = q.id => r = q
    BY <1>0, <1>3, <1>4, <1>5 DEF L!WayInv
  <2> QED
    BY <1>0, <1>4, <1>5, <2>1, <2>2, <2>3 DEF L!WayInv, L!Days, L!DayOf
<1>8. L!RightFile'
  <2>1. \A d \in L!Days : \A n \in DOMAIN files[d] : fate'[files[d][n].id] = "file"
    BY <1>0, <1>5 DEF L!WayInv, L!RightFile
  <2>2. \A r \in pool' : fate'[r.id] = "way"
    BY <1>0, <1>3, <1>4, <1>5 DEF L!WayInv, L!RightFile
  <2> QED
    BY <1>0, <1>4, <2>1, <2>2 DEF L!RightFile, L!Deadline, L!Days, L!DayOf
<1> QED
  BY <1>4, <1>6, <1>7, <1>8, RotatorKept DEF L!IndInv

(* What is on the wire is lost with its session. *)
LEMMA ReconnectStep == ASSUME L!IndInv, L!Reconnect PROVE L!IndInv'
<1>0. L!TypeOK /\ L!WayInv /\ L!RightFile
  BY DEF L!IndInv
<1>1. UNCHANGED <<clock, nextid, pool, rot, lfile, skew, files>>
  BY DEF L!Reconnect, L!rotvars
<1>2. /\ \/ wire' = <<>>
         \/ wire' = wire /\ \A k \in DOMAIN fate : fate'[k] = fate[k]
      /\ \A k \in DOMAIN fate : (\A n \in DOMAIN wire : wire[n].id # k) => fate'[k] = fate[k]
      /\ DOMAIN fate' = DOMAIN fate
  <2>1. CASE connected
    BY <2>1 DEF L!Reconnect
  <2>2. CASE ~connected
    BY <2>2 DEF L!Reconnect
  <2> QED
    BY <2>1, <2>2
<1>3. wire' \in Seq(L!Records)
  <2>1. wire \in Seq(L!Records) /\ <<>> \in Seq(L!Records)
    BY <1>0 DEF L!TypeOK
  <2> QED
    BY <1>2, <2>1, Zenon
<1>4. L!TypeOK'
  BY <1>0, <1>1, <1>2, <1>3, SetsKept DEF L!TypeOK
<1>5. nextid \in Nat /\ 1 .. nextid \subseteq DOMAIN fate
  BY <1>0, RotatorAssumption DEF L!TypeOK
<1>6. L!WayInv'
  <2>1. CASE wire' = <<>>
    BY <1>0, <1>1, <2>1 DEF L!WayInv, L!Days, L!DayOf
  <2>2. CASE wire' = wire /\ \A k \in DOMAIN fate : fate'[k] = fate[k]
    BY <1>0, <1>1, <1>5, <2>2 DEF L!WayInv, L!Days, L!DayOf
  <2> QED
    BY <1>2, <2>1, <2>2
<1>7. \A r \in pool : fate'[r.id] = "way"
  BY <1>0, <1>2, <1>5 DEF L!WayInv, L!RightFile
<1>8. \A d \in L!Days : \A n \in DOMAIN files[d] : fate'[files[d][n].id] = "file"
  <2> SUFFICES ASSUME NEW d \in L!Days, NEW n \in DOMAIN files[d]
               PROVE  fate'[files[d][n].id] = "file"
    OBVIOUS
  <2>1. fate[files[d][n].id] = "file" /\ files[d][n].id \in DOMAIN fate
    BY <1>0, <1>5 DEF L!WayInv, L!RightFile
  <2>2. \A m \in DOMAIN wire : wire[m].id # files[d][n].id
    BY <1>0, <2>1 DEF L!WayInv
  <2> QED
    BY <1>2, <2>1, <2>2
<1>9. L!RightFile'
  BY <1>0, <1>1, <1>7, <1>8 DEF L!RightFile, L!Deadline, L!Days, L!DayOf
<1> QED
  BY <1>1, <1>4, <1>6, <1>9, RotatorKept DEF L!IndInv

(* The first record of the wire becomes a task. *)
LEMMA ReceiveStep == ASSUME L!IndInv, L!Receive PROVE L!IndInv'
<1>0. L!TypeOK /\ L!WayInv /\ L!RightFile
  BY DEF L!IndInv
<1>1. UNCHANGED <<clock, nextid, rot, lfile, skew, files, fate>>
  BY DEF L!Receive, L!rotvars
<1>2. /\ wire # <<>> /\ wire \in Seq(L!Records)
      /\ pool' = pool \cup {wire[1]} /\ wire' = Tail(wire)
  BY <1>0 DEF L!Receive, L!TypeOK
<1>3. /\ wire' \in Seq(L!Records) /\ 1 \in DOMAIN wire /\ wire[1] \in L!Records
      /\ \A n \in DOMAIN wire' : n + 1 \in DOMAIN wire /\ wire'[n] = wire[n + 1] /\ n \in Nat \ {0}
  BY <1>2
<1>4. L!TypeOK'
  BY <1>0, <1>1, <1>2, <1>3, SetsKept DEF L!TypeOK
<1>5. L!WayInv'
  <2>1. \A n \in DOMAIN wire' : wire'[n].id \in 1 .. nextid /\ fate[wire'[n].id] = "way"
    BY <1>0, <1>3 DEF L!WayInv
  <2>2. \A m, n \in DOMAIN wire' : wire'[m].id = wire'[n].id => m = n
    BY <1>0, <1>3 DEF L!WayInv
  <2>3. \A n \in DOMAIN wire' : wire'[n].id # wire[1].id
    BY <1>0, <1>3 DEF L!WayInv
  <2>4. \A r \in pool' : r.id \in 1 .. nextid /\ \A n \in DOMAIN wire' : wire'[n].id # r.id
    BY <1>0, <1>2, <1>3, <2>3 DEF L!WayInv
  <2>5. \A r, q \in pool' : r.id = q.id => r = q
    BY <1>0, <1>2, <1>3 DEF L!WayInv
  <2> QED
    BY <1>0, <1>1, <2>1, <2>2, <2>4, <2>5 DEF L!WayInv, L!Days, L!DayOf
<1>6. \A r \in pool' : fate[r.id] = "way"
  BY <1>0, <1>2, <1>3 DEF L!WayInv, L!RightFile
<1>7. L!RightFile'
  BY <1>0, <1>1, <1>6 DEF L!RightFile, L!Deadline, L!Days, L!DayOf
<1> QED
  BY <1>1, <1>4, <1>5, <1>7, RotatorKept DEF L!IndInv

(* A task that writes its record, or not, leaves the pool with its end settled. *)
LEMMA RunStep ==
  ASSUME L!IndInv, NEW r \in pool, L!RunLog(r) \/ L!RunInflux(r)
  PROVE  L!IndInv'
<1>0. L!TypeOK /\ L!RotatorInv /\ L!WayInv /\ L!RightFile
  BY DEF L!IndInv
<1>1. /\ UNCHANGED <<clock, nextid, wire, rot, lfile, skew>> /\ pool' = pool \ {r}
      /\ r \in L!Records /\ r.id \in DOMAIN fate /\ r.id \in 1 .. nextid
  BY <1>0, RotatorAssumption DEF L!RunLog, L!RunInflux, L!rotvars, L!TypeOK, L!WayInv
<1>2. PICK end : /\ fate' = [fate EXCEPT ![r.id] = end]
                 /\ \/ files' = files
                    \/ /\ end = "file"
                       /\ files' = [files EXCEPT ![lfile] = Append(@, [id |-> r.id, at |-> clock, skew |-> skew])]
  BY DEF L!RunLog, L!RunInflux
<1>3. /\ fate'[r.id] = end /\ DOMAIN fate' = DOMAIN fate
      /\ \A k \in 1 .. nextid : k # r.id => fate'[k] = fate[k]
  BY <1>0, <1>1, <1>2, RotatorAssumption DEF L!TypeOK
<1>4. \A d \in L!Days : \A n \in DOMAIN files[d] :
         files[d][n].id \in 1 .. nextid /\ files[d][n].id # r.id
  <2>1. fate[r.id] = "way" /\ "way" # "file"
    BY <1>0 DEF L!RightFile
  <2>2. \A d \in L!Days : \A n \in DOMAIN files[d] :
           files[d][n].id \in 1 .. nextid /\ fate[files[d][n].id] = "file"
    BY <1>0 DEF L!WayInv, L!RightFile
  <2> QED
    BY <2>1, <2>2
<1>5. PICK x : x = [id |-> r.id, at |-> clock, skew |-> skew] /\ x.id = r.id /\ x.at = clock /\ x.skew = skew
  <2>1. PICK y : y = [id |-> r.id, at |-> clock, skew |-> skew]
    OBVIOUS
  <2>2. y.id = r.id /\ y.at = clock /\ y.skew = skew
    BY <2>1
  <2> QED
    BY <2>1, <2>2
<1>6. /\ \A d \in L!Days : files[d] \in Seq(L!Entries)
      /\ lfile \in L!Days /\ x \in L!Entries /\ DOMAIN files = L!Days
  <2>1. clock \in Nat /\ r.id \in Nat /\ skew \in Offsets
    BY <1>0, <1>1 DEF L!TypeOK, L!Records
  <2>2. x \in L!Entries
    BY <1>5, <2>1 DEF L!Entries
  <2> QED
    BY <1>0, <2>2 DEF L!TypeOK
<1>7. /\ files' \in [L!Days -> Seq(L!Entries)]
      /\ \A d \in L!Days : \A n \in DOMAIN files'[d] :
            \/ n \in DOMAIN files[d] /\ files'[d][n] = files[d][n]
            \/ /\ d = lfile /\ n = Len(files[lfile]) + 1 /\ end = "file"
               /\ files'[d][n].id = r.id /\ files'[d][n].at = clock /\ files'[d][n].skew = skew
  <2>1. CASE files' = files
    BY <1>0, <2>1 DEF L!TypeOK
  <2>2. CASE end = "file" /\ files' = [files EXCEPT ![lfile] = Append(@, x)]
    <3>1. /\ files'[lfile] = Append(files[lfile], x)
          /\ \A d \in L!Days : d # lfile => files'[d] = files[d]
          /\ files' = [d \in L!Days |-> files'[d]]
      BY <1>6, <2>2
    <3>2. /\ files'[lfile] \in Seq(L!Entries)
          /\ \A n \in DOMAIN files'[lfile] :
               \/ n \in DOMAIN files[lfile] /\ files'[lfile][n] = files[lfile][n]
               \/ n = Len(files[lfile]) + 1 /\ files'[lfile][n] = x
      BY <1>6, <3>1, AppendProperties
    <3>3. \A d \in L!Days : files'[d] \in Seq(L!Entries)
      BY <1>6, <3>1, <3>2
    <3>4. files' \in [L!Days -> Seq(L!Entries)]
      BY <3>1, <3>3
    <3> QED
      BY <1>5, <2>2, <3>1, <3>2, <3>4
  <2> QED
    BY <1>2, <1>5, <2>1, <2>2
<1>8. L!TypeOK'
  BY <1>0, <1>1, <1>3, <1>7, SetsKept DEF L!TypeOK
<1>9. L!WayInv'
  <2>1. \A n \in DOMAIN wire : wire[n].id \in 1 .. nextid /\ fate'[wire[n].id] = "way"
    BY <1>0, <1>3 DEF L!WayInv
  <2>2. \A d \in L!Days : \A n \in DOMAIN files'[d] : files'[d][n].id \in 1 .. nextid
    BY <1>1, <1>4, <1>7
  <2> QED
    BY <1>0, <1>1, <2>1, <2>2 DEF L!WayInv, L!Days, L!DayOf
<1>10. L!RightFile'
  <2>1. \A q \in pool' : fate'[q.id] = "way"
    BY <1>0, <1>1, <1>3 DEF L!WayInv, L!RightFile
  <2> SUFFICES ASSUME NEW d \in L!Days, NEW n \in DOMAIN files'[d]
               PROVE  /\ fate'[files'[d][n].id] = "file"
                      /\ d * Day <= files'[d][n].at
                      /\ files'[d][n].at <= L!Deadline(d, files'[d][n].skew)
                      /\ \A e \in L!Days : \A m \in DOMAIN files'[e] :
                           files'[e][m].id = files'[d][n].id => e = d /\ m = n
    BY <2>1 DEF L!RightFile, L!Deadline, L!Days, L!DayOf
  <2>2. CASE n \in DOMAIN files[d] /\ files'[d][n] = files[d][n]
    <3>1. files[d][n].id # r.id /\ fate'[files[d][n].id] = fate[files[d][n].id]
      BY <1>3, <1>4, <2>2
    <3>2. \A e \in L!Days : \A m \in DOMAIN files'[e] :
             files'[e][m].id = files[d][n].id => m \in DOMAIN files[e] /\ files'[e][m] = files[e][m]
      BY <1>7, <3>1
    <3> QED
      BY <1>0, <2>2, <3>1, <3>2 DEF L!RightFile
  <2>3. CASE /\ d = lfile /\ n = Len(files[lfile]) + 1 /\ end = "file"
             /\ files'[d][n].id = r.id /\ files'[d][n].at = clock /\ files'[d][n].skew = skew
    <3>1. \A e \in L!Days : \A m \in DOMAIN files'[e] : files'[e][m].id = r.id => e = d /\ m = n
      <4> SUFFICES ASSUME NEW e \in L!Days, NEW m \in DOMAIN files'[e], files'[e][m].id = r.id
                   PROVE  e = d /\ m = n
        OBVIOUS
      <4>1. ~(m \in DOMAIN files[e] /\ files'[e][m] = files[e][m])
        BY <1>4
      <4>2. e = lfile /\ m = Len(files[lfile]) + 1
        BY <1>7, <4>1
      <4> QED
        BY <2>3, <4>2
    <3> QED
      BY <1>0, <1>3, <2>3, <3>1 DEF L!RotatorInv
  <2> QED
    BY <1>7, <2>2, <2>3
<1> QED
  BY <1>1, <1>8, <1>9, <1>10, RotatorKept DEF L!IndInv

(* The records' and the rotator's invariant is kept by every step. *)
LEMMA LogNextStep == L!IndInv /\ [L!Next]_lvars => L!IndInv'
<1> SUFFICES ASSUME L!IndInv, [L!Next]_lvars PROVE L!IndInv'
  OBVIOUS
<1>1. ASSUME UNCHANGED <<clock, nextid, wire, pool, rot, lfile, skew, files, fate>> PROVE L!IndInv'
  <2>1. L!TypeOK'
    BY <1>1, SetsKept DEF L!IndInv, L!TypeOK
  <2> QED
    BY <1>1, <2>1, RecordsKept, RotatorKept DEF L!IndInv
<1>2. CASE L!AddLogger \/ L!DelLogger \/ UNCHANGED lvars
  BY <1>1, <1>2 DEF L!AddLogger, L!DelLogger, L!rotvars, lvars
<1>3. CASE RotatorSteps
  <2>1. L!TypeOK' /\ L!RotatorInv' /\ UNCHANGED <<nextid, wire, pool, files, fate>>
    BY <1>3, RotatorStep DEF L!IndInv
  <2> QED
    BY <2>1, RecordsKept DEF L!IndInv
<1> QED
  BY <1>2, <1>3, CommitStep, CommitOwnStep, ReconnectStep, ReceiveStep, RunStep DEF L!Next, RotatorSteps

(* Every record is in the file of a day that has begun and that ended, if it has,   *)
(* no longer ago than one check of the rotator and what the uninitialised tm of     *)
(* get_today_start() was off; it is in one file once, whatever the pool, the timer  *)
(* thread and the connection do, for any number of records and days.                *)
THEOREM RecordsInRightFile == SpecAll => []RightFile
<1>1. InitAll => L!IndInv
  BY InitLog DEF InitAll
<1>2. L!IndInv /\ [NextAll]_allvars => L!IndInv'
  <2>1. [NextAll]_allvars => [L!Next]_lvars
    BY DEF NextAll, allvars, lvars
  <2> QED
    BY <2>1, LogNextStep
<1>3. L!IndInv => RightFile
  BY DEF L!IndInv, RightFile
<1> QED
  BY <1>1, <1>2, <1>3, PTL DEF SpecAll

-----------------------------------------------------------------------------
(***************************************************************************)
(* log_formatter.                                                            *)
(***************************************************************************)

(* Among some numbers there is a least one. *)
LEMMA LeastNumber ==
  ASSUME NEW X, X \subseteq Nat, X # {}
  PROVE  \E x \in X : \A y \in X : x <= y
<1> DEFINE Less == OpToRel(<, Nat)
<1>1. IsWellFoundedOn(Less, Nat)
  BY NatLessThanWellFounded
<1>2. \E x \in X : \A y \in X : ~(<<y, x>> \in Less)
  BY <1>1, WFMin
<1>3. \A x, y \in Nat : y < x => <<y, x>> \in Less
  BY DEF OpToRel
<1>4. PICK x \in X : \A y \in X : ~(<<y, x>> \in Less)
  BY <1>2
<1> HIDE DEF Less
<1>5. ASSUME NEW y \in X PROVE x <= y
  <2>1. x \in Nat /\ y \in Nat /\ ~(y < x)
    BY <1>3, <1>4, <1>5
  <2> QED
    BY <2>1
<1> QED
  BY <1>4, <1>5

(* Induction: a set that has 0, and the next of each of its numbers, has them all. *)
LEMMA AllNumbers ==
  ASSUME NEW X, 0 \in X, \A n \in Nat : n \in X => n + 1 \in X
  PROVE  Nat \subseteq X
<1> SUFFICES ASSUME NEW n \in Nat, n \notin X PROVE FALSE
  OBVIOUS
<1>1. PICK x \in Nat \ X : \A y \in Nat \ X : x <= y
  <2>1. Nat \ X \subseteq Nat /\ Nat \ X # {}
    OBVIOUS
  <2> QED
    BY <2>1, LeastNumber
<1>2. x # 0
  OBVIOUS
<1>3. x - 1 \in Nat /\ (x - 1) + 1 = x
  BY <1>2
<1> QED
  BY <1>1, <1>3

(* Two neighbouring parts of a sequence are a part of it. *)
LEMMA SubJoins ==
  ASSUME NEW S, NEW p \in Seq(S), NEW a \in Nat, NEW b \in Nat, NEW c \in Nat,
         1 <= a, a <= b + 1, b <= c, c <= Len(p)
  PROVE  SubSeq(p, a, b) \o SubSeq(p, b + 1, c) = SubSeq(p, a, c)
<1>1. \A i \in 1 .. Len(p) : p[i] \in S
  OBVIOUS
<1>2. PICK t, u, s, m, n : /\ t = SubSeq(p, a, b) /\ u = SubSeq(p, b + 1, c) /\ s = SubSeq(p, a, c)
                           /\ m = b - a + 1 /\ n = c - b
  OBVIOUS
<1>3. m \in Nat /\ n \in Nat
  BY <1>2
<1>4. t \in Seq(S) /\ Len(t) = m /\ \A i \in 1 .. m : t[i] = p[a + i - 1]
  <2>1. \A i \in a .. b : p[i] \in S
    BY <1>1
  <2> QED
    BY <1>2, <1>3, <2>1, SubSeqProperties
<1>5. u \in Seq(S) /\ Len(u) = n /\ \A i \in 1 .. n : u[i] = p[b + i]
  <2>1. \A i \in b + 1 .. c : p[i] \in S
    BY <1>1
  <2>2. PICK d \in Int : d = b + 1
    OBVIOUS
  <2>3. u = SubSeq(p, d, c) /\ \A i \in d .. c : p[i] \in S
    BY <1>2, <2>1, <2>2
  <2>4. u \in Seq(S) /\ Len(u) = (IF d <= c THEN c - d + 1 ELSE 0) /\ \A i \in 1 .. c - d + 1 : u[i] = p[d + i - 1]
    BY <2>3, SubSeqProperties
  <2>5. n = c - d + 1 /\ Len(u) = n
    BY <1>2, <2>2, <2>4
  <2>6. \A i \in 1 .. n : d + i - 1 = b + i
    BY <2>2
  <2> QED
    BY <2>4, <2>5, <2>6
<1>6. s \in Seq(S) /\ Len(s) = m + n /\ \A i \in 1 .. m + n : s[i] = p[a + i - 1]
  <2>1. \A i \in a .. c : p[i] \in S
    BY <1>1
  <2>2. s \in Seq(S) /\ Len(s) = (IF a <= c THEN c - a + 1 ELSE 0) /\ \A i \in 1 .. c - a + 1 : s[i] = p[a + i - 1]
    BY <1>2, <2>1, SubSeqProperties
  <2>3. m + n = c - a + 1
    BY <1>2
  <2> QED
    BY <2>2, <2>3
<1>7. /\ t \o u \in Seq(S) /\ Len(t \o u) = m + n
      /\ \A i \in 1 .. m + n : (t \o u)[i] = IF i <= m THEN t[i] ELSE u[i - m]
  BY <1>4, <1>5, ConcatProperties
<1>8. ASSUME NEW i \in 1 .. m + n PROVE (t \o u)[i] = s[i]
  <2>1. CASE i <= m
    <3>1. i \in 1 .. m
      BY <1>3, <2>1
    <3>2. (t \o u)[i] = t[i]
      BY <1>7, <2>1
    <3>3. t[i] = p[a + i - 1]
      BY <1>4, <3>1
    <3> QED
      BY <1>6, <3>2, <3>3
  <2>2. CASE i > m
    <3>1. PICK j \in 1 .. n : j = i - m
      BY <1>3, <2>2
    <3>2. (t \o u)[i] = u[j]
      <4>1. ~ (i <= m)
        BY <1>3, <2>2
      <4> QED
        BY <1>7, <3>1, <4>1
    <3>3. u[j] = p[b + j] /\ b + j = a + i - 1
      BY <1>2, <1>5, <3>1
    <3> QED
      BY <1>6, <3>2, <3>3
  <2>3. i <= m \/ i > m
    BY <1>3
  <2> QED
    BY <2>1, <2>2, <2>3
<1>9. t \o u = s
  BY <1>6, <1>7, <1>8, SeqEqual
<1> QED
  BY <1>2, <1>9

(* A part of one. *)
LEMMA SubOne ==
  ASSUME NEW S, NEW p \in Seq(S), NEW a \in 1 .. Len(p) PROVE SubSeq(p, a, a) = <<p[a]>>
<1>1. \A i \in a .. a : p[i] \in S
  OBVIOUS
<1>2. a \in Int
  OBVIOUS
<1>3. PICK s : s = SubSeq(p, a, a)
  OBVIOUS
<1>4. s \in Seq(S) /\ Len(s) = 1 /\ s[1] = p[a]
  <2>1. s \in Seq(S) /\ Len(s) = (IF a <= a THEN a - a + 1 ELSE 0) /\ \A i \in 1 .. a - a + 1 : s[i] = p[a + i - 1]
    BY <1>1, <1>2, <1>3, SubSeqProperties
  <2>2. a - a + 1 = 1 /\ a + 1 - 1 = a /\ a <= a
    BY <1>2
  <2>3. 1 \in 1 .. a - a + 1 /\ Len(s) = 1
    BY <2>1, <2>2
  <2>4. s[1] = p[a + 1 - 1]
    BY <2>1, <2>3
  <2> QED
    BY <2>1, <2>2, <2>3, <2>4
<1>5. <<p[a]>> \in Seq(S) /\ Len(<<p[a]>>) = 1 /\ <<p[a]>>[1] = p[a]
  OBVIOUS
<1>6. s = <<p[a]>>
  <2>1. PICK t : t = <<p[a]>>
    OBVIOUS
  <2>2. t \in Seq(S) /\ Len(t) = Len(s) /\ \A i \in 1 .. Len(s) : s[i] = t[i]
    BY <1>4, <1>5, <2>1
  <2>3. s = t
    BY <1>4, <2>2, SeqEqual
  <2> QED
    BY <2>1, <2>3
<1> QED
  BY <1>3, <1>6

(* A part of a sequence is a sequence. *)
LEMMA SubType ==
  ASSUME NEW S, NEW p \in Seq(S), NEW a \in Nat, NEW b \in Nat, 1 <= a, b <= Len(p)
  PROVE  SubSeq(p, a, b) \in Seq(S)
<1>1. \A i \in a .. b : p[i] \in S
  OBVIOUS
<1> QED
  BY <1>1, SubSeqProperties

(* A "%", a name, and what braces enclose. *)
Braced(p, i, o, c) ==
  <<"%">> \o SubSeq(p, i + 1, o - 1) \o (<<"lbrace">> \o SubSeq(p, o + 1, c - 1) \o <<"rbrace">>)

(* There is one in p. *)
BracedAt(p, i, o, c) ==
  1 <= i /\ i < o /\ o < c /\ c <= Len(p) /\ p[i] = "%" /\ p[o] = "lbrace" /\ p[c] = "rbrace"

(* It is a part of p. *)
LEMMA BracedIs ==
  ASSUME NEW S, NEW p \in Seq(S), NEW i \in Nat, NEW o \in Nat, NEW c \in Nat, BracedAt(p, i, o, c)
  PROVE  Braced(p, i, o, c) = SubSeq(p, i, c)
<1>0. 1 <= i /\ i < o /\ o < c /\ c <= Len(p) /\ p[i] = "%" /\ p[o] = "lbrace" /\ p[c] = "rbrace"
  BY DEF BracedAt
<1>1. PICK a, n, b, f, z : /\ a = SubSeq(p, i, i) /\ n = SubSeq(p, i + 1, o - 1) /\ b = SubSeq(p, o, o)
                           /\ f = SubSeq(p, o + 1, c - 1) /\ z = SubSeq(p, c, c)
  OBVIOUS
<1>2. a = <<"%">> /\ b = <<"lbrace">> /\ z = <<"rbrace">>
  <2>1. i \in 1 .. Len(p) /\ o \in 1 .. Len(p) /\ c \in 1 .. Len(p)
    BY <1>0
  <2> QED
    BY <1>0, <1>1, <2>1, SubOne
<1>3. PICK o1 \in Nat, c1 \in Nat : o1 = o - 1 /\ c1 = c - 1
  BY <1>0
<1>4. o1 + 1 = o /\ c1 + 1 = c /\ i <= o1 /\ o <= c1 /\ o1 <= Len(p) /\ c1 <= Len(p) /\ o <= Len(p) /\ i <= Len(p)
  BY <1>0, <1>3
<1>5. a \in Seq(S) /\ n \in Seq(S) /\ b \in Seq(S) /\ f \in Seq(S) /\ z \in Seq(S)
  BY <1>0, <1>1, <1>3, <1>4, SubType
<1>6. a \o n = SubSeq(p, i, o1)
  BY <1>0, <1>1, <1>3, <1>4, SubJoins
<1>7. b \o f = SubSeq(p, o, c1)
  BY <1>0, <1>1, <1>3, <1>4, SubJoins
<1>8. (b \o f) \o z = SubSeq(p, o, c)
  <2>1. SubSeq(p, o, c1) \o SubSeq(p, c1 + 1, c) = SubSeq(p, o, c)
    BY <1>0, <1>4, SubJoins
  <2> QED
    BY <1>1, <1>4, <1>7, <2>1
<1>9. (a \o n) \o ((b \o f) \o z) = SubSeq(p, i, c)
  <2>1. SubSeq(p, i, o1) \o SubSeq(p, o1 + 1, c) = SubSeq(p, i, c)
    BY <1>0, <1>4, SubJoins
  <2> QED
    BY <1>4, <1>6, <1>8, <2>1
<1> QED
  BY <1>1, <1>2, <1>9 DEF Braced

(* A "%" and a name. *)
LEMMA PlainIs ==
  ASSUME NEW S, NEW p \in Seq(S), NEW i \in Nat, NEW e \in Nat, 1 <= i, i <= e, e <= Len(p), p[i] = "%"
  PROVE  <<"%">> \o SubSeq(p, i + 1, e) \o << >> = SubSeq(p, i, e)
<1>1. SubSeq(p, i, i) = <<"%">>
  <2>1. i \in 1 .. Len(p)
    OBVIOUS
  <2> QED
    BY <2>1, SubOne
<1>2. SubSeq(p, i, i) \o SubSeq(p, i + 1, e) = SubSeq(p, i, e)
  BY SubJoins
<1>3. SubSeq(p, i, e) \in Seq(S)
  BY SubType
<1> QED
  BY <1>1, <1>2, <1>3, ConcatEmptySeq

(* First() finds a position, or the end. *)
LEMMA FirstIs ==
  ASSUME NEW p, NEW n \in Nat, n = Len(p), NEW from \in Nat, from <= n + 1, NEW S, NEW k, k = P!First(p, from, S)
  PROVE  k \in from .. n + 1 /\ (k <= n => p[k] \in S)
<1> DEFINE X == {j \in from .. n : p[j] \in S} \cup {n + 1}
<1>1. k = CHOOSE x \in X : \A y \in X : x <= y
  BY DEF P!First, P!Min
<1>2. \E x \in X : \A y \in X : x <= y
  <2>1. X \subseteq Nat /\ X # {}
    OBVIOUS
  <2> HIDE DEF X
  <2> QED
    BY <2>1, LeastNumber
<1>3. k \in X
  <2> HIDE DEF X
  <2> QED
    BY <1>1, <1>2, Zenon
<1> QED
  BY <1>3

(* f[i] joins the first i of the sequences ss. *)
Flats(f, ss, k) == f = [i \in 1 .. k |-> IF i = 1 THEN ss[i] ELSE f[i - 1] \o ss[i]]

(* There is such an f. *)
LEMMA FlatsExists ==
  ASSUME NEW ss, NEW k \in Nat PROVE \E f : Flats(f, ss, k)
<1> DEFINE X == {n \in Nat : \E f : Flats(f, ss, n)}
<1>1. 0 \in X
  <2>1. Flats([n \in 1 .. 0 |-> 0], ss, 0)
    BY DEF Flats
  <2> QED
    BY <2>1
<1>2. ASSUME NEW n \in Nat, n \in X PROVE n + 1 \in X
  <2>1. PICK f : Flats(f, ss, n)
    BY <1>2
  <2>2. PICK g : g = [l \in 1 .. n + 1 |-> IF l = n + 1 THEN IF n = 0 THEN ss[1] ELSE f[n] \o ss[n + 1] ELSE f[l]]
    OBVIOUS
  <2>3. Flats(g, ss, n + 1)
    <3>1. \A l \in 1 .. n : f[l] = IF l = 1 THEN ss[l] ELSE f[l - 1] \o ss[l]
      BY <2>1 DEF Flats
    <3>2. \A l \in 1 .. n + 1 : g[l] = IF l = 1 THEN ss[l] ELSE g[l - 1] \o ss[l]
      BY <2>2, <3>1
    <3> QED
      BY <2>2, <3>2 DEF Flats
  <2> QED
    BY <2>3
<1>3. k \in X
  <2> HIDE DEF X
  <2> QED
    BY <1>1, <1>2, AllNumbers
<1> QED
  BY <1>3

(* And one only. *)
LEMMA FlatsOnce ==
  ASSUME NEW ss, NEW k \in Nat, k > 0, NEW f, Flats(f, ss, k), NEW g, Flats(g, ss, k)
  PROVE  f[k] = g[k]
<1> DEFINE X == {n \in Nat : n \in 1 .. k => f[n] = g[n]}
<1>0. /\ \A n \in 1 .. k : f[n] = IF n = 1 THEN ss[n] ELSE f[n - 1] \o ss[n]
      /\ \A n \in 1 .. k : g[n] = IF n = 1 THEN ss[n] ELSE g[n - 1] \o ss[n]
  BY DEF Flats
<1>1. 0 \in X
  OBVIOUS
<1>2. ASSUME NEW n \in Nat, n \in X PROVE n + 1 \in X
  <2>1. CASE n + 1 <= k /\ n > 0
    <3>1. n + 1 \in 1 .. k /\ n + 1 # 1 /\ (n + 1) - 1 = n /\ n \in 1 .. k
      BY <2>1
    <3>2. f[n + 1] = f[n] \o ss[n + 1] /\ g[n + 1] = g[n] \o ss[n + 1]
      BY <1>0, <3>1
    <3>3. f[n + 1] = g[n + 1]
      BY <1>2, <3>1, <3>2
    <3> QED
      BY <3>3
  <2>2. CASE n = 0
    <3>1. f[1] = g[1]
      BY <1>0
    <3> QED
      BY <2>2, <3>1
  <2> QED
    BY <2>1, <2>2
<1>3. k \in X
  <2> HIDE DEF X
  <2> QED
    BY <1>1, <1>2, AllNumbers
<1> QED
  BY <1>3

(* FlattenSeq() is its last value. *)
LEMMA FlatIs ==
  ASSUME NEW ss, NEW k \in Nat, k > 0, k = Len(ss), NEW f, Flats(f, ss, k)
  PROVE  P!FlattenSeq(ss) = f[k]
<1>1. PICK g : g = CHOOSE h : Flats(h, ss, k)
  OBVIOUS
<1>2. Flats(g, ss, k)
  BY <1>1, Zenon
<1>3. P!FlattenSeq(ss) = g[k]
  <2>1. Len(ss) # 0
    OBVIOUS
  <2> QED
    BY <1>1, <2>1 DEF P!FlattenSeq, Flats
<1> QED
  BY <1>2, <1>3, FlatsOnce

(* ts is ss and then x. *)
OneMore(ss, k, ts, l, x) ==
  k = Len(ss) /\ l = k + 1 /\ Len(ts) = l /\ (\A n \in 1 .. k : ts[n] = ss[n]) /\ ts[l] = x

(* One more sequence comes last. *)
LEMMA FlatAppends ==
  ASSUME NEW ss, NEW k \in Nat, NEW ts, NEW l \in Nat, NEW x, OneMore(ss, k, ts, l, x)
  PROVE  P!FlattenSeq(ts) = IF k = 0 THEN x ELSE P!FlattenSeq(ss) \o x
<1>0. k = Len(ss) /\ l = k + 1 /\ Len(ts) = l /\ (\A n \in 1 .. k : ts[n] = ss[n]) /\ ts[l] = x
  BY DEF OneMore
<1>1. PICK f : Flats(f, ss, k)
  BY FlatsExists
<1>2. PICK g : g = [j \in 1 .. k + 1 |-> IF j = k + 1 THEN IF k = 0 THEN x ELSE f[k] \o x ELSE f[j]]
  OBVIOUS
<1>3. l > 0
  BY <1>0
<1>4. Flats(g, ts, l)
  <2>1. \A n \in 1 .. k : f[n] = IF n = 1 THEN ss[n] ELSE f[n - 1] \o ss[n]
    BY <1>1 DEF Flats
  <2>2. \A n \in 1 .. k + 1 : g[n] = IF n = 1 THEN ts[n] ELSE g[n - 1] \o ts[n]
    BY <1>0, <1>2, <2>1
  <2> QED
    BY <1>0, <1>2, <1>3, <2>2 DEF Flats
<1>5. P!FlattenSeq(ts) = g[l]
  BY <1>0, <1>3, <1>4, FlatIs
<1>6. k > 0 => P!FlattenSeq(ss) = f[k]
  BY <1>0, <1>1, FlatIs
<1> QED
  BY <1>0, <1>2, <1>3, <1>5, <1>6

(* No sequences, nothing. *)
LEMMA FlatNone == ASSUME NEW ss, Len(ss) = 0 PROVE P!FlattenSeq(ss) = ss
  BY DEF P!FlattenSeq

(* How one more item is spelled. *)
LEMMA SpelledAppends ==
  ASSUME NEW T, NEW its \in Seq(T), NEW x \in T, NEW A, P!Spelled(its) \in Seq(A), P!Spell(x) \in Seq(A)
  PROVE  P!Spelled(Append(its, x)) = P!Spelled(its) \o P!Spell(x)
<1>1. PICK k \in Nat : k = Len(its) /\ DOMAIN its = 1 .. k
  OBVIOUS
<1>2. PICK bs : bs = Append(its, x)
  OBVIOUS
<1>3. DOMAIN bs = 1 .. k + 1 /\ (\A n \in 1 .. k : bs[n] = its[n]) /\ bs[k + 1] = x
  BY <1>1, <1>2
<1>4. PICK ss, ts : ss = [n \in 1 .. k |-> P!Spell(its[n])] /\ ts = [n \in 1 .. k + 1 |-> P!Spell(bs[n])]
  OBVIOUS
<1>5. P!Spelled(its) = P!FlattenSeq(ss) /\ P!Spelled(bs) = P!FlattenSeq(ts)
  BY <1>1, <1>3, <1>4 DEF P!Spelled
<1>6. Len(ss) = k /\ Len(ts) = k + 1 /\ (\A n \in 1 .. k : ts[n] = ss[n]) /\ ts[k + 1] = P!Spell(x)
  BY <1>1, <1>3, <1>4
<1>7. P!FlattenSeq(ts) = IF k = 0 THEN P!Spell(x) ELSE P!FlattenSeq(ss) \o P!Spell(x)
  <2>1. PICK l \in Nat : l = k + 1
    OBVIOUS
  <2>2. PICK y : y = P!Spell(x)
    OBVIOUS
  <2>3. OneMore(ss, k, ts, l, y)
    BY <1>6, <2>1, <2>2 DEF OneMore
  <2>4. P!FlattenSeq(ts) = IF k = 0 THEN y ELSE P!FlattenSeq(ss) \o y
    BY <2>1, <2>3, FlatAppends, ZenonT(40)
  <2> QED
    BY <2>2, <2>4
<1>8. CASE k = 0
  <2>1. ss = << >>
    BY <1>4, <1>8
  <2>2. P!Spelled(its) = << >>
    BY <1>5, <1>6, <1>8, <2>1, FlatNone
  <2> QED
    BY <1>2, <1>5, <1>7, <1>8, <2>2, ConcatEmptySeq
<1>9. CASE k # 0
  BY <1>2, <1>5, <1>7, <1>9
<1> QED
  BY <1>8, <1>9

(* What a record is written with. *)
Signs == P!Chars \cup {"error"}

(* The parser's state. *)
Shape(st) ==
  /\ DOMAIN st = {"next", "nstr", "vec", "error"}
  /\ st.next \in Nat /\ st.nstr \in Seq(Signs) /\ st.vec \in Seq(P!ToSet(st.vec)) /\ st.error \in BOOLEAN

(* What it has read so far is s. *)
Spells(st, s) == P!Spelled(st.vec) \in Seq(Signs) /\ P!Spelled(st.vec) \o st.nstr = s

(* A sequence of values of U. *)
LEMMA SeqOver ==
  ASSUME NEW S, NEW s \in Seq(S), NEW U, \A i \in 1 .. Len(s) : s[i] \in U PROVE s \in Seq(U)
<1>1. PICK l \in Nat : l = Len(s) /\ s = [i \in 1 .. l |-> s[i]]
  OBVIOUS
<1>2. s \in [1 .. l -> U]
  BY <1>1
<1> QED
  BY <1>2

(* A sequence of its own elements. *)
LEMMA SeqOfItself == ASSUME NEW S, NEW s \in Seq(S) PROVE s \in Seq(P!ToSet(s))
<1>1. PICK U : U = P!ToSet(s)
  OBVIOUS
<1>2. \A i \in 1 .. Len(s) : s[i] \in U
  BY <1>1 DEF P!ToSet
<1> QED
  BY <1>1, <1>2, SeqOver

(* One more item. *)
LEMMA ItemAppends ==
  ASSUME NEW v, v \in Seq(P!ToSet(v)), NEW x
  PROVE  \E T : v \in Seq(T) /\ x \in T /\ Append(v, x) \in Seq(T)
<1>1. PICK T : T = P!ToSet(v) \cup {x}
  OBVIOUS
<1>2. \A i \in 1 .. Len(v) : v[i] \in T
  BY <1>1 DEF P!ToSet
<1>3. v \in Seq(T)
  BY <1>2, SeqOver
<1>4. x \in T /\ Append(v, x) \in Seq(T)
  BY <1>1, <1>3
<1> QED
  BY <1>3, <1>4

(* The items are a sequence. *)
LEMMA ItemsType ==
  ASSUME NEW v, v \in Seq(P!ToSet(v)), NEW x, NEW w, w = Append(v, x) PROVE w \in Seq(P!ToSet(w))
  BY ItemAppends, SeqOfItself

(* The items v and the item x can be written, *)
Writable(v, x) == v \in Seq(P!ToSet(v)) /\ P!Spell(x) \in Seq(Signs) /\ P!Spelled(v) \in Seq(Signs)

(* and are written one behind the other. *)
Extended(v, x) ==
  P!Spelled(Append(v, x)) = P!Spelled(v) \o P!Spell(x) /\ P!Spelled(Append(v, x)) \in Seq(Signs)

(* What one more item spells. *)
LEMMA ItemsSpell == ASSUME NEW v, NEW x, Writable(v, x) PROVE Extended(v, x)
<1>1. PICK T : v \in Seq(T) /\ x \in T
  BY ItemAppends DEF Writable
<1>2. PICK f, t : f = P!Spell(x) /\ t = P!Spelled(v)
  OBVIOUS
<1>3. f \in Seq(Signs) /\ t \in Seq(Signs)
  BY <1>2 DEF Writable
<1>4. P!Spelled(Append(v, x)) = t \o f
  BY <1>1, <1>2, <1>3, SpelledAppends
<1>5. t \o f \in Seq(Signs)
  BY <1>3, ConcatProperties
<1> QED
  BY <1>2, <1>4, <1>5 DEF Extended

(* The text read so far becomes an item. *)
LEMMA FlushIs ==
  ASSUME NEW st, Shape(st), NEW u, u = P!Flush(st)
  PROVE  /\ Shape(u) /\ u.next = st.next /\ u.error = st.error /\ u.nstr = << >>
         /\ \A s : Spells(st, s) => Spells(u, s)
<1>1. CASE st.nstr = << >>
  BY <1>1 DEF P!Flush
<1>2. CASE st.nstr # << >>
  <2>1. PICK x, v, w : x = <<"text", st.nstr>> /\ v = st.vec /\ w = Append(v, x)
    OBVIOUS
  <2>2. u = [st EXCEPT !.vec = w, !.nstr = << >>]
    BY <1>2, <2>1 DEF P!Flush
  <2>3. DOMAIN u = DOMAIN st /\ u.next = st.next /\ u.error = st.error /\ u.nstr = << >> /\ u.vec = w
    BY <2>2 DEF Shape
  <2>4. v \in Seq(P!ToSet(v))
    BY <2>1 DEF Shape
  <2>5. w \in Seq(P!ToSet(w))
    BY <2>1, <2>4, ItemsType
  <2>6. Shape(u)
    <3>1. << >> \in Seq(Signs)
      OBVIOUS
    <3> QED
      BY <2>3, <2>5, <3>1 DEF Shape
  <2>7. ASSUME NEW s, Spells(st, s) PROVE Spells(u, s)
    <3>1. P!Spell(x) = st.nstr
      BY <2>1 DEF P!Spell
    <3>2. P!Spelled(v) \in Seq(Signs) /\ st.nstr \in Seq(Signs) /\ P!Spelled(v) \o st.nstr = s
      BY <2>1, <2>7 DEF Spells, Shape
    <3>3. P!Spelled(w) = P!Spelled(v) \o P!Spell(x) /\ P!Spelled(w) \in Seq(Signs)
      <4>1. Writable(v, x)
        BY <2>4, <3>1, <3>2 DEF Writable
      <4>2. Extended(v, x)
        BY <4>1, ItemsSpell
      <4> QED
        BY <2>1, <4>2 DEF Extended
    <3>4. P!Spelled(w) \o << >> = P!Spelled(w)
      BY <3>3, ConcatEmptySeq
    <3> QED
      BY <2>3, <3>1, <3>2, <3>3, <3>4 DEF Spells
  <2> QED
    BY <2>3, <2>6, <2>7
<1> QED
  BY <1>1, <1>2

(* The state u after the item x, up to n. *)
WithItem(st, x, n, u) == u = [st EXCEPT !.next = n, !.vec = Append(st.vec, x)]

(* What is to be said of u. *)
Converted(st, x, n, u) ==
  /\ Shape(u) /\ u.next = n /\ u.error = st.error
  /\ \A s : Spells(st, s) => Spells(u, s \o P!Spell(x))

(* A conversion becomes an item. *)
LEMMA ConvertIs ==
  ASSUME NEW st, Shape(st), st.nstr = << >>, NEW x, NEW n \in Nat, P!Spell(x) \in Seq(Signs),
         NEW u, WithItem(st, x, n, u)
  PROVE  Converted(st, x, n, u)
<1>1. PICK v, w : v = st.vec /\ w = Append(v, x)
  OBVIOUS
<1>2. DOMAIN u = DOMAIN st /\ u.next = n /\ u.error = st.error /\ u.nstr = << >> /\ u.vec = w
  BY <1>1 DEF Shape, WithItem
<1>3. v \in Seq(P!ToSet(v))
  BY <1>1 DEF Shape
<1>4. w \in Seq(P!ToSet(w))
  BY <1>1, <1>3, ItemsType
<1>5. Shape(u)
  BY <1>2, <1>4 DEF Shape
<1>6. ASSUME NEW s, Spells(st, s) PROVE Spells(u, s \o P!Spell(x))
  <2>1. P!Spelled(v) \in Seq(Signs) /\ P!Spelled(v) \o << >> = s
    BY <1>1, <1>6 DEF Spells
  <2>2. P!Spelled(v) = s
    BY <2>1, ConcatEmptySeq
  <2>3. P!Spelled(w) = P!Spelled(v) \o P!Spell(x) /\ P!Spelled(w) \in Seq(Signs)
    <3>1. Writable(v, x)
      BY <1>3, <2>1 DEF Writable
    <3>2. Extended(v, x)
      BY <3>1, ItemsSpell
    <3> QED
      BY <1>1, <3>2 DEF Extended
  <2>4. P!Spelled(w) \o << >> = P!Spelled(w)
    BY <2>3, ConcatEmptySeq
  <2> QED
    BY <1>2, <2>2, <2>3, <2>4 DEF Spells
<1> QED
  BY <1>2, <1>5, <1>6 DEF Converted

(* A character of the text. *)
LEMMA AddCharIs ==
  ASSUME NEW st, Shape(st), NEW c \in Signs, NEW u, u = P!AddChar(st, c)
  PROVE  /\ Shape(u) /\ u.next = st.next /\ u.error = st.error
         /\ \A s : Spells(st, s) => Spells(u, s \o <<c>>)
<1>1. u = [st EXCEPT !.nstr = Append(st.nstr, c)]
  BY DEF P!AddChar
<1>2. PICK a, b, v : a = st.nstr /\ b = Append(a, c) /\ v = st.vec
  OBVIOUS
<1>3. DOMAIN u = DOMAIN st /\ u.next = st.next /\ u.error = st.error /\ u.nstr = b /\ u.vec = v
  BY <1>1, <1>2 DEF Shape
<1>4. a \in Seq(Signs) /\ b \in Seq(Signs) /\ <<c>> \in Seq(Signs)
  BY <1>2 DEF Shape
<1>5. Shape(u)
  BY <1>2, <1>3, <1>4 DEF Shape
<1>6. b = a \o <<c>>
  BY <1>2, <1>4, AppendIsConcat
<1>7. ASSUME NEW s, Spells(st, s) PROVE Spells(u, s \o <<c>>)
  <2>1. P!Spelled(v) \in Seq(Signs) /\ P!Spelled(v) \o a = s
    BY <1>2, <1>7 DEF Spells
  <2>2. (P!Spelled(v) \o a) \o <<c>> = P!Spelled(v) \o (a \o <<c>>)
    <3>1. PICK t, e : t = P!Spelled(v) /\ e = <<c>>
      OBVIOUS
    <3>2. t \in Seq(Signs) /\ e \in Seq(Signs)
      BY <1>4, <2>1, <3>1
    <3>3. (t \o a) \o e = t \o (a \o e)
      BY <1>4, <3>2, ConcatAssociative
    <3> QED
      BY <3>1, <3>3
  <2> QED
    BY <1>3, <1>6, <2>1, <2>2 DEF Spells
<1> QED
  BY <1>3, <1>5, <1>7

(* The text read so far holds no percent sign, and no text among the items does. *)
PureItem(x) == x[1] = "text" => "%" \notin P!ToSet(x[2])

Clean(st) == "%" \notin P!ToSet(st.nstr) /\ \A n \in DOMAIN st.vec : PureItem(st.vec[n])

(* One more item that is pure. *)
LEMMA PureAppends ==
  ASSUME NEW v, v \in Seq(P!ToSet(v)), \A n \in DOMAIN v : PureItem(v[n]), NEW x, PureItem(x),
         NEW w, w = Append(v, x)
  PROVE  \A n \in DOMAIN w : PureItem(w[n])
<1>1. PICK T : v \in Seq(T) /\ x \in T
  BY ItemAppends
<1>2. PICK k \in Nat : k = Len(v) /\ DOMAIN v = 1 .. k
  BY <1>1
<1>3. DOMAIN w = 1 .. k + 1 /\ (\A n \in 1 .. k : w[n] = v[n]) /\ w[k + 1] = x
  BY <1>1, <1>2
<1> QED
  BY <1>2, <1>3

(* The parser's state stays clean: when its text becomes an item, *)
LEMMA FlushClean ==
  ASSUME NEW st, Shape(st), Clean(st), NEW u, u = P!Flush(st)
  PROVE  Clean(u)
<1>1. CASE st.nstr = << >>
  BY <1>1 DEF P!Flush
<1>2. CASE st.nstr # << >>
  <2>1. PICK x, v, w, a : a = st.nstr /\ x = <<"text", a>> /\ v = st.vec /\ w = Append(v, x)
    OBVIOUS
  <2>2. u = [st EXCEPT !.vec = w, !.nstr = << >>]
    BY <1>2, <2>1 DEF P!Flush
  <2>3. u.nstr = << >> /\ u.vec = w
    BY <2>2 DEF Shape
  <2>4. PureItem(x)
    <3>1. x[2] = a /\ "%" \notin P!ToSet(a)
      BY <2>1 DEF Clean
    <3> QED
      BY <3>1 DEF PureItem
  <2>5. \A n \in DOMAIN w : PureItem(w[n])
    BY <2>1, <2>4, PureAppends DEF Shape, Clean
  <2>6. "%" \notin P!ToSet(<< >>)
    BY DEF P!ToSet
  <2> QED
    BY <2>3, <2>5, <2>6 DEF Clean
<1> QED
  BY <1>1, <1>2

(* with one more item, *)
LEMMA ConvertClean ==
  ASSUME NEW st, Shape(st), Clean(st), NEW x, PureItem(x), NEW n, NEW u, WithItem(st, x, n, u)
  PROVE  Clean(u)
<1>1. PICK v, w : v = st.vec /\ w = Append(v, x)
  OBVIOUS
<1>2. u.nstr = st.nstr /\ u.vec = w
  BY <1>1 DEF Shape, WithItem
<1>3. \A k \in DOMAIN w : PureItem(w[k])
  BY <1>1, PureAppends DEF Shape, Clean
<1> QED
  BY <1>2, <1>3 DEF Clean

(* and with one more character. *)
LEMMA AddCharClean ==
  ASSUME NEW st, Shape(st), Clean(st), NEW c, c # "%", NEW u, u = P!AddChar(st, c)
  PROVE  Clean(u)
<1>1. PICK a, b : a = st.nstr /\ b = Append(a, c)
  OBVIOUS
<1>2. u.nstr = b /\ u.vec = st.vec
  BY <1>1 DEF Shape, P!AddChar
<1>3. "%" \notin P!ToSet(b)
  <2>1. PICK T : a \in Seq(T) /\ c \in T
    <3>1. PICK T : T = Signs \cup {c}
      OBVIOUS
    <3>2. a \in Seq(Signs) /\ \A i \in 1 .. Len(a) : a[i] \in T
      BY <1>1, <3>1 DEF Shape
    <3>3. a \in Seq(T)
      BY <3>2, SeqOver
    <3> QED
      BY <3>1, <3>3
  <2>2. PICK k \in Nat : k = Len(a) /\ DOMAIN a = 1 .. k
    BY <2>1
  <2>3. DOMAIN b = 1 .. k + 1 /\ (\A n \in 1 .. k : b[n] = a[n]) /\ b[k + 1] = c
    BY <1>1, <2>1, <2>2
  <2>4. \A n \in 1 .. k : a[n] # "%"
    BY <1>1, <2>2 DEF Clean, P!ToSet
  <2>5. \A n \in DOMAIN b : b[n] # "%"
    BY <2>2, <2>3, <2>4
  <2> QED
    BY <2>5 DEF P!ToSet
<1> QED
  BY <1>2, <1>3 DEF Clean

(* How far the parser has read after index i. *)
Reach(n, i) == IF n - 1 > i THEN n - 1 ELSE i

(* Unless there was an error, its items and text spell the pattern up to there. *)
Reads(p, st, i) ==
  /\ Shape(st) /\ st.next \in 1 .. Len(p) + 1
  /\ ~st.error => Spells(st, SubSeq(p, 1, Reach(st.next, i))) /\ Clean(st)

(* No empty braces and no doubled percent signs. *)
NoEmpty(p) == \A j \in 1 .. Len(p) - 1 : ~ (p[j] = "lbrace" /\ p[j + 1] = "rbrace")
NoDouble(p) == \A j \in 1 .. Len(p) - 1 : ~ (p[j] = "%" /\ p[j + 1] = "%")

(* A pattern is written with the signs of a record. *)
LEMMA PatternSigns == ASSUME NEW p \in Seq(P!Chars) PROVE p \in Seq(Signs)
<1>1. \A i \in 1 .. Len(p) : p[i] \in Signs
  BY DEF Signs
<1> QED
  BY <1>1, SeqOver

(* A character that stands for itself. *)
LEMMA CharStep ==
  ASSUME NEW p \in Seq(P!Chars), NEW i \in 1 .. Len(p), NEW j, j = i - 1, NEW st, Reads(p, st, j), st.next <= i,
         p[i] # "%", NEW u, u = P!AddChar(st, p[i])
  PROVE  Reads(p, u, i)
<1>0. j \in Nat /\ i \in Nat /\ Len(p) \in Nat /\ j + 1 = i
  OBVIOUS
<1>1. PICK c \in Signs : c = p[i]
  BY DEF Signs
<1>2. Shape(st) /\ st.next \in 1 .. Len(p) + 1
  BY DEF Reads
<1>3. /\ Shape(u) /\ u.next = st.next /\ u.error = st.error
      /\ \A s : Spells(st, s) => Spells(u, s \o <<c>>)
  BY <1>1, <1>2, AddCharIs
<1>4. Reach(st.next, j) = j /\ Reach(u.next, i) = i
  BY <1>0, <1>2, <1>3 DEF Reach
<1>5. SubSeq(p, 1, j) \o <<c>> = SubSeq(p, 1, i)
  <2>1. SubSeq(p, i, i) = <<c>>
    BY <1>1, SubOne
  <2>2. SubSeq(p, 1, j) \o SubSeq(p, j + 1, i) = SubSeq(p, 1, i)
    BY <1>0, SubJoins
  <2> QED
    BY <1>0, <2>1, <2>2
<1>6. ASSUME ~ u.error PROVE Spells(u, SubSeq(p, 1, i)) /\ Clean(u)
  <2>1. Spells(st, SubSeq(p, 1, j)) /\ Clean(st)
    BY <1>3, <1>4, <1>6 DEF Reads
  <2>2. Clean(u)
    BY <1>1, <1>2, <2>1, AddCharClean
  <2> QED
    BY <1>3, <1>5, <2>1, <2>2
<1> QED
  BY <1>2, <1>3, <1>4, <1>6 DEF Reads

(* A conversion x that stands for the characters from i to c. *)
LEMMA ConvertStep ==
  ASSUME NEW p \in Seq(P!Chars), NEW i \in 1 .. Len(p), NEW j, j = i - 1, NEW st, Reads(p, st, j), st.next <= i,
         NEW c \in i .. Len(p), NEW x, P!Spell(x) = SubSeq(p, i, c), x[1] = "conv", NEW v, v = P!Flush(st), NEW n, n = c + 1,
         NEW u, WithItem(v, x, n, u)
  PROVE  Reads(p, u, i)
<1>0. j \in Nat /\ i \in Nat /\ Len(p) \in Nat /\ j + 1 = i /\ c \in Nat /\ n \in Nat /\ n \in 1 .. Len(p) + 1
  OBVIOUS
<1>1. Shape(st) /\ st.next \in 1 .. Len(p) + 1
  BY DEF Reads
<1>2. /\ Shape(v) /\ v.next = st.next /\ v.error = st.error /\ v.nstr = << >>
      /\ \A s : Spells(st, s) => Spells(v, s)
  BY <1>1, FlushIs
<1>3. P!Spell(x) \in Seq(Signs)
  <2>1. p \in Seq(Signs)
    BY PatternSigns
  <2>2. SubSeq(p, i, c) \in Seq(Signs)
    BY <1>0, <2>1, SubType
  <2> QED
    BY <2>2
<1>4. /\ Shape(u) /\ u.next = n /\ u.error = v.error
      /\ \A s : Spells(v, s) => Spells(u, s \o P!Spell(x))
  <2>1. Converted(v, x, n, u)
    BY <1>0, <1>2, <1>3, ConvertIs
  <2> QED
    BY <2>1 DEF Converted
<1>5. Reach(st.next, j) = j /\ Reach(u.next, i) = c
  BY <1>0, <1>1, <1>4 DEF Reach
<1>6. SubSeq(p, 1, j) \o P!Spell(x) = SubSeq(p, 1, c)
  <2>0. 1 \in Nat /\ 1 <= 1 /\ 1 <= j + 1 /\ j <= c /\ c <= Len(p)
    BY <1>0
  <2>1. SubSeq(p, 1, j) \o SubSeq(p, j + 1, c) = SubSeq(p, 1, c)
    BY <1>0, <2>0, SubJoins
  <2> QED
    BY <1>0, <2>1
<1>7. ASSUME ~ u.error PROVE Spells(u, SubSeq(p, 1, c)) /\ Clean(u)
  <2>1. Spells(st, SubSeq(p, 1, j)) /\ Clean(st)
    BY <1>2, <1>4, <1>5, <1>7 DEF Reads
  <2>2. Spells(v, SubSeq(p, 1, j))
    BY <1>2, <2>1
  <2>3. Spells(u, SubSeq(p, 1, j) \o P!Spell(x))
    BY <1>4, <2>2
  <2>4. Clean(v)
    BY <1>1, <2>1, FlushClean
  <2>5. PureItem(x)
    BY DEF PureItem
  <2>6. Clean(u)
    BY <1>2, <2>4, <2>5, ConvertClean
  <2> QED
    BY <1>6, <2>3, <2>6
<1> QED
  BY <1>0, <1>4, <1>5, <1>7 DEF Reads

(* A brace that is not closed. *)
LEMMA ErrorStep ==
  ASSUME NEW p, NEW i, NEW j, NEW st, Reads(p, st, j), NEW x,
         NEW u, u = [st EXCEPT !.vec = Append(st.vec, x), !.error = TRUE]
  PROVE  Reads(p, u, i)
<1>1. Shape(st) /\ st.next \in 1 .. Len(p) + 1
  BY DEF Reads
<1>2. PICK v, w : v = st.vec /\ w = Append(v, x)
  OBVIOUS
<1>3. DOMAIN u = DOMAIN st /\ u.next = st.next /\ u.error = TRUE /\ u.nstr = st.nstr /\ u.vec = w
  BY <1>1, <1>2 DEF Shape
<1>4. w \in Seq(P!ToSet(w))
  BY <1>1, <1>2, ItemsType DEF Shape
<1> QED
  BY <1>1, <1>3, <1>4 DEF Reads, Shape

(* The spelling of a conversion with braces. *)
LEMMA SpellBraced ==
  ASSUME NEW a, NEW b, b # << >>
  PROVE  P!Spell(<<"conv", a, b>>) = <<"%">> \o a \o (<<"lbrace">> \o b \o <<"rbrace">>)
  BY DEF P!Spell

(* And of one without. *)
LEMMA SpellPlain ==
  ASSUME NEW a PROVE P!Spell(<<"conv", a, << >> >>) = <<"%">> \o a \o << >>
  BY DEF P!Spell

(* A turn of the loop. *)
LEMMA StepReads ==
  ASSUME NEW p \in Seq(P!Chars), NoEmpty(p), NoDouble(p), NEW i \in 1 .. Len(p), NEW j, j = i - 1, NEW st, Reads(p, st, j),
         NEW u, u = P!Step(p, st, i)
  PROVE  Reads(p, u, i)
<1>0. PICK n \in Nat : n = Len(p)
  OBVIOUS
<1>1. i \in Nat /\ j \in Nat /\ i <= n /\ 1 <= i
  BY <1>0
<1>2. Shape(st) /\ st.next \in 1 .. n + 1
  BY <1>0 DEF Reads
<1>3. CASE i < st.next
  <2>1. u = st
    BY <1>3 DEF P!Step
  <2>2. Reach(st.next, j) = Reach(st.next, i)
    BY <1>1, <1>2, <1>3 DEF Reach
  <2> QED
    BY <2>1, <2>2 DEF Reads
<1>4. CASE ~ (i < st.next) /\ p[i] # "%"
  <2>1. u = P!AddChar(st, p[i])
    BY <1>4 DEF P!Step
  <2>2. st.next <= i
    BY <1>1, <1>2, <1>4
  <2> QED
    BY <1>4, <2>1, <2>2, CharStep
<1>5. CASE ~ (i < st.next) /\ p[i] = "%"
  <2>0. st.next <= i
    BY <1>1, <1>2, <1>5
  <2>1. u = P!Conversion(p, st, i)
    <3>1. ~ (i < Len(p) /\ p[i + 1] = "%")
      BY <1>0, <1>1, <1>5 DEF NoDouble
    <3> QED
      BY <1>5, <3>1 DEF P!Step
  <2>2. PICK from \in Nat : from = i + 1 /\ from <= n + 1
    BY <1>0, <1>1
  <2>3. PICK o, e : o = P!First(p, i + 1, {"lbrace"}) /\ e = P!First(p, i + 1, {"%", "."})
    OBVIOUS
  <2>4. o \in from .. n + 1 /\ (o <= n => p[o] \in {"lbrace"})
    BY <1>0, <2>2, <2>3, FirstIs
  <2>5. e \in from .. n + 1
    BY <1>0, <2>2, <2>3, FirstIs
  <2>6. PICK c : c = P!First(p, o + 1, {"rbrace"})
    OBVIOUS
  <2>7. PICK v : v = P!Flush(st)
    OBVIOUS
  <2>8. CASE o < e
    <3>1. o \in Nat /\ o <= n /\ i < o /\ p[o] = "lbrace"
      BY <1>1, <2>2, <2>4, <2>5, <2>8
    <3>2. PICK after \in Nat : after = o + 1 /\ after <= n + 1
      BY <1>0, <3>1
    <3>3. c \in after .. n + 1 /\ (c <= n => p[c] \in {"rbrace"})
      BY <1>0, <2>6, <3>2, FirstIs
    <3>4. CASE c > n
      <4>1. PICK x : x = <<"error", << >> >>
        OBVIOUS
      <4>2. u = [st EXCEPT !.vec = Append(st.vec, x), !.error = TRUE]
        BY <1>0, <2>1, <2>3, <2>6, <2>8, <3>4, <4>1 DEF P!Conversion
      <4> QED
        BY <4>2, ErrorStep
    <3>5. CASE ~ (c > n)
      <4>1. c \in Nat /\ c <= n /\ o < c /\ p[c] = "rbrace"
        BY <1>0, <3>1, <3>2, <3>3, <3>5
      <4>2. c # o + 1
        <5>1. SUFFICES ASSUME c = o + 1 PROVE FALSE
          OBVIOUS
        <5>2. o \in 1 .. Len(p) - 1
          BY <1>0, <1>1, <3>1, <4>1, <5>1
        <5> QED
          BY <3>1, <4>1, <5>1, <5>2 DEF NoEmpty
      <4>3. PICK a, b, x, m : /\ a = SubSeq(p, i + 1, o - 1) /\ b = SubSeq(p, o + 1, c - 1)
                              /\ x = <<"conv", a, b>> /\ m = c + 1
        OBVIOUS
      <4>4. WithItem(v, x, m, u)
        <5>1. u = [v EXCEPT !.next = m, !.vec = Append(v.vec, x)]
          BY <1>0, <2>1, <2>3, <2>6, <2>7, <2>8, <3>5, <4>3 DEF P!Conversion
        <5> QED
          BY <5>1 DEF WithItem
      <4>5. b # << >>
        <5>1. PICK k \in Nat, l \in Nat : k = o + 1 /\ l = c - 1
          BY <3>1, <4>1
        <5>2. 1 <= k /\ k <= l /\ l <= Len(p) /\ b = SubSeq(p, k, l)
          BY <1>0, <3>1, <4>1, <4>2, <4>3, <5>1
        <5>3. \A q \in k .. l : p[q] \in P!Chars
          BY <5>1, <5>2
        <5>4. Len(b) = IF k <= l THEN l - k + 1 ELSE 0
          BY <5>1, <5>2, <5>3, SubSeqProperties
        <5>5. Len(b) > 0
          BY <5>1, <5>2, <5>4
        <5> QED
          BY <5>5
      <4>6. P!Spell(x) = SubSeq(p, i, c)
        <5>1. P!Spell(x) = <<"%">> \o a \o (<<"lbrace">> \o b \o <<"rbrace">>)
          BY <4>3, <4>5, SpellBraced
        <5>2. Braced(p, i, o, c) = SubSeq(p, i, c)
          <6>1. BracedAt(p, i, o, c)
            BY <1>0, <1>1, <1>5, <3>1, <4>1 DEF BracedAt
          <6> QED
            BY <1>1, <3>1, <4>1, <6>1, BracedIs
        <5> QED
          BY <4>3, <5>1, <5>2 DEF Braced
      <4>7. c \in i .. Len(p)
        BY <1>0, <1>1, <3>1, <4>1
      <4> QED
        <5>1. x[1] = "conv"
          BY <4>3
        <5> QED
          BY <2>0, <2>7, <4>3, <4>4, <4>6, <4>7, <5>1, ConvertStep
    <3> QED
      BY <3>4, <3>5
  <2>9. CASE ~ (o < e)
    <3>1. PICK c1 \in Nat : c1 = e - 1
      BY <2>2, <2>5
    <3>2. c1 \in i .. Len(p) /\ e = c1 + 1
      BY <1>0, <1>1, <2>2, <2>5, <3>1
    <3>3. PICK a, x : a = SubSeq(p, i + 1, c1) /\ x = <<"conv", a, << >> >>
      OBVIOUS
    <3>4. WithItem(v, x, e, u)
      <4>1. u = [v EXCEPT !.next = e, !.vec = Append(v.vec, x)]
        BY <2>1, <2>3, <2>7, <2>9, <3>1, <3>3 DEF P!Conversion
      <4> QED
        BY <4>1 DEF WithItem
    <3>5. P!Spell(x) = SubSeq(p, i, c1)
      <4>1. P!Spell(x) = <<"%">> \o a \o << >>
        BY <3>3, SpellPlain
      <4>2. <<"%">> \o SubSeq(p, i + 1, c1) \o << >> = SubSeq(p, i, c1)
        BY <1>0, <1>1, <1>5, <3>1, <3>2, PlainIs
      <4> QED
        BY <3>3, <4>1, <4>2
    <3> QED
      <4>1. x[1] = "conv"
        BY <3>3
      <4> QED
        BY <2>0, <2>7, <3>2, <3>4, <3>5, <4>1, ConvertStep
  <2> QED
    BY <2>8, <2>9
<1> QED
  BY <1>3, <1>4, <1>5

(* The whole loop reads the whole pattern. *)
LEMMA LoopReads ==
  ASSUME NEW p \in Seq(P!Chars), NoEmpty(p), NoDouble(p) PROVE Reads(p, P!Loop(p), Len(p))
<1>1. PICK k \in Nat : k = Len(p)
  OBVIOUS
<1>2. PICK start : start = [next |-> 1, nstr |-> << >>, vec |-> << >>, error |-> FALSE]
  OBVIOUS
<1> DEFINE Turns(f, n) == f = [i \in 0 .. n |-> IF i = 0 THEN start ELSE P!Step(p, f[i - 1], i)]
           X == {n \in Nat : \E f : Turns(f, n)}
<1>3. 0 \in X
  <2>1. Turns([i \in 0 .. 0 |-> start], 0)
    OBVIOUS
  <2> QED
    BY <2>1
<1>4. ASSUME NEW n \in Nat, n \in X PROVE n + 1 \in X
  <2>1. PICK f : Turns(f, n)
    BY <1>4
  <2> DEFINE g == [i \in 0 .. n + 1 |-> IF i = n + 1 THEN P!Step(p, f[n], n + 1) ELSE f[i]]
  <2>2. Turns(g, n + 1)
    <3>1. \A i \in 0 .. n + 1 : g[i] = IF i = 0 THEN start ELSE P!Step(p, g[i - 1], i)
      BY <2>1
    <3> QED
      BY <3>1
  <2>3. \E h : Turns(h, n + 1)
    BY <2>2, Zenon
  <2> QED
    BY <2>3
<1>5. \E f : Turns(f, k)
  <2>1. k \in X
    <3> HIDE DEF X
    <3> QED
      BY <1>1, <1>3, <1>4, AllNumbers
  <2> QED
    BY <2>1
<1>6. PICK f : Turns(f, k) /\ P!Loop(p) = f[k]
  <2>1. Turns(CHOOSE f : Turns(f, k), k)
    BY <1>5, Zenon
  <2>2. P!Loop(p) = (CHOOSE f : Turns(f, k))[k]
    BY <1>1, <1>2 DEF P!Loop
  <2> QED
    BY <2>1, <2>2
<1> DEFINE Y == {n \in Nat : n <= k => Reads(p, f[n], n)}
<1>7. 0 \in Y
  <2>1. f[0] = start
    BY <1>6
  <2>2. Shape(start) /\ start.next = 1 /\ start.nstr = << >> /\ start.vec = << >>
    BY <1>2 DEF Shape
  <2>3. P!Spelled(<< >>) = << >>
    <3>1. PICK ss : ss = [n \in DOMAIN << >> |-> P!Spell(<< >>[n])]
      OBVIOUS
    <3>2. ss = << >> /\ Len(ss) = 0
      BY <3>1
    <3>3. P!Spelled(<< >>) = P!FlattenSeq(ss)
      BY <3>1 DEF P!Spelled
    <3> QED
      BY <3>2, <3>3, FlatNone
  <2>4. SubSeq(p, 1, 0) = << >>
    BY SubSeqEmpty
  <2>5. << >> \o << >> = << >> /\ << >> \in Seq(Signs)
    OBVIOUS
  <2>6. Spells(start, SubSeq(p, 1, 0))
    BY <2>2, <2>3, <2>4, <2>5 DEF Spells
  <2>7. Reach(1, 0) = 0
    BY DEF Reach
  <2>8. Reads(p, start, 0)
    <3>1. Clean(start)
      BY <2>2 DEF Clean, P!ToSet
    <3> QED
      BY <1>1, <2>2, <2>6, <2>7, <3>1 DEF Reads
  <2> QED
    BY <2>1, <2>8
<1>8. ASSUME NEW n \in Nat, n \in Y PROVE n + 1 \in Y
  <2>1. CASE n + 1 <= k
    <3>1. PICK i \in 1 .. Len(p) : i = n + 1 /\ n = i - 1
      BY <1>1, <2>1
    <3>2. PICK st, u : st = f[n] /\ u = f[i]
      OBVIOUS
    <3>3. u = P!Step(p, st, i)
      BY <1>1, <1>6, <3>1, <3>2
    <3>4. Reads(p, st, n)
      BY <1>1, <1>8, <2>1, <3>2
    <3>5. Reads(p, u, i)
      BY <3>1, <3>3, <3>4, StepReads
    <3> QED
      BY <3>1, <3>2, <3>5
  <2> QED
    BY <2>1
<1>9. k \in Y
  <2> HIDE DEF Y
  <2> QED
    BY <1>1, <1>7, <1>8, AllNumbers
<1> QED
  BY <1>1, <1>6, <1>9

(* The items of a pattern without an error spell it. *)
LEMMA ParseSpells ==
  ASSUME NEW p \in Seq(P!Chars), NoEmpty(p), NoDouble(p), NEW st, st = P!Parse(p)
  PROVE  Shape(st) /\ (~st.error => P!Spelled(st.vec) = p /\ Clean(st))
<1>1. PICK l : l = P!Loop(p)
  OBVIOUS
<1>2. PICK n \in Nat : n = Len(p)
  OBVIOUS
<1>3. Reads(p, l, n)
  BY <1>1, <1>2, LoopReads
<1>4. Shape(l) /\ l.next \in 1 .. n + 1
  BY <1>2, <1>3 DEF Reads
<1>5. Reach(l.next, n) = n
  BY <1>2, <1>4 DEF Reach
<1>6. /\ Shape(st) /\ st.error = l.error /\ st.nstr = << >>
      /\ (\A s : Spells(l, s) => Spells(st, s)) /\ (Clean(l) => Clean(st))
  <2>1. st = P!Flush(l)
    BY <1>1 DEF P!Parse
  <2> QED
    BY <1>4, <2>1, FlushIs, FlushClean
<1>7. SubSeq(p, 1, n) = p
  <2>1. \A i \in 1 .. n : p[i] \in P!Chars
    BY <1>2
  <2>2. PICK s : s = SubSeq(p, 1, n)
    OBVIOUS
  <2>3. s \in Seq(P!Chars) /\ Len(s) = (IF 1 <= n THEN n - 1 + 1 ELSE 0) /\ \A i \in 1 .. n - 1 + 1 : s[i] = p[1 + i - 1]
    BY <2>1, <2>2, SubSeqProperties
  <2>4. Len(s) = n /\ \A i \in 1 .. n : s[i] = p[i]
    BY <2>3
  <2>5. s = p
    BY <1>2, <2>3, <2>4, SeqEqual
  <2> QED
    BY <2>2, <2>5
<1>8. ASSUME ~ st.error PROVE P!Spelled(st.vec) = p /\ Clean(st)
  <2>1. Spells(l, p) /\ Clean(l)
    BY <1>3, <1>5, <1>6, <1>7, <1>8 DEF Reads
  <2>2. Spells(st, p)
    BY <1>6, <2>1
  <2>3. PICK t : t = P!Spelled(st.vec)
    OBVIOUS
  <2>4. t \in Seq(Signs) /\ t \o << >> = p
    BY <1>6, <2>2, <2>3 DEF Spells
  <2> QED
    BY <1>6, <2>1, <2>3, <2>4, ConcatEmptySeq
<1> QED
  BY <1>6, <1>8

(* The constructor. *)
LEMMA ConstructKeeps == ASSUME P!IndInv, P!Construct PROVE P!IndInv'
<1>1. /\ items = << >> /\ pattern \in Seq(P!Chars) /\ pattern' = pattern /\ out' = out
      /\ items' = [n \in DOMAIN P!Parse(pattern).vec |-> P!Create(P!Parse(pattern).vec[n])]
      /\ error' = (P!Parse(pattern).error \/ \E n \in DOMAIN items' : items'[n][1] = "error")
  BY DEF P!IndInv, P!Construct
<1>2. out = << >>
  BY <1>1 DEF P!IndInv
<1>3. PICK p \in Seq(P!Chars) : p = pattern
  BY <1>1
<1>4. PICK st, v : st = P!Parse(p) /\ v = st.vec
  OBVIOUS
<1>5. ASSUME ~ error', ~ P!Empty, ~ P!Doubled PROVE P!Spelled(items') = pattern /\ P!Pure(items')
  <2>1. NoEmpty(p) /\ NoDouble(p)
    BY <1>3, <1>5 DEF P!Empty, P!Doubled, NoEmpty, NoDouble
  <2>2. Shape(st) /\ (~st.error => P!Spelled(st.vec) = p /\ Clean(st))
    BY <1>4, <2>1, ParseSpells
  <2>3. ~ st.error /\ \A n \in DOMAIN items' : items'[n][1] # "error"
    BY <1>1, <1>3, <1>4, <1>5
  <2>4. DOMAIN items' = DOMAIN v
    BY <1>1, <1>3, <1>4
  <2>5. ASSUME NEW n \in DOMAIN v PROVE items'[n] = v[n]
    <3>1. items'[n] = P!Create(v[n])
      BY <1>1, <1>3, <1>4
    <3>2. items'[n][1] # "error"
      BY <2>3, <2>4
    <3>3. PICK x : x = v[n]
      OBVIOUS
    <3>4. P!Create(x) = x \/ P!Create(x) = <<"error", x[2]>>
      BY DEF P!Create
    <3>5. <<"error", x[2]>>[1] = "error"
      OBVIOUS
    <3> QED
      BY <3>1, <3>2, <3>3, <3>4, <3>5
  <2>6. items' = v
    <3>1. items' = [n \in DOMAIN v |-> items'[n]]
      BY <1>1, <1>3, <1>4
    <3>2. v = [n \in DOMAIN v |-> v[n]]
      BY <1>4, <2>2 DEF Shape
    <3>3. [n \in DOMAIN v |-> items'[n]] = [n \in DOMAIN v |-> v[n]]
      BY <2>5
    <3> QED
      BY <3>1, <3>2, <3>3
  <2>7. P!Pure(v)
    BY <1>4, <2>2, <2>3 DEF P!Pure, Clean, PureItem
  <2> QED
    BY <1>3, <1>4, <2>2, <2>3, <2>6, <2>7
<1>6. P!Empty' = P!Empty /\ P!Doubled' = P!Doubled
  BY <1>1 DEF P!Empty, P!Doubled
<1>7. P!Spelled(items)' = P!Spelled(items') /\ P!Pure(items)' = P!Pure(items')
  BY DEF P!Spelled, P!Pure
<1> QED
  BY <1>1, <1>2, <1>5, <1>6, <1>7 DEF P!IndInv, P!Chars

(* format(), and what leaves the formatter alone. *)
LEMMA FormatKeeps == ASSUME P!IndInv, P!Format PROVE P!IndInv'
<1>1. /\ items # << >> /\ out' = P!Text(items) /\ pattern' = pattern /\ items' = items /\ error' = error
  BY DEF P!Format
<1>2. P!Empty' = P!Empty /\ P!Doubled' = P!Doubled /\ P!Pure(items)' = P!Pure(items)
  BY <1>1 DEF P!Empty, P!Doubled, P!Pure
<1> QED
  BY <1>1, <1>2 DEF P!IndInv, P!Chars

(* PatternKept: for every pattern of any length over any letters, and any conversions, *)
(* if log_formatter() accepts it and it has no empty braces and no doubled percent     *)
(* signs, then its items are the pattern cut into texts and conversions, no text holds *)
(* a percent sign, and what format() writes is their texts and fields in that order.   *)
THEOREM PatternStaysKept == SpecAll => []PatternKept
<1>1. InitAll => P!IndInv
  <2> SUFFICES ASSUME InitAll PROVE P!IndInv
    OBVIOUS
  <2>1. pattern \in UNION {[1 .. n -> P!Chars] : n \in 0 .. MaxLength} /\ items = << >> /\ out = << >>
    BY DEF InitAll, P!Init
  <2>2. PICK n \in 0 .. MaxLength : pattern \in [1 .. n -> P!Chars]
    BY <2>1
  <2>3. n \in Nat
    BY <2>2
  <2>4. pattern \in Seq(P!Chars)
    BY <2>2, <2>3
  <2> QED
    BY <2>1, <2>4 DEF P!IndInv
<1>2. P!IndInv /\ [NextAll]_allvars => P!IndInv'
  <2> SUFFICES ASSUME P!IndInv, [NextAll]_allvars PROVE P!IndInv'
    OBVIOUS
  <2>1. CASE P!Construct
    BY <2>1, ConstructKeeps
  <2>2. CASE P!Format
    BY <2>2, FormatKeeps
  <2>3. CASE UNCHANGED pvars
    <3>1. pattern' = pattern /\ items' = items /\ error' = error /\ out' = out
      BY <2>3 DEF pvars
    <3>2. P!Empty' = P!Empty /\ P!Doubled' = P!Doubled /\ P!Pure(items)' = P!Pure(items)
      BY <3>1 DEF P!Empty, P!Doubled, P!Pure
    <3> QED
      BY <3>1, <3>2 DEF P!IndInv, P!Chars
  <2> QED
    BY <2>1, <2>2, <2>3 DEF NextAll, allvars, P!Next
<1>3. P!IndInv => PatternKept
  BY DEF P!IndInv, PatternKept, P!PatternKept
<1> QED
  BY <1>1, <1>2, <1>3, PTL DEF SpecAll
=============================================================================
