--------------------------- MODULE AsyncAppender ---------------------------
(***************************************************************************)
(* bee::async_appender (log/log_appender.cpp) over bee::ring_buffer          *)
(* (utility/ring_buffer.h): threads append records to a byte ring under      *)
(* _locker, a thread of the appender drains it to the file, the rotation     *)
(* timer reopens the file and stop() ends the thread.                        *)
(*                                                                           *)
(* log() is one critical section of _locker and one step.  The thread holds  *)
(* _locker from a turn of its loop to the end of the read, chunk by chunk;   *)
(* wait_for() gives it up.  stop() and the tests of _running take no lock.   *)
(***************************************************************************)
EXTENDS Naturals, Sequences

CONSTANTS Loggers,   \* threads that call log()
          N,         \* capacity of the ring, in octets
          Threshold, \* _threshold
          Lens,      \* lengths of the records
          MaxOctets  \* bound on the octets offered

ASSUME RingAssumption == N \in Nat \ {0} /\ Threshold \in Nat \ {0}
ASSUME LensAssumption == Lens \subseteq Nat
ASSUME BoundAssumption == MaxOctets \in Nat

VARIABLES
  data, write_cursor, read_cursor, size,  \* ring_buffer
  running,   \* _running
  held,      \* the appender's thread holds _locker
  tpc,       \* where that thread is
  got,       \* octets the read under way has taken out
  notified,  \* the sleeping thread has been notified
  lpc,       \* where each logger is
  spc,       \* where stop() is
  accepted, ends,  \* history: octets written to the ring, where each record ends
  file, cuts \* history: octets written to the file stream, where it was reopened

vars == <<data, write_cursor, read_cursor, size, running, held, tpc, got, notified, lpc,
          spc, accepted, ends, file, cuts>>
ring == <<data, write_cursor, read_cursor, size>>
history == <<accepted, ends, file, cuts>>

Init ==
  /\ data = [i \in 0 .. N - 1 |-> 0]
  /\ write_cursor = 0 /\ read_cursor = 0 /\ size = 0
  /\ running = TRUE
  /\ held = FALSE
  /\ tpc = "test"
  /\ got = 0
  /\ notified = FALSE
  /\ lpc = [l \in Loggers |-> "idle"]
  /\ spc = "idle"
  /\ accepted = << >> /\ ends = {0} /\ file = << >> /\ cuts = {}

Least(m, n) == IF m <= n THEN m ELSE n

(***************************************************************************)
(* log()                                                                    *)
(***************************************************************************)

(* log(level, event) returns at once when the appender is stopped;           *)
(* log(content) does not look.                                               *)
StartLog(l, event) ==
  /\ lpc[l] = "idle"
  /\ Len(accepted) < MaxOctets
  /\ event => running
  /\ lpc' = [lpc EXCEPT ![l] = "write"]
  /\ UNCHANGED <<ring, running, held, tpc, got, notified, spc, history>>

(* memcpy(_data + at, src, Len(src)) *)
Copy(d, at, src) ==
  [i \in 0 .. N - 1 |-> IF at <= i /\ i < at + Len(src) THEN src[i - at + 1] ELSE d[i]]

(* Mutant: the part that does not fit before the end is not wrapped around. *)
RingWriteUnwrapped(src) ==
  LET len == Least(N - size, Len(src))
      first == Least(N - write_cursor, len)
  IN /\ data' = Copy(data, write_cursor, SubSeq(src, 1, first))
     /\ write_cursor' = (write_cursor + len) % N
     /\ size' = size + len

(* ring_buffer::write(): as much as there is room for, in at most two pieces. *)
RingWrite(src) ==
  LET len == Least(N - size, Len(src))
      first == Least(N - write_cursor, len)
  IN /\ data' = Copy(Copy(data, write_cursor, SubSeq(src, 1, first)),
                     (write_cursor + first) % N, SubSeq(src, first + 1, len))
     /\ write_cursor' = (write_cursor + len) % N
     /\ size' = size + len

(* Append the record, cut short if the ring is full; notify when the          *)
(* threshold is crossed.                                                     *)
Log(l, len) ==
  LET src == [i \in 1 .. len |-> Len(accepted) + i]
      written == Least(N - size, len)
  IN /\ lpc[l] = "write" /\ ~held
     /\ RingWrite(src)
     /\ accepted' = accepted \o SubSeq(src, 1, written)
     /\ ends' = ends \cup {Len(accepted) + written}
     /\ notified' = (notified \/ (tpc = "wait" /\ size < Threshold /\ size' >= Threshold))
     /\ lpc' = [lpc EXCEPT ![l] = "idle"]
     /\ UNCHANGED <<read_cursor, running, held, tpc, got, spc, file, cuts>>

(* The rotation timer: rotate() reopens the file. *)
Rotate ==
  /\ ~held
  /\ cuts' = cuts \cup {Len(file)}
  /\ UNCHANGED <<ring, running, held, tpc, got, notified, lpc, spc, accepted, ends, file>>

(***************************************************************************)
(* The appender's thread                                                    *)
(***************************************************************************)

TestRunning ==
  /\ tpc = "test"
  /\ tpc' = IF running THEN "lock" ELSE "exited"
  /\ UNCHANGED <<ring, running, held, got, notified, lpc, spc, history>>

Lock ==
  /\ tpc = "lock" /\ ~held
  /\ held' = TRUE
  /\ tpc' = "empty"
  /\ UNCHANGED <<ring, running, got, notified, lpc, spc, history>>

(* while(_buf.empty()), and the predicate on the way into wait_for().  With   *)
(* an empty ring and _running cleared wait_for() returns at once: the loop    *)
(* turns without end, holding the lock.                                      *)
TestEmpty ==
  /\ tpc = "empty"
  /\ \/ size > 0 /\ tpc' = "read"
     \/ size = 0 /\ running /\ tpc' = "sleep"
  /\ UNCHANGED <<ring, running, held, got, notified, lpc, spc, history>>

(* wait_for() releases the lock. *)
Sleep ==
  /\ tpc = "sleep"
  /\ held' = FALSE
  /\ notified' = FALSE
  /\ tpc' = "wait"
  /\ UNCHANGED <<ring, running, got, lpc, spc, history>>

(* Mutant: a timeout is taken for a reason to wait again. *)
TimeOutIgnored ==
  /\ tpc = "wait" /\ ~held
  /\ size >= Threshold \/ ~running
  /\ held' = TRUE
  /\ tpc' = "empty"
  /\ UNCHANGED <<ring, running, got, notified, lpc, spc, history>>

(* _timeout has passed: wait_for() returns whatever its predicate says. *)
TimeOut ==
  /\ tpc = "wait" /\ ~held
  /\ held' = TRUE
  /\ tpc' = "empty"
  /\ UNCHANGED <<ring, running, got, notified, lpc, spc, history>>

(* Notified: the predicate decides. *)
Woken ==
  /\ tpc = "wait" /\ ~held /\ notified
  /\ IF size >= Threshold \/ ~running
       THEN held' = TRUE /\ tpc' = "empty"
       ELSE UNCHANGED <<held, tpc>>
  /\ notified' = FALSE
  /\ UNCHANGED <<ring, running, got, lpc, spc, history>>

(* ring_buffer::read(_filestream, size()): a piece up to the end of the array; *)
(* after the last one _size goes down, the file is flushed and the lock is     *)
(* released.                                                                  *)
Read ==
  LET n == Least(N - read_cursor, size - got) IN
  /\ tpc = "read"
  /\ file' = file \o [i \in 1 .. n |-> data[read_cursor + i - 1]]
  /\ read_cursor' = (read_cursor + n) % N
  /\ IF got + n < size
       THEN got' = got + n /\ UNCHANGED <<size, held, tpc>>
       ELSE size' = size - (got + n) /\ got' = 0 /\ held' = FALSE /\ tpc' = "test"
  /\ UNCHANGED <<data, write_cursor, running, notified, lpc, spc, accepted, ends, cuts>>

(***************************************************************************)
(* stop()                                                                   *)
(***************************************************************************)

ClearRunning ==
  /\ spc = "idle"
  /\ running' = FALSE
  /\ spc' = "notify"
  /\ UNCHANGED <<ring, held, tpc, got, notified, lpc, history>>

(* A notification nobody waits for is gone. *)
NotifyStop ==
  /\ spc = "notify"
  /\ notified' = (notified \/ tpc = "wait")
  /\ spc' = "join"
  /\ UNCHANGED <<ring, running, held, tpc, got, lpc, history>>

Join ==
  /\ spc = "join" /\ tpc = "exited"
  /\ spc' = "done"
  /\ UNCHANGED <<ring, running, held, tpc, got, notified, lpc, history>>

ThreadStep == TestRunning \/ Lock \/ TestEmpty \/ Sleep \/ TimeOut \/ Woken \/ Read
StopStep == NotifyStop \/ Join

Next ==
  \/ \E l \in Loggers :
       \/ \E event \in BOOLEAN : StartLog(l, event)
       \/ \E len \in Lens : Log(l, len)
  \/ Rotate
  \/ ThreadStep
  \/ ClearRunning \/ StopStep

Spec == Init /\ [][Next]_vars

(* The thread and a caller inside stop() keep being scheduled, and a timed    *)
(* wait ends.                                                                *)
FairSpec == Spec /\ WF_vars(ThreadStep) /\ WF_vars(StopStep)

-----------------------------------------------------------------------------
(* Every variable stays in its range. *)
TypeOK ==
  /\ data \in [0 .. N - 1 -> Nat]
  /\ write_cursor \in 0 .. N - 1 /\ read_cursor \in 0 .. N - 1
  /\ size \in 0 .. N
  /\ got \in 0 .. size
  /\ running \in BOOLEAN /\ held \in BOOLEAN /\ notified \in BOOLEAN
  /\ tpc \in {"test", "lock", "empty", "sleep", "wait", "read", "exited"}
  /\ lpc \in [Loggers -> {"idle", "write"}]
  /\ spc \in {"idle", "notify", "join", "done"}
  /\ accepted \in Seq(Nat) /\ file \in Seq(Nat)
  /\ ends \subseteq Nat /\ cuts \subseteq Nat

(* The octets the ring holds, in reading order. *)
Unread == [i \in 1 .. size - got |-> data[(read_cursor + i - 1) % N]]

(* The file and the ring together hold, in order, exactly what log() wrote to   *)
(* the ring: "写接口，不会覆盖写" (ring_buffer.h:24), nothing is overwritten,      *)
(* repeated or reordered by records that wrap around the end of the array or   *)
(* are cut short; and the file is reopened between records only: rotate()      *)
(* cannot run between the two pieces of a read or leave part of a record in    *)
(* the ring (ring_buffer write, read; rotate, the appender's thread).          *)
RingIntact ==
  /\ TypeOK
  /\ accepted = file \o Unread
  /\ cuts \subseteq ends

(***************************************************************************)
(* The inductive invariant of RingIntact.                                    *)
(***************************************************************************)

(* The thread holds _locker in the sections of its loop, and only a read under *)
(* way has taken octets out that _size still counts.                          *)
LockInv ==
  /\ held <=> tpc \in {"empty", "sleep", "read"}
  /\ got > 0 => tpc = "read"

(* The write cursor is where the octets the ring holds end. *)
CursorInv == write_cursor = (read_cursor + (size - got)) % N

(* The ring's last octet ends a record, and between reads so does the file's. *)
EndsInv ==
  /\ Len(accepted) \in ends
  /\ got = 0 => Len(file) \in ends

IndInv == RingIntact /\ LockInv /\ CursorInv /\ EndsInv

(* A record in the ring reaches the file although fewer octets than the         *)
(* threshold never notify the thread, unless the appender is stopped; and       *)
(* stop() on an appender whose thread sleeps over data writes that data out and *)
(* returns, whether its notification is still to come ("notify") or came before *)
(* the thread slept and was lost ("join") (start, stop).                        *)
LogReachesFile ==
  \A n \in 1 .. MaxOctets :
    /\ Len(accepted) >= n ~> (Len(file) >= n \/ ~running)
    /\ (tpc = "wait" /\ size > 0 /\ spc \in {"notify", "join"} /\ Len(accepted) = n)
         ~> (Len(file) >= n /\ spc = "done")
=============================================================================
