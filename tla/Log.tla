-------------------------------- MODULE Log --------------------------------
(***************************************************************************)
(* A record's way from glog() in a client to a file of the log server:        *)
(* logclient/glog.cpp sends it, or prints it when the server is not           *)
(* connected; the server runs it, and its own records, as tasks of its pool   *)
(* (logserver/log_manager.cpp), and the loggers (log/logger.cpp) hand it to   *)
(* their appenders, whose file changes with the day (log/log_rotator.cpp,     *)
(* file_appender and influxlog_appender in log/log_appender.cpp).             *)
(*                                                                           *)
(* A file is named by its day; a record is its number, kind and level.  The   *)
(* timer thread keeps up: no time passes while a check of a rotator is due.   *)
(***************************************************************************)
EXTENDS Integers, Sequences, SequencesExt

CONSTANTS Day,       \* ticks of a day
          CheckEvery, \* the rotator's timer, in ticks: 10 s
          Offsets,   \* what get_today_start() may be off, see there
          Level,     \* _loglevel of the server's logger and of the console's
          Levels,    \* levels used
          MaxRecords, MaxTime \* bounds

VARIABLES
  clock,     \* systemtime::get_time(), the same on both sides
  debug,     \* the build checks ASSERTs
  connected, \* logserver_manager::is_connect()
  nextid,    \* records so far
  wire,      \* remotelog and remoteinfluxlog on their way
  pool,      \* those being run by the server's pool
  rot,       \* the file's rotator: suffix, next (_next_rotate_time), at (its timer),
             \* pc, and skew: the offset that next was computed with
  file, skew, \* the day whose file is open, and the skew of the check that chose it
  irot,      \* the influx file's rotator: next, at
  influx,    \* the influx file that is open: "dated" or "plain"
  extra,     \* a logger added by add_logger(): "none", "live", or "freed" by del_logger()
  aborted,   \* the server has aborted
  files,     \* history: files[d]: records written to the file of day d, [id, at, skew]
  fate       \* history: fate[id]: "way", "file", "influx", "console", "level", "lost"

vars == <<clock, debug, connected, nextid, wire, pool, rot, file, skew, irot, influx, extra,
          aborted, files, fate>>
rotvars == <<rot, file, skew, irot, influx>>

DayOf(t) == t \div Day
Days == 0 .. DayOf(MaxTime)

(* systemtime::get_today_start(): the tm given to mktime() has the year, month and day *)
(* of t; hour, minute, second and isdst are what the stack holds, off in all.          *)
GetTodayStart(t, off) == DayOf(t) * Day + off

(* Mutant: a day from now, not from the start of the day. *)
NextDayStartFromNow(t, off) == t + off + Day

(* systemtime::get_nextday_start() *)
NextDayStart(t, off) == GetTodayStart(t, off) + Day

Init ==
  /\ clock \in 0 .. Day - 1 /\ debug \in BOOLEAN /\ connected = FALSE
  /\ nextid = 0 /\ wire = <<>> /\ pool = {}
  /\ skew \in Offsets
  /\ rot = [suffix |-> 0, skew |-> skew, next |-> NextDayStart(clock, skew),
            at |-> clock + CheckEvery, pc |-> "idle"]
  /\ \E off \in Offsets : irot = [next |-> NextDayStart(clock, off), at |-> clock + CheckEvery]
  /\ file = 0 /\ influx = "dated" /\ extra = "none" /\ aborted = FALSE
  /\ files = [d \in Days |-> <<>>]
  /\ fate = [id \in 1 .. MaxRecords |-> "none"]

-----------------------------------------------------------------------------
(* The client. *)

Record(kind, level) == [id |-> nextid + 1, kind |-> kind, level |-> level]

(* glog() and commit_log(), influx_log() and commit_influxlog(); a session that has    *)
(* closed meanwhile, or whose write buffer is full, drops the record.                  *)
Commit(kind, level, drop) ==
  LET r == Record(kind, level)
      end == IF connected THEN IF drop THEN "lost" ELSE "way"
             ELSE IF kind = "influx" THEN "lost"
             ELSE IF level < Level THEN "level" ELSE "console"
  IN /\ nextid < MaxRecords
     /\ nextid' = nextid + 1
     /\ fate' = [fate EXCEPT ![r.id] = end]
     /\ wire' = IF end = "way" THEN Append(wire, r) ELSE wire
     /\ UNCHANGED <<clock, debug, connected, pool, rotvars, extra, aborted, files>>

(* on_add_session(), on_del_session(): what is on the way is lost with the session. *)
Reconnect ==
  /\ connected' = ~connected
  /\ wire' = IF connected THEN <<>> ELSE wire
  /\ fate' = [id \in DOMAIN fate |->
                IF connected /\ \E n \in DOMAIN wire : wire[n].id = id THEN "lost" ELSE fate[id]]
  /\ UNCHANGED <<clock, debug, nextid, pool, rotvars, extra, aborted, files>>

-----------------------------------------------------------------------------
(* The server. *)

(* commit_log() and commit_influxlog() of the log server itself: straight to its pool. *)
CommitOwn(kind, level) ==
  LET r == Record(kind, level)
  IN /\ ~aborted /\ nextid < MaxRecords
     /\ nextid' = nextid + 1
     /\ fate' = [fate EXCEPT ![r.id] = "way"]
     /\ pool' = pool \cup {r}
     /\ UNCHANGED <<clock, debug, connected, wire, rotvars, extra, aborted, files>>

(* session::on_recv(): a decoded protocol becomes a task of the pool. *)
Receive ==
  /\ ~aborted /\ wire # <<>>
  /\ pool' = pool \cup {Head(wire)}
  /\ wire' = Tail(wire)
  /\ UNCHANGED <<clock, debug, connected, nextid, rotvars, extra, aborted, files, fate>>

(* remotelog::run(), log_manager::log(), logger::log(), file_appender::log(): the    *)
(* file's logger, then the added one, whose deletion leaves it in the table.         *)
RunLog(r) ==
  /\ ~aborted /\ r \in pool /\ r.kind = "log"
  /\ pool' = pool \ {r}
  /\ fate' = [fate EXCEPT ![r.id] = IF r.level < Level THEN "level" ELSE "file"]
  /\ files' = IF r.level < Level THEN files
              ELSE [files EXCEPT ![file] = Append(@, [id |-> r.id, at |-> clock, skew |-> skew])]
  /\ aborted' = (extra = "freed")
  /\ UNCHANGED <<clock, debug, connected, nextid, wire, rotvars, extra>>

(* remoteinfluxlog::run() *)
RunInflux(r) ==
  /\ ~aborted /\ r \in pool /\ r.kind = "influx"
  /\ pool' = pool \ {r}
  /\ fate' = [fate EXCEPT ![r.id] = "influx"]
  /\ UNCHANGED <<clock, debug, connected, nextid, wire, rotvars, extra, aborted, files>>

AddLogger ==
  /\ ~aborted /\ extra = "none"
  /\ extra' = "live"
  /\ UNCHANGED <<clock, debug, connected, nextid, wire, pool, rotvars, aborted, files, fate>>

(* del_logger() deletes the logger and keeps the entry. *)
DelLogger ==
  /\ ~aborted /\ extra = "live"
  /\ extra' = "freed"
  /\ UNCHANGED <<clock, debug, connected, nextid, wire, pool, rotvars, aborted, files, fate>>

(* time_log_rotator's timer: check_rotate() ... *)
CheckRotate(off) ==
  /\ ~aborted /\ rot.pc = "idle" /\ clock >= rot.at
  /\ rot' = IF clock < rot.next THEN [rot EXCEPT !.at = clock + CheckEvery]
            ELSE [suffix |-> DayOf(clock), skew |-> off, next |-> NextDayStart(clock, off),
                  at |-> clock + CheckEvery, pc |-> "rotate"]
  /\ UNCHANGED <<clock, debug, connected, nextid, wire, pool, file, skew, irot, influx, extra,
                 aborted, files, fate>>

(* ... then file_appender::rotate(), under the appender's lock. *)
Rotate ==
  /\ ~aborted /\ rot.pc = "rotate"
  /\ file' = rot.suffix /\ skew' = rot.skew
  /\ rot' = [rot EXCEPT !.pc = "idle"]
  /\ UNCHANGED <<clock, debug, connected, nextid, wire, pool, irot, influx, extra, aborted,
                 files, fate>>

(* The influxlog_appender's rotator.  Its constructor opened the dated file of its base *)
(* class, so that the first time there is nothing to rename and an ASSERT fails; after  *)
(* that the file is renamed into the root directory, which may throw.                   *)
RotateInflux(off, throws) ==
  /\ ~aborted /\ clock >= irot.at
  /\ irot' = [next |-> IF clock < irot.next THEN irot.next ELSE NextDayStart(clock, off),
              at |-> clock + CheckEvery]
  /\ IF clock < irot.next THEN UNCHANGED <<influx, aborted>>
     ELSE /\ aborted' = IF influx = "dated" THEN debug ELSE throws
          /\ influx' = "plain"
  /\ UNCHANGED <<clock, debug, connected, nextid, wire, pool, rot, file, skew, extra, files,
                 fate>>

Tick ==
  /\ clock < MaxTime /\ rot.pc = "idle" /\ clock < rot.at /\ clock < irot.at
  /\ clock' = clock + 1
  /\ UNCHANGED <<debug, connected, nextid, wire, pool, rotvars, extra, aborted, files, fate>>

Next ==
  \/ \E kind \in {"log", "influx"}, level \in Levels :
       /\ kind = "influx" => level = Level \* it has none in the code
       /\ (\E drop \in BOOLEAN : Commit(kind, level, drop)) \/ CommitOwn(kind, level)
  \/ Reconnect
  \/ Receive
  \/ \E r \in pool : RunLog(r) \/ RunInflux(r)
  \/ AddLogger \/ DelLogger
  \/ \E off \in Offsets :
       CheckRotate(off) \/ \E throws \in BOOLEAN : RotateInflux(off, throws)
  \/ Rotate
  \/ Tick

Spec == Init /\ [][Next]_vars

-----------------------------------------------------------------------------
(* The latest time at which the file of day d is still open, when the check that chose *)
(* it was s off: the last check that finds the day not over may come just before its   *)
(* end, plus s if that is later, and the next one CheckEvery after that.               *)
Deadline(d, s) == (d + 1) * Day + (IF s > 0 THEN s ELSE 0) + CheckEvery - 1

(* A record is in the file of a day that has begun and that ended, if it has, no      *)
(* longer ago than one check of the rotator and what the uninitialised tm was off; it *)
(* is in one file once, and only if it is of the logger's level and was neither       *)
(* printed nor lost, whatever the pool's threads, the timer's thread and the          *)
(* connection did meanwhile.                                                          *)
RightFile ==
  /\ \A d \in Days : \A n \in DOMAIN files[d] :
       LET r == files[d][n] IN
       /\ fate[r.id] = "file"
       /\ d * Day <= r.at /\ r.at <= Deadline(d, r.skew)
       /\ \A e \in Days : \A m \in DOMAIN files[e] : files[e][m].id = r.id => e = d /\ m = n
  /\ \A r \in pool : fate[r.id] = "way"

(***************************************************************************)
(* The inductive invariant of RightFile.                                     *)
(***************************************************************************)
Records == [id : Nat, kind : {"log", "influx"}, level : Levels]
Entries == [id : Nat, at : Nat, skew : Offsets]
Rotators == [suffix : Days, skew : Offsets, next : Int, at : Nat, pc : {"idle", "rotate"}]

TypeOK ==
  /\ clock \in Nat /\ (clock <= MaxTime \/ clock < Day)
  /\ nextid \in 0 .. MaxRecords /\ wire \in Seq(Records) /\ pool \in SUBSET Records
  /\ rot \in Rotators
  /\ file \in Days /\ skew \in Offsets
  /\ files \in [Days -> Seq(Entries)]
  /\ DOMAIN fate = 1 .. MaxRecords

(* The next check comes before the deadline of the day that the last one chose, and *)
(* the file that is open is still within its own.                                   *)
RotatorInv ==
  /\ file * Day <= clock /\ clock <= Deadline(file, skew)
  /\ rot.suffix * Day <= clock
  /\ clock <= rot.at /\ rot.at <= Deadline(rot.suffix, rot.skew)
  /\ rot.next = (rot.suffix + 1) * Day + rot.skew
  /\ rot.pc = "idle" => file = rot.suffix /\ skew = rot.skew

(* A record is on the wire, in the pool or at its end, once. *)
WayInv ==
  /\ \A n \in DOMAIN wire : wire[n].id \in 1 .. nextid /\ fate[wire[n].id] = "way"
  /\ \A m, n \in DOMAIN wire : wire[m].id = wire[n].id => m = n
  /\ \A r \in pool : r.id \in 1 .. nextid /\ \A n \in DOMAIN wire : wire[n].id # r.id
  /\ \A r, q \in pool : r.id = q.id => r = q
  /\ \A d \in Days : \A n \in DOMAIN files[d] : files[d][n].id \in 1 .. nextid

IndInv == TypeOK /\ RotatorInv /\ WayInv /\ RightFile
=============================================================================
