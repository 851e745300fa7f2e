-------------------------- MODULE MCAsyncAppender ---------------------------
(* A record's way to a file.  A behaviour is about one of three parts: focus says       *)
(* which, and the others stay as they were.                                             *)
(*   appender  a ring smaller than what is logged, so that records wrap around its end  *)
(*             and are cut short;                                                       *)
(*   log       two records, days of two ticks, a check of the rotators at every tick,   *)
(*             a start of the day that is a tick too early or too late;                 *)
(*   format    every pattern of up to five characters.                                  *)
EXTENDS AsyncAppender, Integers

CONSTANTS Day, CheckEvery, Offsets, Level, Levels, MaxRecords, MaxTime, Letters, Creators, MaxLength

(* Days and the rotator's checks have a length; what get_today_start() is off is arbitrary. *)
ASSUME RotatorAssumption == /\ Day \in Nat \ {0} /\ CheckEvery \in Nat \ {0} /\ Offsets \subseteq Int
                            /\ MaxTime \in Nat /\ MaxRecords \in Nat

VARIABLES focus, clock, debug, connected, nextid, wire, pool, rot, lfile, skew, irot, influx,
          extra, aborted, files, fate, pattern, items, error, out

L == INSTANCE Log WITH file <- lfile
P == INSTANCE LogFormat

lvars == <<clock, debug, connected, nextid, wire, pool, rot, lfile, skew, irot, influx, extra,
           aborted, files, fate>>
pvars == <<pattern, items, error, out>>
allvars == <<focus, vars, lvars, pvars>>

MCOffsets == {-1, 1}
MCCreators == {<<"m">>, <<"d">>}

InitAll ==
  /\ focus \in {"appender", "log", "format"}
  /\ Init /\ L!Init /\ P!Init
  /\ focus # "log" => clock = 0 /\ debug = FALSE /\ skew = (CHOOSE o \in Offsets : TRUE)
                    /\ irot.next = rot.next
  /\ focus # "format" => pattern = <<>>

NextAll ==
  /\ UNCHANGED focus
  /\ \/ focus = "appender" /\ Next /\ UNCHANGED <<lvars, pvars>>
     \/ focus = "log" /\ L!Next /\ UNCHANGED <<vars, pvars>>
     \/ focus = "format" /\ P!Next /\ UNCHANGED <<vars, lvars>>

SpecAll == InitAll /\ [][NextAll]_allvars

(* As FairSpec; the other parts promise safety only. *)
FairAll ==
  /\ SpecAll
  /\ WF_vars(focus = "appender" /\ ThreadStep)
  /\ WF_vars(focus = "appender" /\ StopStep)

(* A record is in the file of a day that has just ended or has not (Log).       *)
RightFile == L!RightFile

(* No part of a pattern is lost (LogFormat).                                    *)
PatternKept == P!PatternKept
=============================================================================
