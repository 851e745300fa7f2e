---------------------------- MODULE MCTimeWheel -----------------------------
(* The time wheel, and the monitor its timers drive.  A behaviour is about one of       *)
(* the two: focus says which, and the other stays as it was.                            *)
(*   wheel    a wheel of two slots and three timers: a timeout of one tick falls into   *)
(*            the next slot, one of two ticks is a full turn ahead and hangs;           *)
(*   monitor  two pool threads, every collector, a counter that wraps, samples with     *)
(*            all, some and none of the files, mounts and processes there.              *)
EXTENDS TimeWheel

CONSTANTS Runners, Configured, Interval, NSources, Mounts, Addresses, CounterWord, Situations,
          MaxTime, MaxTraffic

VARIABLES focus, now, mtimer, mqueue, rpc, collectors, mlast, mcpu, rx, prev, metrics,
          exporter, made, sent, told, traffic

M == INSTANCE Monitor WITH timer <- mtimer, queue <- mqueue, last <- mlast, cpu <- mcpu, Word <- CounterWord

(* The monitor's constants are what their names say. *)
ASSUME MonitorAssumption == M!Sound

mvars == <<now, mtimer, mqueue, rpc, collectors, mlast, mcpu, rx, prev, metrics, exporter,
           made, sent, told, traffic>>
allvars == <<focus, vars, mvars>>

MCInterval == [c \in Configured |-> IF c = "disk" THEN 2 ELSE 1]
MCMounts == <<[point |-> 1, fstype |-> "ext4"], [point |-> 3, fstype |-> "proc"],
              [point |-> 2, fstype |-> "xfs"], [point |-> 1, fstype |-> "ext4"]>>
MCAddresses == <<[name |-> 1, family |-> "AF_INET"], [name |-> 1, family |-> "AF_INET6"],
                 [name |-> 2, family |-> "AF_INET"]>>
AllFiles == {"stat", "sysinfo", "meminfo", "dev", "snmp", "tcp"}
MCSituations ==
  {[alive |-> {1, 2}, garbled |-> {2}, files |-> AllFiles, state |-> "ESTABLISHED"],
   [alive |-> {1}, garbled |-> {}, files |-> AllFiles \ {"meminfo", "tcp"}, state |-> "LISTEN"],
   [alive |-> {}, garbled |-> {}, files |-> {"dev"}, state |-> "LISTEN"],
   [alive |-> {2}, garbled |-> {}, files |-> {"stat", "sysinfo"}, state |-> "LISTEN"]}

InitAll ==
  /\ focus \in {"wheel", "monitor"}
  /\ Init /\ M!Init

NextAll ==
  /\ UNCHANGED focus
  /\ \/ focus = "wheel" /\ Next /\ UNCHANGED mvars
     \/ focus = "monitor" /\ M!Next /\ UNCHANGED vars

SpecAll == InitAll /\ [][NextAll]_allvars

(* Deltas add up and fields agree with their tag (Monitor).                     *)
MetricsSound == M!RatesAddUp /\ M!LabelsAgree
=============================================================================
