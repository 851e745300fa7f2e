------------------------------ MODULE Monitor ------------------------------
(***************************************************************************)
(* The monitor (monitor/monitor.cpp and its collectors).  A timer queues a   *)
(* run of the engine on the thread pool every tick; a run collects, under    *)
(* _locker, one metric per collector and then, under _locker again, exports  *)
(* every metric that waits: two runs may overlap between the two.            *)
(*                                                                           *)
(* A metric is a map from tag and field names to values, and add_tag() and   *)
(* add_field() overwrite.  What matters of a value is whom it describes, so  *)
(* a value is the mount, process or interface (a number) or the section of   *)
(* /proc it was read from; the octets received by an interface (a counter of *)
(* Word values) and the processor's times are kept as numbers.               *)
(***************************************************************************)
EXTENDS Naturals, Sequences, SequencesExt

CONSTANTS Runners,    \* pool threads
          Configured, \* names of the collectors of the configuration
          Interval,   \* Interval[c]: _interval of collector c, in ticks of the timer
          NSources,   \* processes and interfaces: 1 .. NSources each
          Mounts,     \* /proc/mounts at startup: a sequence of [point, fstype]
          Addresses,  \* getifaddrs() at startup: a sequence of [name, family]
          Word,       \* 2^64 scaled down
          Situations, \* what a sample may meet: [alive, garbled, files, state], see below
          MaxTime, MaxTraffic \* bounds on the clock and on the octets received

Sources == 1 .. NSources

(* init_mount_points(): real file systems, each mount point once, in the order of the file. *)
AddPoint(ps, m) ==
  IF m.fstype \in {"tmpfs", "devtmpfs", "proc", "sysfs", "cgroup", "devpts"}
     \/ m.point \in ToSet(ps) THEN ps ELSE Append(ps, m.point)

MountPoints ==
  LET after[n \in 0 .. Len(Mounts)] == IF n = 0 THEN <<>> ELSE AddPoint(after[n - 1], Mounts[n])
  IN after[Len(Mounts)]

(* init_network_interfaces(): those with an IPv4 address. *)
Listed == {a.name : a \in {a \in ToSet(Addresses) : a.family = "AF_INET"}}

(* The interfaces whose lines are read: all of them when the list is empty. *)
Monitored == IF Listed = {} THEN Sources ELSE Listed

Files == {"stat", "sysinfo", "meminfo", "dev", "snmp", "tcp"}  \* what a collector reads

DiskFields == {"mount", "total", "used", "free", "usage", "inode_used"}
ProcLabels == {"pid", "name", "open_files"}
ProcNumbers == {"cpu_user", "cpu_system", "cpu_total", "vm_size", "rss", "threads"}
ProcFields == ProcLabels \cup ProcNumbers
RusageFields == {"max_rss", "user_cpu_usage"}
MemFields == {"total", "used", "free", "usage"}
TcpFields == {"established", "in_segments", "in_errors"}
UdpFields == {"in_datagrams", "no_ports", "in_errors"}

VARIABLES
  now,        \* the clock, in ticks
  timer,      \* _timerid is armed
  queue,      \* runs queued on the pool
  rpc,        \* rpc[r]: "idle" or "export", between collect_all() and export_all()
  collectors, \* _collectors
  last,       \* last[c]: _last_collect_time
  cpu,        \* the processor's times; told: _last_total and _last_idle
  rx, prev,   \* octets received by each interface; _prev_stats
  metrics,    \* _metrics, as [id, name, data]
  exporter,   \* _exporter is there
  made, sent, \* history: metrics created and exported
  told,       \* history: told[i]: octets received exported for interface i
  traffic     \* octets received so far

vars == <<now, timer, queue, rpc, collectors, last, cpu, rx, prev, metrics, exporter, made,
          sent, told, traffic>>

(* init() and start(); _last_collect_time is 0, long ago. *)
Init ==
  /\ now = 100 /\ timer = TRUE /\ queue = 0
  /\ rpc = [r \in Runners |-> "idle"]
  /\ collectors = Configured
  /\ last = [c \in Configured |-> 0]
  /\ cpu = [total |-> 1, idle |-> 1, last_total |-> 0, last_idle |-> 0]
  /\ rx = [i \in Sources |-> 0] /\ prev = [i \in Sources |-> 0]
  /\ metrics = <<>> /\ exporter = TRUE /\ made = 0 /\ sent = 0
  /\ told = [i \in Sources |-> 0] /\ traffic = 0

-----------------------------------------------------------------------------
(* Collectors: what each puts into a fresh metric.  alive: the mounts that answer *)
(* statvfs(), the processes that exist, the interfaces with a speed and an       *)
(* address; garbled: the processes whose stat line does not parse (a name with a *)
(* space in it); files: what can be read; state: the connection state that the   *)
(* hash map yields last.                                                         *)

Nothing == [k \in {} |-> 0]

(* add_tag() and add_field(): the names ks get the value v. *)
Put(data, ks, v) == [k \in ks \cup DOMAIN data |-> IF k \in ks THEN v ELSE data[k]]

DiskUsage(data, point, alive) == IF point \in alive THEN Put(data, DiskFields, point) ELSE data

Disk(alive) ==
  LET after[n \in 0 .. Len(MountPoints)] ==
        IF n = 0 THEN Nothing ELSE DiskUsage(after[n - 1], MountPoints[n], alive)
  IN after[Len(MountPoints)]

Junk == 0  \* what a member that was never assigned holds: nobody's

(* parse_proc_stat(): whom pid and the numbers describe.  pid is 0 when the process *)
(* has gone; a token that is no number throws after pid and comm were assigned, and *)
(* the catch (...) returns the rest of the structure as the stack had it.           *)
ParseProcStat(n, alive, garbled) ==
  IF n \notin alive THEN [pid |-> 0, numbers |-> Junk]
  ELSE [pid |-> n, numbers |-> IF n \in garbled THEN Junk ELSE n]

(* The process itself (1) and the ones found by name; getrusage() is always its own. *)
ProcessStats(data, n, alive, garbled) ==
  LET stat == ParseProcStat(n, alive, garbled)
  IN IF stat.pid = 0 THEN data
     ELSE Put(Put(Put(data, ProcLabels, n), ProcNumbers, stat.numbers), RusageFields, 1)

Process(alive, garbled) ==
  LET after[n \in 0 .. NSources] ==
        IF n = 0 THEN Nothing ELSE ProcessStats(after[n - 1], n, alive, garbled)
  IN after[NSources]

(* Physical memory, overwritten by the swap, and the details. *)
ParseMeminfo(data, files) ==
  IF "meminfo" \in files
  THEN Put(Put(data, {"type"}, "detailed"), {"MemTotal", "MemFree"}, "detailed") ELSE data

Memory(files) ==
  IF "sysinfo" \notin files THEN Nothing
  ELSE ParseMeminfo(Put(Put(Nothing, MemFields \cup {"type"}, "physical"),
                        MemFields \cup {"type"}, "swap"), files)

(* The share of the interval that was not idle, as <<busy, total>>; 0 unless both *)
(* the total and the idle time went on.                                          *)
Usage ==
  LET total == cpu.total - cpu.last_total
      idle == cpu.idle - cpu.last_idle
  IN IF total > 0 /\ idle > 0 THEN <<total - idle, total>> ELSE <<0, 1>>

Cpu(files) ==
  Put(Put(Nothing, {"core"}, "all"), {"usage"}, IF "stat" \in files THEN Usage ELSE <<0, 1>>)

(* Unsigned subtraction. *)
Delta(i) == (rx[i] + Word - prev[i]) % Word

(* A line of /proc/net/dev. *)
Interface(data, i, alive) ==
  IF i \notin Monitored THEN data
  ELSE LET d == Put(Put(data, {"interface", "tx_bytes"}, i), {"rx_bytes"}, Delta(i))
       IN IF i \in alive THEN Put(d, {"speed", "ip"}, i) ELSE d

Interfaces(alive, files) ==
  IF "dev" \notin files THEN Nothing
  ELSE LET after[i \in 0 .. NSources] ==
             IF i = 0 THEN Nothing ELSE Interface(after[i - 1], i, alive)
       IN after[NSources]

TcpStats(data, files) ==
  IF "snmp" \in files THEN Put(data, TcpFields \cup {"protocol"}, "tcp") ELSE data

UdpStats(data, files) ==
  IF "snmp" \in files THEN Put(data, UdpFields \cup {"protocol"}, "udp") ELSE data

ConnectionStats(data, files, state) ==
  IF "tcp" \notin files THEN data
  ELSE Put(Put(data, {"state", "connections"}, state),
           IF state = "ESTABLISHED" THEN {"remote", "remote_connections"} ELSE {}, state)

Network(alive, files, state) ==
  ConnectionStats(UdpStats(TcpStats(Interfaces(alive, files), files), files), files, state)

(* collect_impl() of collector c. *)
CollectImpl(c, alive, garbled, files, state) ==
  CASE c = "cpu" -> Cpu(files)
    [] c = "memory" -> Memory(files)
    [] c = "disk" -> Disk(alive)
    [] c = "process" -> Process(alive, garbled)
    [] c = "network" -> Network(alive, files, state)

-----------------------------------------------------------------------------
(* collect(): a collector that is not due leaves the metric empty. *)
Due(c) == now >= last[c] + Interval[c]

Collect(c, alive, garbled, files, state) ==
  IF Due(c) THEN CollectImpl(c, alive, garbled, files, state) ELSE Nothing

(* Mutant: the counters are remembered of every interface, read or not. *)
RememberAll(files) ==
  /\ last' = [c \in Configured |-> IF c \in collectors /\ Due(c) THEN now ELSE last[c]]
  /\ cpu' = [cpu EXCEPT !.last_total = cpu.total, !.last_idle = cpu.idle]
  /\ prev' = rx

(* What collect_impl() remembers for the next sample. *)
Remember(files) ==
  LET due == {c \in collectors : Due(c)} IN
  /\ last' = [c \in Configured |-> IF c \in due THEN now ELSE last[c]]
  /\ cpu' = IF "cpu" \in due /\ "stat" \in files
            THEN [cpu EXCEPT !.last_total = cpu.total, !.last_idle = cpu.idle] ELSE cpu
  /\ prev' = IF "network" \in due /\ "dev" \in files
             THEN [i \in Sources |-> IF i \in Monitored THEN rx[i] ELSE prev[i]] ELSE prev

(* The first half of run(): a metric per collector, in the order of a hash map.   *)
CollectAll(r, alive, garbled, files, state) ==
  LET cs == SetToSeq(collectors) IN
  /\ queue > 0 /\ rpc[r] = "idle"
  /\ queue' = queue - 1
  /\ rpc' = [rpc EXCEPT ![r] = "export"]
  /\ metrics' = metrics \o [n \in 1 .. Len(cs) |->
       [id |-> made + n, name |-> cs[n], data |-> Collect(cs[n], alive, garbled, files, state)]]
  /\ made' = made + Len(cs)
  /\ Remember(files)
  /\ UNCHANGED <<now, timer, collectors, rx, exporter, sent, told, traffic>>

(* Octets received that the metrics ms tell of interface i. *)
AddReceived(n, m, i) ==
  IF "interface" \in DOMAIN m.data /\ m.data.interface = i THEN (n + m.data.rx_bytes) % Word ELSE n

Received(ms, i) ==
  LET after[n \in 0 .. Len(ms)] == IF n = 0 THEN 0 ELSE AddReceived(after[n - 1], ms[n], i)
  IN after[Len(ms)]

(* The second half: also the metrics of a run that has not come to it yet. *)
ExportAll(r) ==
  /\ rpc[r] = "export"
  /\ rpc' = [rpc EXCEPT ![r] = "idle"]
  /\ sent' = sent + Len(metrics)
  /\ told' = [i \in Sources |-> (told[i] + Received(metrics, i)) % Word]
  /\ metrics' = <<>>
  /\ UNCHANGED <<now, timer, queue, collectors, last, cpu, rx, prev, exporter, made, traffic>>

(* add_metric(), by a metric constructed with the engine. *)
AddMetric ==
  /\ exporter /\ made = 0
  /\ made' = made + 1
  /\ metrics' = Append(metrics, [id |-> made', name |-> "metric", data |-> Nothing])
  /\ UNCHANGED <<now, timer, queue, rpc, collectors, last, cpu, rx, prev, exporter, sent,
                 told, traffic>>

(* unregister_collector(); at most one collector is taken away. *)
Unregister(c) ==
  /\ c \in collectors /\ collectors = Configured
  /\ collectors' = collectors \ {c}
  /\ UNCHANGED <<now, timer, queue, rpc, last, cpu, rx, prev, metrics, exporter, made, sent,
                 told, traffic>>

(* The timer's handler queues a run at every tick; the processor was busy or not. *)
Tick(busy) ==
  /\ timer /\ now < 100 + MaxTime
  /\ now' = now + 1
  /\ queue' = queue + 1
  /\ cpu' = [cpu EXCEPT !.total = @ + 1, !.idle = IF busy THEN @ ELSE @ + 1]
  /\ UNCHANGED <<timer, rpc, collectors, last, rx, prev, metrics, exporter, made, sent, told,
                 traffic>>

(* The kernel counts an octet. *)
Receive(i) ==
  /\ traffic < MaxTraffic
  /\ traffic' = traffic + 1
  /\ rx' = [rx EXCEPT ![i] = (@ + 1) % Word]
  /\ UNCHANGED <<now, timer, queue, rpc, collectors, last, cpu, prev, metrics, exporter, made,
                 sent, told>>

(* The destructor: stop() and clear().  A run that is still queued finds the lists empty. *)
Destroy ==
  /\ timer /\ timer' = FALSE
  /\ collectors' = {} /\ metrics' = <<>> /\ exporter' = FALSE
  /\ UNCHANGED <<now, queue, rpc, last, cpu, rx, prev, made, sent, told, traffic>>

Run(r) ==
  \/ \E s \in Situations : CollectAll(r, s.alive, s.garbled, s.files, s.state)
  \/ ExportAll(r)

Next ==
  \/ \E r \in Runners : Run(r)
  \/ AddMetric
  \/ \E c \in Configured : Unregister(c)
  \/ \E busy \in BOOLEAN : Tick(busy)
  \/ \E i \in Sources : Receive(i)
  \/ Destroy

Spec == Init /\ [][Next]_vars

-----------------------------------------------------------------------------
(* The interface whose values survive in a metric: the last one listed. *)
Survivor == CHOOSE i \in Monitored : \A j \in Monitored : j <= i

(* Whatever the runs that overlap, the metrics that failed to be read and the       *)
(* collectors taken away meanwhile, the exporter is told of every metric once and   *)
(* in the order they were made, the deltas it is told of the last interface add up  *)
(* to the counter of the last sample (modulo the word, so across a wrap), and once  *)
(* the exporter is deleted no late run has a metric to hand to it.                  *)
RatesAddUp ==
  /\ \A n \in DOMAIN metrics : metrics[n].id = made - Len(metrics) + n
  /\ IF exporter
     THEN /\ sent + Len(metrics) = made
          /\ Monitored # {} =>
               (told[Survivor] + Received(metrics, Survivor)) % Word = prev[Survivor]
     ELSE metrics = <<>> /\ collectors = {}

(* One metric serves all mounts and processes, and each overwrites the one before:  *)
(* the fields of a disk metric all describe the mount its tag names, and so do the  *)
(* name and files of a process metric; its numbers are all of the process named or, *)
(* when its stat line did not parse, all uninitialised: never those of another      *)
(* process (disk_collector.h, proc_collector.h).                                    *)
LabelsAgree ==
  \A n \in DOMAIN metrics :
    LET d == metrics[n].data IN
    /\ metrics[n].name = "disk" /\ d # Nothing => \A k \in DiskFields : k \in DOMAIN d /\ d[k] = d.mount
    /\ metrics[n].name = "process" /\ d # Nothing =>
         /\ ProcFields \subseteq DOMAIN d
         /\ \A k \in ProcLabels : d[k] = d.pid
         /\ \E v \in {d.pid, Junk} : \A k \in ProcNumbers : d[k] = v

(***************************************************************************)
(* The inductive invariant of RatesAddUp and LabelsAgree, and what it rests   *)
(* on: the kernel lists every interface that has an address.                 *)
(***************************************************************************)
Sound ==
  /\ Word \in Nat \ {0} /\ NSources \in Nat /\ Monitored \subseteq Sources
  /\ Configured \subseteq {"cpu", "memory", "disk", "process", "network"}
  /\ Mounts \in Seq([point : Nat, fstype : STRING])

Typed ==
  /\ collectors \subseteq Configured
  /\ metrics \in Seq(ToSet(metrics)) /\ made \in Nat /\ sent \in Nat
  /\ rx \in [Sources -> 0 .. Word - 1] /\ prev \in [Sources -> 0 .. Word - 1]
  /\ told \in [Sources -> 0 .. Word - 1]

(* Who tells of an interface tells how much. *)
CountsInv ==
  \A n \in DOMAIN metrics :
    "interface" \in DOMAIN metrics[n].data => metrics[n].data.rx_bytes \in Nat

IndInv == Typed /\ CountsInv /\ RatesAddUp /\ LabelsAgree
=============================================================================
