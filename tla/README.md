# cassobee: a TLA+ verification project

cassobee is a Linux C++ server framework (`source/bee`, linked into the servers
under `source/casso`, `source/logserver` and `source/client` as `bee_r`, the
`_REENTRANT` build). This directory holds TLA+ models of the parts that carry
its concurrency, TLC configurations that check them on small instances, and
TLAPS proofs of the main invariants for every value of the constants.
`PROJECT.json` maps every definition to the source lines it stands for.

Paths below are relative to `source/bee`.

## 1. The system

A server runs a handful of kinds of threads over shared structures:

* the **reactor thread** sits in `reactor::run()`: it takes changed events from a
  double-buffered changelist, tells epoll about them, sleeps in `epoll_wait` and
  runs event handlers (accept, read, write, signals, the wakeup eventfd);
* **pool threads** run tasks: decoded protocols, rpc answers, HTTP handlers;
* the **timer thread** turns the time wheel once per tick and runs handlers:
  keepalive checks, reconnects, log rotation, rpc timeouts, monitor collection;
* the **appender thread** drains a log ring buffer to a file;
* any of them may send on a session, add a timer, submit a task or write a log.

| part | state | operations | hard behaviour |
|---|---|---|---|
| `thread/left_right.h` and the `lr_*` containers | two instances, `_left_right`, `_version_index`, two sets of read counters, the writer lock | `apply_read`, `apply_write` | lock-free readers against a writer that counts them one slot at a time |
| `io/reactor`, `io/demultiplexer`, `io/event`, `thread/double_buffer.h` | interest bits, epoll's registration, two changelist buffers, `_wakeup`, eventfd, `_stop` | `add_event`, `permit_write`, `forbid_write`, `wakeup`, `load_event`, `dispatch`, `stop` | changes arriving between flip, iteration and clear; lost wakeups |
| `io/session`, `io/session_manager`, `io/ioevent` | `_writeos`, `_writebuf`, `_write_offset`, session state, the manager's tables | `send_protocol`, `handle_write`, `handle_read`, `handle_close`, `check_timeouts`, reconnects | the send interest is given back while senders append; partial sends; closing with data left |
| `thread/threadpool` | per group a bounded queue, a condition variable, `_busy`, `_stop`; per worker an essential queue | `add_task`, `add_essential_task`, the worker loop, `try_steal_one`, `stop` | one condition variable shared by workers and `stop()`; thieves |
| `io/rpc` | `_rpcs`, trace ids, one timer per call | `set_request`, `run` on either side, the timeout | answer and timeout race; lost and late answers |
| `common/objectpool.h` | a free list with a tagged head; a locked variant | `init`, `alloc`, `free` | ABA, spurious CAS failure, uninitialized flags |
| `common/timewheel` | intrusive lists per slot, a hanging list, two changelists, a pool | `add_timer`, `del_timer`, `tick` | timers in two lists, reuse of a linked timer, unsigned time differences |
| `log/log_appender`, `utility/ring_buffer.h` | the ring, `_running`, the file | `log`, the draining thread, `rotate`, `stop` | records that wrap, rotation in the middle of a read, notify without the lock |
| `log/log_rotator`, `logger`, `glog`, `logserver/log_manager`, `log/log_formatter` | the next rotation time, tables of appenders, the items of a pattern | record, commit, receive, rotate, parse a pattern | midnight against the rotator's checks; several pool threads writing; ends of patterns |
| `http/httpclient`, `httpserver`, `internal/*` | pending, idle and busy tables, HTTP tasks, servlets | requests, answers, timeouts, servlet registration, replies | late responses on a connection that is kept; replies after a reply; servlets that change meanwhile |
| `io/protocol`, `common/marshal`, `common/octets.h`, `common/varint.h`, `io/bytes_order.h` | read buffers | encode, decode, push, pop, transactions | partial protocols and values, leftovers in `_readbuf` |
| `io/session_manager`, the listening, connecting and SSL events | tables of sessions and events, descriptors, reconnect timers | listen, connect, accept, hand over, delete, reconnect | deletion by one thread while another sends; one attempt at a time; descriptors that run out |
| the reactor's timers and signals | the multimap of timers, the signal pipe | `add_timer`, `del_timer`, `add_signal`, `handle_timer_event` | deletion from another thread while the loop runs the timer |
| `monitor/*` | collectors, metrics that wait, samples of the last run | `collect_all`, `export_all`, `add_metric`, `clear` | runs that overlap, wrapped counters, files that are missing |
| `thread/async_threadpool.h` | a queue, `_busy`, `_stop` | `add_task`, `wait_for_all_done`, `stop` | one condition variable for workers and waiters |
| `thread/lock.h` | flags, tickets | `lock`, `try_lock`, `unlock` | exclusion by single atomics, tickets that wrap |
| `cli/*` | commands, options, aliases | add, remove, parse, execute, complete | long sequences of changes that leave one table behind the other |
| `utility/load_balance.h`, `common/observer.h` | resources and turns; callbacks and tokens | select, change; register, move, notify | changes between selections; moves in any order |
| `format`, `common/config`, `database`, `security`, `meta`, `traits` | sequential text and library wrappers | | none that a model would reach |

How the parts interact: handlers on the reactor thread decode protocols and hand
them to the thread pool; tasks answer through `session_manager::send`, which
appends under the session lock and changes the event's interest, which queues
the event in the reactor's changelist and wakes the loop. Timers run on the
timer thread and touch sessions, rpcs, HTTP tasks and log files. The time wheel
takes its timers from the lock-free pool.

### What makes each part correct

* left_right: a writer is alone on the instance it changes; both instances hold
  the same operations between writes; the whole is an atomic object; writers end.
* reactor: no interest change is lost; a thread that trusts `_wakeup` is right to;
  every change reaches epoll and `stop()` ends `run()`, unless a wakeup is lost.
* session: the octet stream is what senders appended; what the peer sent is decoded once
  and in order however it is cut; unsent data keeps the send
  interest; accepted data is sent, unless a wakeup is lost; closing sends what is left
  first.
* thread pool: each accepted task is run and destroyed exactly once; `stop()`
  drains and returns; no queued task waits while its workers sleep.
* rpc: each call has one owner and one outcome; a call nobody answers times out.
* connections: a descriptor, an event and a session have one owner each, who takes
  them along when it goes; a client has one attempt, connection or timer, and after
  losing a connection tries again.
* HTTP: a response answers its own request, once; a request is answered by the servlet it
  matched, once, except that a servlet which replies and fails is answered for twice.
* marshalling: what is pushed is popped, however it is cut.
* the pools: no slot is handed out twice or lost, in spite of reuse.
* time wheel: lists stay circular, no timer is lost, each fires in its tick, no
  slot is freed twice.
* reactor timers: a timer is in one place and runs no more often than asked.
* log: what is logged reaches the file in order; files are cut between records;
  `stop()` flushes; a record is in one file, of its day as far as the rotator knows the
  day; a pattern is cut where its conversions begin and end.
* monitor: each metric is exported once, deltas add up, and a metric does not mix the
  processes or mounts it went through.
* the rest: locks exclude, futures become ready, aliases belong to a command, round
  robin shares evenly, a registration lives as long as its token.

## 2. Modules

| module | models | atomicity |
|---|---|---|
| `LeftRight` | `thread/left_right.h` with `ri_distributed_counter` | every load, store and `fetch_add` is a step; `is_empty()` reads one counter per step; a functor is an interval |
| `AtomicObject` | the abstract specification `LeftRight` implements | |
| `Reactor` | `reactor::run`, `load_event`, `stop`, `epoller::dispatch` and `wakeup`, `control_event`, `one_reader_double_buffer` | a spinlock section, an atomic exchange, a system call are a step each; the iteration over the old buffer is one step per event |
| `SessionIO` | one connected session from `send_protocol` to the socket, `handle_close`, `check_timeouts` | a section of the session lock is a step, except that a sender holds the lock over its append and its queueing of the event; each `send()` is a step |
| `SessionRecv` | the receive path of one session: `handle_read`, `on_recv`, `protocol::decode`, the varints and the shrinking of `octetsstream`; the peer's `protocol::encode` | each `recv()`, the move into `_reados` and each turn of the decode loop is a step; the peer sends pieces of any size meanwhile |
| `ThreadPool` | `threadpool`, `thread_group` | a section of `_queue_lock` is a step; condition variables are sets of sleepers, with spurious wakeups |
| `Rpc` | `rpc.cpp` set_request, run, set_timeout_timer | a section of `_locker` is a step; messages are sets, so they may be lost or overtake |
| `LockfreePool` | `lockfree_objectpool<T, LAZY>` | every atomic is a step; weak CAS may fail spuriously; the flags start arbitrary because the memory is raw |
| `TimeWheel` | `timewheel` and `timerlist` down to `prev`, `next`, head and count | what runs under one spinlock is a step; a handler is an interval during which it may add and delete timers |
| `AsyncAppender` | `async_appender`, `ring_buffer` | a section of `_locker` is a step; the thread's read is one step per contiguous piece |
| `Connections` | `session_manager`'s tables, the events that listen, connect and carry, with and without SSL, registration and deletion in the reactor, reconnect timers | a section of the manager's lock, one element of the changelist, one handler are a step each; building a stream event and arming it are two, a sender may come between them |
| `LrContainers` | the six `lr_*` containers | the two calls `apply_write()` makes are a step each |
| `ReactorTimer` | timers and signals of a reactor without a timer thread | `del_event()`'s mark and its entry in the changelist are two steps; a timer's handler is an interval |
| `Marshal` | `octetsstream`, `octets`, varints, zigzag, byte order | a push, a pop, an arriving piece are a step; an exception and the rollback after it are two |
| `HttpClient` | `httpclient.cpp`: pending, idle and busy, timeouts, callbacks on the pool | a call under `_locker` is a step |
| `HttpServer` | `httpserver.cpp`, `internal/servlet.cpp` | a request's dispatch and a run of a servlet are a step each; registrations change in between |
| `Log` | a record from `logclient/glog.cpp` over `logserver/log_manager.cpp` to the file of its day | a record's commit, its receipt, each write to the file and each check of the rotator is a step |
| `LogFormat` | the pattern parser of `log_formatter.cpp` | parsing is a recursive function over the indices |
| `Monitor` | `monitor_engine` and its five collectors | the two halves of `run()` are a step each |
| `Locks` | `thread/lock.h` | every atomic is a step |
| `AsyncPool` | `async_threadpool` | a section of `_queue_lock` is a step; notifications outside it are their own |
| `ObjectPool` | `objectpool<T>` | an operation is one section of the lock, one step |
| `Cli` | `command_line.cpp`, `command.cpp` | a call is a step; a script is executed in one |
| `Balance` | `load_balance.h`, `reactor::create_load_balancer()` | a call is a step |
| `Observer` | `observer.h` | registration and moves are a step; each callback of `notify()` is one |

`MCx.tla` extends module `x` for TLC and holds values a cfg cannot write. Where one run is about several components that do not share
state, the MC module is a *suite*: it extends one module, instantiates the others with
variables of their own, and has a variable `focus`, chosen at the start, that says which
of them this behaviour is about; the rest stand still. Each component is therefore
checked over its whole state space and no product is formed. `MCSessionIO` has four
foci (the write path, the connections, the receive path, marshalling), `MCAsyncAppender`
three (the ring, the record's way to a file, the patterns). The fairness of a suite is
that of its first module, restricted to its focus (and that of `Connections` and
`SessionRecv` in `MCSessionIO`). Properties that a suite states are conjunctions of the instances'
properties, under the names listed in section 3; type correctness is the first
conjunct of the first safety property of a module and is stated as a theorem of its own
where it is proved.

`x_proof.tla` holds the theorems. Variables carry the names of the fields they
model, with the leading underscore dropped; a `pc` variable names the place in
the function a thread is in. History variables (`accepted`, `sent`, `runs`,
`freed`, `list`, `drops`, ...) are marked as such where they are declared and
guard nothing but bounds. Definitions introduced by a "Mutant:" comment are
deliberate mistakes used to see that a property can fail; no specification uses
them.

Abstractions that matter:

* `Reactor` has stream events only. A thread's call to change an event is guarded
  by "no other caller works on it", which is the session lock. The changelist is
  a `std::set`, hence a set here. Memory order is sequentially consistent:
  the release store and exchange on `_wakeup` are single steps, and their order
  with what is around them is kept by the changelist's spinlock and the system calls.
  `epoll_wait` has no timeout: with `use_timer_thread`, which all shipped configurations
  set, `reactor.cpp:65-68` leaves `_timeout` at -1.
* `SessionIO` replaces the changelist by the flag `changed` (`NoChangeDropped` of
  `Reactor`), keeps `_wakeup` and the eventfd, so that the wakeup of a sender can be lost
  here too, and replaces the receive path by what it does to the session state.
* `SessionRecv` keeps octets apart only as far as decoding looks at them: payload
  bits and continuation flag in headers, nothing in bodies. `GroupBits` is 7 in the
  code and 1 in the runs, which makes sizes of 2 and 3 what 128 to 16383 are in the
  code. `protocol::encode`'s guess of the prefix width and the `memmove` that corrects
  it are taken together; `unpack()` is taken to read the whole body.
* `ThreadPool` follows an adder that meets a deleted group no further: what
  happens is undefined in the code.
* `Rpc` has trace ids from 1; `Timeout` is chosen among them, as 30 is in the
  code, so that the exchanged arguments of `set_timeout_timer` are visible.
* `TimeWheel` takes the pool as a stack (what `LockfreePool` is shown to be) and
  computes `_nexttime - _tickcount` modulo `Word`. Once an ASSERT fails or a null
  link is followed, `failed` is set and the wheel takes no further step.
* `Connections` has no data: what is sent is `SessionIO`'s, how it is decoded
  `SessionRecv`'s. The changelist is one set and the batch being read. Names of deleted
  events and sessions are used again only when nobody remembers them. A use of a freed
  event or of a null `_base`, which the code allows (section 4), sets `crashed`, after
  which nothing is claimed.
* `HttpClient` and `HttpServer` start where a decoded message is handed over: as the
  source stands no HTTP message decodes (`httpprotocol.cpp:37` builds a string from a
  character taken as a length). The client's lock after `on_add_session()` has locked
  and unlocked it a second time is undefined and may never be granted again.
  A servlet's run is any number of replies and whether it returns an error, which sends a
  response of its own whatever was replied before.
* `Log` names a file by its day; the timer thread keeps up with the clock. What
  `get_today_start()` makes of the fields of `tm2` that it never assigns is a choice among
  `Offsets`, made anew by every check of a rotator that changes the day; `skew` remembers
  the choice the open file rests on. The log server commits records of its own straight to
  its pool. The influx file has a rotator and a timer of its own.
* `LogFormat` knows the characters the parser tells apart and no others. A record is
  formatted to a sequence of characters, fields, times and error texts, so that text that
  looks like a conversion is not one; `%d` without braces is given the empty format and
  prints nothing, as in the code.
* `Monitor` keeps of a value whom it describes, the received octets of an interface
  (modulo a word) and the processor's times; what a /proc file says otherwise is left out.
  When a stat line does not parse, the numbers after pid are uninitialised (`Junk`); when no
  interface has an address, all lines of `/proc/net/dev` are reported.
* `Marshal` has octets of `ValueBits` bits and a continuation flag, and integers of
  `Width` bits, both small, so that numbers of one and of two octets occur.
* `Locks`, `Cli`, `ObjectPool` and `Balance` go on after the calls that break their
  promises only as far as the code does; `unsound` and `broken` record them.
* `AsyncAppender` numbers octets by when they were logged, so order and loss are
  visible; the text of a record is irrelevant.

## 3. Runs

| run | instance | checks |
|---|---|---|
| `left_right` | 2 readers on 2 slots, 2 writers, 3 writes; containers of 2 values and 3 elements | NoReadDuringWrite, InstancesAgree, WriterFinishes, ImplementsAtomicObject; ReadersSeeIdeal |
| `reactor` | 2 events, 1 thread and the loop's handlers; 2 timers that run twice, 2 signals, a pipe for one | NoChangeDropped, FlagCoversSleep, ChangeApplied, StopHonoured; TimersSound |
| `reactor_stop` | 1 event, 1 thread | StopEndsLoop is violated |
| `thread_pool` | 2 groups, 3 workers, queue of 1, stealing on or off, an essential task; 2 workers and 3 tasks of `async_threadpool`; 3 threads on each lock, 4 tickets | OneOwner, StopDrains, AcceptedRuns, StopReturns; ThreadsSound |
| `rpc` | 3 calls, 2 pool threads, losses; 3 HTTP requests over 2 connections; 2 requests to 2 servlets with 3 changes | OneOutcome, AnswerCompletes; AnswersMatch; RespondsOnce |
| `rpc_timeout` | 2 calls | CallTimesOut is violated |
| `session_io` | 2 senders, 3 protocols of 2 octets, buffer of 4, socket of 3; a client and a server manager, 2 descriptors, 5 events, 4 sessions, 1 sender; 2 protocols of 2 to 6 octets received or 4 of 6, one id unknown, buffers of 9, threshold 3, socket of 5; 3 values of 6 kinds | StreamIntact, UnsentHasInterest, AcceptedIsSent; OwnersSound, Reconnects; FramesWhole, BuffersHoldRest, SocketDrains; RoundTrip |
| `session_close` | the first half, socket of 1 | CloseFlushes is violated |
| `session_recv_size` | 2 protocols, one with a three-octet size | FramesWhole is violated |
| `lockfree_pool` | 2 threads, 3 slots, 6 head changes; 4 names and 2 changes of the command line; 2 resources; 3 tokens; 3 nodes | ListIntact, OnePlace; AliasesOwned; UtilitiesSound |
| `time_wheel` | 3 timers firing twice, 2 slots, 4 ticks, one timer deleted or dropped; 2 overlapping runs of the monitor, 5 collectors, counters that wrap at 2 | ListsIntact, OnTime, PoolSound; MetricsSound |
| `async_appender` | 2 loggers, ring of 4, records of 1 and 3, threshold 3, 5 octets; 2 records, days of 2 ticks, starts of the day off by one tick either way; all patterns of up to 5 characters | RingIntact, LogReachesFile; RightFile; PatternKept |

Why the bounds are enough for the cases that matter:

* left_right: three writes let a reader that stalled in `arrive()` meet the third
  version, two toggles later; two slots let a reader arrive behind the scan.
* reactor: the handlers and a thread work on different events at once, and a
  change can arrive in each of the loop's seven places. Invariants are proved for
  any number of threads and events.
* thread_pool: two workers in one group show a worker asleep beside a busy one,
  a second group shows a thief; a queue of one is full at once.
* lockfree_pool: three slots are the least for ABA (take two, return the first).
  `MaxCount` stops calls from starting, so no call is cut off in the middle.
* time_wheel: with two slots a timeout of 1 is near, one of 2 is exactly a turn
  ahead and hangs; four ticks are two regroupings.
* async_appender: a ring of four with records of three wraps (two records of one, a read,
  one of three) and is cut short (two of three).
* session_io: the buffer holds two protocols, so a third is refused until something is
  sent, and the socket takes one and a half, so sends are partial.
* the receive path: a buffer of 9 is the threshold (3) and the largest protocol (6), the
  least for which `SocketDrains` holds; the shipped configuration has 4 MiB and a
  threshold of 1 MiB. Four protocols of 6 are more than both buffers hold, so an
  unknown id, which decoding never passes, fills them.

* session_io, connections: with two descriptors a listener and a dialled connection
  leave none for `accept()`, and a reconnect may find none; four sessions and five
  events are more than two descriptors can hold, so names never run out first.
* reactor timers: two timers in one multimap, one deleted while the other runs.
* HTTP client: two connections and three requests let a request time out on a busy
  connection while another is sent and a third waits.
* HTTP server: two threads and two requests of one session, and three registrations or
  removals, enough to replace a servlet while its task waits.
* monitor: two runs overlap; a counter of two values wraps with the second octet; the
  situations have all, some and none of the files, mounts and processes there.
* log: days of two ticks and a check at each tick put records before, at and after
  midnight and before and after the check; four ticks are two midnights, so that a file
  opened with one offset is followed by one opened with the other.
* the command line's two changes act on two built-in commands, so that aliases of one
  are changed through the other.

Deadlock checking is off where a model stops at a bound or where the system may
stop (`run()` has returned, `stop()` has returned, all calls are made).

**Fairness.** Weak fairness of each thread's own steps inside a call: threads are
scheduled by the OS, spinlock and mutex sections are finite, and a task, functor
or handler that starts ends. Nobody is obliged to start a call, no descriptor has
to become ready, spurious wakeups need not happen. `Reactor`'s loop is fair on
`epoll_wait` only when the eventfd is readable: the shipped configurations sleep with a
timeout of -1, so a loop whose wakeup was lost may sleep for ever, and `ChangeApplied`,
`StopHonoured` and `AcceptedIsSent` say so: what they promise comes, or the loop sleeps on
with `_wakeup` clear (`Overslept`, `Asleep`), and without a lost wakeup it always comes.
`SessionIO` is fair on `epoll_wait` under the same condition and while the socket is
registered for what it is ready for, and assumes that the peer keeps reading. In `Connections` the loop and the timer thread
are strongly fair: they take a manager's write lock again and again while a sender
holds and releases the read lock. This assumes that senders leave gaps: glibc's rwlock
prefers readers, and senders that overlap without end would keep a writer out. `AsyncAppender` assumes that a timed wait
ends, `Rpc` that time passes.

## 4. Disagreements between the code and what it says

* **`rpc_timeout`**: the arguments of `set_timeout_timer` are exchanged
  (rpc.cpp:183); a call nobody answers is never timed out.
* **`session_close`**: `is_writeos_empty()` compares an offset into `_writebuf` with
  the size of `_writeos`; a session can close with unsent data.
* **`session_recv_size`**: `compact_int_size_table` has eight entries an octet, the
  varints have seven bits an octet, so a protocol of 16384 to 32767 octets gets a size
  prefix cut short, and the receiver loses the frame boundaries.
* **`reactor_stop`**: a `stop()` that comes between the loop's test of `_stop` and the
  clearing of `_wakeup` (demultiplexer.cpp:112) finds the flag still set, writes no eventfd,
  and `epoll_wait(-1)` sleeps on.

Two more have no run of their own; the properties name them as what they set apart:

* `get_today_start()` leaves hours, minutes, seconds and isdst of its `tm` uninitialised
  (systemtime.h:82), so the file need not change at midnight although log_rotator.h:35 and
  log_rotator.cpp:56 say that logs are split by natural day. `RightFile` says how long a
  file stays open for any error of that start; with an error of 0 it is the natural day.
* `%%` prints one `%` and reads the second again as the start of a conversion, although
  log_formatter.cpp:173 and 186 say that it is handled: `%%m` prints % and the message.
  `PatternKept` is about patterns without such a pair.

Some ASSERTs of the code can fail. Each states what its author expected; the models stop,
or set `failed` or `aborted`, where the debug build would abort:

* `ASSERT(task)` of `advance_all()` (httpclient.cpp:365): the id of a request that timed
  out while pending stays in the queue (`HttpClient`);
* the ASSERT of `influxlog_appender::reopen()` (log_appender.cpp:140): at the first
  rotation the file it would rename does not exist (`Log`);
* the ASSERTs of `timerlist` and of the wheel on a timer's list and state: after
  `del_timer()` on a timer that is still linked, or a handler that returned false
  (`TimeWheel`).

The models contain further behaviour that no run is spent on, because no line of the
repository says otherwise:

* reactor: without a timer thread, `handle_timer_event()` takes a
  due timer out and drops it, and runs one that is not due. A timer marked deleted may be
  freed before its entry reaches the changelist. A signal raised before its event is
  loaded is swallowed, and a full pipe loses signals.
* sessions: one marked by `check_timeouts()` is unmarked by the next `on_send()` or
  `on_recv()`; a header that arrives in two pieces closes the session; octets left in
  `_readbuf` wait for the peer's next octet.
* connections: when `socket()` fails the event sits under descriptor -1 and the client
  never tries again (ioevent.cpp:309); a sender may use an event between `set_open()` and
  its registration, when `_base` is null (event.cpp:29); an event queued by a sender after
  the loop has deleted it is read after free (reactor.cpp:182); SSL's `handle_read()`
  turns on WANT_READ for as long as the peer likes (sslio_event.cpp:208).
* thread pool: a thief that empties another group's queue notifies nobody there, so a
  `stop()` waiting for that group sleeps for ever, and a task of a late adder may wake it
  instead of a worker, which is why `AcceptedRuns` excepts a stop with stealing.
  `async_threadpool::wait_for_all_done()` returns while tasks still run.
* timers: one whose handler returns false stays linked while its slot is reused;
  `del_timer()` relinks a timer that is still linked, and the slot loses those behind it.
* pools: LAZY lock-free pools read flags nobody has written; the locked pool ignores the
  second `free(T*)` of an object, `destroy()` follows a null link after frees out of
  order, and `find_object()` accepts an index one too large (objectpool.h:119).
* log: `async_appender::stop()` on an empty ring spins (log_appender.cpp:219);
  `influxlog_appender` renames to a path without its directory (log_appender.cpp:133); `%d`
  without braces prints nothing, since the empty format replaces the default one; `del_logger()` and `del_appender()` delete without
  erasing (log_manager.cpp:72).
* lr containers: an rvalue is moved into the first instance and the second gets what is
  left; `lr_map::operator[]` inserts under `apply_read()`.
* HTTP: a servlet that replies and then returns an error is answered for twice, since
  `on_error()` sends without looking at `_http_tasks` (servlet.cpp:66); `req->is_keepalive()` is asked after the pool may have deleted the
  request (httpclient.cpp:234); no connection is ever added for lack of idle ones
  (httpclient.cpp:389); an unmatched request is never answered.
* command line: `~command()` deletes the parent of its options, which is itself
  (command.cpp:21); `-x` reads its value from the characters of the token
  (command_line.cpp:253).
* locks: `ticket_spinlock::try_lock()` takes no ticket (lock.h:165).
* load balancing: ROUND_ROBIN falls through to RANDOM in `create_load_balancer()`
  (reactor.cpp:304). Observers: a callback may run after its token was destroyed, and a
  move assignment leaves the old registration for good (observer.h:54).
* monitor: one metric is overwritten by every mount, process and interface in turn, and
  the last one is exported; a collector that is not due exports an empty metric. A stat line
  that does not parse leaves the numbers uninitialised, and they are exported under its pid
  (proc_collector.h:153).
* marshalling: `_pos + size` may wrap for a size near 2^64 (marshal.h:136).

## 5. Proofs

| module | theorems | about |
|---|---|---|
| `LeftRight_proof` | Inductive, TypeCorrect, WriterAlone, InstancesEqual, Refinement; ContainersAgree | `LeftRight`; `LrContainers` |
| `Reactor_proof` | Inductive, TypeCorrect, NothingDropped, SleepCovered; TimersStaySound | `Reactor`; `ReactorTimer` |
| `Rpc_proof` | CallsEndOnce; RequestsAnsweredOnce; ClientAnswersMatch | `Rpc`; `HttpServer`; `HttpClient` |
| `SessionIO_proof` | StreamStaysIntact, InterestIsKept, InterestIsTold; ConnectionsOwned; FramesStayWhole, BuffersStayWhole; ValuesRoundTrip | `SessionIO`; `Connections`; `SessionRecv`; `Marshal` |
| `ThreadPool_proof` | TasksOwnedOnce, StopLosesNothing; ThreadsStaySound | `ThreadPool`; `AsyncPool`, `Locks` |
| `LockfreePool_proof` | Inductive, TypeCorrect, FreeListIntact, SlotsAccounted; AliasesStayOwned; UtilitiesStaySound | `LockfreePool`; `Cli`; `Balance`, `Observer`, `ObjectPool` |
| `TimeWheel_proof` | TypeCorrect, PoolStaysSound, ListsStayIntact, HandlersOnTime; MetricsStaySound | `TimeWheel`; `Monitor` |
| `AsyncAppender_proof` | RingStaysIntact; RecordsInRightFile; PatternStaysKept | `AsyncAppender`; `Log`; `LogFormat` |

Each module's inductive invariant is written beside its properties, as a conjunction of
named parts, and was model-checked on the module's run before it was proved; the
invariant of the time wheel's lists, which speaks of sequences that no variable holds, is
in `TimeWheel_proof`. A proof
module that is about a suite extends the MC module and proves the suite's property for
the suite's specification: each instance keeps its own invariant, and where the focus is
elsewhere its variables stand still.

**Assumptions.** The theorems hold for any sets of threads, readers, writers, events,
names and so on, any number of slots, any capacity and any bound, under the named
assumptions of the modules, all of which TLC evaluates:

* constants have their types, and special values (`NoWriter`, `Null`, `NoEvent`,
  `NoCall`, `None`, ...) are not members of the sets they complement;
* sets whose members a counter counts are finite: readers, workers, lockers;
* `OneParentAssumption`, `WorkersAssumption` (ThreadPool): a task object that runs as
  an essential task was made by one parent, and every group has threads, which
  `threadpool::start()` creates from the configuration before a task is accepted;
* `LocksAssumption`: there are no more threads than tickets. Tickets are 32-bit numbers
  and threads are fewer; with more, two waiting threads would have the same ticket;
* `RingAssumption`, `LensAssumption`: the ring has room for something and the threshold
  is not zero; records have any lengths, those longer than the ring included;
* `ConnectionsAssumption`: clients are managers;
* `RotatorAssumption` (Log): days and the interval of the rotator's checks have a length;
  what the start of the day is off may be anything, and the rotator may check as seldom
  as it likes;
* `ClientAssumption`, `TimersAssumption`: bounds are numbers, and timers are finitely many
  and none of them is a signal;
* `ReceiverAssumption` (SessionRecv): besides the types, every size that is sent has as
  many octets as `compact_int_size_table` says (`Framed`). The code does not guarantee it:
  sizes of 16384 to 32767 break it, which is the run `session_recv_size`. The theorems say
  that nothing else can break a frame;
* `ValuesAssumption` (Marshal): a value has the type its tag says and integers fit into
  `Width` bits;
* `WordAssumption` (TimeWheel): the wheel has fewer slots than the tick counter has values;
* `TimeoutsAssumption` (TimeWheel): timeouts are a tick or more and less than a word, and
  `_tickcount` stays a turn away from the end of its word. The callers of `add_timer()` ask
  for a second or more and a tick is 50 ms in the shipped configuration
  (config/tpl/general.m4). `add_timer()` itself does not refuse less: `timeout /
  _ticktime` is then zero, and a timer that repeats is linked by its first handler call into
  the slot just taken, fires one turn late there, and then hangs for ever;
* `MonitorAssumption`: types, the five collectors the code has, and that `/proc/net/dev`
  lists every interface that has an address: `getifaddrs()` and the file are the same
  kernel's.

*LeftRight.* `NoReadDuringWrite` is not inductive: it says nothing about readers
that have counted themselves in and not read yet. `IndInv` adds who holds the
writer lock (`LockInv`); that every counter is the number of readers between
`arrive()` and `depart()` on that version and slot (`CountInv`); which readers may
still be in the old instance at each point of `toggle_version_and_wait()`
(`OldReadersInv`: before the first wait any, during a scan those whose slot is
still ahead, after the toggle those of the old version); and how the instances
differ at each point of `apply_write()` (`ContentInv`). The refinement maps the
object to the instance readers are sent to, and a read to what it will return from
the moment it has chosen its instance; the store to `_left_right` is the write.

*LrContainers.* Between the two calls of `apply_write()` the instances differ, so the
invariant speaks of the hidden instance as the second call will leave it (`Upcoming`):
both match the ideal container. One lemma per kind of operation says that operations keep
two containers alike that differ in moved-from elements only.

*ReactorTimer.* `TimersSound` counts the places of a timer in the multimap; the loop over
the due timers is a recursive function, and one induction over its turns (`Unfolds`) says
that every turn keeps a timer in one place. `RepeatsInv` adds that a timer which will run
again has not run as often as was asked.

*HttpClient.* The invariant says of the client's tables as one value (`Consistent`) that
pending, busy and answered requests are apart; `advance_all()`'s loop over the requests
that wait goes through tables that all satisfy it.

*Log.* `RightFile` needs to know when the rotator will look next: `RotatorInv` relates the
open file, the next rotation, the next check and the clock at each of the rotator's places,
with the offset each rotation was computed with; the latest time a file is open is the end
of its day, what the offset adds to it, and the checks' interval, less one tick
(`Deadline`). `WayInv` says that a
record is in one place on its way.

*SessionRecv.* `Held` is what makes `FramesWhole` inductive: the octets not yet decoded are
the beginning of the encoding of the protocols not yet handed over. The lemmas below it say
what the recursive functions compute: a varint is read back as what was written, whole or
cut short, and one turn of the decode loop either takes exactly the first protocol or
leaves everything as it was.

*Marshal.* As for `SessionRecv`, for the six kinds of values: each `Pop` reads what `Push`
wrote and nothing more, a cut encoding is always noticed, and `Returns` says that what lies
behind the transaction's position is still the encoding of what had not been read there, so
that a rollback loses nothing.

*Reactor.* `NoChangeDropped` and `FlagCoversSleep` need `TodoInv` (the loop iterates
only inside `load_event`) and `CallerInv` (a caller about to queue an event has one).

*Rpc.* `OneOutcome` counts the owners of a call. The induction works with the places
themselves: no two of table, pool threads and timer thread have the same call
(`OwnersApart`), and a call is with one of them exactly while it is registered and not
deleted (`OutcomeCounts`); lemmas turn this into the cardinality.

*HttpServer.* `RespondsOnce` also says who answers and in which order. It needs that request ids are handed out in order
(`IdsInv`) and that a request has one copy of a servlet, queued or with a thread
(`CopiesInv`): the reply deletes the task and the copy goes with it.

*SessionIO.* `StreamIntact` says where the octets are; what the loop may do with
`_writebuf` at each point of `handle_write()` is `BufferInv`. `UnsentHasInterest` is
about the bit only; `ChangeQueued` adds that a bit epoll has not been told of is in the
changelist or about to be queued by a sender, which gives InterestIsTold: unsent data is
known to epoll or to the changelist. That the loop gets to the changelist is liveness and
only model-checked, with the lost wakeup as its exception.

*Connections.* `OwnersSound` fails to be inductive at handovers: while a dialling or
accepting event passes its descriptor and session on, two events name the same one. The
invariant says exactly who may: the event the loop is building (`LoopInv`, at `arm`), a
registered event that has given its descriptor away and waits to be deleted (`Husk`), and
an event in the changelist that has not been looked at (`Pending`). `FdsInv` and
`RegistryInv` say who has a descriptor and who stands in the reactor's table, `QueueInv`
what the changelist may still hold, `SessionsInv` that a session and its event name each
other, `ChainInv` that a client has one event or one timer.

*ThreadPool.* `OneOwner` counts the holders of a task. `QueuesInjective`,
`HoldersApart` and the equivalence of being held with being accepted and not destroyed
are inductive once it is also known that a task on its way in has not been anywhere
(`NotYetOwned`) and that `_busy` counts the running workers (`WorkerInv`). `StopDrains`
rests on `StopInv`: who has left the loop left empty queues, and they stay empty, because
a stopped group refuses tasks and children are queued by workers that are still there.

*AsyncPool, Locks.* `PlacesInv` says that an accepted task is in one place. For the
ticket lock the threads that hold or wait have the numbers from `_serving` up to
`_next_ticket`, one each, so that the modular distance counts them.

*AsyncAppender.* `CursorInv` ties the two cursors together modulo the size of the ring
through the octets a read has taken and `_size` still counts; `EndsInv` that the ring's
last octet, and between reads the file's, ends a record.

*TimeWheel.* `PoolSound` holds even after deletions have damaged the lists, so it is proved
without them: what is needed is that a timer whose handler runs is active (`HandlerInv`).
`ListsIntact` and `OnTime` are proved with a sequence of timers per list, which no
variable holds: the invariant (`WheelInv`) says that until a timer is dropped there are
such sequences `q`. `RingsInv`: the links of a list that nothing is iterating over spell a
circle of its sequence, and no timer is in two places; `WalkInv`: the list the wheel is in
is a line from its position, or a circle it takes the first timer of; `StatesInv` and
`HandsInv`: a timer's state says where it is. Every action appends to a sequence, cuts a
timer out of one, or exchanges two. `TimesInv` adds the times: a slot holds the timers
whose time is that slot's next turn, the hanging list those of a later turn, except behind
the position of `regroup_timers()`, and what was late when it was linked. From the circle
`Walk` is computed by induction over the number of links followed.

*Monitor.* `RatesAddUp` and `LabelsAgree` are inductive once it is known that who tells of
an interface tells how much (`CountsInv`). The metric each collector leaves is computed by
induction over the mounts, the processes and the lines of `/proc/net/dev`: every turn
overwrites all the fields of the one before, with its own values or with uninitialised
ones, so none of an earlier process is left, and
the network metric holds the delta of the last interface monitored. Of the metrics that a
run appends only that one tells of the interface; its delta added to what was told before
is, modulo the word, the counter read.

*LogFormat.* The invariant of the state machine says that the items spell the pattern, that
no text holds a percent sign, and that a record is what the items format; that the items
spell the pattern is an induction over the turns of the parser's loop (`Reads`): unless
there was an error, the items and the text not yet flushed spell the pattern up to where
the parser has read, which after a conversion is ahead of the loop's index.

*LockfreePool.* `SeenInv` is the heart: a thread whose `old_head` still has the
counter of `_free` has the same node too, and the link it read is still the node's
link; so a CAS that succeeds does what its thread believed. `HoldInv` ties a slot in
a thread's hands to where the thread is. The free list is the history variable
`list`, and `ListIntact` says the links spell it.

*The utilities.* `Cli`: `add_command()` enters the aliases together with the list of the
command, a command that is refused changes nothing. `Balance`: `_index` modulo the number
of entries says which of them are one turn ahead (`RoundInv`). `Observer`: an orphan has
no token, an id is given once (`OwnersInv`). `ObjectPool`: the free list is a sequence of
distinct nodes spelled by the links (`FreeList`), `_size` counts the nodes outside it
(`CountInv`), so a pool that is not full has a first node.

**Recursion.** No module uses RECURSIVE operators, so that all can be proved about. What a
recursive function computes is proved by induction on numbers: the library's theorem that
every set of numbers that is not empty has a least one (`WFMin` with
`NatLessThanWellFounded`) takes sets and no operators, so the set of counterexamples can be
given to it. Folds take an operator as a parameter, which the provers cannot instantiate;
where a loop had to be proved about it is therefore written as a recursive function.

Only model-checked: everything under fairness. Liveness and ENABLED are outside the
prover's reach. Every invariant that a passing run checks is proved as well.

## 6. Plan

Done: the modules of section 2 and the proofs of section 5. What could come next are the
components of section 7 that somebody starts to use, first of all
`concurrent_double_buffer`.

## 7. Not modelled

* HTTP messages, URIs, configuration files, `format`: text taken apart character by
  character, sequential, without state another component depends on.
* `cmysql`, `crypt`, SSL contexts and certificates: wrappers of other people's libraries.
* `concurrent_double_buffer`, `event_dispatcher`, `delegate`: nothing in the repository
  uses them, so there is no caller to say how they are meant to be used.
* Sub reactors (never added), UDP (declared and empty), forwarded rpcs (none forwards),
  `del_logger()` and `del_appender()` (never called).
* Random numbers, reflection, factories, block lists: sequential helpers.
* Generated protocol classes and the programs' `main()`; construction and destruction of
  the containers.
