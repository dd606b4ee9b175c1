# process-bandwidth: formal models

process-bandwidth shows the bandwidth of every process of a Linux host, and of
every connection of a process.  An eBPF probe reports each read and write; a
user-space engine accounts them to processes and connections; a terminal UI, a
web API and a Prometheus endpoint show snapshots that a worker takes once a
second.  This directory holds TLA+ models of the program, TLC instances that
check them, and TLAPS proofs.

To check a run: `tlc -config MCEngine_two.cfg MCEngine`.  To check a proof:
`tlapm EngineProofs.tla`.  `PROJECT.json` lists the runs, what each
definition was translated from, and for each property a mutant of the code's
model that violates it.

## 1. Inventory

| Component | Source | State | Operations |
|---|---|---|---|
| BPF probe | `tracepoint/tracepoint.c` | two hash maps of bounded size: `pid_fid_map` (thread -> descriptor of the call in progress), `pfid_type_map` (thread and descriptor -> socket or file) | programs at the entry and exit of calls; at the exit of a thread |
| Loader and event pipeline | `engine/tracepoint.go`, `engine.go` | the attached programs, the perf buffer, a bounded channel | attach; read samples, forward them; report errors |
| Event workers | `engine/event.go`, `worker.go`, `process.go` | `ProcessesMap`, `Connections` of each process, the objects in them | a handler each for read/write, close and exit events |
| Snapshot worker | `engine/worker.go`, `interface.go` | the same maps, the counters | once a second: evict what is idle, take a snapshot of the rest |
| Connection resolver | `engine/connection.go` | `ConnectionsMap` (inode -> `ConnectionInfo`), the `ConnectionInfo`s, `cLock` | look an inode up, scan `/proc/net`, rewrite a cached `ConnectionInfo` |
| Counter and ring | `engine/counter.go`, `pkg/ring/array_ring.go` | two totals, the bytes at the last snapshot, a ring of snapshots | add, take a snapshot, read one or all of them |
| Concurrent map | `pkg/sync/map.go` | read-only map, dirty map, misses, entries | `Load`, `Store`, `LoadOrStore`, `LoadAndDelete`, `Delete`, `Range` |
| Snapshot rates | `engine/snapshot.go` | none | rates, units, formats |
| Terminal UI | `top/` | the slice of processes, two tables, two selections, filter, pause flag, interval and its ticker | handlers of keys and clicks; three refresh functions; a goroutine that refreshes at each tick |
| Web API | `web/api/` | none of its own | views of processes, connections, interfaces |
| Prometheus export | `web/prom/` | a channel, a wait group and the metrics of one collection | gather, collect |
| Commands | `commands/`, `main.go`, `config/` | configuration, an error channel, a signal channel | start everything, end the program |
| Kernel version | `pkg/util/kernel/` | none | parse and compare a version |
| Not used or presentation | other rings, `asciigraph`, `profile`, `logging`, `debug`, `version` | | |

### How they interact

* The probe writes events to a perf buffer that drops samples when it is full.
  `startPerfEventReader` forwards them to a channel of `ChannelSize`, from which
  `WorkersCount` goroutines receive.  Order is lost twice: the perf buffer is per
  CPU, and several workers take from one channel.
* Workers and the snapshot worker share the maps and the objects.  The maps are
  concurrent; the fields of an object are guarded by a `sync.Once` (initialisation),
  by atomics (the totals), or by nothing (`LastUpdateAt`, the ring).
* The commands start all goroutines and end the program on the first error that
  one of them reports through `errChan`, or on a signal.  Nothing is shut down.
* A scrape runs in three goroutines (gather, close, convert) around a channel; the
  gathering ones of concurrent requests take turns with `mu`.
* Readers (UI, API) walk the same maps and read rings; only `simpleView` takes
  `SnapshotLock`.
* The UI's refresh functions run in two goroutines over the same package variables:
  the event loop of the widget library, and `tick()`.

### What is hard

* **Interleavings** of workers that create one object, of initialisation and
  eviction, of a pass over a map and its changes, of a ring and its readers.
* **Lost and reordered events**: a close before the traffic of its descriptor, an
  exit that never arrives, a descriptor that is used again.
* **Stale decisions**: idle when looked at, not when deleted; an inode looked up
  before the lock; a type recorded for a descriptor that was closed since.
  A cached `ConnectionInfo` of an inode that has another socket by now; a selection
  that the engine has evicted; a variable of the UI that is tested, and read again
  after a call.
* **Bounds**: the maps of the probe, the ring, the channel, and wrap-around of the
  totals.

### What makes each component correct

* Probe: a transfer is reported with its own descriptor; only files are dropped.
* Workers: concurrent handlers agree on one object per key; each byte is counted
  once by its connection and its process, and by one interface if its address has one;
  only resolved sockets count, which were remote when they were tested; nobody waits
  for ever; every handler ends.
* Snapshot worker: a pass reports what has traffic since an earlier pass, evicts only
  what is idle; when traffic stops every process is forgotten.
* Resolver: `/proc/net` is scanned only for an inode that is not cached; a scan finds
  its inode if it is listed and leaves the cache as the file was; no `ConnectionInfo`
  stays a mixture of two sockets.
* UI: a refresh that is alone does not panic over what it shows, what is selected is
  shown, a process that has ended leaves the view, a saved interval comes into use.
* Counter and ring: a reader gets the newest snapshots in order, and each byte that is
  counted after the first call of `takeSnapshot`, which makes none, is in exactly one
  of them, whatever wraps around.
* Pipeline: no sample vanishes or is doubled between the perf buffer and a worker,
  those of a CPU stay in order, the counters of lost and read samples are behind by at
  most the record that the reader has in hand, and
  whatever is in a buffer is handled.
* Commands: the goroutines start once; a goroutine that gives up, or a signal, ends
  the program.
* Prometheus: a scrape misses no process, and is answered.
* Map: each operation is atomic; `Range` misses nothing; the lock is released.

## 2. Modules

| Module | Models | Relation to others |
|---|---|---|
| `Engine` | `event.go`, `worker.go`, `process.go`, `connection.go`: workers, snapshot worker, cache of inodes with the fields of a `ConnectionInfo` that handlers read | uses maps as `ConcurrentMap` promises them and a counter as a pair of numbers |
| `RWCounter` | `counter.go`, `array_ring.go`, the readers in `web/api` | implements `SnapshotHistory` |
| `SnapshotHistory` | abstract: what a counter and its snapshots promise | |
| `SyncMap` | `pkg/sync/map.go` | implements `ConcurrentMap` |
| `ConcurrentMap` | abstract: each call takes effect at one moment | |
| `Probe` | `tracepoint.c` and the list of programs in `tracepoint.go` | |
| `EventPipeline` | `engine.go`, the reader in `tracepoint.go`, the workers' loop and `startWorkers` | a part of `Program`; the processing of a sample is `Engine` |
| `Program` | `commands/`, `debug/profile.go`, the web server, `/overview` | extends `EventPipeline`: one system of goroutines around `errChan` |
| `Resolver` | `connection.go`: lookups, scans, and the `ConnectionInfo`s | `Engine` sees of it which inodes are cached, and that a scan rewrites their `ConnectionInfo`s |
| `Top` | `top/`: the refresh functions, the handlers and `tick()` | the tables of `Engine` as an environment |
| `Scrape` | `web/api/prometheus.go`, `web/prom/` | the tables of `Engine` as an environment |
| `EngineProofs`, `RWCounterProofs`, `SyncMapProofs`, `ProbeProofs`, `ProgramProofs`, `ScrapeProofs`, `ResolverProofs`, `TopProofs` | theorems about each of these | `RWCounterProofs` and `SyncMapProofs` prove the refinements, too |
| `MC*` | instances for TLC | |

Definitions named as mutants in their comment (`Mutant of ...`) are not part of a
specification: each is a bug that the code might have had, and `PROJECT.json` says
which property it violates when it takes the place of the original.

### How they correspond to the code

**Engine.**  A variable for each shared table (`ProcessesMap`, `Connections`,
`ConnectionsMap`), for the lock `cLock`, for the objects, and a record `job` for
the local state of each worker; `snap` for that of the snapshot worker.  An object
is named by the number of the event that allocated it, so an object that has left
the tables can still be updated by a worker that holds a pointer to it.  A handler
is cut wherever it touches shared state: `LoadOrStoreProcess`, `EnterProcessInit`
(`sync.Once` lets one worker in), `StampProcess` (`LastUpdateAt` is written, and a
reader may have seen it torn before), `InitProcess` (`/proc` is read, and may know
nothing), and so on through the connection, its `ConnectionInfo`, the scan of
`/proc/net` under `cLock`, to `AddToConnection`, `AddToProcess`, `AddToInterface`.
A pass of the snapshot worker is cut in the same way; `Range` may or may not visit
a key that comes or goes meanwhile.

A scan of `/proc/net` looks at the lines of any of the sockets, with any address.  It
makes a `ConnectionInfo` for a socket that is not cached (`StoreLine`), and leaves one
that is as it is, if the ports are the same, or rewrites it in place (`LoadLine`,
`RewriteInfo`, at `connection.go:177-187`), though connections hold it and handlers
read it without `cLock`.  Handlers read two of its fields.  `LocalIP` is `Torn` while
it is rewritten, so that a reader may find any interface or none under it; `IsLocal`
changes at the end.  So a socket may become local, or remote, after it was tested at
`event.go:211`, and the interface is that of the address that is read for each event
at line 219.  (The rewriting field by field is in `Resolver`.)  `unknown` is a history
variable: the bytes whose address had no interface.  The first `takeSnapshot` of a
counter makes no snapshot, but what was counted until then is not counted in the next
one, either (`counter.go:59`): `snapped` says that there has been a call.  Bytes in and
out are one number, and time is
the age of an object up to `IdleTimeout + 1`.  Any event may arrive at any time:
`Engine` does not rely on what the probe or the pipeline promise.

**RWCounter.**  Two totals modulo `Modulus` (2^64 in the code), the ring slot by
slot with the flag and the value of a slot apart, the snapshot worker write by
write, and three kinds of readers: `LastSnapshot` without a lock, `simpleView` with
`SnapshotLock`, `Histories` over the whole ring.

**SyncMap.**  A step is one atomic access: to `m.read`, or to the pointer of an
entry.  What only the holder of `mu` touches moves with the access next to it, and
the retries of a compare-and-swap loop, which change nothing, are left out.

**Probe.**  The two maps with a capacity, a step for each program, and the kernel's
descriptor tables as the environment: threads enter and leave calls, open, close,
replace descriptors behind the probe's back, exit, are killed.  `attached` counts
the programs that run already.

**EventPipeline and Program.**  A program counter for each goroutine: main,
`StartEngine`, the reader, `startWorkers`, the workers, the servers, the one that
waits for an error or a signal.  Channels are bounded sequences; a send to a
receiver that waits (`HandOver`) is a step of its own, so that a capacity of zero is
covered, too.  The reader counts what was lost, then the same as read; it counts a
sample as read after it was sent, when a worker may have handled it already
(`CountLost`, `CountLostAsRead`, `CountSent`).  The perf buffer is external: it drops samples when it is full and
says how many with the next one that fits.  `errChan` of `run.go` is another
channel than the one the goroutines send to (`main.go:45` declares it again), so
`RunLong` waits for ever.  The data race of `/overview` with `startWorkers` is an
outcome of `LaunchWorker`.

**Scrape.**  A request has three goroutines and a channel; the engine changes its
tables at any time between two of their steps.  A metric is known by its name and
labels, which is what the registry compares.

**Resolver.**  A lookup is a connection's `Init`, which runs once, so its goroutine
and the pid and descriptor it asks for go by the name of the connection.  It is cut
at each access to `ConnectionsMap`, to `cLock`, and to a field of a `ConnectionInfo`
that a scan rewrites.  A file of `/proc/net` is read in one step, as `ReadFile` does,
and its lines are taken in any order.  An inode has one line at most; the inode 0, which
all sockets without a file share, is left out, since no descriptor names it, so that no
lookup asks for it and no connection gets its `ConnectionInfo`.  The sockets change between any two steps, and
an inode may be used again; a close deletes the entry of the connection's inode
without the lock.  `ConnectionInfo`s are named by the scan that made them, so that
one that was deleted and is still held by a connection stays in the picture.

**Top.**  A record `job` for each of the two goroutines holds the functions it still
has to run and its place in the first.  A refresh function is cut wherever it touches
a package variable after a call: the slice `processes` is appended to in two steps,
`for i := range processes` takes the length once and `processes[i]` reads the variable
again, `selectedProcess` is tested, used in a call, and read again for its pid.
Filters and the limit may hide any row, and the rates may be in any order.  A panic in
either goroutine ends the program, and `crash` says over what: over the `"view"`, or over a
`"ring"`, when `refreshGraphPanel` calls `Histories` without `SnapshotLock` while the
snapshot worker sets a slot (`PlotPanics`; how that happens is the run `nil`).  `overlapped` is a history variable: two refreshes
were in progress at once.

## 3. Runs

| Run | Question | Instance |
|---|---|---|
| `two` | Do racing handlers agree on objects, do totals agree, and do the locks nest without a deadlock? | 2 workers, 1 process, 2 descriptors, 2 inodes, a remote address with an interface and a loopback one, 2 events of any kind, the snapshot worker up to the end of its first pass, the clock while at most one handler is under way |
| `live` | Does a pass do its work, does every handler end, and is everything forgotten in the end? | 2 workers, 1 descriptor, 1 inode, the two addresses, 2 events; the snapshot worker (but for its last step) and the clock move while at most one handler is under way; with fairness |
| `evict` | Is only what is idle evicted? **No** | 1 worker, 3 events |
| `history` | Is every byte after the first call in one snapshot, and in order? | ring of 2, totals modulo 2, 4 snapshots, 1 reader |
| `nil` | Does a reader always get a snapshot? **No** | ring of 2, 2 snapshots, 1 reader |
| `map` | Is the map atomic? | 2 threads, 2 keys, 6 calls of any of 5 operations |
| `names` | Does a transfer come with its own descriptor? | 2 threads of a process, descriptors 2 to 4, maps of 1 entry, none or all programs attached at first, 4 calls |
| `stale` | Are only files dropped? **No** | the same, with room in the maps |
| `program` | Do samples, errors and signals get where they have to? | 1 CPU, 2 workers, perf buffer and channel of 1, 3 samples, 1 failure, any of 3 commands |
| `scrape` | Is a scrape complete, and does it end? | 2 requests, 2 processes, a channel of 1, 2 changes of the tables |
| `top` | Do refreshes show what they should, alone or at once? | 2 objects of 1 pid, 1 connection, 1 key or click, intervals of 0, 1 and 2 seconds, with fairness |
| `resolver` | Is the cache as the files were? | 2 lookups, 2 inodes, 5 possible lines, 2 changes of the sockets, no `udp6` |

### Bounds, and why they are enough

The bounds on *how often* (`MaxEvents`, `MaxCalls`, `MaxTakes`, `MaxTime`,
`MaxSamples`, `MaxChanges`, `MaxFailures`) cut behaviours short; each is large
enough for every conflict the code can get into to occur.  Two workers are what
every race in `Engine` needs, since locks and `sync.Once` tell one from the others
only; one of two events can be a close or an exit of what the other creates.
In `two` each event has an inode and a descriptor of its own or shares those of the
other, so that the scan of one worker rewrites the `ConnectionInfo` of a connection to
which the other is adding; the run ends where the first pass of the snapshot worker
does (`FirstPass`), for what more passes do is the question of `live`.  There the second
event meets what the first has left, an object that a pass has visited, reported or
evicted, or runs beside it and waits for it in the `Once` of a process, in that of a
connection, or for `cLock`.  In both runs time passes, and in `live` the snapshot worker
moves before it unlocks, only while at most one worker is in a handler (`Calm`; another
may begin one at any moment), which keeps the instances small.  Descriptors of unknown type are in `live` only.  A connection that has
become local between two passes takes the rewriting of its own inode's line by another's
scan, which needs a second inode or a close of a third event.  The theorems of section 5
have no such restrictions: they are about `Spec`, with any number of passes and
inodes, and the clock and the snapshot worker free to move.  A ring of two slots has both a wrap-around and
a slot that is not being written, and totals modulo two wrap around every second
byte.  Six calls are the least that promote the dirty map, expunge an entry and
revive it while another thread is in the middle of a call.  Maps of one entry in
`names` are full whenever another thread holds one.  A buffer of one is full after
every sample, and three samples let one be dropped while one waits in the channel
and one is being handled.  A channel of one in `scrape` blocks the gathering
goroutine at nearly every metric.  In `top` two objects of one
pid are a process that ends and its successor; one key or click is in progress when a
tick comes, which is all an overlap needs, and ticks are not bounded.  (The invariants
hold with two keys as well.)  Two changes in `resolver` let an inode be used again
while one lookup scans and the other holds the old `ConnectionInfo`; the lines differ
in one port, in both, in family and in state.  The theorems of section 5 do not depend
on any of this.

`CHECK_DEADLOCK FALSE` stands where the system may really stop: a bounded number of
calls has returned (`map`, `names`), a request is answered or refused (`scrape`),
every lookup is over (`resolver`), the program has ended (`program`, `top`).  The runs of `Engine` and `RWCounter`
check for deadlock, since the snapshot worker never stops.

### Fairness

* `Engine`: weak fairness of each worker's handler, of the snapshot worker and of
  the clock (of the latter two, where at most one handler is under way: handlers end,
  so they get to move).  The Go scheduler runs every goroutine that can run, the ticker fires
  every second, and time passes.  Arrival of events is not fair: `TablesDrain` is
  about what happens when they stop.  `cLock` and `sync.Once` need no more than weak
  fairness, since only finitely many events are in progress.
* `Program`: weak fairness of each goroutine.  No sample need arrive, nothing need
  fail, no user need leave or send a signal.
* `Top`: weak fairness of each goroutine, and of the end of the 500 ms in which a
  table is left alone.  A ticker ticks as long as somebody waits for it; no key need be
  pressed.
* `Scrape`: weak fairness of the three goroutines of a request.  No limiter need
  let a request through.

### What is not as one would think

Three runs end in a violation that the code really has.

* `evict`: `startSnapShotWorker` tests `isIdle` and then deletes the key, whatever
  is there by then.  A process or connection that has just got traffic, or a new one
  under the same number, goes, with its bytes unreported (`worker.go:45-53`).
* `nil`: `ArrayRing.SetValue` sets the flag before the value, so `Do` may call its
  callback with nil, which `Clone` dereferences (`array_ring.go:39-55`).
* `stale`: the probe remembers the type of a descriptor per thread.  If another
  thread closes it and the number becomes a socket, the socket's traffic is dropped
  as a file's (`tracepoint.c:139-147`).

Other observations have no run of their own, since no doc or comment says otherwise.

* A process none of whose connections is left when a pass comes gets no snapshot, so
  the bytes of a connection that was opened and closed between two passes are shown
  with its next connection, or never (`worker.go:70`).
* The first call of `takeSnapshot` for a counter moves the bytes at the last snapshot
  but makes none: what a connection, a process or an interface has counted before is
  in no snapshot (`counter.go:59`).  An interface with several addresses is in the map
  once for each, and every pass takes as many snapshots of it (`interface.go:25-31`).
* A scan rewrites a `ConnectionInfo` that connections hold (`connection.go:177-187`): a
  connection with traffic may come to be skipped as a local one, and its further bytes
  go to the interface of its new address.
* `/overview` divides the samples lost by the samples read.  When the first are counted
  and the second are not yet (`tracepoint.go:183-184`), it may show `+Inf%`
  (`overview.go:45-46`).
* A scan passes over streams that are not established, and a connection is resolved
  once: one whose first event is handled too early or too late is never accounted
  (`connection.go:146-148`).
* A close that comes before the `ConnectionInfo` is assigned deletes no entry, and the
  entry that is made then stays in the cache (`event.go:81-86`).
* The labels of a connection's metric are its addresses alone.  When two processes
  share a socket, the registry gets one metric twice and `/metrics` answers with an
  error until one of them is gone (`pb_puller.go:53-58`).
* A handler and a tick that refresh at once can panic, since each empties or clears
  what the other has just tested (`process_table.go:113`, `connection_table.go:103-107`,
  `graph_panel.go:24-32`), and the slower one may drop a selection that was just made
  (`process_table.go:169`).
* An interval of zero, or less, makes a nil channel, on which `tick()` waits for ever:
  no later interval is used (`options_panel.go:165`).
* A request for `/overview` while `startWorkers` fills the map of counters is a data
  race, which the Go runtime may answer by ending the program (`overview.go:59`).
* `run` waits on another channel than the one the goroutines report to, and ends only
  because the goroutine of the hook exits for it (`main.go:45`); that is why
  `FailuresEndTheProgram` is a property of the whole `Program`.

## 4. What is only model-checked

Every invariant and every action property of a passing run, and both refinements,
are theorems (section 5).  Left to TLC is all liveness: `HandlersFinish`,
`TablesDrain`, `FailuresEndTheProgram`, `SignalsEndTheProgram`, `SamplesAreHandled`,
`ScrapesEnd`, `EndedProcessesLeave`, `SavedIntervalIsUsed`.  TLAPS does not prove
liveness under fairness.  Of what it takes for a wait to end, the theorems have the
part that is safety: nobody waits in a circle (`NobodyWaitsForever`,
`ScrapesNeverStall`, `PipelineNeverStalls`), an error does not get lost on its way to
the goroutine that ends the program (`FailuresAlwaysNoticed`), and a lock is held only by somebody who releases it
(`LockIsAlwaysReleased`).

## 5. What is proved

The theorems hold for every value of the constants that satisfies the assumptions
of the modules (`WorkersAssumption`, ..., `NamesAssumption`, `CounterAssumption`,
`MapAssumption`, `ProbeAssumption`, `PipelineAssumption`, `ProgramAssumption`,
`ScrapeAssumption`, `ResolverAssumption`, `TopAssumption`).  Those say no more than
that bounds are numbers, that the names of nothing (no interface, no entry, a lock
that is free) are not names of something, that sizes of transfers are positive, and
that there are finitely many processes, descriptors and the like wherever they are
counted.  Two theorems have a hypothesis of their own: `TracedProcessesDropOnlyFiles`
(below), and `PipelineNeverStalls`, that there is a worker: `--worker-count 0` is not
refused, and then the channel fills and the reader waits for ever.

**Types** (`TypeCorrect` of `EngineProofs` and `TopProofs`, `CounterTypeCorrect`,
`ProbeTypeCorrect`, `ProgramTypeCorrect`, `ScrapeTypeCorrect`,
`ResolverTypeCorrect`).  `Engine` needs `FieldsOK` besides: a worker that uses a
pointer has one.  `Resolver` needs its whole invariant: that a field of a
`ConnectionInfo` has a value of its own follows only if what is rewritten is known
to be one, with the line in hand.

**Accounting** (`EngineProofs!AccountingCorrect`).  A byte is counted only in an
initialised object with a resolved socket, of a process that was found.  (Not: a remote
one.  It was remote when it was tested, and its `ConnectionInfo` may be rewritten
since.)  This is not inductive: between
`LoadOrStore` and the update lie up to nine steps of others.  `ObjectInv` adds
* `IdsInv`: two workers never handle events of the same number, so an object that a
  handler allocates is new;
* `OwnerInv`: a connection belongs to one process for good, one that was found;
* `ProcessOnceInv` and `ConnectionOnceInv`: one worker is inside the `Once` of an
  object, its program counter agrees with the object's progress, and an update
  comes after the end of it.

**Entries** (`EntriesAreNeverReplaced`) follows from the types alone: each step is
looked at for what it does to the two tables.

**Totals** (`EngineProofs!ProcessTotalsAlwaysAgree`, `InterfaceTotalsAlwaysAgree`).
A sum over a finite set changes by what one of its members does; that is shown by an
induction over its subsets, once for each of the two sums.  A handler adds to a
connection, to its process and to an interface in three steps.  Each of these moves
its bytes between two of the sums and what is still in progress; every other step
counts nothing, and an object that leaves the tables stays in the sums.  Which interface
an event goes to is open, since its address is read anew and may be torn; that it goes to
one, or to `unknown`, is what the sum over all interfaces says.

**Passes** (`EngineProofs!PassesAreComplete`).  A connection is due when a pass
begins if an earlier pass has looked at it and it has traffic since.  During the pass it
is still to be visited, or has been reported, found local, evicted or closed: `FreshInv` says that the
tables do not hold a name that is not given yet, so an entry that is added in the
middle of a pass is not due, and `DueInv` says where the walk of the snapshot worker
is with those that are.

**Scans** (`ScansAreNeeded`): `LockInv` says that who scans holds `cLock` and that
its inode is not cached.  Others may remove inodes meanwhile, but only a scan adds
one.

**Idleness** (`EngineProofs!IdleProcessesAreIdle`): `AgeInv` compares the age of a
connection with traffic and that of its process, which is updated one step later.
A worker in between is the exception, and the clock makes both older together.

**Waiting** (`EngineProofs!NobodyWaitsForever`): `InsideInv` names for each lock and
each `Once` that is not free the worker that is inside.  A worker inside the `Once`
of a process waits for nobody; one inside the `Once` of a connection waits for
`cLock` at most; the holder of `cLock` waits for nobody.

**Descriptors** (`ProbeProofs!DescriptorsMatch`): `OwnDescriptor` says that a thread
in a call that it entered after all programs were attached has its own descriptor in
`pid_fid_map` or, when the map was full, none; the entry of the call removes what a
killed thread of the same id had left.

**Dropped types** (`ProbeProofs!TracedProcessesDropOnlyFiles`): the comment that
`stale` refutes holds of a process that has one thread, all of whose descriptors are
made by traced calls, after all programs were attached (`TracedFromTheStart`).  A
descriptor that is remembered as a file is then no socket, but for one that its own
thread is just opening (`TypesAreFresh`); the types that a killed thread has left
are those of descriptors which are closed.

**The pipeline** (`ProgramProofs!NoSampleVanishes`, `OrderAlwaysKept`,
`CountersAlwaysAgree`).  `PipelineInv` has a part for each place a sample passes:
* `PerfInv`: the buffer of a CPU has its samples in order, each record of a loss
  right before a sample; `LossInv`: that record counts just those dropped between
  the sample and the one before it, and `dropped` those after the last;
* `ReadInv`, `PassInv`: what is further on was produced earlier;
* `HandInv`: the workers have different samples in hand, none of which is done.

A step moves one sample one place on, or is quiet.  So a dropped sample is counted
as lost when a later one of its CPU has been read or is the next to be read.  The
counters of `/overview` are exact up to that, and up to the record that the reader has in
hand: between its steps the samples lost are not counted as read yet, or the one that it
has sent is not (`LostInHand`, `ReadInHand`).

**Stalls and failures** (`ProgramProofs!PipelineNeverStalls`, `FailuresAlwaysNoticed`).
`GoInv` says what has been started when: no sample is produced before the programs
are attached; the reader and the starter of the workers exist once the engine is
started, and all workers once the starter is done; whoever may report an error was
started after the goroutine that waits for errors; and an error stays in the channel
until it ends the program.  So while a sample is on its way, the reader, a worker or
the starter can go on, or one of them has failed and the program can end; and while a
failure is not reported because the channel is full, the channel can be received from.

**Start** (`ProgramProofs!GoroutinesStartOnce`): nothing was started while the hook
is still to run, nor while the command is the root command, which is what executes
again.

**The counter and its ring** (`RWCounterProofs!LockedReadsAreNewest`,
`RingKeepsHistory`).  `CounterInv` says what holds before the first snapshot
(`FirstInv`), that what was loaded lies between the last snapshot and the totals
(`LoadedInv`), how far the current slot is written (`SlotInv`), and who may be under
way while a reader has the lock (`LockInv`).  For the refinement, `RunInv` says that the filled
slots are the newest, without a gap, going back from the current one around the
ring; the abstract history is these, oldest first.  A snapshot is published
when its last field is written, and an advance of a full ring forgets the oldest.
Totals that wrap need only that differences are modulo the same number.

**The concurrent map** (`SyncMapProofs`).  The invariant has four layers: the holder
of `mu` and what it holds it for (`LockIsAlwaysReleased`); the entries, of which each
belongs to one key, and the relation of the dirty map to the read map
(`EntriesAreAsDocumented`); what a call that has found an entry may conclude from it,
though the entry is expunged, revived or replaced meanwhile; and what a `Range` has
still to visit (`RangeVisitsAllPresent`).  For `MapIsLinearizable` a step has one of
five effects on what the map contains, none, a value written, erased, taken or
inserted, and each is shown to be the step of `ConcurrentMap` that the call is
about to return.

**Scrapes** (`ScrapeProofs!OneGathersAtATime`, `ScrapesAreComplete`,
`ScrapesNeverStall`): who walks holds `mu`; a closed channel is one whose gathering
goroutine is done.  A process that is to be answered is still to be visited, or in
the channel, or has been emitted, and it is in one of these places alone
(`ProcessInv`); when `Collect` returns, the first two are empty.  Whoever holds `mu`
has room in its channel or a `Collect` that receives from it, so nobody waits for
ever for `mu`.

**The cache** (`ResolverProofs!InfosStayWhole`, `ScansAgree`, `ResolverTypeCorrect`).  `IInv` says what the
holder of `cLock` knows between two steps of its scan, while others delete entries:
* `WantedInv`: the inode it looks for is not cached until its line has been found,
  since the second lookup has seen that and only the holder adds entries; then the
  answer is what the line says, with the pid that asked;
* `HandInv`: the fields of the `ConnectionInfo` in hand that come before the current
  one are those of the line, and it is still the entry of its inode if there is one;
* `LinesInv`: what is cached for the lines that are done has their ports;
* `WholeInv`: a `ConnectionInfo` that is not whole is the one that somebody rewrites.

**The terminal UI** (`TopProofs!TypeCorrect`, `PanicsNeedOverlaps`,
`SelectionsAreShown`).  A panic over the view needs two refreshes at once; the panic of
`Histories` does not, and is not what the theorem is about.  While nothing has overlapped, one goroutine refreshes and the
other is between two functions (`AloneInv`, `Alone`), so that what was read before a
call is so after it (`ReadInv`).  While rows are set, `exists` is true only if a row
is that of the selection, and rows are only added after the others (`ProcessInv`,
`ConnectionInv`); outside these loops the selection is in the table (`ShownInv`).

## 6. What is not modelled

* Decoding of events and of `/proc/net`, formatting, JSON, routing, flags, the
  comparison of kernel versions: data only, without state.
* Rates (`snapshot.go`): floating point.
* The widgets of the terminal UI and `asciigraph`; the columns that are sorted by,
  colours and the page of options.
* Editing of metrics (`puller_metric.go`, `accumulator_extension.go`) and the rings
  other than the array ring: nothing in the program calls them.
* `TracePointProbe.Close`, which nothing calls, and loading of the programs, which the
  kernel does.

## 7. Plan

All that has state and is called is modelled: `Engine` first, with its types and
invariants; `RWCounter` and `SyncMap` with their abstractions; `Probe`;
`EventPipeline` and `Program`; `Scrape`; `Resolver`; `Top`.  What could come next:

1. `Engine`'s tables as instances of `ConcurrentMap`, and readers of `RWCounter` that
   see `rw.ring` half assigned.
2. Proofs about what the violated properties leave true: `EvictsOnlyIdle` when no
   handler is between its lookup and its update, and `CallbackGetsValue` for readers
   that are not overtaken by the snapshot worker.
