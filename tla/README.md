# Verification of coroot-node-agent

TLA+ specifications of the agent, model-checked with TLC on small instances, and
proofs of their main properties checked by TLAPS. The specifications are written
from the source, file by file; `PROJECT.json` gives for every definition the lines it
stands for, for every property a mutation of the code that it catches, and the list of
hazards the properties were chosen from.

1. [The system](#the-system)
2. [Modules](#modules)
3. [Runs](#runs)
4. [Fairness](#fairness)
5. [Proofs](#proofs)
6. [Where the code and its comments disagree](#where-the-code-and-its-comments-disagree)
7. [What is not modelled](#what-is-not-modelled)

## The system

The agent runs once per node. eBPF programs follow every process, TCP connection and
request of the node; user space turns their events into metrics, spans, logs and
profiles.

```
 kernel (ebpftracer/ebpf)                user space
 ------------------------                ------------------------------------------------
 tcp/state.c  -> tcp_connect_events --\
                                       ringMerger --\
 l7/*.c       -> l7_events ----------/               forwardEvents -> handleEvents
 proc.c, file.c, listen -> perf buffers ------------/  (registry.go)     |
                                                                         v
 uprobes <- acquire/releaseGlobalUprobe <- Process, attachTlsUprobes - Container
                                                                         |
          logs: TailReader, JournaldReader -> parsers -------------------+
                                                                         v
             spans: budgetProcessor -> SDK queue -> countingExporter -> collector
             metrics: scrapeLoop -> spool on disk -> sendLoop ---------> collector
```

- **Kernel side.** Programs run on all CPUs at the same time and write records to two
  ring buffers (connections, L7 data) and to perf buffers (processes, files, listening
  sockets). Records can be lost when a buffer is full.
- **Tracer** (`ebpftracer/`). Loads and attaches the programs, merges the two rings by
  the time in the records, shares uprobes between processes of one binary.
- **Registry** (`containers/registry.go`). One goroutine, `handleEvents`, owns the maps
  from pids and cgroups to containers and gives every event to its container. Scrapes,
  garbage collection and the readers run in other goroutines.
- **Container** (`containers/container.go` and others). Processes, connections,
  listening sockets, parsers and log readers of one container.
- **Parsers** (`ebpftracer/l7`). Make requests out of pieces of payload.
- **Outputs**: spans (`tracing`), metrics (`prom`), logs (`logs`), profiles
  (`profiling`).

`PROJECT.json` lists these parts and the remaining ones (container runtimes, node
metrics, JVM and .NET attachment, helpers) as components.

## Modules

Each component has a module of its own. `MC*` modules only give values to constants;
`*Proofs` modules hold the theorems, some those of two components (which is why a few
specifications are `QueueSpec`, `UprobesSpec` and `ProfilerSpec`). Names of actions and variables
are those of the source where it has one. Definitions whose comment begins with *Mutant* are broken
variants of the definition that follows: they are used by no specification, and each
one is caught by the property that `PROJECT.json` names with it.

### `RingMerge`, `CausalDelivery`

The two rings, the programs that write them and `ringMerger`. A record is stamped with
the time, gets room in its ring, and is submitted or discarded, as separate steps of a
program on some CPU: records of one ring are not in the order of their times, and the
head of a ring may be a record that is still being written. The merger is the loop of
`run` with `nextRecord` at the granularity of its reads of shared memory: a look at the
L7 ring, at the other one, and at the L7 ring again. `fill` moves records of the
connection ring to a queue in user space (`queuedRing`), and `head` continues in the
ring when the queue is empty.

`CausalDelivery` says what a reader of the merger may rely on: a record is delivered
after every record that was submitted before its time was read, whichever ring they are
in. `RingMerge` implements it (`ImplementsDelivery`).

Assumption: the clock has moved on by the time the traced program does anything that
depends on an L7 record that was submitted. A connection record and the first data of
the connection may have the same time; `nextRecord` then takes the connection first.
Process events do not pass the merger: every CPU has a perf buffer of its own for them, and
`Registry` has them in any order.

### `ConnTracking`

The kernel's side of a connection: `active_connections` and `connection_id_by_socket`
for the descriptors of one process. Programs find a connection by its descriptor, and
descriptors are closed with `close()` or without it and used again for sockets of any
kind and for files. Actions are the programs of `tcp/state.c` (`Connect`, `Established`
with `Announce`, `Refused`, `ConnectOther`, `ConnectAgain`, `Accept`, `EnterClose`), the
part of the data programs of `l7/l7.c` that finds a connection or makes one
(`EnterWrite`, `SendRecord`, `EnterRead`, `ExitRead`), the sweep of
`connection_sweep.go` (`FindStale`, `LookUp`, `DeleteStale`) and that of
`gcActiveConnections` (`GcFind`, `GcDelete`), each with its separate accesses to the
map. `Evict` is the LRU, `Skipped` a program that the kernel does not run. The initial
states are those after the scan of `init.go`, which comes before the programs are
attached.

Abstractions: `socket()` and `connect()` are one step, and so are the lookup and the
late announcement of one data program; two programs that announce at the same instant
can therefore not both send the open, which in the code they can. One data call is in
progress at a time. `connection_id_by_socket` is read for sockets in SYN_SENT only, so
an entry is dropped when that state ends. `not_seen_open`, the byte counters and the
protocol state of an entry are left out. Per-task scratch memory is always available.

### `Connections`

The outbound connections of a container: the indexes `activeConnections` (by address
pair), `connectionsByPidFd` and `connectionsByPidFdTs`, the responses that parsers hold
back for their bodies, and the three sweeps: `gc`, `gcClosedConnections`,
`flushHttpBodies`. Processes open and close sockets, reuse descriptors and address
pairs, and send data; events wait in a queue in causal order (what `RingMerge`
establishes) and an open or a close may be lost. Times are ages that saturate, so time
is not bounded. An L7 parser is its result: nothing, a request, or a response that is
held (`Http1` and `Http2` have the parsers themselves).

`gc` compares its connections with the sockets it reads from `/proc/<pid>/net` of one process
of each network namespace. A read that fails is passed over, and the directory of a process
that is gone (a stand-in is one) gives an empty list without an error, with the namespace
counted as read: `Gc` may therefore see any part of the established sockets. The history
`missed` has the connections it forgot that way while they were established; they are the
exception of `EstablishedIsOpen`.

### `Registry`

Which container gets an event. The kernel starts, forks, moves and ends processes and
reuses pids. Process events are a set, out of which `forwardEvents` takes any (the perf
buffers of the CPUs are not ordered among each other, so that an exit may come before the
start), and may be lost; L7 events pass a ring of their own. `forwardEvents` reads the cgroup
early, or fails to; `handleEvents` asks the maps of running and exited processes, the early
reads, the negative cache and the ancestors, as far up as `process_parents` knows them (it is
an LRU, and may have lost any). What a handler can read of a running process is everything,
everything but its taskstats, or nothing that makes a container (`Reads`: the cgroup cannot
be read or was deleted, there is no metadata, the process is in `/init.scope`, the container
cannot be registered), a choice of its own for each lookup. Containers get stand-ins for
processes that are gone and had inbound connections, become zombies without a process, and
are deleted by the sweep. What a handler does to the registry is a function of the registry
and the kernel, named after the Go function. A cache entry may expire at any time after it
was made.

Four histories are kept for the property `RightContainer` only. `been` is the set of cgroups
the last process of a pid was in. `stale` are the pids that were used again while the maps
still had the process before, until the start of the new one is handled. `misread` are those
used again while an early read of another process's cgroup was remembered and not made
again. `orphans` are the processes with an ancestor of which one of these is true, whose pid
was used again, or that has changed its cgroup.

Assumptions: a pid is not used again while events of its last process wait in the agent, nor
by a descendant of that process that `process_parents` still knows as such (otherwise the
parents would form a circle, see [below](#where-the-code-and-its-comments-disagree)); and a
container is named by one cgroup.

### `GlobalUprobes`

Uprobes are attached once for a binary and counted by the processes that use them. The
instrument goroutine of a process, `attachTlsUprobes` of the event loop, `Process.Close`
and `Tracer.Close` interleave at the granularity of `globalUprobesLock` and
`uprobeKeysLock`. A slot is one thing to instrument in one process; `Before` are the
libraries that `AttachNodejsProbes` and `AttachPythonThreadLockProbes` try before it.
`AttachUprobes` and the functions named after those of `tls.go`, `nodejs.go` and
`python.go` say what is left in the kernel when symbols are missing and attachments fail:
`links` is what the kernel has, `attached` what `globalUprobes` knows.

### `QueueBudget`

The path of a span: `OnEnd` reserves a place and bytes, the SDK queue (external) takes
the span or drops it without a word, the worker exports batches, `countingExporter`
gives place and bytes back.

### `Spool`

`scrapeLoop` and `sendLoop` around a directory. Listing, `Stat`, `Remove`, `CreateTemp`,
`Write` and `Rename` are separate steps; the agent may be killed at each of them and
starts again with what is on disk. The directory may hold an empty file of an earlier
version. Files are named by the wall clock (`prom/remote_writer.go:192`, `215`) and sorted by
name; the model assumes that it does not step back, over restarts too. If it does, payloads
are sent in the order of their names and not of their scrapes.

### `TailReader`

The goroutine that follows a log file, with `Stat` and `Open` of `poll` as separate
steps, against a writer that appends pieces of lines, moves the file away, creates it
anew and truncates it.

### `Http1`

One end of HTTP/1 connections that follow one another on a descriptor, with
`Http1Parser` and what the container does with its results. The traced programs send the
pieces of a script (two pieces of a header block, pieces of bodies, an interim response,
headers reported as data); events wait in a queue and those of one call may be lost.
`ParseAt` is `RequestHeaders`, `RequestData`, `ResponseHeaders` and `ResponseData`; a pair
is held until its body is complete, the next request begins, or `Flush` releases it. The
end is the client's or the server's: an outbound connection has a parser of its own, an
accepting one has a parser per descriptor that goes with the time stamp of its
connection. Requests are numbered for `RequestKey` by both ends separately. The close of a
connection may be lost and made up for by the sweep, late; `Gc` is `Container.gc`.

### `Http2`

`Http2Parser` of one connection. Bytes are units that know the frame they belong to, so
that the parser's own arithmetic (the rest of a DATA frame, a cut frame header, a HEADERS
frame that is reassembled) decides where it takes a frame header from. `ParseFrames` is
the order in which `ParseAt` looks at these, `CompleteStreams` and `CompletePlain` what an
event finishes with and without bodies, `Flush` the release of quiet streams, `Expired`
the gc of the decoder. HPACK is abstracted to the `:method` or `:status` of a HEADERS frame;
trailers have neither.

A cut frame longer than `http2ReassemblyMax` is not kept for reassembly, but the kernel side,
which captures up to 4096 bytes of a stream, reports its rest like that of any other: the
parser takes it for a frame header. What it makes of it is not determined, so the model ends
there (`garbled`), and `InStep` and `OnceWithItsBody` are about what comes before. Trailers of
a request that come after its release begin a stream without a method, which the next headers
of the server finish; `OnceWithItsBody` counts the requests with a method, and says of the
others only that the client sent trailers.

### `EventLoop`, `TracerStart`, `TracedClients`, `Journald`

The goroutines around a container and everything they wait for. `EventLoop` has the
buffers and their readers, `handleEvents` (receive in its select, then the lock of the
container, then the handler), the container's goroutine with its `gc`, scrapes with
`ebpfStatsLock` and the unbuffered channels, `Process.instrument`, the profiler's target
finder and collector, and composes three modules whose actions are those of other
goroutines or of `handleEvents`:

- `TracerStart`: `Tracer.Run` from the maps to the attached programs. `loadCollection`
  loads programs in goroutines limited by a semaphore that share caches of kernel types;
  everything may fail; the scan sends to the channel `forwardEvents` reads.
- `TracedClients`: the list fetched from Coroot, the addresses of the node's clients, and
  the kernel's map, which may be full and whose operations may fail.
- `Journald`: the goroutine that reads the journal for all units, and the containers that
  subscribe to a unit and stop.

A behaviour has one of six workloads (`traffic`, `listens`, `processes`, `startup`,
`clients`, `journal`): what the environment does. The agent's side is the same in all of
them, except that `gc` and scrapes only run where what they read is part of the workload.
The state that is not about waiting is the traffic counter of a connection, the records
of a listening socket, the processes and the map of clients.

The listening socket is one on a wildcard address, which is reported only with the addresses
of its network namespace. `OnListenOpen` may fail to read those and leaves a record without
them; `GcRead` may fail to read the sockets, or read the directory of a process that is gone
and find none, and `revalidateListens` then closes the records. A process that starts with the
pid of one the container still has takes its place, after that one was closed.

### `Profiling`

The targets of the profiler for one pid that two processes have one after the other:
`FindTarget`, the start and collection of a JVM's async-profiler, and the allocation
counters of a Go process, which `collectGoHeapProfiles` copies under the lock, compares
without it and stores by pid. A list of allocation sites may be read in part. Each of the
steps of a collection (stop, read, parse, start again) may fail; the code goes on with the
next round, and the dump of a profiler that could not be stopped is lost when it is started
again. A profile counts as made when it is read; that its upload may fail
(`profiling/profiling.go:361`) is outside the model.

## Runs

| Run | Module, configuration | What it shows |
| --- | --- | --- |
| `ring_merge` | `RingMerge`, `RingMerge.cfg` | Order within a ring; refinement of `CausalDelivery` (a record comes after all that were submitted before its time); every submitted record is handed over |
| `conn_tracking` | `ConnTracking`, `ConnTracking.cfg` | Records and closes carry the time stamp of their own connection; data comes after the open even if its program was skipped; the sweep deletes no entry it did not look up, and leaves none behind |
| `connections` | `MCConnections`, `Connections.cfg` | Indexes agree; an L7 event finds its own connection until the grace of the close is over; a connection that is established never counts as closed and is known, unless `gc` could not read its socket; every closed one is forgotten, by the body holders too |
| `registry` | `MCRegistry`, `Registry.cfg` | The maps agree and a container with a process is not being deleted; no event goes to a container its process has not been in, the named cases of reused pids and moved ancestors apart; a container without processes is deleted |
| `global_uprobes` | `MCGlobalUprobes`, `GlobalUprobes.cfg` | Reference counts are exact; what is referred to is attached, entry and return, and nothing else is left in the kernel; all references are returned |
| `queue_budget` | `MCQueueBudget`, `QueueBudget.cfg` | The budget is exact, the SDK queue never overflows, every span is accounted for, the budget is given back |
| `spool` | `MCSpool`, `Spool.cfg` | Every scrape is accounted for, only complete payloads are sent, in order, over a restart; a collector that answers at last empties the spool |
| `tail_reader` | `TailReader`, `TailReader.cfg` | Nothing is sent twice or out of order; a file that is not truncated is read to its end |
| `http1` | `MCHttp1`, `Http1.cfg` | A lost event costs its own call and its neighbours only, and no call is recorded twice; a request has its position as its number at both ends or no number; a pair that met is recorded, and nothing is held for ever |
| `http2` | `MCHttp2`, `Http2.cfg` | The parser stays in step with the frames however they are cut, up to one that is too long to be reassembled; a stream yields one request of its own with its final response and body; what is held is released |
| `event_loop` | `MCEventLoop`, `EventLoop.cfg` | Nothing around the event loop waits for ever; the bytes of a closed connection are counted in full; reported listening sockets become the real ones, records that the code cannot repair apart; a start that fails leaves nothing; the map of traced clients becomes what is wanted |
| `profiling` | `MCProfiling`, `Profiling.cfg` | No allocation is reported twice and every one is reported; a JVM is profiled again and again until it exits, over collections that fail |

Bounds, and why they suffice:

- **Rings**: one record in the L7 ring and two in the other, a clock that moves or stands
  still between two readings, a queue of one. The decisions of `nextRecord` compare two
  heads; the second connection record lets the head change, be written late, be
  discarded and be queued while the L7 ring is looked at. A ring may be full at any
  time: other records share it. `TracerProofs` removes the bounds.
- **Connection map**: one descriptor, which is what all conflicts are about, used by two
  sockets and by files, and three entries: one left behind, one for the new socket, and
  one that data makes after either was lost. `ConnTrackingProofs` removes the bounds for the
  safety properties.
- **Connections**: three connections, of which two share a descriptor and two an address
  pair, are the smallest set with both conflicts at once; one or two L7 events; a queue
  of two events, so that the agent lags behind the kernel. The grace, the body wait and
  the gc interval are one or two ticks, in the order the source has them. Liveness is
  checked on a pair that shares both the descriptor and the addresses.
- **Registry**: six plans: one pid with two processes; a process that changes its cgroup; a
  parent and its child; the same with the parent's pid used again or with the parent
  changing its cgroup; three generations. Three cgroups, one without a container, let an
  early read, the negative cache and the new process disagree. The buffers and the channel
  hold one event each, which is enough for an exit, an L7 event and a start to overtake
  each other. `RegistryProofs` removes the bounds for the safety properties.
- **Uprobes**: two processes with two slots each; the slots of one are the same binary,
  so that it holds two references to it.
- **Spans**: four spans, one heavy and one not sampled, so that each of the limits
  refuses one.
- **Spool**: four scrapes of two sizes and a maximum of two units, so that truncation
  happens with both; one restart at any step.
- **Log file**: three pieces, three files, one truncation: `Stat` and `Open` can each see
  a different file and a third may follow.
- **HTTP/1**: two connections on a descriptor, three calls on the first, which is the
  least with a neighbour on both sides; six shapes of calls in two scripts; one call
  loses any of its events. Both ends, with and without bodies, preexisting or not. Five
  events may wait: a whole call and the close of its connection, so that `gc` and the sweep
  run while all of a connection that lost nothing is still to be handled.
- **HTTP/2**: two streams whose frames interleave, frame headers of two units, payloads of
  up to three, of which two can be reassembled, events of up to five: every cut within a
  header, between header and payload and within a payload, and events that span several
  frames. Four scripts: interleaved streams with an interim response, a body longer than
  `MaxBytes`, a response that never ends, trailers of both sides, and frames that are too long.
- **Event loop**: two processes, two connections on one descriptor, channels of capacity
  one (a larger one blocks later, on the same thing), two scrapes by one goroutine (what
  a second would wait for, `ebpfStatsLock` and the container's lock, the first gives back
  without waiting for another scrape), three programs of which two load at a time, a map
  of two clients out of three, three services of which two have one unit. `TrafficProofs` and
  `TracerStartProofs` remove the bounds for the safety properties.
- **Profiling**: two processes with one pid and two allocation sites. `ReaderProofs` removes
  the bounds for `ReportedOnce`.

Deadlock checking is off where the environment is bounded: when it has done all it may
do, the agent has nothing left to do either.

## Fairness

- Goroutines that are ready to run do run (`handleEvents`, `forwardEvents`, the merger,
  the SDK worker, `sendLoop`, the tail reader, the sweeps with their tickers): weak
  fairness of their steps. The Go scheduler is fair in this sense. In `Http2`, `Flush` is
  among them; the code puts it off while more than `bodyFlushMaxQueue` events wait, which
  `Connections` and `Http1` have.
- In `Registry` only the gc ticker and the passing of time are fair: containers are deleted
  even if no event is ever handled. In `Connections` any `gc` will do, also one that reads
  nothing.
- In `ConnTracking` the sweep has weak fairness and nothing else does. An iteration that
  fails is repeated 30 seconds later.
- An eBPF program that has reserved a record submits or discards it: the verifier
  guarantees that it ends.
- Traced processes, rotation, loss, scrapes, failures and restarts have no fairness.
- `Spool` assumes strong fairness of a good answer: a collector that is asked again and
  again answers at some time. Without it the spool need not drain, and the code does not
  promise that it would.
- In `EventLoop`, `handleEvents` and scrapes have strong fairness where they wait for one
  of several things: a Go select picks at random among its ready cases, and a
  `sync.Mutex` is handed to a goroutine that has waited for long (its starvation mode).
  A `gc` that is repeated reads the sockets without an error at some time (strong fairness
  of `GcReads` with what is there); without this a listening socket would be reported
  closed for ever, and the code has no other way to learn of it.
  `Process.instrument` is only fair once its context is cancelled: before, it may retry
  for as long as the process has no command line.
- In `Profiling`, a process that runs has samples again and again (strong fairness of
  `FindTarget`), and the delay of the JVM's profiler passes. A profiler that is collected
  again and again is collected without an error at some time, with a dump and without one.
- Time passes (`Tick`).

## Proofs

TLAPS checks these for all values of the constants that satisfy the `ASSUME`s of the
modules: any finite sets of spans and slots, any sets of pids, connections and records, any
lengths of queues and buffers and any number of steps. The assumptions are about types,
about names for "nothing" that are not values, and about the order of the intervals
(`TimesAssumption`: `Wait <= HoldMax`, `Grace < GcInterval`, as the source has them). Type
invariants are part of what is proved.

- `TracerProofs`, the rings: `TypeCorrect`, `CausallyOrdered`, `RingsInOrder`, `PickIsValid` and
  the refinement `MergerImplementsDelivery`. The properties are not inductive by themselves: the
  invariant (`MergeInv`) adds the relation of positions to stages (the consumed records of a
  ring are a prefix of it), what `nextRecord` knows at each of its steps (a head it
  remembers is the oldest unread record of its ring; an empty or busy look bounds what
  can have been submitted before), and that `before` holds records with times not
  after the record's own.
- `TracerProofs`, the uprobes: `RefcountsExact`, `ReferredStaysAttached`, `ClosedForGood`.
  The inductive invariant (`UInv`) is their conjunction with the type invariant: the count of a
  binary is the number of slots between acquire and release, which is why an entry with
  count zero has no user when the idle sweep removes it. `OutcomeType` shows of each
  Attach function that it leaves the probes at entry and return attached or nothing at
  all; with it, that the kernel has the probes of the entries and no others is inductive.
- `TracerStartProofs`: `StartsOrNothing`, and `KnownIsInKernel`, the safety half of
  `ClientsSettle`; both of the whole of `EventLoop`, so with everything else running around the
  start. The invariant (`StartInv`) says what exists at each stage of `Run` (`StageInv`) and that
  the semaphore and the caches count the goroutines that load (`LoadInv`): a goroutine that
  has its turn and no cache yet finds one, because fewer caches are in use than goroutines run.
- `ConnTrackingProofs`: `StampsAreOwn`, `OpensAreTrue` and the action property
  `SweepAlwaysSpares`. The invariant (`Inv`) says that the entry of a socket that was connected
  or accepted was made for it (`EntryInv`), that its open was sent or will be before its first
  data (`ToldInv`), that a socket in SYN_SENT, a call in progress and an open under way are still
  about the socket they were begun for unless its descriptor was closed (`ConnectingInv`,
  `CallInv`), and that the sweep has in hand only entries nobody follows (`SweepInv`). That no two
  entries share a time stamp (`StampInv`) is needed only with several descriptors, which the run
  does not have: without it a mark set for one entry could be read as that of another.
- `ConnectionsProofs`: `IndexesAlwaysAgree`, `FoundDuringGrace`, `EstablishedStaysOpen`. The
  invariant (`ConnInv`) adds what the indexes lead to (`IndexInv`: an entry was registered
  under its own key; what has left `connectionsByPidFdTs` is past its grace or was
  collected, and what `gc` missed does not come back) and what waits in the queue (`QueueInv`:
  one open event for a connection, and behind those of the rivals that gave up their
  descriptor or addresses to it). Without the latter a late open could take the place of a
  connection that is established.
- `RegistryProofs`: `MapsAlwaysAgree`, `EventsToTheirContainer`. Each handler
  is a function of the registry, and a lemma says what it keeps (`OnStartFacts`,
  `OnExitFacts`, `OnL7Facts`, `SweepFacts`). The invariant (`RegistryInv`) says that the maps
  agree in every registry a handler leaves behind (`Agree`), that what is remembered of a pid
  is of its last process, the histories `stale`, `misread` and `orphans` apart (`MemoryInv`),
  and that of the parent of a process that is no orphan the same is true, and its cgroups are
  the child's too (`FamilyInv`). The last is needed because an event of a child that is gone is
  resolved by its ancestors, however many: `AskedFacts` carries it from a process to the one
  where the search ends. Nothing is said of the order of the events, which is why the proof
  needs no invariant of the queues. An attempt to prove `RightContainer` without its exceptions
  showed that they exist.
- `TrafficProofs`: `TrafficIsCounted`. The two halves of `TrafficCounted` need each other's
  reasons. The invariant (`TrafficInv`) says that the open of a connection comes once and nothing
  is counted before it (`EventsInv`), that `ebpfStatsLock` makes the updates of a connection come
  in the order in which they were read, at most one of them after its close was counted
  (`UpdatesInv`), and that what was counted is the last counter exactly, while the connection is
  open and got no other's updates (`CountInv`). Without `UpdatesInv` an old reading, applied after
  a newer one, would look like a counter that began again and be counted whole.
- `ExportProofs`, the spans: `CountIsExact` and `NothingLostSilently`. The inductive invariant
  is the type invariant with the equality of `reserved` and the cardinality of the spans
  that hold a place; the capacity of the SDK queue follows because the spans in it are
  among those. `BudgetIsExact` adds the bytes: the sum over a set is a recursive function of
  its subsets, and `BytesRecursion`, `BytesWithout` and `BytesDifference` say how it changes
  when spans are added and taken away; where that would be an induction, the smallest
  counterexample is refuted instead (`SmallestSet`). `DrainedIsAccounted` says that the
  counters of a drained pipeline add up; its invariant (`AccountInv`) has what they are
  between the steps of one span, such as the batch that is answered and not yet released.
- `ExportProofs`, the spool: `NothingUnaccounted` and the action property `SentInOrder`. The
  invariant (`SpoolInv`) adds what the two loops have in their hands: the scrape being written is
  newer than every file of the spool (`LoopsInv`), the one being sent is not newer than any and
  not older than what was accepted last (`OrderInv`), at every step a restart may come.
- `ReaderProofs`, the log file: `SentOnceInOrder`. The invariant (`TailInv`) says how pieces lie
  on the disk (`DiskInv`), that the kept prefix ends no line (`LinesInv`), and, as long as no file
  was truncated or opened in place of another (`Faithful`), that all that was sent or kept was
  written before all that is still to be read.
- `ReaderProofs`, the profiler: `AllocationsReportedOnce`. `ReportedOnce` is not inductive: a report
  adds the difference to the last counters, which may be those of another process that had the
  pid. The invariant (`ProfilerInv`) says that either nothing was reported of the process yet, or
  the last counters that will be used next, in the collector's hand or in the target, lie between
  what was reported and what was allocated (`LastCounters`).

Each inductive invariant was an invariant of a run before it was proved. Where the run of the
component is too small to say much, a larger instance was used: `Inv` of `ConnTracking` on two
descriptors (9.2 million states, `StampInv` on one), `TrafficInv` and `StartInv` with three
connections, two scrapers and events of capacity two (8.4 million), `ProfilerInv` with three
processes (9.8 million).

Model-checked only:

- all liveness properties: TLAPS proves none under fairness;
- `Http2`, whose parser is a recursive operator over the bytes of an event: what it computes
  is an induction over data, and the provers take no recursive operators;
- `Http1`, whose scripts and queue the run bounds.

## Where the code and its comments disagree

Modelling met behaviours that a reader of the comments and tests would not expect. The
specifications have them, and the properties are stated so as to leave them out:

- `ebpftracer/ebpf/tcp/state.c:475`: a socket that is closed while it connects still has
  its descriptor in `connection_id_by_socket`. When the descriptor is used again, its
  ESTABLISHED announces the new connection with the addresses of the old one, and its
  failure deletes the entry of the new one (line 493).
- `ebpftracer/ebpf/tcp/state.c:558`: an entry that is lost between two calls of a
  non-blocking `connect()` is made again as that of a non-TCP connection: without its
  socket, so that its data cannot announce it, and without `not_seen_open`.
- `ebpftracer/ebpf/tcp/state.c:557`: a non-TCP `connect()` keeps an entry that was left
  behind by another connection; so does data on a socket that got its descriptor from
  `dup` or from another process. `StampIsOwn` is about sockets the process connected
  (TCP) or accepted.
- `ebpftracer/ebpf/l7/l7.c:850`: a read looks its connection up when it returns; if the
  descriptor was used again meanwhile, the data goes to the new connection.
  `ebpftracer/ebpf/l7/l7.c:301`: a write reads the time stamp late, from memory that the
  LRU may have given to another entry.
- `containers/registry.go:885`: `gcActiveConnections` deletes by descriptor without
  comparing time stamps, so it can delete a connection that was opened since it looked.
  In `ebpftracer/connection_sweep.go:80` the same window is open only between the
  `Lookup` and the `Delete` (`SweepSpares`).
- `containers/container.go:1664`: `gc` forgets a connection in CLOSE_WAIT, which its
  process may still read and write; later L7 events of it are dropped. `FoundUntilGrace`
  is about connections `gc` has not forgotten.
- `containers/closed_connections.go:43`: a response whose body is waited for when the
  grace of its connection ends is forgotten with it, not released.
- `containers/registry.go:551`: the branch that forgets an ignored pid when a process
  starts is never taken, because `getOrCreateContainer` has answered from the negative
  cache before.
- `containers/registry.go:747`: the same cache hides the early read of a cgroup from an
  event that follows.
- `containers/registry.go:370`: an early read that fails leaves the read of the process
  that had the pid before. `RightContainer` excepts the pids to which this happened
  (`misread`), and those whose start has not been handled while the maps have the process
  before (`stale`).
- `containers/registry.go:714`: `goneProcessContainer` asks for the container of the parent's
  pid, which may be another process's by then, so that an event of a child that is gone goes
  to the container of that process, or of the cgroup the parent has moved to.
  `RightContainer` excepts these children (`orphans`).
- `containers/registry.go:723`: only a process that is its own parent is guarded against. If a
  pid is used again by a descendant of its former owner, `process_parents` has a circle, and
  `goneProcessContainer` and `getOrCreateContainer` call each other without end. `Start`
  leaves this case out.
- `containers/container.go:1634`: a read of sockets that fails, or that finds none because the
  process is gone (`proc/net.go:41`), makes `gc` forget connections that are established, and
  close the records of sockets that listen. The latter are made again by a later `gc`.
- `containers/container.go:751`: a listening socket on a wildcard address whose namespace
  cannot be read when it opens has an open record without addresses. `getListens` never
  reports it and `revalidateListens` never repairs it. `ListensSettle` excepts it
  (`Unreported`), as it does an open record of a process that is gone.
- `ebpftracer/tracer.go:264`: idle uprobes are detached by the next acquire or release
  only; on a quiet node they stay attached past their time.
- `prom/remote_writer.go:257`: one file is removed for each file written, whatever their
  sizes, so the spool can stay above its maximum.
- `logs/tail_reader.go:131`: a rotation between `Stat` and `Open` makes the reader open
  the new file while it remembers the old one, and read the new one twice. `OnceInOrder`
  does not claim the order once this has happened (`mistaken`).
- `logs/tail_reader.go:148`: a file truncated and grown to at least its old size before
  the next poll is read on from the old position. `ReadToTheEnd` is about files that are
  not truncated.
- `logs/tail_reader.go:67`: of a line that is written in three or more parts the earlier
  kept parts are overwritten (`tail_reader_test.go:55` has two parts), and the kept part of
  a file that was moved away is put before the first line of the next one. `OnceInOrder`
  says that what is sent has one end of a line, at its end, and that its parts are in order.
- `containers/container.go:554`: a process that gets the pid of a stand-in is taken for it
  (the comment at line 668 says that a stand-in is a process that is gone).
- `ebpftracer/tracer.go:228`: `globalUprobes` is keyed by the binary alone. A binary that
  has the probes of one kind is never given those of another.
- `ebpftracer/nodejs.go:79`: the callbacks of libuv are attached as far as that succeeds,
  so that one may have its entry without its return.
- `containers/registry.go:897`: traffic updates name a descriptor. One that was read of an
  earlier connection is counted for the later one; `TrafficCounted` says that the bytes of
  a closed connection are never missing and only such a connection counts too many.
- `containers/container.go:1653`: `gc` can forget a connection before its close event is
  handled: the bytes since the last update are then not counted.
- `containers/container.go:1693`: a listening socket that was inherited, and whose record
  is of a process that has exited, is reported closed for as long as it listens.
- `containers/container.go:870`: a close of an accepted connection that comes late (by the
  sweep) drops the parsers and numbers of the newer connection on the descriptor, and
  `gc` drops a held response when the descriptor is closed before its close event.
- `ebpftracer/l7/http1_parser.go:250`: an interim (1xx) response takes the pending
  request, and its final response is not paired. Losses at one end shift the numbers of
  later requests there; `NamedByPosition` is about connections that lost nothing.
- `ebpftracer/l7/http2.go:80`: the comment of `http2HoldMax` says that it bounds how long a
  response is held; one whose DATA frame is not complete is held past it (line 387).
  Without bodies an interim response finishes the request; trailers of a request that come
  after its release begin a second one (`OnceWithItsBody` says which requests it is about).
- `ebpftracer/l7/http2.go:240`: a HEADERS frame of more than 1024 bytes is dropped when it is
  cut, but `http2.c` (lines 1402 and 1532) goes on with its rest, up to 4096 bytes of a stream.
  The parser then takes payload for a frame header and does not find its way back. `InStep`
  holds until then.
- `containers/http_bodies.go:39`: "Inbound parsers never keep bodies", but
  `observeInboundL7` makes them with the same functions, and they do.
- `ebpftracer/tracer.go:175`: a scan that fails is returned without `Tracer.Close`;
  processes that start or exit between the scan and the attachment are missed.
- `ebpftracer/traced_clients.go:33`: entries are put before others are deleted. A full map
  whose entries are all to be replaced stays as it is.
- `logs/journald_reader.go:96`: an entry whose subscriber unsubscribes between the lookup and
  the send blocks the reader for ever, for all units. `JournalFlows` names it as the only
  such case. A second container of a unit is refused, and is not subscribed later.
- `profiling/goheap.go:265`: allocation sites that a partly read list misses are counted
  from zero the next time. `profiling/profiling.go:226`: a failure is stored for whichever
  process has the pid by then, and a late `RemoveDeadPID` removes its target.
- `profiling/profiling.go:251`: a JVM whose profiler cannot be stopped, read or started again is
  not given up, as one is that could not be started at first; what it had sampled may be lost.

## What is not modelled

- Shutdown. `Registry.Close` closes the channel of events while a reader may be about to
  send; the process ends at once after it, and what the send does then is not in any
  model. `Tracer.Close` against the users of uprobes is in `GlobalUprobes`.
- Data races proper: `containers/container.go:787` reads `c.processes` without the lock.
- How the eBPF programs walk over a payload (`http1.c`, `http2.c`), and the pairing of the
  other protocols in the kernel: bounded scanning of bytes. What they send is the input of
  `Http1` and `Http2`. Loss of HTTP/2 events is left out with it.
- Byte layouts (protocol recognisers, payload decoders, HPACK, ELF and JFR parsing),
  readers of `/proc`, `/sys` and cgroup files, requests to container runtimes and cloud
  metadata services, the dialogue with a JVM or a .NET runtime, and the construction of
  metric labels: they are sequential code without state to get out of step, and their
  content is data that a model would have to repeat.
- Two cgroups with one container id (`containers/registry.go:828`), domains, OOM kills and
  the restart counter.

`PROJECT.json` gives the reason for each component.
