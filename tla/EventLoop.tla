----------------------------- MODULE EventLoop -----------------------------
(***************************************************************************)
(* The goroutines around one container and everything they wait for:       *)
(*   - the readers of the tracer's buffers and forwardEvents, which fill   *)
(*     the channel r.events;                                               *)
(*   - handleEvents, which alone applies events, statistics and profiles;  *)
(*   - the goroutine of the container, which runs its gc;                  *)
(*   - the scrapes (Container.Collect), which read the kernel's counters   *)
(*     and hand them to handleEvents over unbuffered channels;             *)
(*   - the goroutine of a process that instruments it (Process.instrument),*)
(*     for whose end Process.Close waits with the container's lock held;   *)
(*   - the profiler's target finder and its collector;                     *)
(*   - the start of the tracer, the fetcher of the traced clients and the  *)
(*     reader of the journal, each of a module of its own.                 *)
(* What they do to the traffic counters of a connection and to the         *)
(* listening sockets is in the model; the rest of the metrics is not.      *)
(***************************************************************************)
EXTENDS Integers, Sequences, FiniteSets, TracerStart, TracedClients, Journald

CONSTANTS
  Workloads,  \* what goes on around the loop: a subset of AllWorkloads
  Scrapers,   \* the goroutines that may collect the container
  Pids,       \* the processes of the container
  NewPids,    \* bound: the pids that new processes get
  MaxConns,   \* bound: connections that use the descriptor one after the other
  MaxSent,    \* bound: bytes sent on all of them
  MaxSteps,   \* bound: steps of the processes, of opening and closing connections apart
  MaxLost,    \* bound: samples lost by the buffers
  EventsCap,  \* capacity of r.tracerEvents and r.events together
  UpdatesCap, \* capacity of profilingUpdateCh
  MaxScrapes, \* bound: scrapes
  MaxRounds,  \* bound: collections of the profiler
  MaxReads    \* bound: entries one iteration of active_connections returns

None == 0
Free == "free"
Conns == 1..MaxConns
Buffers == {"proc", "listen", "tcp"}
AllWorkloads == {"traffic", "listens", "processes", "startup", "clients", "journal"}

ASSUME EventLoopAssumption ==
  /\ Workloads \subseteq AllWorkloads
  /\ {MaxConns, MaxSent, MaxSteps, MaxLost, EventsCap, UpdatesCap, MaxScrapes, MaxRounds, MaxReads} \subseteq Nat
  /\ EventsCap > 0 /\ UpdatesCap > 0
  /\ Scrapers \cap {"loop", "collector", Free} = {} /\ None \notin Pids /\ NewPids \subseteq Pids

VARIABLES
  workload, \* the workload of this behaviour
  fd,       \* the connection that has the descriptor, and the entry of active_connections
  bytes,    \* the bytes of each connection, Never before it is opened
  holders,  \* the processes that have the listening socket
  running,  \* the processes that run
  steps,    \* how many steps of the processes that are bounded were taken
  lost,     \* how many samples were lost
  scan,     \* what Tracer.init has found and not sent yet
  bufs,     \* the perf and ring buffers
  events,   \* r.tracerEvents and r.events
  updates,  \* profilingUpdateCh
  loop,     \* handleEvents: where it is and what it has in hand
  gc,       \* the goroutine of the container, likewise
  scraper,  \* the scrapes, likewise
  scrapes,  \* how many scrapes were started
  finder,   \* the target finder, likewise
  collector, \* the profiler's collector, likewise
  rounds,   \* how many collections it started
  instr,    \* Process.instrument of each process
  cLock,    \* Container.lock
  statsLock, \* Registry.ebpfStatsLock
  tfLock,   \* TargetFinder.lock
  fresh,    \* ebpfStatsLastUpdated is set
  conn,     \* connectionsByPidFd of the descriptor
  counted,  \* connectionStats.BytesSent of the destination of each connection
  procs,    \* Container.processes
  listens,  \* Container.listens of one wildcard address: the record of each process
  targets,  \* TargetFinder.processes
  final,    \* history: the connections whose close event was applied
  mixed     \* history: the connections that got an update of another one

fixed    == <<workload, scan, startVars, clientVars, journalVars>>
traced   == <<fixed, fd, bytes, holders, running, steps, lost, bufs>>
channels == <<events, updates>>
locks    == <<cLock, gc, statsLock, tfLock>>
profiler == <<finder, collector, rounds, targets>>
scrape   == <<scraper, scrapes, fresh>>
traffic  == <<conn, counted, final, mixed>>
tables   == <<traffic, procs, listens>>
vars == <<traced, channels, locks, profiler, scrape, tables, loop, instr>>

Never == -1
Event(type, id) == [type |-> type, id |-> id]
At(pc, arg) == [pc |-> pc, arg |-> arg]
NoConn == [gen |-> None, sent |-> 0, closed |-> FALSE]

\* A record of listens: its age, and whether it has the addresses of its namespace (NsIPs).
ListenDetails(state, ips) == [state |-> state, ips |-> ips]
NoListen == ListenDetails("none", FALSE)
OpenRecord(p) == listens[p].state = "open"

\* NewRegistry starts handleEvents and forwardEvents.  The processes that run already are known,
\* instrumented and announced.
Init ==
  /\ workload \in Workloads
  /\ fd = None /\ bytes = [g \in Conns |-> Never]
  /\ IF workload = "startup" THEN holders \in SUBSET Pids ELSE holders = {}
  /\ running = (IF workload = "processes" THEN {} ELSE Pids) /\ steps = 0 /\ lost = 0
  /\ bufs = [b \in Buffers |-> <<>>] /\ events = <<>> /\ updates = <<>>
  /\ loop = At("select", None) /\ gc = At("idle", None)
  /\ scraper = [s \in Scrapers |-> At("idle", None)] /\ scrapes = 0 /\ fresh = FALSE
  /\ finder = At("receive", None) /\ collector = At("idle", None) /\ rounds = 0
  /\ instr = [p \in Pids |-> "done"]
  /\ cLock = Free /\ statsLock = Free /\ tfLock = Free
  /\ conn = NoConn /\ counted = [g \in Conns |-> 0] /\ final = {} /\ mixed = {}
  /\ procs = (IF workload = "startup" THEN {} ELSE running) /\ targets = procs
  /\ listens = [p \in Pids |-> NoListen]
  /\ IF workload = "startup" THEN Unstarted ELSE Started
  /\ scan = IF workload # "startup" THEN {}
            ELSE {Event("start", p) : p \in Pids} \union {Event("listenOpen", p) : p \in holders}
  /\ NoClients /\ NoJournal

-----------------------------------------------------------------------------
(* The traced processes and the buffers of the tracer.                       *)

Posts(b, e) == bufs' = [bufs EXCEPT ![b] = Append(@, e)]

Step == steps < MaxSteps /\ steps' = steps + 1

Open ==
  /\ workload = "traffic" /\ fd = None
  /\ \E g \in Conns :
       /\ bytes[g] = Never /\ \A h \in 1..(g - 1) : bytes[h] # Never
       /\ fd' = g /\ bytes' = [bytes EXCEPT ![g] = 0]
       /\ Posts("tcp", Event("open", g))
  /\ UNCHANGED <<fixed, holders, running, steps, lost>>

Send ==
  /\ fd # None /\ steps < MaxSent /\ Step /\ bytes' = [bytes EXCEPT ![fd] = @ + 1]
  /\ UNCHANGED <<fixed, fd, holders, running, lost, bufs>>

\* The close event carries the final counters of the connection.
CloseFd ==
  /\ fd # None /\ fd' = None
  /\ Posts("tcp", Event("close", fd))
  /\ UNCHANGED <<fixed, bytes, holders, running, steps, lost>>

Listening(p) == workload = "listens" /\ p \in running /\ Step /\ UNCHANGED <<fixed, fd, bytes, lost>>

Listen(p) ==
  /\ Listening(p) /\ holders = {} /\ holders' = {p}
  /\ Posts("listen", Event("listenOpen", p)) /\ UNCHANGED running

\* The descriptor is inherited or passed to another process.
Share(p) ==
  /\ Listening(p) /\ holders # {} /\ p \notin holders /\ holders' = holders \union {p}
  /\ UNCHANGED <<running, bufs>>

\* The socket leaves the listening state with its last descriptor.
Closes(p) == IF holders = {p} THEN <<Event("listenClose", p)>> ELSE <<>>

CloseListen(p) ==
  /\ Listening(p) /\ p \in holders /\ holders' = holders \ {p}
  /\ bufs' = [bufs EXCEPT !["listen"] = @ \o Closes(p)] /\ UNCHANGED running

Exit(p) ==
  /\ workload \in {"listens", "processes"} /\ p \in running /\ Step /\ running' = running \ {p} /\ holders' = holders \ {p}
  /\ bufs' = [bufs EXCEPT !["listen"] = @ \o Closes(p), !["proc"] = Append(@, Event("exit", p))]
  /\ UNCHANGED <<fixed, fd, bytes, lost>>

\* A new process; its pid may have been another one's.
Start(p) ==
  /\ workload = "processes" /\ p \in NewPids \ running /\ Step /\ running' = running \union {p}
  /\ Posts("proc", Event("start", p)) /\ UNCHANGED <<fixed, fd, bytes, holders, lost>>

\* A full perf buffer loses samples; the reader only counts them.
LoseSample(b) ==
  /\ b # "tcp" /\ lost < MaxLost /\ bufs[b] # <<>> /\ lost' = lost + 1
  /\ bufs' = [bufs EXCEPT ![b] = Tail(@)]
  /\ UNCHANGED <<fixed, fd, bytes, holders, running, steps>>

Processes ==
  /\ \/ Open \/ Send \/ CloseFd \/ \E b \in Buffers : LoseSample(b)
     \/ \E p \in Pids : Listen(p) \/ Share(p) \/ CloseListen(p) \/ Exit(p) \/ Start(p)
  /\ UNCHANGED <<channels, locks, profiler, scrape, tables, loop, instr>>

\* Each buffer has its own reader: the events of two buffers come in any order.
Read(b) ==
  /\ bufs[b] # <<>> /\ Len(events) < EventsCap
  /\ events' = Append(events, Head(bufs[b])) /\ bufs' = [bufs EXCEPT ![b] = Tail(@)]
  /\ UNCHANGED <<fixed, fd, bytes, holders, running, steps, lost, updates, locks, profiler, scrape, tables, loop,
                 instr>>

\* runEventsReader, of the perf buffers; emitMerged, of the ring of the connections (RingMerge).
ReadEvent  == \E b \in Buffers \ {"tcp"} : Read(b)
EmitMerged == Read("tcp")

-----------------------------------------------------------------------------
(* handleEvents.  What it received is in loop.arg until it has the lock.     *)

LoopReceives(x) == loop.pc = "select" /\ loop' = At("lock", x)
LoopLocked(type) == loop.pc = "lock" /\ loop.arg.type = type /\ cLock = Free
LoopDone == loop' = At("select", None)

ReceiveEvent ==
  /\ events # <<>> /\ LoopReceives(Head(events)) /\ events' = Tail(events)
  /\ UNCHANGED <<traced, updates, locks, profiler, scrape, tables, instr>>

ReceiveProfile ==
  /\ updates # <<>> /\ LoopReceives(Event("profile", Head(updates))) /\ updates' = Tail(updates)
  /\ UNCHANGED <<traced, events, locks, profiler, scrape, tables, instr>>

Unlocked == UNCHANGED <<traced, channels, locks, profiler, scrape>>

OnConnectionOpen ==
  /\ LoopLocked("open") /\ LoopDone
  /\ conn' = [gen |-> loop.arg.id, sent |-> 0, closed |-> FALSE]
  /\ Unlocked /\ UNCHANGED <<counted, final, mixed, procs, listens, instr>>

\* A mutant: the whole counter is added each time.
CountsWhole(n) == [counted EXCEPT ![conn.gen] = @ + n]

\* updateConnectionTrafficStats: what exceeds the last counter is added.
Counted(n) == [counted EXCEPT ![conn.gen] = @ + (IF n > conn.sent THEN n - conn.sent ELSE 0)]

OnConnectionClose ==
  /\ LoopLocked("close") /\ LoopDone
  /\ LET g == loop.arg.id
     IN IF conn.gen = g /\ ~conn.closed
        THEN /\ counted' = Counted(bytes[g])
             /\ conn' = [conn EXCEPT !.sent = bytes[g], !.closed = TRUE]
             /\ final' = final \union {g} /\ UNCHANGED mixed
        ELSE UNCHANGED traffic
  /\ Unlocked /\ UNCHANGED <<procs, listens, instr>>

\* The update of a scrape names the descriptor, not the connection: from is what it was read of.
UpdateTrafficStats ==
  /\ LoopLocked("traffic") /\ LoopDone
  /\ IF conn.gen = None THEN UNCHANGED traffic
     ELSE /\ counted' = Counted(loop.arg.sent)
          /\ conn' = [conn EXCEPT !.sent = loop.arg.sent]
          /\ mixed' = mixed \union (IF loop.arg.from # conn.gen THEN {conn.gen} ELSE {})
          /\ UNCHANGED final
  /\ Unlocked /\ UNCHANGED <<procs, listens, instr>>

\* The updates of Node.js, Python and the profiler: their counters are not in the model.
UpdateRuntimeStats ==
  /\ (LoopLocked("runtime") \/ LoopLocked("profile")) /\ LoopDone
  /\ Unlocked /\ UNCHANGED <<tables, instr>>

\* The record is made first.  GetNetNs and GetNsIps may fail: it stays, without the addresses.
Opened(records, p) == {[records EXCEPT ![p] = ListenDetails("open", ips)] : ips \in BOOLEAN}

OnListenOpen ==
  /\ LoopLocked("listenOpen") /\ LoopDone
  /\ listens' \in Opened(listens, loop.arg.id)
  /\ Unlocked /\ UNCHANGED <<traffic, procs, instr>>

OnListenClose ==
  /\ LoopLocked("listenClose") /\ LoopDone
  /\ listens' = [listens EXCEPT ![loop.arg.id].state = IF @ = "none" THEN @ ELSE "closed"]
  /\ Unlocked /\ UNCHANGED <<traffic, procs, instr>>

\* Process.Close cancels the process's context first.
Cancelled(p) == [instr EXCEPT ![p] = IF @ = "running" THEN "cancelled" ELSE @]

\* A process that is gone has no task statistics and is not added.  One that is known may be the
\* last user of the pid: unless its cgroup can be read and is the container's it is closed first.
OnProcessStart ==
  /\ LoopLocked("start")
  /\ LET p == loop.arg.id
     IN \/ /\ p \in procs /\ loop' = At("announce", p) /\ UNCHANGED <<procs, instr, cLock>>
        \/ /\ p \in procs /\ loop' = At("replacing", p) /\ cLock' = "loop"
           /\ instr' = Cancelled(p) /\ UNCHANGED procs
        \/ /\ p \notin procs /\ p \in running /\ loop' = At("announce", p)
           /\ procs' = procs \union {p} /\ instr' = [instr EXCEPT ![p] = "running"] /\ UNCHANGED cLock
        \/ /\ p \notin procs /\ p \notin running /\ LoopDone /\ UNCHANGED <<procs, instr, cLock>>
  /\ UNCHANGED <<traced, channels, gc, statsLock, tfLock, profiler, scrape, traffic, listens>>

\* processInfoCh is not buffered.
Announce ==
  /\ loop.pc = "announce" /\ finder.pc = "receive"
  /\ finder' = At("lock", loop.arg) /\ LoopDone
  /\ UNCHANGED <<traced, channels, locks, collector, rounds, targets, scrape, tables, instr>>

OnProcessExit ==
  /\ LoopLocked("exit")
  /\ LET p == loop.arg.id
     IN IF p \in procs
        THEN loop' = At("closing", p) /\ cLock' = "loop" /\ instr' = Cancelled(p)
        ELSE LoopDone /\ UNCHANGED <<cLock, instr>>
  /\ UNCHANGED <<traced, channels, gc, statsLock, tfLock, profiler, scrape, tables>>

\* The new user of a pid is of this container or of another one.
OnProcessClosed ==
  /\ loop.pc \in {"closing", "replacing"} /\ instr[loop.arg] = "done"
  /\ procs' = procs \ {loop.arg} /\ cLock' = Free
  /\ LoopDone \/ (loop.pc = "replacing" /\ loop' = At("lock", Event("start", loop.arg)))
  /\ UNCHANGED <<traced, channels, gc, statsLock, tfLock, profiler, scrape, traffic, listens, instr>>

\* Process.instrument may retry for as long as the process has no command line; it ends once it
\* sees that the context is cancelled.
Instrument(p) ==
  /\ instr[p] \in {"running", "cancelled"} /\ instr' = [instr EXCEPT ![p] = "done"]
  /\ UNCHANGED <<traced, channels, locks, profiler, scrape, tables, loop>>

-----------------------------------------------------------------------------
(* gc reads the sockets of the processes and compares what is recorded.      *)

GcLeaves == UNCHANGED <<traced, channels, statsLock, tfLock, profiler, scrape, procs, loop, instr>>
GcDone   == cLock' = Free /\ gc' = At("idle", None)

\* What one pass finds in /proc: whether the address listens and, for one that does, the processes
\* whose descriptors can be read.  The sockets are those of one process of each network namespace:
\* a read that fails shows none, and so does one of a process that is gone, with no error and the
\* namespace counted as read.
GcReads(found, read) ==
  /\ workload = "listens" /\ gc.pc = "idle" /\ cLock = Free
  /\ gc' = At("sockets", [found |-> found, read |-> IF found THEN read ELSE {}])
  /\ cLock' = "gc"
  /\ GcLeaves /\ UNCHANGED <<traffic, listens>>

Shown == holders # {} /\ procs \cap running # {}

GcRead == GcReads(FALSE, {}) \/ GcReads(Shown, {}) \/ GcReads(Shown, procs)

\* A mutant: only a close event closes a record.
ClosedByEvent(found) == listens

\* The records that are open are closed once the address no longer listens.
Outdated(found) == [p \in Pids |-> IF OpenRecord(p) /\ ~found THEN [listens[p] EXCEPT !.state = "closed"] ELSE listens[p]]

\* An address that listens without an open record gets one of a process that has the socket; the
\* records that are closed for longer than gcInterval are deleted, some of those closed before.
RevalidateListens ==
  /\ gc.pc = "sockets"
  /\ LET marked  == Outdated(gc.arg.found)
         missing == gc.arg.found /\ \A p \in Pids : marked[p].state # "open"
         owners  == gc.arg.read \cap holders
     IN \E kept \in IF missing /\ owners # {} THEN UNION {Opened(marked, p) : p \in owners} ELSE {marked},
          expired \in SUBSET {p \in Pids : listens[p].state = "closed"} :
          listens' = [p \in Pids |-> IF p \in expired /\ kept[p].state = "closed" THEN NoListen ELSE kept[p]]
  /\ GcDone
  /\ GcLeaves /\ UNCHANGED traffic

\* A connection that the sockets do not show as established is forgotten, its close event handled
\* or not: one that was closed, and any at all when the read fails.  It cannot be seen between the
\* two, with the lock held: one step.
GcConnections ==
  /\ workload = "traffic" /\ cLock = Free /\ conn.gen # None
  /\ conn' = NoConn
  /\ GcLeaves /\ UNCHANGED <<cLock, gc, counted, final, mixed, listens>>

-----------------------------------------------------------------------------
(* A scrape.                                                                 *)

Moves(s, pc, arg) == scraper' = [scraper EXCEPT ![s] = At(pc, arg)]
ScrapeLeaves == UNCHANGED <<traced, channels, gc, tfLock, profiler, scrapes, traffic, listens>>

\* Bound: the listening sockets are not scraped, their report is ReportedOpen in every state.
Scrape(s) ==
  /\ workload \in {"traffic", "processes"} /\ scraper[s].pc = "idle" /\ scrapes < MaxScrapes /\ scrapes' = scrapes + 1
  /\ Moves(s, "stats", None)
  /\ UNCHANGED <<traced, channels, locks, profiler, fresh, tables, loop, instr>>

\* A mutant: the container is locked before the statistics are updated.
LockStatsInCollect(s) ==
  /\ scraper[s].pc = "stats" /\ statsLock = Free
  /\ \/ fresh /\ Moves(s, "container", None) /\ UNCHANGED <<statsLock, cLock>>
     \/ cLock \in {Free, s} /\ Moves(s, "iterate", 0) /\ statsLock' = s /\ cLock' = s
  /\ ScrapeLeaves /\ UNCHANGED <<fresh, procs, loop, instr>>

\* updateStatsFromEbpfMapsIfNecessary: an update that was made may be recent enough still.
LockStats(s) ==
  /\ scraper[s].pc = "stats" /\ statsLock = Free
  /\ \/ fresh /\ Moves(s, "container", None) /\ UNCHANGED statsLock
     \/ Moves(s, "iterate", 0) /\ statsLock' = s
  /\ ScrapeLeaves /\ UNCHANGED <<cLock, fresh, procs, loop, instr>>

Iterate(s) ==
  /\ scraper[s].pc = "iterate"
  /\ IF fd # None /\ scraper[s].arg < MaxReads
     THEN Moves(s, "send", [type |-> "traffic", from |-> fd, sent |-> bytes[fd], reads |-> scraper[s].arg + 1])
     ELSE Moves(s, "end", None)
  /\ ScrapeLeaves /\ UNCHANGED <<cLock, statsLock, fresh, procs, loop, instr>>

SendTrafficStats(s) ==
  /\ scraper[s].pc = "send" /\ LoopReceives(scraper[s].arg)
  /\ Moves(s, "iterate", scraper[s].arg.reads)
  /\ ScrapeLeaves /\ UNCHANGED <<cLock, statsLock, fresh, procs, instr>>

\* The nil that ends the updates, then those of updateNodejsStats and updatePythonStats.
SendRuntimeStats(s) ==
  /\ scraper[s].pc = "end" /\ LoopReceives(Event("runtime", None)) /\ Moves(s, "container", None)
  /\ fresh' = TRUE /\ statsLock' = Free
  /\ ScrapeLeaves /\ UNCHANGED <<cLock, procs, instr>>

Dead == procs \ running

\* Collect takes the lock after the statistics are updated, and closes the processes whose task
\* statistics are gone.  The metrics are then written in one step: it waits for its reader and for
\* the pings, which have a timeout, and for nobody here.
Collect(s) ==
  /\ \/ scraper[s].pc = "container" /\ cLock \in {Free, s}
     \/ scraper[s].pc = "closed"
  /\ \/ Dead = {} /\ cLock' = Free /\ Moves(s, "idle", None) /\ UNCHANGED instr
     \/ \E p \in Dead : Moves(s, "closing", p) /\ cLock' = s /\ instr' = Cancelled(p)
  /\ ScrapeLeaves /\ UNCHANGED <<statsLock, fresh, procs, loop>>

CollectClosed(s) ==
  /\ scraper[s].pc = "closing" /\ instr[scraper[s].arg] = "done"
  /\ procs' = procs \ {scraper[s].arg} /\ Moves(s, "closed", None)
  /\ ScrapeLeaves /\ UNCHANGED <<cLock, statsLock, fresh, loop, instr>>

Scraping(s) ==
  \/ LockStats(s) \/ Iterate(s) \/ SendTrafficStats(s) \/ SendRuntimeStats(s)
  \/ Collect(s) \/ CollectClosed(s)

-----------------------------------------------------------------------------
(* The profiler.                                                             *)

AddTarget ==
  /\ finder.pc = "lock" /\ tfLock = Free
  /\ targets' = targets \union {finder.arg} /\ finder' = At("receive", None)
  /\ UNCHANGED <<traced, channels, locks, collector, rounds, scrape, tables, loop, instr>>

ProfilerLeaves == UNCHANGED <<traced, events, cLock, gc, statsLock, finder, scrape, tables, loop, instr>>

Profile ==
  /\ workload = "processes" /\ collector.pc = "idle" /\ rounds < MaxRounds /\ rounds' = rounds + 1
  /\ collector' = At("find", None)
  /\ ProfilerLeaves /\ UNCHANGED <<updates, tfLock, targets>>

\* FindTarget has the lock while it asks the process for its symbols.
FindTarget ==
  /\ collector.pc = "find" /\ tfLock = Free /\ tfLock' = "collector"
  /\ \E p \in targets \union {None} : collector' = At("found", p)
  /\ ProfilerLeaves /\ UNCHANGED <<updates, rounds, targets>>

\* The lock is released before anything is sent.
Found ==
  /\ collector.pc = "found" /\ tfLock' = Free
  /\ collector' = IF collector.arg = None THEN At("idle", None) ELSE At("update", collector.arg)
  /\ targets' = targets \ (IF collector.arg \in running THEN {} ELSE {collector.arg})
  /\ ProfilerLeaves /\ UNCHANGED <<updates, rounds>>

SendProfile ==
  /\ collector.pc = "update" /\ Len(updates) < UpdatesCap
  /\ updates' = Append(updates, collector.arg) /\ collector' = At("idle", None)
  /\ ProfilerLeaves /\ UNCHANGED <<tfLock, rounds, targets>>

Profiling == FindTarget \/ Found \/ SendProfile

-----------------------------------------------------------------------------
(* The components of the other modules.                                      *)

inner == <<workload, fd, bytes, holders, running, steps, lost, bufs, updates, locks, profiler, scrape, tables, instr>>

\* The scan of Run (Tracer.init) sends to the channel that forwardEvents reads: the processes first,
\* then their sockets.
Scan ==
  /\ boot = "scan" /\ Len(events) < EventsCap
  /\ \E e \in scan :
       /\ e.type # "start" => \A f \in scan : f.type # "start"
       /\ events' = Append(events, e) /\ scan' = scan \ {e}
  /\ UNCHANGED <<inner, loop, startVars, clientVars, journalVars>>

Starting ==
  /\ Run \/ Loading \/ (scan = {} /\ ScanEnds)
  /\ UNCHANGED <<inner, events, scan, loop, clientVars, journalVars>>

ScanStops == ScanFails /\ UNCHANGED <<inner, events, scan, loop, clientVars, journalVars>>

\* updateTracedClients locks the container to read its connections.
TraceClients ==
  /\ workload = "clients" /\ loop.pc = "select" /\ cLock = Free
  /\ ReceiveList \/ UpdateTracedClients
  /\ UNCHANGED <<inner, events, scan, loop, startVars, journalVars>>

Fetcher == workload = "clients" /\ Fetching /\ UNCHANGED <<inner, events, scan, loop, startVars, journalVars>>

ClientsChange ==
  /\ workload = "clients"
  /\ Answer \/ \E ip \in Ips : Local(ip)
  /\ UNCHANGED <<inner, events, scan, loop, startVars, journalVars>>

\* getOrCreateContainer makes a container, the gc of the registry deletes it.
Containers ==
  /\ workload = "journal" /\ loop.pc = "select"
  /\ \E c \in Services : NewContainer(c) \/ CloseSilent(c) \/ Unsubscribe(c)
  /\ loop' = IF stopping' = Nobody THEN loop ELSE At("stop", stopping')
  /\ UNCHANGED <<inner, events, scan, startVars, clientVars>>

ContainerClosed ==
  /\ loop.pc = "stop" /\ StopParser /\ LoopDone
  /\ UNCHANGED <<inner, events, scan, startVars, clientVars>>

Journal == Following /\ UNCHANGED <<inner, events, scan, loop, startVars, clientVars>>

JournalChanges ==
  /\ workload = "journal"
  /\ FollowFails \/ \E u \in Units : WriteEntry(u)
  /\ UNCHANGED <<inner, events, scan, loop, startVars, clientVars>>

-----------------------------------------------------------------------------
HandleEvent ==
  \/ OnConnectionOpen \/ OnConnectionClose \/ UpdateTrafficStats \/ UpdateRuntimeStats
  \/ OnListenOpen \/ OnListenClose \/ OnProcessStart \/ Announce \/ OnProcessExit \/ OnProcessClosed
  \/ ContainerClosed

Gc == GcRead \/ RevalidateListens \/ GcConnections

Receive == ReceiveEvent \/ ReceiveProfile

Next ==
  \/ Processes \/ ReadEvent \/ EmitMerged
  \/ Receive \/ HandleEvent \/ Gc
  \/ \E p \in Pids : Instrument(p)
  \/ \E s \in Scrapers : Scrape(s) \/ Scraping(s)
  \/ AddTarget \/ Profile \/ Profiling
  \/ Starting \/ Scan \/ ScanStops
  \/ TraceClients \/ Fetcher \/ ClientsChange
  \/ Containers \/ Journal \/ JournalChanges

\* Every goroutine that can go on does.  Of the cases of a select that are ready Go picks one at
\* random, and sync.Mutex hands itself to a goroutine that waits for long: neither is passed over
\* for ever.  Process.instrument only promises to end once its context is cancelled; nobody
\* promises a scrape, a profile, an entry of the journal or a new list of clients.  Reading /proc
\* may fail many times, but not for ever: the errors are those of a busy host, and a process that
\* is gone is passed over, as Go goes through the processes in a random order.
Fairness ==
  /\ WF_vars(ReadEvent \/ EmitMerged)
  /\ SF_vars(Receive \/ HandleEvent)
  /\ WF_vars(RevalidateListens) /\ SF_vars(GcReads(Shown, procs))
  /\ SF_vars(\E s \in Scrapers : Scraping(s))
  /\ WF_vars(AddTarget \/ Profiling \/ \E p \in Pids : instr[p] = "cancelled" /\ Instrument(p))
  /\ WF_vars(TraceClients) /\ WF_vars(Starting \/ Scan \/ Fetcher \/ Journal)  \* no two at once

Spec == Init /\ [][Next]_vars /\ Fairness

-----------------------------------------------------------------------------
\* Nobody around the loop waits for ever.  handleEvents comes back to its select: it waits for the
\* lock of the container, for the target finder and for the goroutine of a process that ends, and
\* none of them waits for it.  Every scrape ends: it hands its counters to handleEvents with
\* ebpfStatsLock held, which handleEvents never takes, and without the lock of the container, which
\* it does.  The start of the tracer ends, though its scan fills the channel and its programs share
\* the caches; and the journal is read on, but for the one wait that JournalFlows names.
NoneWaitsForEver ==
  /\ []<>(loop.pc = "select")
  /\ \A s \in Scrapers : []<>(scraper[s].pc = "idle")
  /\ []<>(boot \in {"up", "failed", "scanFailed"})
  /\ JournalFlows

\* The bytes of a connection whose close was applied are all counted, whatever updates, its own
\* or another connection's, were applied before; and a connection that got only its own is never
\* counted twice.
TrafficCounted ==
  \A g \in Conns :
    /\ g \in final => counted[g] >= bytes[g]
    /\ g \notin mixed => counted[g] = 0 \/ counted[g] <= bytes[g]

\* getListens: the address is open by the record of a process the container has, and is reported
\* with the addresses that such records have.
ReportedOpen == (\E p \in procs : OpenRecord(p)) /\ (\E p \in procs : listens[p].ips)

\* An open record that getListens does not report, and for which revalidateListens makes no other:
\* its process is gone, or its addresses could not be read.
Unreported(p) == OpenRecord(p) /\ (p \notin procs \/ ~listens[p].ips)

\* A socket that stays listening is reported open in the end, even if its event was lost, it
\* listened before the tracer was started, or gc could not read the sockets and closed its record
\* (revalidateListens), unless an open record that is not reported stands for it; a closed one is
\* not reported open for ever.
ListensSettle ==
  /\ []<>(boot = "up" /\ holders \cap running # {} => ReportedOpen \/ \E p \in Pids : Unreported(p))
  /\ []<>(holders = {} => ~ReportedOpen)
=============================================================================
