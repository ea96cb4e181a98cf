---------------------------- MODULE TrafficProofs ---------------------------
(***************************************************************************)
(* The bytes of the connections are counted, and counted once              *)
(* (TrafficCounted), for any number of connections, scrapes, buffered      *)
(* events and processes, whatever else the agent does at the time.         *)
(***************************************************************************)
EXTENDS EventLoop, TLAPS

-----------------------------------------------------------------------------
(* The traffic: the inductive invariant.                                     *)

ConnEvents == [type : {"open", "close"}, id : Conns]
ProcEvents == [type : {"start", "exit", "listenOpen", "listenClose"}, id : Pids]

InLoop(e) == loop.pc = "lock" /\ loop.arg = e

Types ==
  /\ fd \in {None} \union Conns /\ bytes \in [Conns -> Nat \union {Never}]
  /\ fd # None => bytes[fd] # Never
  /\ conn \in [gen : {None} \union Conns, sent : Nat, closed : BOOLEAN]
  /\ counted \in [Conns -> Nat] /\ final \subseteq Conns
  /\ DOMAIN scraper = Scrapers
  /\ DOMAIN bufs = Buffers /\ bufs["tcp"] \in Seq(ConnEvents)
  /\ bufs["proc"] \in Seq(ProcEvents) /\ bufs["listen"] \in Seq(ProcEvents)
  /\ events \in Seq(ConnEvents \union ProcEvents) /\ scan \subseteq ProcEvents
  /\ loop.pc = "lock" /\ loop.arg.type \in {"open", "close"} => loop.arg \in ConnEvents

\* The event waits to be handled.
Comes(e) ==
  \/ \E k \in DOMAIN bufs["tcp"] : bufs["tcp"][k] = e
  \/ \E k \in DOMAIN events : events[k] = e
  \/ InLoop(e)

\* It waits in one place.
ComesOnce(e) ==
  /\ \A j, k \in DOMAIN bufs["tcp"] : bufs["tcp"][j] = e /\ bufs["tcp"][k] = e => j = k
  /\ \A j, k \in DOMAIN events : events[j] = e /\ events[k] = e => j = k
  /\ \A j \in DOMAIN bufs["tcp"], k \in DOMAIN events : ~(bufs["tcp"][j] = e /\ events[k] = e)
  /\ InLoop(e) => /\ \A k \in DOMAIN bufs["tcp"] : bufs["tcp"][k] # e
                  /\ \A k \in DOMAIN events : events[k] # e

\* A connection is opened once, and nothing is counted for it before its open is handled; its
\* close is on its way only after it lost the descriptor.
EventsInv ==
  \A g \in Conns :
    /\ Comes(Event("open", g)) => bytes[g] # Never /\ counted[g] = 0 /\ conn.gen # g
    /\ Comes(Event("close", g)) => bytes[g] # Never /\ fd # g
    /\ ComesOnce(Event("open", g))

\* An update on its way was read of a connection that is open or was, and is not behind what was
\* counted for it, unless its close has been counted.
Behind(u) ==
  /\ u.from \in Conns /\ u.sent \in Nat /\ bytes[u.from] # Never /\ u.sent <= bytes[u.from]
  /\ u.from = conn.gen /\ u.from \notin mixed => IF conn.closed THEN u.sent <= conn.sent ELSE conn.sent <= u.sent

\* ebpfStatsLock serialises the scrapes: two updates of one connection come in the order they
\* were read, and once its close is counted only one of them is left.
UpdatesInv ==
  /\ \A s \in Scrapers : scraper[s].pc \in {"iterate", "send", "end"} => statsLock = s
  /\ loop.pc = "lock" /\ loop.arg.type = "traffic" => Behind(loop.arg)
  /\ \A s \in Scrapers : scraper[s].pc = "send" =>
       /\ scraper[s].arg.type = "traffic" /\ Behind(scraper[s].arg)
       /\ loop.pc = "lock" /\ loop.arg.type = "traffic" /\ loop.arg.from = scraper[s].arg.from =>
            loop.arg.sent <= scraper[s].arg.sent /\ ~(conn.closed /\ conn.gen = loop.arg.from)

\* What is counted for the connection that is known is at least its last counter, and that
\* exactly while only its own updates were applied.
CountInv ==
  /\ conn.gen # None => bytes[conn.gen] # Never /\ conn.sent <= counted[conn.gen]
  /\ conn.gen # None /\ conn.gen \notin mixed /\ ~conn.closed =>
       counted[conn.gen] = conn.sent /\ conn.sent <= bytes[conn.gen]
  /\ conn.closed => conn.gen \in final
  /\ \A g \in Conns : bytes[g] = Never => counted[g] = 0
  /\ \A g \in final : fd # g /\ bytes[g] # Never
  /\ TrafficCounted

TrafficInv == Types /\ EventsInv /\ UpdatesInv /\ CountInv

-----------------------------------------------------------------------------
(* Which variables a step leaves alone.                                      *)

\* What the traffic is counted from, the loop apart.
core == <<fd, bytes, bufs, events, scan, scraper, statsLock, traffic>>

\* The loop has nothing in hand that concerns the connection.
LoopIdle == loop.pc = "lock" => loop.arg.type \notin {"open", "close", "traffic"}

Still == UNCHANGED core /\ (UNCHANGED loop \/ LoopIdle')

\* The loop received what a reader or a scrape sent, or applied it.
Busies ==
  \/ Processes \/ (\E b \in Buffers : Read(b)) \/ ReceiveEvent
  \/ OnConnectionOpen \/ OnConnectionClose \/ UpdateTrafficStats \/ GcConnections
  \/ (\E s \in Scrapers : Scrape(s) \/ Scraping(s)) \/ Scan

LEMMA IdleAfter ==
  /\ LoopDone => LoopIdle'
  /\ \A x : loop' = At("announce", x) \/ loop' = At("closing", x) \/ loop' = At("replacing", x) \/ loop' = At("stop", x) => LoopIdle'
  /\ \A x : loop' = At("lock", Event("profile", x)) \/ loop' = At("lock", Event("start", x)) => LoopIdle'
  BY DEF LoopDone, LoopIdle, At, Event

LEMMA HandlersStill ==
  ASSUME UpdateRuntimeStats \/ OnListenOpen \/ OnListenClose \/ OnProcessStart \/ Announce \/ OnProcessExit
         \/ OnProcessClosed \/ ContainerClosed \/ ReceiveProfile
  PROVE  Still
<1> USE DEF core, Still, Unlocked, traced, fixed, channels, locks, scrape, tables, traffic, inner
<1>1. CASE UpdateRuntimeStats
  BY <1>1, IdleAfter, Zenon DEF UpdateRuntimeStats
<1>2. CASE OnListenOpen
  BY <1>2, IdleAfter, Zenon DEF OnListenOpen
<1>3. CASE OnListenClose
  BY <1>3, IdleAfter, Zenon DEF OnListenClose
<1>4. CASE OnProcessStart
  BY <1>4, IdleAfter, Zenon DEF OnProcessStart
<1>5. CASE Announce
  BY <1>5, IdleAfter, Zenon DEF Announce
<1>6. CASE OnProcessExit
  BY <1>6, IdleAfter, Zenon DEF OnProcessExit
<1>7. CASE OnProcessClosed
  BY <1>7, IdleAfter, Zenon DEF OnProcessClosed
<1>8. CASE ContainerClosed
  BY <1>8, IdleAfter, Zenon DEF ContainerClosed
<1>9. CASE ReceiveProfile
  BY <1>9, IdleAfter, Zenon DEF ReceiveProfile, LoopReceives
<1> QED
  BY <1>1, <1>2, <1>3, <1>4, <1>5, <1>6, <1>7, <1>8, <1>9

LEMMA OthersStill ==
  ASSUME \/ GcRead \/ RevalidateListens \/ (\E p \in Pids : Instrument(p))
         \/ AddTarget \/ Profile \/ Profiling \/ Starting \/ ScanStops
         \/ TraceClients \/ Fetcher \/ ClientsChange \/ Containers \/ Journal \/ JournalChanges
  PROVE  Still
<1> USE DEF core, Still, traced, fixed, channels, locks, scrape, tables, traffic, inner, GcLeaves, ProfilerLeaves
<1>1. CASE GcRead \/ RevalidateListens
  BY <1>1, Zenon DEF GcRead, GcReads, RevalidateListens
<1>2. CASE \E p \in Pids : Instrument(p)
  BY <1>2, Zenon DEF Instrument
<1>3. CASE AddTarget \/ Profile
  BY <1>3, Zenon DEF AddTarget, Profile
<1>4. CASE Profiling
  BY <1>4, Zenon DEF Profiling, FindTarget, Found, SendProfile
<1>5. CASE Starting \/ ScanStops
  BY <1>5, Zenon DEF Starting, ScanStops
<1>6. CASE TraceClients \/ Fetcher \/ ClientsChange
  BY <1>6, Zenon DEF TraceClients, Fetcher, ClientsChange
<1>7. CASE Containers
  BY <1>7, IdleAfter, Zenon DEF Containers
<1>8. CASE Journal \/ JournalChanges
  BY <1>8, Zenon DEF Journal, JournalChanges
<1> QED
  BY <1>1, <1>2, <1>3, <1>4, <1>5, <1>6, <1>7, <1>8

LEMMA BusyOrStill ==
  ASSUME Next
  PROVE  Busies \/ Still
<1>1. CASE ReadEvent \/ EmitMerged
  BY <1>1, Zenon DEF ReadEvent, EmitMerged, Busies, Buffers
<1>2. CASE HandleEvent
  BY <1>2, HandlersStill, Zenon DEF HandleEvent, Busies
<1>3. CASE Receive
  BY <1>3, HandlersStill, Zenon DEF Receive, Busies
<1>4. CASE Gc
  BY <1>4, OthersStill, Zenon DEF Gc, Busies
<1>5. CASE Processes \/ Scan \/ (\E s \in Scrapers : Scrape(s) \/ Scraping(s))
  BY <1>5, Zenon DEF Busies
<1>6. CASE \/ (\E p \in Pids : Instrument(p))
           \/ AddTarget \/ Profile \/ Profiling \/ Starting \/ ScanStops
           \/ TraceClients \/ Fetcher \/ ClientsChange \/ Containers \/ Journal \/ JournalChanges
  BY <1>6, OthersStill, Zenon
<1> QED
  BY <1>1, <1>2, <1>3, <1>4, <1>5, <1>6, Zenon DEF Next

-----------------------------------------------------------------------------
(* The traffic: what a step of the queues does.                              *)

LEMMA TailAt ==
  ASSUME NEW S, NEW q \in Seq(S), q # <<>>
  PROVE  /\ Tail(q) \in Seq(S) /\ 1 \in DOMAIN q /\ Head(q) = q[1] /\ Head(q) \in S
         /\ \A k \in DOMAIN Tail(q) : k + 1 \in DOMAIN q /\ k + 1 # 1 /\ Tail(q)[k] = q[k + 1]
         /\ \A j, k \in DOMAIN Tail(q) : j + 1 = k + 1 => j = k
<1>1. Len(q) \in Nat \ {0} /\ DOMAIN q = 1..Len(q)
  OBVIOUS
<1>2. Tail(q) \in Seq(S) /\ Len(Tail(q)) = Len(q) - 1
  BY <1>1
<1>3. DOMAIN Tail(q) = 1..(Len(q) - 1)
  BY <1>2
<1>4. 1 \in DOMAIN q /\ Head(q) = q[1] /\ q[1] \in S
  BY <1>1
<1>5. \A k \in DOMAIN Tail(q) : k + 1 \in DOMAIN q /\ k + 1 # 1 /\ Tail(q)[k] = q[k + 1]
  BY <1>1, <1>3
<1>6. \A j, k \in DOMAIN Tail(q) : j + 1 = k + 1 => j = k
  BY <1>1, <1>3
<1> QED
  BY <1>2, <1>4, <1>5, <1>6

LEMMA AppendAt ==
  ASSUME NEW S, NEW q \in Seq(S), NEW e \in S
  PROVE  /\ Append(q, e) \in Seq(S)
         /\ \A k \in DOMAIN Append(q, e) : \/ k \in DOMAIN q /\ Append(q, e)[k] = q[k]
                                           \/ k = Len(q) + 1 /\ Append(q, e)[k] = e
         /\ Len(q) + 1 \notin DOMAIN q
<1>1. Len(q) \in Nat /\ DOMAIN q = 1..Len(q)
  OBVIOUS
<1>2. Append(q, e) \in Seq(S) /\ Len(Append(q, e)) = Len(q) + 1
  OBVIOUS
<1>3. DOMAIN Append(q, e) = 1..(Len(q) + 1)
  BY <1>2
<1>4. \A k \in DOMAIN Append(q, e) : \/ k \in DOMAIN q /\ Append(q, e)[k] = q[k]
                                     \/ k = Len(q) + 1 /\ Append(q, e)[k] = e
  BY <1>1, <1>3
<1>5. Len(q) + 1 \notin DOMAIN q
  BY <1>1
<1> QED
  BY <1>2, <1>4, <1>5, Zenon

LEMMA Kinds ==
  /\ ConnEvents \cap ProcEvents = {}
  /\ \A g \in Conns : Event("open", g) \in ConnEvents /\ Event("close", g) \in ConnEvents
  /\ \A p \in Pids : /\ Event("start", p) \in ProcEvents /\ Event("exit", p) \in ProcEvents
                     /\ Event("listenOpen", p) \in ProcEvents /\ Event("listenClose", p) \in ProcEvents
  /\ \A e \in ConnEvents : e.id \in Conns /\ e.type \in {"open", "close"} /\ e = Event(e.type, e.id)
  /\ \A e \in ProcEvents : e.type \notin {"open", "close", "traffic"}
  BY DEF ConnEvents, ProcEvents, Event

LEMMA ConnsAre ==
  Conns \subseteq Nat /\ None \notin Conns /\ Never \notin Nat
  BY EventLoopAssumption DEF Conns, None, Never

\* Nothing new comes, and what comes once still does.
Passes == \A e \in ConnEvents : (Comes(e)' => Comes(e)) /\ (ComesOnce(e) => ComesOnce(e)')

\* The buffers of the processes and the scan: events of connections are not among theirs.
LEMMA OthersPass ==
  ASSUME bufs'["tcp"] = bufs["tcp"], UNCHANGED <<events, loop>>
  PROVE  Passes
  BY Zenon DEF Passes, Comes, ComesOnce, InLoop

LEMMA ProcEventPasses ==
  ASSUME Types, bufs'["tcp"] = bufs["tcp"], UNCHANGED loop,
         NEW f \in ProcEvents, events' = Append(events, f)
  PROVE  Passes /\ events' \in Seq(ConnEvents \union ProcEvents)
<1>1. events \in Seq(ConnEvents \union ProcEvents) /\ f \in ConnEvents \union ProcEvents
  BY Zenon DEF Types
<1>2. /\ Append(events, f) \in Seq(ConnEvents \union ProcEvents)
      /\ \A k \in DOMAIN Append(events, f) : \/ k \in DOMAIN events /\ Append(events, f)[k] = events[k]
                                             \/ k = Len(events) + 1 /\ Append(events, f)[k] = f
  BY <1>1, AppendAt, Zenon
<1>3. ASSUME NEW e \in ConnEvents
      PROVE  (Comes(e)' => Comes(e)) /\ (ComesOnce(e) => ComesOnce(e)')
  <2>1. e # f
    BY Kinds, Zenon
  <2>2. \A k \in DOMAIN events' : events'[k] = e => k \in DOMAIN events /\ events[k] = e
    BY <1>2, <2>1, Zenon
  <2>3. Comes(e)' => Comes(e)
    BY <2>2, Zenon DEF Comes, InLoop
  <2>4. ComesOnce(e) => ComesOnce(e)'
    BY <2>2, Zenon DEF ComesOnce, InLoop
  <2> QED
    BY <2>3, <2>4, Zenon
<1> QED
  BY <1>2, <1>3, Zenon DEF Passes

\* EmitMerged
LEMMA EmitPasses ==
  ASSUME Types, bufs["tcp"] # <<>>, events' = Append(events, Head(bufs["tcp"])),
         bufs' = [bufs EXCEPT !["tcp"] = Tail(@)], UNCHANGED loop
  PROVE  /\ Passes /\ events' \in Seq(ConnEvents \union ProcEvents)
         /\ bufs'["tcp"] \in Seq(ConnEvents)
<1> DEFINE q == bufs["tcp"]  h == Head(q)
<1>1. q \in Seq(ConnEvents) /\ events \in Seq(ConnEvents \union ProcEvents) /\ bufs'["tcp"] = Tail(q)
  BY Zenon DEF Types, Buffers
<1>2. /\ Tail(q) \in Seq(ConnEvents) /\ 1 \in DOMAIN q /\ h = q[1] /\ h \in ConnEvents
      /\ \A k \in DOMAIN Tail(q) : k + 1 \in DOMAIN q /\ k + 1 # 1 /\ Tail(q)[k] = q[k + 1]
      /\ \A j, k \in DOMAIN Tail(q) : j + 1 = k + 1 => j = k
  BY <1>1, TailAt, Zenon
<1>3. h \in ConnEvents \union ProcEvents
  BY <1>2, Zenon
<1>4. /\ events' \in Seq(ConnEvents \union ProcEvents)
      /\ \A k \in DOMAIN events' : \/ k \in DOMAIN events /\ events'[k] = events[k]
                                   \/ k = Len(events) + 1 /\ events'[k] = h
  BY <1>1, <1>3, AppendAt, Zenon
<1>5. ASSUME NEW e \in ConnEvents
      PROVE  (Comes(e)' => Comes(e)) /\ (ComesOnce(e) => ComesOnce(e)')
  <2>1. \A k \in DOMAIN events' : events'[k] = e => \/ k \in DOMAIN events /\ events[k] = e
                                                    \/ k = Len(events) + 1 /\ q[1] = e
    BY <1>2, <1>4, Zenon
  <2>2. \A k \in DOMAIN bufs'["tcp"] : bufs'["tcp"][k] = e => k + 1 \in DOMAIN q /\ q[k + 1] = e /\ k + 1 # 1
    BY <1>1, <1>2, Zenon
  <2>3. Comes(e)' => Comes(e)
    BY <1>2, <2>1, <2>2, Zenon DEF Comes, InLoop
  <2>4. ASSUME ComesOnce(e) PROVE ComesOnce(e)'
    <3>1. \A j, k \in DOMAIN q : q[j] = e /\ q[k] = e => j = k
      BY <2>4, Zenon DEF ComesOnce
    <3>2. \A j, k \in DOMAIN events : events[j] = e /\ events[k] = e => j = k
      BY <2>4, Zenon DEF ComesOnce
    <3>3. \A j \in DOMAIN q, k \in DOMAIN events : ~(q[j] = e /\ events[k] = e)
      BY <2>4, Zenon DEF ComesOnce
    <3>4. InLoop(e) => (\A k \in DOMAIN q : q[k] # e) /\ (\A k \in DOMAIN events : events[k] # e)
      BY <2>4, Zenon DEF ComesOnce
    <3>5. \A j, k \in DOMAIN bufs'["tcp"] : bufs'["tcp"][j] = e /\ bufs'["tcp"][k] = e => j = k
      <4> SUFFICES ASSUME NEW j \in DOMAIN bufs'["tcp"], NEW k \in DOMAIN bufs'["tcp"],
                          bufs'["tcp"][j] = e, bufs'["tcp"][k] = e
                   PROVE  j = k
        BY Zenon
      <4>1. j + 1 = k + 1
        BY <2>2, <3>1, Zenon
      <4> QED
        BY <4>1, <1>1, <1>2, Zenon
    <3>6. \A j, k \in DOMAIN events' : events'[j] = e /\ events'[k] = e => j = k
      BY <2>1, <3>2, <3>3, <1>2, Zenon
    <3>7. \A j \in DOMAIN bufs'["tcp"], k \in DOMAIN events' : ~(bufs'["tcp"][j] = e /\ events'[k] = e)
      <4> SUFFICES ASSUME NEW j \in DOMAIN bufs'["tcp"], NEW k \in DOMAIN events',
                          bufs'["tcp"][j] = e, events'[k] = e
                   PROVE  FALSE
        BY Zenon
      <4>1. j + 1 \in DOMAIN q /\ q[j + 1] = e /\ j + 1 # 1
        BY <2>2, Zenon
      <4>2. q[1] # e
        BY <4>1, <3>1, <1>2, Zenon
      <4> QED
        BY <4>1, <4>2, <2>1, <3>3, Zenon
    <3>8. InLoop(e)' => /\ \A k \in DOMAIN bufs'["tcp"] : bufs'["tcp"][k] # e
                        /\ \A k \in DOMAIN events' : events'[k] # e
      BY <2>1, <2>2, <3>4, <1>2, Zenon DEF InLoop
    <3> QED
      BY <3>5, <3>6, <3>7, <3>8, Zenon DEF ComesOnce
  <2> QED
    BY <2>3, <2>4, Zenon
<1> QED
  BY <1>1, <1>2, <1>4, <1>5, Zenon DEF Passes

LEMMA ReceivePasses ==
  ASSUME Types, events # <<>>, LoopReceives(Head(events)), events' = Tail(events), UNCHANGED bufs
  PROVE  /\ Passes /\ events' \in Seq(ConnEvents \union ProcEvents)
         /\ loop'.pc = "lock" /\ loop'.arg \in ConnEvents \union ProcEvents
<1>1. events \in Seq(ConnEvents \union ProcEvents)
  BY Zenon DEF Types
<1>2. /\ events' \in Seq(ConnEvents \union ProcEvents) /\ 1 \in DOMAIN events
      /\ Head(events) = events[1] /\ Head(events) \in ConnEvents \union ProcEvents
      /\ \A k \in DOMAIN events' : k + 1 \in DOMAIN events /\ k + 1 # 1 /\ events'[k] = events[k + 1]
      /\ \A j, k \in DOMAIN events' : j + 1 = k + 1 => j = k
  BY <1>1, TailAt, Zenon
<1>3. loop.pc = "select" /\ loop'.pc = "lock" /\ loop'.arg = events[1]
  BY <1>2, Zenon DEF LoopReceives, At
<1>4. \A e : ~InLoop(e) /\ (InLoop(e)' => events[1] = e)
  BY <1>3, Zenon DEF InLoop
<1>5. ASSUME NEW e \in ConnEvents
      PROVE  (Comes(e)' => Comes(e)) /\ (ComesOnce(e) => ComesOnce(e)')
  <2>1. Comes(e)' => Comes(e)
    BY <1>2, <1>4, Zenon DEF Comes
  <2>2. ASSUME ComesOnce(e) PROVE ComesOnce(e)'
    <3>1. \A j, k \in DOMAIN events : events[j] = e /\ events[k] = e => j = k
      BY <2>2, Zenon DEF ComesOnce
    <3>2. \A j \in DOMAIN bufs["tcp"], k \in DOMAIN events : ~(bufs["tcp"][j] = e /\ events[k] = e)
      BY <2>2, Zenon DEF ComesOnce
    <3>3. \A j, k \in DOMAIN events' : events'[j] = e /\ events'[k] = e => j = k
      <4> SUFFICES ASSUME NEW j \in DOMAIN events', NEW k \in DOMAIN events', events'[j] = e, events'[k] = e
                   PROVE  j = k
        BY Zenon
      <4>1. j + 1 = k + 1
        BY <3>1, <1>2, Zenon
      <4> QED
        BY <4>1, <1>2, Zenon
    <3>4. \A j \in DOMAIN bufs["tcp"], k \in DOMAIN events' : ~(bufs["tcp"][j] = e /\ events'[k] = e)
      BY <3>2, <1>2, Zenon
    <3>5. InLoop(e)' => (\A k \in DOMAIN bufs["tcp"] : bufs["tcp"][k] # e) /\ (\A k \in DOMAIN events' : events'[k] # e)
      BY <3>1, <3>2, <1>2, <1>4, Zenon
    <3>6. \A j, k \in DOMAIN bufs["tcp"] : bufs["tcp"][j] = e /\ bufs["tcp"][k] = e => j = k
      BY <2>2, Zenon DEF ComesOnce
    <3> QED
      BY <3>3, <3>4, <3>5, <3>6, Zenon DEF ComesOnce
  <2> QED
    BY <2>1, <2>2, Zenon
<1> QED
  BY <1>2, <1>3, <1>5, Zenon DEF Passes

\* A handler is done with its event.
LEMMA DonePasses ==
  ASSUME UNCHANGED <<bufs, events>>, loop'.pc # "lock"
  PROVE  /\ Passes
         /\ \A e \in ConnEvents : InLoop(e) /\ ComesOnce(e) => ~Comes(e)'
  BY Zenon DEF Passes, Comes, ComesOnce, InLoop

\* An event of the kernel is new.
LEMMA PostsNew ==
  ASSUME Types, NEW f \in ConnEvents, Posts("tcp", f), UNCHANGED <<events, loop>>
  PROVE  /\ bufs' = [bufs EXCEPT !["tcp"] = Append(bufs["tcp"], f)] /\ bufs'["tcp"] \in Seq(ConnEvents)
         /\ \A e \in ConnEvents : /\ Comes(e)' => Comes(e) \/ e = f
                                  /\ ComesOnce(e) /\ (e # f \/ ~Comes(e)) => ComesOnce(e)'
<1> DEFINE q == bufs["tcp"]
<1>1. q \in Seq(ConnEvents) /\ bufs' = [bufs EXCEPT !["tcp"] = Append(q, f)] /\ bufs'["tcp"] = Append(q, f)
  BY Zenon DEF Types, Buffers, Posts
<1>2. /\ Append(q, f) \in Seq(ConnEvents)
      /\ \A k \in DOMAIN Append(q, f) : \/ k \in DOMAIN q /\ Append(q, f)[k] = q[k]
                                        \/ k = Len(q) + 1 /\ Append(q, f)[k] = f
  BY <1>1, AppendAt, Zenon
<1>3. ASSUME NEW e \in ConnEvents
      PROVE  /\ Comes(e)' => Comes(e) \/ e = f
             /\ ComesOnce(e) /\ (e # f \/ ~Comes(e)) => ComesOnce(e)'
  <2>1. \A k \in DOMAIN bufs'["tcp"] : bufs'["tcp"][k] = e => \/ k \in DOMAIN q /\ q[k] = e
                                                              \/ k = Len(q) + 1 /\ e = f
    BY <1>1, <1>2, Zenon
  <2>2. Comes(e)' => Comes(e) \/ e = f
    BY <2>1, Zenon DEF Comes, InLoop
  <2>3. ComesOnce(e) /\ e # f => ComesOnce(e)'
    BY <2>1, Zenon DEF ComesOnce, InLoop
  <2>4. ComesOnce(e) /\ ~Comes(e) => ComesOnce(e)'
    BY <2>1, Zenon DEF Comes, ComesOnce, InLoop
  <2> QED
    BY <2>2, <2>3, <2>4
<1> QED
  BY <1>1, <1>2, <1>3, Zenon

-----------------------------------------------------------------------------
(* The traffic: the invariant is kept.                                       *)

LEMMA EventsKept ==
  ASSUME EventsInv, Passes, UNCHANGED <<fd, bytes, counted>>, conn'.gen \in {conn.gen, None}
  PROVE  EventsInv'
<1> SUFFICES ASSUME NEW g \in Conns
             PROVE  /\ Comes(Event("open", g))' => bytes'[g] # Never /\ counted'[g] = 0 /\ conn'.gen # g
                    /\ Comes(Event("close", g))' => bytes'[g] # Never /\ fd' # g
                    /\ ComesOnce(Event("open", g))'
  BY Zenon DEF EventsInv
<1>1. Event("open", g) \in ConnEvents /\ Event("close", g) \in ConnEvents
  BY Kinds, Zenon
<1>2. /\ Comes(Event("open", g)) => bytes[g] # Never /\ counted[g] = 0 /\ conn.gen # g
      /\ Comes(Event("close", g)) => bytes[g] # Never /\ fd # g
      /\ ComesOnce(Event("open", g))
  BY Zenon DEF EventsInv
<1>3. g # None
  BY ConnsAre, Zenon
<1> QED
  BY <1>1, <1>2, <1>3, Zenon DEF Passes

LEMMA BehindKept == ASSUME UNCHANGED <<bytes, conn, mixed>>, NEW u, Behind(u) PROVE Behind(u)'
  BY Zenon DEF Behind

LEMMA UpdatesKept ==
  ASSUME UpdatesInv, UNCHANGED <<scraper, statsLock, bytes, conn, mixed>>,
         UNCHANGED loop \/ (loop'.pc = "lock" => loop'.arg.type # "traffic")
  PROVE  UpdatesInv'
<1>1. CASE UNCHANGED loop
  BY <1>1, Zenon DEF UpdatesInv, Behind
<1>2. CASE loop'.pc = "lock" => loop'.arg.type # "traffic"
  BY <1>2, Zenon DEF UpdatesInv, Behind
<1> QED
  BY <1>1, <1>2, Zenon

LEMMA CountKept ==
  ASSUME CountInv, UNCHANGED <<fd, bytes, traffic>>
  PROVE  CountInv'
  BY Zenon DEF CountInv, TrafficCounted, traffic

\* A step of the queues.
LEMMA QueueStep ==
  ASSUME TrafficInv, Passes, Types', UNCHANGED <<fd, bytes, scraper, statsLock, traffic>>,
         UNCHANGED loop \/ (loop'.pc = "lock" => loop'.arg.type # "traffic")
  PROVE  TrafficInv'
<1>1. UNCHANGED <<conn, counted, mixed>>
  BY Zenon DEF traffic
<1>2. EventsInv'
  BY <1>1, EventsKept, Zenon DEF TrafficInv
<1>3. UpdatesInv'
  BY <1>1, UpdatesKept, Zenon DEF TrafficInv
<1>4. CountInv'
  BY CountKept, Zenon DEF TrafficInv
<1> QED
  BY <1>2, <1>3, <1>4 DEF TrafficInv

LEMMA StillStep ==
  ASSUME TrafficInv, Still
  PROVE  TrafficInv'
<1>1. UNCHANGED <<fd, bytes, bufs, events, scan, scraper, statsLock, traffic>>
  BY Zenon DEF Still, core
<1>2. UNCHANGED <<conn, counted, final, mixed>>
  BY <1>1, Zenon DEF traffic
<1>3. CASE UNCHANGED loop
  <2>1. Passes
    BY <1>1, <1>3, OthersPass, Zenon
  <2>2. Types'
    BY <1>1, <1>2, <1>3, Zenon DEF TrafficInv, Types
  <2> QED
    BY <1>1, <1>3, <2>1, <2>2, QueueStep, Zenon
<1>4. CASE LoopIdle'
  <2>1. \A e \in ConnEvents : ~InLoop(e)'
    BY <1>4, Kinds, Zenon DEF InLoop, LoopIdle
  <2>2. Passes
    BY <1>1, <2>1, Zenon DEF Passes, Comes, ComesOnce
  <2>3. Types'
    BY <1>1, <1>2, <1>4, Zenon DEF TrafficInv, Types, LoopIdle
  <2>4. loop'.pc = "lock" => loop'.arg.type # "traffic"
    BY <1>4, Zenon DEF LoopIdle
  <2> QED
    BY <1>1, <2>2, <2>3, <2>4, QueueStep, Zenon
<1> QED
  BY <1>3, <1>4, Zenon DEF Still

\* What the buffers of the processes hold changes.
LEMMA BuffersStep ==
  ASSUME TrafficInv, UNCHANGED <<fd, bytes, events, scan, scraper, statsLock, traffic, loop>>,
         DOMAIN bufs' = Buffers, bufs'["tcp"] = bufs["tcp"],
         bufs'["proc"] \in Seq(ProcEvents), bufs'["listen"] \in Seq(ProcEvents)
  PROVE  TrafficInv'
<1>1. UNCHANGED <<conn, counted, final, mixed>>
  BY Zenon DEF traffic
<1>2. Types'
  BY <1>1, Zenon DEF TrafficInv, Types
<1>3. Passes
  BY OthersPass, Zenon
<1> QED
  BY <1>2, <1>3, QueueStep, Zenon

LEMMA ProcessesStep ==
  ASSUME TrafficInv, Processes, ~(Open \/ Send \/ CloseFd)
  PROVE  TrafficInv'
<1>1. UNCHANGED <<events, scraper, statsLock, traffic, loop>>
  BY Zenon DEF Processes, channels, locks, scrape, tables
<1>2. /\ DOMAIN bufs = Buffers
      /\ bufs["proc"] \in Seq(ProcEvents) /\ bufs["listen"] \in Seq(ProcEvents)
  BY Zenon DEF TrafficInv, Types
<1>3. ASSUME NEW b \in {"proc", "listen"}, NEW q \in Seq(ProcEvents), bufs' = [bufs EXCEPT ![b] = q],
             UNCHANGED <<fd, bytes, scan>>
      PROVE  TrafficInv'
  <2>1. /\ DOMAIN bufs' = Buffers /\ bufs'["tcp"] = bufs["tcp"]
        /\ bufs'["proc"] \in Seq(ProcEvents) /\ bufs'["listen"] \in Seq(ProcEvents)
    BY <1>2, <1>3, Zenon DEF Buffers
  <2> QED
    BY <1>1, <1>3, <2>1, BuffersStep, Zenon
<1>4. ASSUME NEW b \in Buffers, LoseSample(b) PROVE TrafficInv'
  <2>1. b \in {"proc", "listen"} /\ bufs[b] \in Seq(ProcEvents) /\ bufs[b] # <<>>
    BY <1>2, <1>4, Zenon DEF LoseSample, Buffers
  <2>2. Tail(bufs[b]) \in Seq(ProcEvents)
    BY <2>1, TailAt, Zenon
  <2>3. bufs' = [bufs EXCEPT ![b] = Tail(bufs[b])] /\ UNCHANGED <<fd, bytes, scan>>
    BY <1>4, Zenon DEF LoseSample, fixed
  <2> QED
    BY <1>3, <2>1, <2>2, <2>3, Zenon
<1>5. ASSUME NEW p \in Pids, Listen(p) \/ Start(p) PROVE TrafficInv'
  <2>1. CASE Listen(p)
    <3>1. Append(bufs["listen"], Event("listenOpen", p)) \in Seq(ProcEvents)
      BY <1>2, Kinds
    <3>2. bufs' = [bufs EXCEPT !["listen"] = Append(bufs["listen"], Event("listenOpen", p))]
      BY <2>1, <1>2, Zenon DEF Listen, Posts, Buffers
    <3>3. UNCHANGED <<fd, bytes, scan>>
      BY <2>1, Zenon DEF Listen, Listening, fixed
    <3> QED
      BY <1>3, <3>1, <3>2, <3>3, Zenon
  <2>2. CASE Start(p)
    <3>1. Append(bufs["proc"], Event("start", p)) \in Seq(ProcEvents)
      BY <1>2, Kinds
    <3>2. bufs' = [bufs EXCEPT !["proc"] = Append(bufs["proc"], Event("start", p))]
      BY <2>2, <1>2, Zenon DEF Start, Posts, Buffers
    <3>3. UNCHANGED <<fd, bytes, scan>>
      BY <2>2, Zenon DEF Start, fixed
    <3> QED
      BY <1>3, <3>1, <3>2, <3>3, Zenon
  <2> QED
    BY <1>5, <2>1, <2>2, Zenon
<1>6. ASSUME NEW p \in Pids, Share(p) PROVE TrafficInv'
  <2>1. Still
    BY <1>1, <1>6, Zenon DEF Share, Listening, Still, core, fixed
  <2> QED
    BY <2>1, StillStep, Zenon
<1>7. ASSUME NEW p \in Pids PROVE bufs["listen"] \o Closes(p) \in Seq(ProcEvents)
  <2>1. Closes(p) \in Seq(ProcEvents)
    BY Kinds DEF Closes
  <2> QED
    BY <1>2, <2>1
<1>8. ASSUME NEW p \in Pids, CloseListen(p) PROVE TrafficInv'
  <2>1. bufs' = [bufs EXCEPT !["listen"] = bufs["listen"] \o Closes(p)]
    BY <1>8, <1>2, Zenon DEF CloseListen, Buffers
  <2>2. UNCHANGED <<fd, bytes, scan>>
    BY <1>8, Zenon DEF CloseListen, Listening, fixed
  <2> QED
    BY <1>3, <1>7, <2>1, <2>2, Zenon
<1>9. ASSUME NEW p \in Pids, Exit(p) PROVE TrafficInv'
  <2>1. Append(bufs["proc"], Event("exit", p)) \in Seq(ProcEvents)
    BY <1>2, Kinds
  <2>2. /\ DOMAIN bufs' = Buffers /\ bufs'["tcp"] = bufs["tcp"]
        /\ bufs'["proc"] = Append(bufs["proc"], Event("exit", p))
        /\ bufs'["listen"] = bufs["listen"] \o Closes(p)
    BY <1>9, <1>2, Zenon DEF Exit, Buffers
  <2>3. UNCHANGED <<fd, bytes, scan>>
    BY <1>9, Zenon DEF Exit, fixed
  <2> QED
    BY <1>1, <1>7, <2>1, <2>2, <2>3, BuffersStep, Zenon
<1> QED
  BY <1>4, <1>5, <1>6, <1>8, <1>9, Zenon DEF Processes

LEMMA ReadStep ==
  ASSUME TrafficInv, NEW b \in Buffers, Read(b)
  PROVE  TrafficInv'
<1>1. UNCHANGED <<fd, bytes, scan, scraper, statsLock, traffic, loop>>
  BY Zenon DEF Read, fixed, locks, scrape, tables
<1>2. UNCHANGED <<conn, counted, final, mixed>>
  BY <1>1, Zenon DEF traffic
<1>3. bufs[b] # <<>> /\ events' = Append(events, Head(bufs[b])) /\ bufs' = [bufs EXCEPT ![b] = Tail(bufs[b])]
  BY Zenon DEF Read
<1>4. /\ Types /\ DOMAIN bufs = Buffers /\ bufs["tcp"] \in Seq(ConnEvents)
      /\ bufs["proc"] \in Seq(ProcEvents) /\ bufs["listen"] \in Seq(ProcEvents)
  BY Zenon DEF TrafficInv, Types
<1>5. DOMAIN bufs' = Buffers /\ \A c \in Buffers : bufs'[c] = IF c = b THEN Tail(bufs[b]) ELSE bufs[c]
  BY <1>3, <1>4, Zenon
<1>6. "tcp" \in Buffers /\ "proc" \in Buffers /\ "listen" \in Buffers
  BY Zenon DEF Buffers
<1>7. CASE b = "tcp"
  <2>1. Passes /\ events' \in Seq(ConnEvents \union ProcEvents) /\ bufs'["tcp"] \in Seq(ConnEvents)
    BY <1>1, <1>3, <1>4, <1>7, EmitPasses, Zenon
  <2>2. bufs'["proc"] = bufs["proc"] /\ bufs'["listen"] = bufs["listen"]
    BY <1>5, <1>6, <1>7
  <2>3. Types'
    BY <1>1, <1>2, <1>4, <1>5, <2>1, <2>2, Zenon DEF Types
  <2> QED
    BY <1>1, <2>1, <2>3, QueueStep, Zenon
<1>8. CASE b # "tcp"
  <2>1. bufs[b] \in Seq(ProcEvents)
    BY <1>4, <1>8, Zenon DEF Buffers
  <2>2. Tail(bufs[b]) \in Seq(ProcEvents) /\ Head(bufs[b]) \in ProcEvents
    BY <1>3, <2>1, TailAt, Zenon
  <2>3. /\ bufs'["tcp"] = bufs["tcp"]
        /\ bufs'["proc"] \in Seq(ProcEvents) /\ bufs'["listen"] \in Seq(ProcEvents)
    BY <1>4, <1>5, <1>6, <1>8, <2>2, Zenon
  <2>4. Passes /\ events' \in Seq(ConnEvents \union ProcEvents)
    BY <1>1, <1>3, <1>4, <2>2, <2>3, ProcEventPasses, Zenon
  <2>5. Types'
    BY <1>1, <1>2, <1>4, <1>5, <2>3, <2>4, Zenon DEF Types
  <2> QED
    BY <1>1, <2>4, <2>5, QueueStep, Zenon
<1> QED
  BY <1>7, <1>8, Zenon

LEMMA ScanStep ==
  ASSUME TrafficInv, Scan
  PROVE  TrafficInv'
<1>1. UNCHANGED <<fd, bytes, bufs, scraper, statsLock, traffic, loop>>
  BY Zenon DEF Scan, inner, locks, scrape, tables
<1>2. UNCHANGED <<conn, counted, final, mixed>>
  BY <1>1, Zenon DEF traffic
<1>3. PICK e \in scan : events' = Append(events, e) /\ scan' = scan \ {e}
  BY Zenon DEF Scan
<1>4. Types /\ e \in ProcEvents /\ scan' \subseteq ProcEvents
  BY <1>3, Zenon DEF TrafficInv, Types
<1>5. Passes /\ events' \in Seq(ConnEvents \union ProcEvents)
  BY <1>1, <1>3, <1>4, ProcEventPasses, Zenon
<1>6. Types'
  BY <1>1, <1>2, <1>4, <1>5, Zenon DEF Types
<1> QED
  BY <1>1, <1>5, <1>6, QueueStep, Zenon

LEMMA ReceiveStep ==
  ASSUME TrafficInv, ReceiveEvent
  PROVE  TrafficInv'
<1>1. UNCHANGED <<fd, bytes, bufs, scan, scraper, statsLock, traffic>>
  BY Zenon DEF ReceiveEvent, traced, fixed, locks, scrape, tables
<1>2. UNCHANGED <<conn, counted, final, mixed>>
  BY <1>1, Zenon DEF traffic
<1>3. events # <<>> /\ LoopReceives(Head(events)) /\ events' = Tail(events)
  BY Zenon DEF ReceiveEvent
<1>4. Types
  BY Zenon DEF TrafficInv
<1>5. /\ Passes /\ events' \in Seq(ConnEvents \union ProcEvents)
      /\ loop'.pc = "lock" /\ loop'.arg \in ConnEvents \union ProcEvents
  BY <1>1, <1>3, <1>4, ReceivePasses, Zenon
<1>6. loop'.arg.type # "traffic" /\ (loop'.arg.type \in {"open", "close"} => loop'.arg \in ConnEvents)
  BY <1>5, Kinds, Zenon
<1>7. Types'
  BY <1>1, <1>2, <1>4, <1>5, <1>6, Zenon DEF Types
<1> QED
  BY <1>1, <1>5, <1>6, <1>7, QueueStep, Zenon

-----------------------------------------------------------------------------
(* The traffic: the connection is opened, used and closed.                   *)

\* The counters of the kernel only grow, and not those of a connection that is closed.
LEMMA Grow ==
  ASSUME TrafficInv, UNCHANGED <<scraper, statsLock, loop, traffic>>,
         bytes' \in [Conns -> Nat \union {Never}],
         \A h \in Conns : bytes[h] # Never => bytes'[h] # Never /\ bytes[h] <= bytes'[h],
         \A h \in final : bytes'[h] = bytes[h] /\ fd' # h
  PROVE  UpdatesInv' /\ CountInv'
<1>1. Types /\ UpdatesInv /\ CountInv /\ UNCHANGED <<conn, counted, final, mixed>>
  BY Zenon DEF TrafficInv, traffic
<1>2. bytes \in [Conns -> Nat \union {Never}] /\ counted \in [Conns -> Nat] /\ final \subseteq Conns
  BY <1>1, Zenon DEF Types
<1>3. conn.gen \in {None} \union Conns /\ conn.sent \in Nat
  BY <1>1, Zenon DEF Types
<1>4. ASSUME NEW u, Behind(u) PROVE Behind(u)'
  <2>1. u.from \in Conns /\ u.sent \in Nat /\ bytes[u.from] # Never /\ u.sent <= bytes[u.from]
    BY <1>4, Zenon DEF Behind
  <2>2. bytes[u.from] \in Nat /\ bytes'[u.from] \in Nat /\ bytes[u.from] <= bytes'[u.from]
    BY <1>2, <2>1, Zenon
  <2>3. u.sent <= bytes'[u.from] /\ bytes'[u.from] # Never
    BY <2>1, <2>2
  <2> QED
    BY <1>1, <1>4, <2>1, <2>3, Zenon DEF Behind
<1>5. UpdatesInv'
  BY <1>1, <1>4, Zenon DEF UpdatesInv
<1>6. conn.gen # None => bytes'[conn.gen] # Never /\ conn.sent <= counted[conn.gen]
  BY <1>1, <1>3, Zenon DEF CountInv
<1>7. conn.gen # None /\ conn.gen \notin mixed /\ ~conn.closed =>
        counted[conn.gen] = conn.sent /\ conn.sent <= bytes'[conn.gen]
  <2> SUFFICES ASSUME conn.gen # None, conn.gen \notin mixed, ~conn.closed
               PROVE  counted[conn.gen] = conn.sent /\ conn.sent <= bytes'[conn.gen]
    BY Zenon
  <2>1. counted[conn.gen] = conn.sent /\ conn.sent <= bytes[conn.gen] /\ bytes[conn.gen] # Never
    BY <1>1, Zenon DEF CountInv
  <2> QED
    BY <1>2, <1>3, <2>1
<1>8. \A g \in Conns : bytes'[g] = Never => counted[g] = 0
  BY <1>1, Zenon DEF CountInv
<1>9. \A g \in final : fd' # g /\ bytes'[g] # Never
  BY <1>1, <1>2, Zenon DEF CountInv
<1>10. ASSUME NEW g \in Conns
       PROVE  /\ g \in final => counted[g] >= bytes'[g]
              /\ g \notin mixed => counted[g] = 0 \/ counted[g] <= bytes'[g]
  <2>1. /\ g \in final => counted[g] >= bytes[g]
        /\ g \notin mixed => counted[g] = 0 \/ counted[g] <= bytes[g]
        /\ bytes[g] = Never => counted[g] = 0
    BY <1>1, Zenon DEF CountInv, TrafficCounted
  <2> QED
    BY <1>2, <2>1
<1>11. TrafficCounted'
  BY <1>1, <1>10, Zenon DEF TrafficCounted
<1>12. CountInv'
  BY <1>1, <1>6, <1>7, <1>8, <1>9, <1>11, Zenon DEF CountInv
<1> QED
  BY <1>5, <1>12, Zenon

LEMMA OpenStep ==
  ASSUME TrafficInv, Processes, Open
  PROVE  TrafficInv'
<1>1. UNCHANGED <<events, scraper, statsLock, traffic, loop, scan>>
  BY Zenon DEF Processes, Open, fixed, channels, locks, scrape, tables
<1>2. UNCHANGED <<conn, counted, final, mixed>>
  BY <1>1, Zenon DEF traffic
<1>3. PICK g \in Conns : /\ bytes[g] = Never /\ fd' = g /\ bytes' = [bytes EXCEPT ![g] = 0]
                         /\ Posts("tcp", Event("open", g))
  BY Zenon DEF Open
<1>4. Types /\ EventsInv /\ CountInv
  BY Zenon DEF TrafficInv
<1>5. bytes \in [Conns -> Nat \union {Never}] /\ DOMAIN bufs = Buffers
  BY <1>4, Zenon DEF Types
<1>6. /\ bytes' \in [Conns -> Nat \union {Never}] /\ bytes'[g] # Never
      /\ \A h \in Conns : h # g => bytes'[h] = bytes[h]
  BY <1>3, <1>5, ConnsAre
<1>7. \A h \in Conns : bytes[h] # Never => bytes'[h] # Never /\ bytes[h] <= bytes'[h]
  BY <1>3, <1>5, <1>6
<1>8. \A h \in final : bytes'[h] = bytes[h] /\ fd' # h
  BY <1>3, <1>4, <1>6, Zenon DEF CountInv, Types
<1>9. UpdatesInv' /\ CountInv'
  BY <1>1, <1>6, <1>7, <1>8, Grow, Zenon
<1>10. Event("open", g) \in ConnEvents
  BY Kinds, Zenon
<1>11. /\ bufs' = [bufs EXCEPT !["tcp"] = Append(bufs["tcp"], Event("open", g))]
       /\ bufs'["tcp"] \in Seq(ConnEvents)
       /\ \A e \in ConnEvents : /\ Comes(e)' => Comes(e) \/ e = Event("open", g)
                                /\ ComesOnce(e) /\ (e # Event("open", g) \/ ~Comes(e)) => ComesOnce(e)'
  BY <1>1, <1>3, <1>4, <1>10, PostsNew, Zenon
<1>12. /\ DOMAIN bufs' = Buffers
       /\ bufs'["proc"] = bufs["proc"] /\ bufs'["listen"] = bufs["listen"]
  BY <1>5, <1>11, Zenon DEF Buffers
<1>13. Types'
  BY <1>1, <1>2, <1>3, <1>4, <1>6, <1>11, <1>12, Zenon DEF Types
<1>14. ASSUME NEW h \in Conns
       PROVE  /\ Comes(Event("open", h))' => bytes'[h] # Never /\ counted'[h] = 0 /\ conn'.gen # h
              /\ Comes(Event("close", h))' => bytes'[h] # Never /\ fd' # h
              /\ ComesOnce(Event("open", h))'
  <2>1. Event("open", h) \in ConnEvents /\ Event("close", h) \in ConnEvents
    BY Kinds, Zenon
  <2>2. /\ Comes(Event("open", h)) => bytes[h] # Never /\ counted[h] = 0 /\ conn.gen # h
        /\ Comes(Event("close", h)) => bytes[h] # Never /\ fd # h
        /\ ComesOnce(Event("open", h))
    BY <1>4, Zenon DEF EventsInv
  <2>3. Event("close", h) # Event("open", g) /\ (Event("open", h) = Event("open", g) => h = g)
    BY Zenon DEF Event
  <2>4. counted[g] = 0 /\ conn.gen # g
    BY <1>3, <1>4, ConnsAre, Zenon DEF CountInv
  <2>5. Comes(Event("open", h))' => bytes'[h] # Never /\ counted'[h] = 0 /\ conn'.gen # h
    BY <1>2, <1>3, <1>6, <1>11, <2>1, <2>2, <2>3, <2>4, Zenon
  <2>6. Comes(Event("close", h))' => bytes'[h] # Never /\ fd' # h
    BY <1>3, <1>6, <1>11, <2>1, <2>2, <2>3, Zenon
  <2>7. ComesOnce(Event("open", h))'
    BY <1>3, <1>11, <2>1, <2>2, <2>3, Zenon
  <2> QED
    BY <2>5, <2>6, <2>7
<1>15. EventsInv'
  BY <1>14, Zenon DEF EventsInv
<1> QED
  BY <1>9, <1>13, <1>15 DEF TrafficInv

LEMMA SendStep ==
  ASSUME TrafficInv, Processes, Send
  PROVE  TrafficInv'
<1>1. UNCHANGED <<fd, bufs, events, scraper, statsLock, traffic, loop, scan>>
  BY Zenon DEF Processes, Send, fixed, channels, locks, scrape, tables
<1>2. UNCHANGED <<conn, counted, final, mixed>>
  BY <1>1, Zenon DEF traffic
<1>3. fd # None /\ bytes' = [bytes EXCEPT ![fd] = @ + 1]
  BY Zenon DEF Send
<1>4. Types /\ EventsInv /\ CountInv
  BY Zenon DEF TrafficInv
<1>5. bytes \in [Conns -> Nat \union {Never}] /\ fd \in Conns /\ bytes[fd] # Never
  BY <1>3, <1>4, Zenon DEF Types
<1>6. bytes[fd] \in Nat /\ bytes'[fd] = bytes[fd] + 1 /\ \A h \in Conns : h # fd => bytes'[h] = bytes[h]
  BY <1>3, <1>5, Zenon
<1>7. bytes' \in [Conns -> Nat \union {Never}] /\ bytes'[fd] \in Nat
  BY <1>3, <1>5, <1>6
<1>8. \A h \in Conns : bytes[h] # Never => bytes'[h] # Never /\ bytes[h] <= bytes'[h]
  BY <1>5, <1>6, <1>7, ConnsAre
<1>9. \A h \in final : bytes'[h] = bytes[h] /\ fd' # h
  BY <1>1, <1>4, <1>6, Zenon DEF CountInv, Types
<1>10. UpdatesInv' /\ CountInv'
  BY <1>1, <1>7, <1>8, <1>9, Grow, Zenon
<1>11. Types'
  BY <1>1, <1>2, <1>4, <1>5, <1>7, <1>8, Zenon DEF Types
<1>12. Passes
  BY <1>1, OthersPass, Zenon
<1>13. EventsInv'
  <2> SUFFICES ASSUME NEW h \in Conns
               PROVE  /\ Comes(Event("open", h))' => bytes'[h] # Never /\ counted'[h] = 0 /\ conn'.gen # h
                      /\ Comes(Event("close", h))' => bytes'[h] # Never /\ fd' # h
                      /\ ComesOnce(Event("open", h))'
    BY Zenon DEF EventsInv
  <2>1. Event("open", h) \in ConnEvents /\ Event("close", h) \in ConnEvents
    BY Kinds, Zenon
  <2>2. /\ Comes(Event("open", h)) => bytes[h] # Never /\ counted[h] = 0 /\ conn.gen # h
        /\ Comes(Event("close", h)) => bytes[h] # Never /\ fd # h
        /\ ComesOnce(Event("open", h))
    BY <1>4, Zenon DEF EventsInv
  <2> QED
    BY <1>1, <1>2, <1>8, <1>12, <2>1, <2>2, Zenon DEF Passes
<1> QED
  BY <1>10, <1>11, <1>13 DEF TrafficInv

LEMMA CloseFdStep ==
  ASSUME TrafficInv, Processes, CloseFd
  PROVE  TrafficInv'
<1>1. UNCHANGED <<bytes, events, scraper, statsLock, traffic, loop, scan>>
  BY Zenon DEF Processes, CloseFd, fixed, channels, locks, scrape, tables
<1>2. UNCHANGED <<conn, counted, final, mixed>>
  BY <1>1, Zenon DEF traffic
<1>3. fd # None /\ fd' = None /\ Posts("tcp", Event("close", fd))
  BY Zenon DEF CloseFd
<1>4. Types /\ EventsInv /\ CountInv
  BY DEF TrafficInv
<1>5. bytes \in [Conns -> Nat \union {Never}] /\ fd \in Conns /\ bytes[fd] # Never /\ DOMAIN bufs = Buffers
  BY <1>3, <1>4, Zenon DEF Types
<1>6. \A h \in Conns : bytes[h] # Never => bytes'[h] # Never /\ bytes[h] <= bytes'[h]
  BY <1>1, <1>5
<1>7. \A h \in final : bytes'[h] = bytes[h] /\ fd' # h
  BY <1>1, <1>3, <1>4, ConnsAre DEF Types
<1>8. UpdatesInv' /\ CountInv'
  BY <1>1, <1>5, <1>6, <1>7, Grow, Zenon
<1>9. Event("close", fd) \in ConnEvents
  BY <1>5, Kinds, Zenon
<1>10. /\ bufs' = [bufs EXCEPT !["tcp"] = Append(bufs["tcp"], Event("close", fd))]
       /\ bufs'["tcp"] \in Seq(ConnEvents)
       /\ \A e \in ConnEvents : /\ Comes(e)' => Comes(e) \/ e = Event("close", fd)
                                /\ ComesOnce(e) /\ (e # Event("close", fd) \/ ~Comes(e)) => ComesOnce(e)'
  BY <1>1, <1>3, <1>4, <1>9, PostsNew, Zenon
<1>11. /\ DOMAIN bufs' = Buffers
       /\ bufs'["proc"] = bufs["proc"] /\ bufs'["listen"] = bufs["listen"]
  BY <1>5, <1>10, Zenon DEF Buffers
<1>12. fd' \in {None} \union Conns
  BY <1>3, Zenon
<1>13. Types'
  BY <1>1, <1>2, <1>3, <1>4, <1>10, <1>11, <1>12, Zenon DEF Types
<1>14. ASSUME NEW h \in Conns
       PROVE  /\ Comes(Event("open", h))' => bytes'[h] # Never /\ counted'[h] = 0 /\ conn'.gen # h
              /\ Comes(Event("close", h))' => bytes'[h] # Never /\ fd' # h
              /\ ComesOnce(Event("open", h))'
  <2>1. Event("open", h) \in ConnEvents /\ Event("close", h) \in ConnEvents
    BY Kinds
  <2>2. /\ Comes(Event("open", h)) => bytes[h] # Never /\ counted[h] = 0 /\ conn.gen # h
        /\ Comes(Event("close", h)) => bytes[h] # Never /\ fd # h
        /\ ComesOnce(Event("open", h))
    BY <1>4, Zenon DEF EventsInv
  <2>3. Event("open", h) # Event("close", fd) /\ (Event("close", h) = Event("close", fd) => h = fd)
    BY Zenon DEF Event
  <2>4. h # None
    BY ConnsAre, Zenon
  <2>5. Comes(Event("open", h))' => bytes'[h] # Never /\ counted'[h] = 0 /\ conn'.gen # h
    BY <1>1, <1>2, <1>10, <2>1, <2>2, <2>3, Zenon
  <2>6. Comes(Event("close", h))' => bytes'[h] # Never /\ fd' # h
    BY <1>1, <1>3, <1>5, <1>10, <2>1, <2>2, <2>3, <2>4, Zenon
  <2>7. ComesOnce(Event("open", h))'
    BY <1>10, <2>1, <2>2, <2>3, Zenon
  <2> QED
    BY <2>5, <2>6, <2>7
<1>15. EventsInv'
  BY <1>14, Zenon DEF EventsInv
<1> QED
  BY <1>8, <1>13, <1>15 DEF TrafficInv

-----------------------------------------------------------------------------
(* The traffic: the handlers, which are done with what they had in hand.     *)

\* The loop has an event of a connection: which one it is, and what it is left alone.
LEMMA Handles ==
  ASSUME TrafficInv, NEW type \in {"open", "close"}, LoopLocked(type), LoopDone, Unlocked
  PROVE  /\ UNCHANGED <<fd, bytes, bufs, events, scan, scraper, statsLock>>
         /\ loop.arg.id \in Conns /\ loop.arg = Event(type, loop.arg.id) /\ InLoop(Event(type, loop.arg.id))
         /\ loop'.pc # "lock" /\ Passes
<1>1. UNCHANGED <<fd, bytes, bufs, events, scan, scraper, statsLock>>
  BY Zenon DEF Unlocked, traced, fixed, channels, locks, scrape
<1>2. loop.pc = "lock" /\ loop.arg.type = type
  BY Zenon DEF LoopLocked
<1>3. loop.arg \in ConnEvents
  BY <1>2, Zenon DEF TrafficInv, Types
<1>4. loop.arg.id \in Conns /\ loop.arg = Event(type, loop.arg.id)
  BY <1>2, <1>3, Kinds, Zenon
<1>5. InLoop(Event(type, loop.arg.id))
  BY <1>2, <1>4, Zenon DEF InLoop
<1>6. loop'.pc # "lock"
  BY Zenon DEF LoopDone, At
<1> QED
  BY <1>1, <1>4, <1>5, <1>6, DonePasses, Zenon

LEMMA OnOpenStep ==
  ASSUME TrafficInv, OnConnectionOpen
  PROVE  TrafficInv'
<1>1. /\ LoopLocked("open") /\ LoopDone /\ Unlocked /\ UNCHANGED <<counted, final, mixed>>
      /\ conn' = [gen |-> loop.arg.id, sent |-> 0, closed |-> FALSE]
  BY Zenon DEF OnConnectionOpen
<1>2. PICK g \in Conns :
        /\ UNCHANGED <<fd, bytes, bufs, events, scan, scraper, statsLock>>
        /\ loop.arg.id = g /\ InLoop(Event("open", g)) /\ loop'.pc # "lock" /\ Passes
  BY <1>1, Handles, Zenon
<1>3. Types /\ EventsInv /\ UpdatesInv /\ CountInv
  BY Zenon DEF TrafficInv
<1>4. Event("open", g) \in ConnEvents
  BY Kinds, Zenon
<1>5. bytes[g] # Never /\ counted[g] = 0 /\ ComesOnce(Event("open", g))
  BY <1>2, <1>3, Zenon DEF EventsInv, Comes
<1>6. ~Comes(Event("open", g))'
  BY <1>2, <1>4, <1>5, DonePasses, Zenon
<1>7. bytes[g] \in Nat /\ g # None
  BY <1>2, <1>3, <1>5, ConnsAre DEF Types
<1>8. conn'.gen = g /\ conn'.sent = 0 /\ ~conn'.closed /\ conn' \in [gen : {None} \union Conns, sent : Nat, closed : BOOLEAN]
  BY <1>1, <1>2, Zenon
<1>9. Types'
  BY <1>1, <1>2, <1>3, <1>8, Zenon DEF Types
<1>10. EventsInv'
  <2> SUFFICES ASSUME NEW h \in Conns
               PROVE  /\ Comes(Event("open", h))' => bytes'[h] # Never /\ counted'[h] = 0 /\ conn'.gen # h
                      /\ Comes(Event("close", h))' => bytes'[h] # Never /\ fd' # h
                      /\ ComesOnce(Event("open", h))'
    BY Zenon DEF EventsInv
  <2>1. Event("open", h) \in ConnEvents /\ Event("close", h) \in ConnEvents
    BY Kinds, Zenon
  <2>2. /\ Comes(Event("open", h)) => bytes[h] # Never /\ counted[h] = 0
        /\ Comes(Event("close", h)) => bytes[h] # Never /\ fd # h
        /\ ComesOnce(Event("open", h))
    BY <1>3, Zenon DEF EventsInv
  <2> QED
    BY <1>1, <1>2, <1>6, <1>8, <2>1, <2>2, Zenon DEF Passes
<1>11. ASSUME NEW u, Behind(u) PROVE Behind(u)'
  <2>1. u.sent \in Nat
    BY <1>11, Zenon DEF Behind
  <2>2. 0 <= u.sent
    BY <2>1
  <2> QED
    BY <1>1, <1>2, <1>8, <1>11, <2>2, Zenon DEF Behind
<1>12. UpdatesInv'
  BY <1>2, <1>3, <1>11, Zenon DEF UpdatesInv
<1>13. 0 <= bytes[g] /\ 0 <= counted[g]
  BY <1>5, <1>7
<1>14. CountInv'
  BY <1>1, <1>2, <1>3, <1>5, <1>8, <1>13, Zenon DEF CountInv, TrafficCounted
<1> QED
  BY <1>9, <1>10, <1>12, <1>14 DEF TrafficInv

\* updateConnectionTrafficStats: what is counted covers n, and is n if nothing else was counted.
LEMMA CountedIs ==
  ASSUME Types, conn.gen # None, conn.sent <= counted[conn.gen], NEW n \in Nat
  PROVE  /\ Counted(n) \in [Conns -> Nat]
         /\ \A h \in Conns : h # conn.gen => Counted(n)[h] = counted[h]
         /\ Counted(n)[conn.gen] >= counted[conn.gen] /\ Counted(n)[conn.gen] >= n
         /\ n <= conn.sent => Counted(n)[conn.gen] = counted[conn.gen]
         /\ counted[conn.gen] = conn.sent /\ conn.sent <= n => Counted(n)[conn.gen] = n
<1>1. counted \in [Conns -> Nat] /\ conn.gen \in Conns /\ conn.sent \in Nat
  BY Zenon DEF Types
<1>2. counted[conn.gen] \in Nat
  BY <1>1, Zenon
<1>3. Counted(n)[conn.gen] = counted[conn.gen] + (IF n > conn.sent THEN n - conn.sent ELSE 0)
  BY <1>1, Zenon DEF Counted
<1>4. \A h \in Conns : h # conn.gen => Counted(n)[h] = counted[h]
  BY <1>1, Zenon DEF Counted
<1>5. Counted(n)[conn.gen] \in Nat
  BY <1>1, <1>2, <1>3
<1>6. Counted(n) \in [Conns -> Nat]
  BY <1>1, <1>3, <1>5, Zenon DEF Counted
<1> QED
  BY <1>1, <1>2, <1>3, <1>4, <1>6

LEMMA OnCloseStep ==
  ASSUME TrafficInv, OnConnectionClose
  PROVE  TrafficInv'
<1>1. LoopLocked("close") /\ LoopDone /\ Unlocked
  BY Zenon DEF OnConnectionClose
<1>2. PICK g \in Conns :
        /\ UNCHANGED <<fd, bytes, bufs, events, scan, scraper, statsLock>>
        /\ loop.arg.id = g /\ InLoop(Event("close", g)) /\ loop'.pc # "lock" /\ Passes
  BY <1>1, Handles, Zenon
<1>3. Types /\ EventsInv /\ UpdatesInv /\ CountInv
  BY DEF TrafficInv
<1>4. CASE ~(conn.gen = g /\ ~conn.closed)
  <2>1. UNCHANGED traffic
    BY <1>2, <1>4, Zenon DEF OnConnectionClose
  <2>2. Types'
    BY <1>2, <1>3, <2>1, Zenon DEF Types, traffic
  <2> QED
    BY <1>2, <2>1, <2>2, QueueStep, Zenon
<1>5. CASE conn.gen = g /\ ~conn.closed
  <2>1. /\ counted' = Counted(bytes[g]) /\ conn' = [conn EXCEPT !.sent = bytes[g], !.closed = TRUE]
        /\ final' = final \union {g} /\ UNCHANGED mixed
    BY <1>2, <1>5, Zenon DEF OnConnectionClose
  <2>2. bytes[g] # Never /\ fd # g
    BY <1>2, <1>3, Zenon DEF EventsInv, Comes
  <2>3. bytes[g] \in Nat /\ g # None /\ conn.sent \in Nat /\ final \subseteq Conns /\ counted \in [Conns -> Nat]
    BY <1>3, <2>2, ConnsAre DEF Types
  <2>4. conn' \in [gen : {None} \union Conns, sent : Nat, closed : BOOLEAN]
    BY <1>3, <2>1, <2>3, Zenon DEF Types
  <2>5. conn'.gen = g /\ conn'.sent = bytes[g] /\ conn'.closed
    BY <1>3, <1>5, <2>1 DEF Types
  <2>6. conn.sent <= counted[g] /\ (g \notin mixed => counted[g] = conn.sent /\ conn.sent <= bytes[g])
    BY <1>3, <1>5, <2>3, Zenon DEF CountInv
  <2>7. /\ counted' \in [Conns -> Nat] /\ \A h \in Conns : h # g => counted'[h] = counted[h]
        /\ counted'[g] >= bytes[g] /\ (g \notin mixed => counted'[g] = bytes[g])
    BY <1>3, <1>5, <2>1, <2>3, <2>6, CountedIs
  <2>8. final' \subseteq Conns
    BY <2>1, <2>3, Zenon
  <2>9. Types'
    BY <1>2, <1>3, <2>4, <2>7, <2>8, Zenon DEF Types
  <2>10. EventsInv'
    <3> SUFFICES ASSUME NEW h \in Conns
                 PROVE  /\ Comes(Event("open", h))' => bytes'[h] # Never /\ counted'[h] = 0 /\ conn'.gen # h
                        /\ Comes(Event("close", h))' => bytes'[h] # Never /\ fd' # h
                        /\ ComesOnce(Event("open", h))'
      BY Zenon DEF EventsInv
    <3>1. Event("open", h) \in ConnEvents /\ Event("close", h) \in ConnEvents
      BY Kinds
    <3>2. /\ Comes(Event("open", h)) => bytes[h] # Never /\ counted[h] = 0 /\ conn.gen # h
          /\ Comes(Event("close", h)) => bytes[h] # Never /\ fd # h
          /\ ComesOnce(Event("open", h))
      BY <1>3, Zenon DEF EventsInv
    <3> QED
      BY <1>2, <1>5, <2>5, <2>7, <3>1, <3>2, Zenon DEF Passes
  <2>11. ASSUME NEW u, Behind(u) PROVE Behind(u)'
    BY <1>2, <2>1, <2>5, <2>11, Zenon DEF Behind
  <2>12. UpdatesInv'
    BY <1>2, <1>3, <2>11, Zenon DEF UpdatesInv
  <2>13. TrafficCounted'
    <3> SUFFICES ASSUME NEW h \in Conns
                 PROVE  /\ h \in final' => counted'[h] >= bytes'[h]
                        /\ h \notin mixed' => counted'[h] = 0 \/ counted'[h] <= bytes'[h]
      BY Zenon DEF TrafficCounted
    <3>1. /\ h \in final => counted[h] >= bytes[h]
          /\ h \notin mixed => counted[h] = 0 \/ counted[h] <= bytes[h]
      BY <1>3, Zenon DEF CountInv, TrafficCounted
    <3>2. CASE h # g
      BY <1>2, <2>1, <2>7, <3>1, <3>2
    <3>3. CASE h = g
      BY <1>2, <2>1, <2>3, <2>7, <3>3
    <3> QED
      BY <3>2, <3>3, Zenon
  <2>14. \A h \in final' : fd' # h /\ bytes'[h] # Never
    BY <1>2, <1>3, <2>1, <2>2 DEF CountInv
  <2>15. \A h \in Conns : bytes'[h] = Never => counted'[h] = 0
    BY <1>2, <1>3, <2>2, <2>7, Zenon DEF CountInv
  <2>16. conn'.gen \in final' /\ bytes'[conn'.gen] # Never /\ conn'.sent <= counted'[conn'.gen]
    BY <1>2, <2>1, <2>2, <2>3, <2>5, <2>7
  <2>17. CountInv'
    BY <2>5, <2>13, <2>14, <2>15, <2>16, Zenon DEF CountInv
  <2> QED
    BY <2>9, <2>10, <2>12, <2>17 DEF TrafficInv
<1> QED
  BY <1>4, <1>5, Zenon

\* Every update of a scrape that is applied leaves at least its counter counted; a foreign one
\* makes the connection mixed.
LEMMA UpdateStep ==
  ASSUME TrafficInv, UpdateTrafficStats
  PROVE  TrafficInv'
<1>1. LoopLocked("traffic") /\ LoopDone /\ Unlocked
  BY Zenon DEF UpdateTrafficStats
<1>2. loop.pc = "lock" /\ loop.arg.type = "traffic"
  BY <1>1, Zenon DEF LoopLocked
<1>3. loop'.pc # "lock"
  BY <1>1, Zenon DEF LoopDone, At
<1>4. UNCHANGED <<fd, bytes, bufs, events, scan, scraper, statsLock>>
  BY <1>1, Zenon DEF Unlocked, traced, fixed, channels, locks, scrape
<1>5. Passes
  BY <1>3, <1>4, DonePasses, Zenon
<1>6. Types /\ EventsInv /\ UpdatesInv /\ CountInv
  BY Zenon DEF TrafficInv
<1>7. CASE conn.gen = None
  <2>1. UNCHANGED traffic
    BY <1>7, Zenon DEF UpdateTrafficStats
  <2>2. Types'
    BY <1>3, <1>4, <1>6, <2>1, Zenon DEF Types, traffic
  <2> QED
    BY <1>3, <1>4, <1>5, <2>1, <2>2, QueueStep, Zenon
<1>8. CASE conn.gen # None
  <2>1. PICK g, n, f : g = conn.gen /\ n = loop.arg.sent /\ f = loop.arg.from
    BY Zenon
  <2>2. /\ counted' = Counted(n) /\ conn' = [conn EXCEPT !.sent = n]
        /\ mixed' = mixed \union (IF f # g THEN {g} ELSE {}) /\ UNCHANGED final
    BY <1>8, <2>1, Zenon DEF UpdateTrafficStats
  <2>3. /\ f \in Conns /\ n \in Nat /\ bytes[f] # Never /\ n <= bytes[f]
        /\ f = g /\ g \notin mixed => IF conn.closed THEN n <= conn.sent ELSE conn.sent <= n
    BY <1>2, <1>6, <2>1, Zenon DEF UpdatesInv, Behind
  <2>4. g \in Conns /\ conn.sent \in Nat /\ counted \in [Conns -> Nat] /\ conn.closed \in BOOLEAN
    BY <1>6, <1>8, <2>1 DEF Types
  <2>5. conn' \in [gen : {None} \union Conns, sent : Nat, closed : BOOLEAN]
    BY <1>6, <2>2, <2>3, Zenon DEF Types
  <2>6. conn'.gen = g /\ conn'.sent = n /\ conn'.closed = conn.closed
    BY <1>6, <2>1, <2>2 DEF Types
  <2>7. /\ conn.sent <= counted[g] /\ bytes[g] # Never
        /\ g \notin mixed /\ ~conn.closed => counted[g] = conn.sent
    BY <1>6, <1>8, <2>1, Zenon DEF CountInv
  <2>8. /\ counted' \in [Conns -> Nat] /\ \A h \in Conns : h # g => counted'[h] = counted[h]
        /\ counted'[g] >= counted[g] /\ counted'[g] >= n
        /\ n <= conn.sent => counted'[g] = counted[g]
        /\ counted[g] = conn.sent /\ conn.sent <= n => counted'[g] = n
    BY <1>6, <1>8, <2>1, <2>2, <2>3, <2>7, CountedIs
  <2>9. Types'
    BY <1>3, <1>4, <1>6, <2>2, <2>5, <2>8, Zenon DEF Types
  <2>10. \A h \in mixed : h \in mixed'
    BY <2>2, Zenon
  <2>11. g \notin mixed' => f = g /\ g \notin mixed
    BY <2>2, Zenon
  <2>12. EventsInv'
    <3> SUFFICES ASSUME NEW h \in Conns
                 PROVE  /\ Comes(Event("open", h))' => bytes'[h] # Never /\ counted'[h] = 0 /\ conn'.gen # h
                        /\ Comes(Event("close", h))' => bytes'[h] # Never /\ fd' # h
                        /\ ComesOnce(Event("open", h))'
      BY Zenon DEF EventsInv
    <3>1. Event("open", h) \in ConnEvents /\ Event("close", h) \in ConnEvents
      BY Kinds, Zenon
    <3>2. /\ Comes(Event("open", h)) => bytes[h] # Never /\ counted[h] = 0 /\ conn.gen # h
          /\ Comes(Event("close", h)) => bytes[h] # Never /\ fd # h
          /\ ComesOnce(Event("open", h))
      BY <1>6, Zenon DEF EventsInv
    <3> QED
      BY <1>4, <1>5, <2>1, <2>6, <2>8, <3>1, <3>2, Zenon DEF Passes
  <2>13. ASSUME NEW s \in Scrapers, scraper[s].pc = "send" PROVE Behind(scraper[s].arg)'
    <3>1. PICK u : u = scraper[s].arg
      BY Zenon
    <3>2. Behind(u) /\ (f = u.from => n <= u.sent /\ ~(conn.closed /\ g = f))
      BY <1>2, <1>6, <2>1, <2>13, <3>1, Zenon DEF UpdatesInv
    <3>3. u.from = g /\ u.from \notin mixed' => IF conn.closed THEN u.sent <= n ELSE n <= u.sent
      BY <2>11, <3>2, Zenon
    <3>4. Behind(u)'
      <4>1. CASE conn.closed
        <5>1. conn'.closed
          BY <2>6, <4>1, Zenon
        <5>2. u.from = conn'.gen /\ u.from \notin mixed' => u.sent <= conn'.sent
          BY <2>6, <3>3, <4>1, Zenon
        <5> QED
          BY <1>4, <3>2, <5>1, <5>2, Zenon DEF Behind
      <4>2. CASE ~conn.closed
        <5>1. ~conn'.closed
          BY <2>6, <4>2, Zenon
        <5>2. u.from = conn'.gen /\ u.from \notin mixed' => conn'.sent <= u.sent
          BY <2>6, <3>3, <4>2, Zenon
        <5> QED
          BY <1>4, <3>2, <5>1, <5>2, Zenon DEF Behind
      <4> QED
        BY <4>1, <4>2, Zenon
    <3> QED
      BY <1>4, <3>1, <3>4, Zenon
  <2>14. UpdatesInv'
    BY <1>3, <1>4, <1>6, <2>13, Zenon DEF UpdatesInv
  <2>15. bytes[g] \in Nat
    BY <1>6, <2>4, <2>7 DEF Types
  <2>16. g \notin mixed' /\ ~conn.closed => counted'[g] = n /\ n <= bytes[g]
    BY <2>3, <2>7, <2>8, <2>11, Zenon
  <2>17. TrafficCounted'
    <3> SUFFICES ASSUME NEW h \in Conns
                 PROVE  /\ h \in final' => counted'[h] >= bytes'[h]
                        /\ h \notin mixed' => counted'[h] = 0 \/ counted'[h] <= bytes'[h]
      BY Zenon DEF TrafficCounted
    <3>1. /\ h \in final => counted[h] >= bytes[h]
          /\ h \notin mixed => counted[h] = 0 \/ counted[h] <= bytes[h]
      BY <1>6, Zenon DEF CountInv, TrafficCounted
    <3>2. CASE h # g
      BY <1>4, <2>2, <2>8, <2>10, <3>1, <3>2, Zenon
    <3>3. CASE h = g
      <4>1. counted[g] \in Nat /\ counted'[g] \in Nat
        BY <2>4, <2>8
      <4>2. h \in final' => counted'[h] >= bytes'[h]
        BY <1>4, <2>2, <2>8, <2>15, <3>1, <3>3, <4>1
      <4>3. g \notin mixed' /\ conn.closed => counted'[g] = counted[g]
        BY <2>3, <2>8, <2>11, Zenon
      <4>4. h \notin mixed' => counted'[h] = 0 \/ counted'[h] <= bytes'[h]
        BY <1>4, <2>4, <2>11, <2>16, <3>1, <3>3, <4>3, Zenon
      <4> QED
        BY <4>2, <4>4
    <3> QED
      BY <3>2, <3>3
  <2>18. \A h \in Conns : bytes'[h] = Never => counted'[h] = 0
    BY <1>4, <1>6, <2>7, <2>8, Zenon DEF CountInv
  <2>19. bytes'[conn'.gen] # Never /\ conn'.sent <= counted'[conn'.gen]
    BY <1>4, <2>3, <2>4, <2>6, <2>7, <2>8
  <2>20. conn'.gen \notin mixed' /\ ~conn'.closed => counted'[conn'.gen] = conn'.sent /\ conn'.sent <= bytes'[conn'.gen]
    BY <1>4, <2>6, <2>16, Zenon
  <2>21. conn'.closed => conn'.gen \in final'
    <3>1. conn.closed => g \in final
      BY <1>6, <2>1, Zenon DEF CountInv
    <3> QED
      BY <2>2, <2>6, <3>1, Zenon
  <2>22. \A h \in final' : fd' # h /\ bytes'[h] # Never
    BY <1>4, <1>6, <2>2, Zenon DEF CountInv
  <2>23. CountInv'
    BY <2>17, <2>18, <2>19, <2>20, <2>21, <2>22, Zenon DEF CountInv
  <2> QED
    BY <2>9, <2>12, <2>14, <2>23 DEF TrafficInv
<1> QED
  BY <1>7, <1>8, Zenon

\* gc forgets a connection that is not established.
LEMMA GcStep ==
  ASSUME TrafficInv, GcConnections
  PROVE  TrafficInv'
<1>1. /\ UNCHANGED <<fd, bytes, bufs, events, scan, scraper, statsLock, loop, counted, final, mixed>>
      /\ conn' = NoConn
  BY Zenon DEF GcConnections, GcLeaves, traced, fixed, channels, scrape
<1>2. conn'.gen = None /\ conn'.closed = FALSE /\ conn' \in [gen : {None} \union Conns, sent : Nat, closed : BOOLEAN]
  BY <1>1, Zenon DEF NoConn
<1>3. Types /\ EventsInv /\ UpdatesInv /\ CountInv
  BY DEF TrafficInv
<1>4. Types'
  BY <1>1, <1>2, <1>3, Zenon DEF Types
<1>5. Passes
  BY <1>1, OthersPass, Zenon
<1>6. EventsInv'
  BY <1>1, <1>2, <1>3, <1>5, EventsKept, Zenon
<1>7. ASSUME NEW u, Behind(u) PROVE Behind(u)'
  BY <1>1, <1>2, <1>7, ConnsAre, Zenon DEF Behind
<1>8. UpdatesInv'
  BY <1>1, <1>2, <1>3, <1>7, Zenon DEF UpdatesInv
<1>9. CountInv'
  BY <1>1, <1>2, <1>3, Zenon DEF CountInv, TrafficCounted
<1> QED
  BY <1>4, <1>6, <1>8, <1>9 DEF TrafficInv

-----------------------------------------------------------------------------
(* The traffic: a scrape.                                                    *)

\* The scrape that moves is the only one that has ebpfStatsLock, or does not take part.
LEMMA ScraperMoves ==
  ASSUME Types, NEW s \in Scrapers, NEW pc, NEW arg, Moves(s, pc, arg)
  PROVE  /\ DOMAIN scraper' = Scrapers /\ scraper'[s].pc = pc /\ scraper'[s].arg = arg
         /\ \A t \in Scrapers : t # s => scraper'[t] = scraper[t]
<1>1. DOMAIN scraper = Scrapers /\ scraper' = [scraper EXCEPT ![s] = At(pc, arg)]
  BY Zenon DEF Types, Moves
<1>2. scraper'[s] = At(pc, arg)
  BY <1>1, Zenon
<1>3. scraper'[s].pc = pc /\ scraper'[s].arg = arg
  BY <1>2 DEF At
<1> QED
  BY <1>1, <1>3, Zenon

\* A scrape that sends nothing.
LEMMA QuietScrape ==
  ASSUME TrafficInv, UNCHANGED <<fd, bytes, bufs, events, scan, traffic, loop>>,
         NEW s \in Scrapers, NEW pc, NEW arg, Moves(s, pc, arg), pc # "send",
         \/ UNCHANGED statsLock /\ (pc \in {"iterate", "end"} => scraper[s].pc \in {"iterate", "send", "end"})
         \/ statsLock = Free /\ statsLock' = s
  PROVE  TrafficInv'
<1>1. Types /\ EventsInv /\ UpdatesInv /\ CountInv /\ UNCHANGED <<conn, counted, final, mixed>>
  BY Zenon DEF TrafficInv, traffic
<1>2. /\ DOMAIN scraper' = Scrapers /\ scraper'[s].pc = pc
      /\ \A t \in Scrapers : t # s => scraper'[t] = scraper[t]
  BY <1>1, ScraperMoves, Zenon
<1>3. Types'
  BY <1>1, <1>2, Zenon DEF Types
<1>4. Passes
  BY OthersPass, Zenon
<1>5. EventsInv'
  BY <1>1, <1>4, EventsKept, Zenon
<1>6. CountInv'
  BY <1>1, CountKept, Zenon
<1>7. \A t \in Scrapers : scraper'[t].pc \in {"iterate", "send", "end"} => statsLock' = t
  <2> SUFFICES ASSUME NEW t \in Scrapers, scraper'[t].pc \in {"iterate", "send", "end"} PROVE statsLock' = t
    BY Zenon
  <2>1. t # Free
    BY EventLoopAssumption, Zenon
  <2>2. CASE t = s
    BY <1>1, <1>2, <2>2 DEF UpdatesInv
  <2>3. CASE t # s
    BY <1>1, <1>2, <2>1, <2>3, Zenon DEF UpdatesInv
  <2> QED
    BY <2>2, <2>3
<1>8. \A t \in Scrapers : scraper'[t].pc = "send" => scraper'[t] = scraper[t]
  BY <1>2, Zenon
<1>9. UpdatesInv'
  BY <1>1, <1>7, <1>8, BehindKept, Zenon DEF UpdatesInv
<1> QED
  BY <1>3, <1>5, <1>6, <1>9 DEF TrafficInv

\* The loop receives from a scrape: no event of a connection.
LEMMA SendsPass ==
  ASSUME UNCHANGED <<bufs, events>>, NEW x, LoopReceives(x), x.type \notin {"open", "close"}
  PROVE  Passes /\ loop'.pc = "lock" /\ loop'.arg = x
<1>1. loop'.pc = "lock" /\ loop'.arg = x
  BY Zenon DEF LoopReceives, At
<1>2. \A e \in ConnEvents : ~InLoop(e)'
  BY <1>1, Kinds, Zenon DEF InLoop
<1> QED
  BY <1>1, <1>2, Zenon DEF Passes, Comes, ComesOnce

LEMMA IterateStep ==
  ASSUME TrafficInv, NEW s \in Scrapers, Iterate(s), ~Moves(s, "end", None)
  PROVE  TrafficInv'
<1>1. UNCHANGED <<fd, bytes, bufs, events, scan, traffic, loop, statsLock>>
  BY Zenon DEF Iterate, ScrapeLeaves, traced, fixed, channels
<1>2. Types /\ EventsInv /\ UpdatesInv /\ CountInv /\ UNCHANGED <<conn, counted, final, mixed>>
  BY <1>1, Zenon DEF TrafficInv, traffic
<1>3. PICK u : /\ u = [type |-> "traffic", from |-> fd, sent |-> bytes[fd], reads |-> scraper[s].arg + 1]
               /\ fd # None /\ Moves(s, "send", u)
  BY Zenon DEF Iterate
<1>4. u.type = "traffic" /\ u.from = fd /\ u.sent = bytes[fd]
  BY <1>3, Zenon
<1>5. fd \in Conns /\ bytes[fd] \in Nat /\ bytes[fd] # Never
  BY <1>2, <1>3, Zenon DEF Types
<1>6. /\ DOMAIN scraper' = Scrapers /\ scraper'[s].pc = "send" /\ scraper'[s].arg = u
      /\ \A t \in Scrapers : t # s => scraper'[t] = scraper[t]
  <2>1. Types /\ Moves(s, "send", u)
    BY <1>2, <1>3, Zenon
  <2> QED
    BY <2>1, ScraperMoves, Zenon
<1>7. Types'
  BY <1>1, <1>2, <1>6, Zenon DEF Types
<1>8. Passes
  BY <1>1, OthersPass, Zenon
<1>9. EventsInv'
  BY <1>1, <1>2, <1>8, EventsKept, Zenon
<1>10. CountInv'
  BY <1>1, <1>2, CountKept, Zenon
<1>11. scraper[s].pc = "iterate" /\ statsLock = s
  BY <1>2, Zenon DEF Iterate, UpdatesInv
<1>12. fd = conn.gen => ~conn.closed
  BY <1>2, Zenon DEF CountInv
<1>13. Behind(u)
  <2>1. fd = conn.gen /\ fd \notin mixed => conn.sent <= bytes[fd]
    BY <1>2, <1>3, <1>12, Zenon DEF CountInv
  <2>2. bytes[fd] <= bytes[fd]
    BY <1>5
  <2> QED
    BY <1>4, <1>5, <1>12, <2>1, <2>2, Zenon DEF Behind
<1>14. loop.pc = "lock" /\ loop.arg.type = "traffic" /\ loop.arg.from = fd =>
         loop.arg.sent <= u.sent /\ ~(conn.closed /\ conn.gen = loop.arg.from)
  BY <1>2, <1>4, <1>12, Zenon DEF UpdatesInv, Behind
<1>15. \A t \in Scrapers : scraper'[t].pc \in {"iterate", "send", "end"} => statsLock' = t
  BY <1>1, <1>2, <1>6, <1>11, Zenon DEF UpdatesInv
<1>16. ASSUME NEW t \in Scrapers, scraper'[t].pc = "send" PROVE t = s
  BY <1>1, <1>11, <1>15, <1>16, Zenon
<1>17. UpdatesInv'
  BY <1>1, <1>2, <1>4, <1>6, <1>13, <1>14, <1>15, <1>16, BehindKept, Zenon DEF UpdatesInv
<1> QED
  BY <1>7, <1>9, <1>10, <1>17 DEF TrafficInv

LEMMA SendTrafficStep ==
  ASSUME TrafficInv, NEW s \in Scrapers, SendTrafficStats(s)
  PROVE  TrafficInv'
<1>1. UNCHANGED <<fd, bytes, bufs, events, scan, traffic, statsLock>>
  BY Zenon DEF SendTrafficStats, ScrapeLeaves, traced, fixed, channels
<1>2. Types /\ EventsInv /\ UpdatesInv /\ CountInv /\ UNCHANGED <<conn, counted, final, mixed>>
  BY <1>1, Zenon DEF TrafficInv, traffic
<1>3. PICK u : u = scraper[s].arg /\ scraper[s].pc = "send" /\ LoopReceives(u) /\ Moves(s, "iterate", u.reads)
  BY Zenon DEF SendTrafficStats
<1>4. u.type = "traffic" /\ Behind(u) /\ statsLock = s
  BY <1>2, <1>3, Zenon DEF UpdatesInv
<1>5. /\ DOMAIN scraper' = Scrapers /\ scraper'[s].pc = "iterate"
      /\ \A t \in Scrapers : t # s => scraper'[t] = scraper[t]
  <2>1. Types /\ Moves(s, "iterate", u.reads)
    BY <1>2, <1>3, Zenon
  <2> QED
    BY <2>1, ScraperMoves, Zenon
<1>6. Passes /\ loop'.pc = "lock" /\ loop'.arg = u
  <2>1. LoopReceives(u) /\ u.type \notin {"open", "close"}
    BY <1>3, <1>4
  <2> QED
    BY <1>1, <2>1, SendsPass, Zenon
<1>7. loop'.arg.type \notin {"open", "close"}
  BY <1>4, <1>6, Zenon
<1>8. Types'
  BY <1>1, <1>2, <1>5, <1>7, Zenon DEF Types
<1>9. EventsInv'
  BY <1>1, <1>2, <1>6, EventsKept, Zenon
<1>10. CountInv'
  BY <1>1, <1>2, CountKept, Zenon
<1>11. \A t \in Scrapers : scraper'[t].pc \in {"iterate", "send", "end"} => statsLock' = t
  BY <1>1, <1>2, <1>4, <1>5, Zenon DEF UpdatesInv
<1>12. \A t \in Scrapers : scraper'[t].pc # "send"
  BY <1>1, <1>4, <1>5, <1>11, Zenon
<1>13. Behind(u)'
  BY <1>1, <1>2, <1>4, BehindKept, Zenon
<1>14. UpdatesInv'
  BY <1>6, <1>11, <1>12, <1>13, Zenon DEF UpdatesInv
<1> QED
  BY <1>8, <1>9, <1>10, <1>14 DEF TrafficInv

LEMMA SendRuntimeStep ==
  ASSUME TrafficInv, NEW s \in Scrapers, SendRuntimeStats(s)
  PROVE  TrafficInv'
<1>1. UNCHANGED <<fd, bytes, bufs, events, scan, traffic>>
  BY Zenon DEF SendRuntimeStats, ScrapeLeaves, traced, fixed, channels
<1>2. Types /\ EventsInv /\ UpdatesInv /\ CountInv /\ UNCHANGED <<conn, counted, final, mixed>>
  BY <1>1, Zenon DEF TrafficInv, traffic
<1>3. LoopReceives(Event("runtime", None)) /\ Moves(s, "container", None) /\ scraper[s].pc = "end"
  BY Zenon DEF SendRuntimeStats
<1>4. Event("runtime", None).type = "runtime"
  BY Zenon DEF Event
<1>5. /\ DOMAIN scraper' = Scrapers /\ scraper'[s].pc = "container"
      /\ \A t \in Scrapers : t # s => scraper'[t] = scraper[t]
  BY <1>2, <1>3, ScraperMoves, Zenon
<1>6. Event("runtime", None).type \notin {"open", "close"}
  BY <1>4, Zenon
<1>7. Passes /\ loop'.pc = "lock" /\ loop'.arg = Event("runtime", None)
  BY <1>1, <1>3, <1>6, SendsPass, Zenon
<1>8. loop'.arg.type \notin {"open", "close", "traffic"}
  BY <1>4, <1>7, Zenon
<1>9. Types'
  BY <1>1, <1>2, <1>5, <1>8, Zenon DEF Types
<1>10. EventsInv'
  BY <1>1, <1>2, <1>7, EventsKept, Zenon
<1>11. CountInv'
  BY <1>1, <1>2, CountKept, Zenon
<1>12. \A t \in Scrapers : scraper'[t].pc \notin {"iterate", "send", "end"}
  BY <1>2, <1>3, <1>5 DEF UpdatesInv
<1>13. UpdatesInv'
  BY <1>8, <1>12, Zenon DEF UpdatesInv
<1> QED
  BY <1>9, <1>10, <1>11, <1>13 DEF TrafficInv

LEMMA ScrapeStep ==
  ASSUME TrafficInv, NEW s \in Scrapers, Scrape(s) \/ Scraping(s)
  PROVE  TrafficInv'
<1> USE DEF ScrapeLeaves, traced, fixed, channels, locks, tables
<1>1. CASE Scrape(s)
  <2>1. UNCHANGED <<fd, bytes, bufs, events, scan, traffic, loop, statsLock>> /\ Moves(s, "stats", None)
    BY <1>1, Zenon DEF Scrape
  <2> QED
    BY <2>1, QuietScrape, "stats" \notin {"iterate", "send", "end"}
<1>2. CASE LockStats(s)
  <2>1. UNCHANGED <<fd, bytes, bufs, events, scan, traffic, loop>> /\ statsLock = Free
    BY <1>2, Zenon DEF LockStats
  <2>2. CASE Moves(s, "container", None) /\ UNCHANGED statsLock
    BY <2>1, <2>2, QuietScrape, "container" \notin {"iterate", "send", "end"}
  <2>3. CASE Moves(s, "iterate", 0) /\ statsLock' = s
    BY <2>1, <2>3, QuietScrape
  <2> QED
    BY <1>2, <2>2, <2>3, Zenon DEF LockStats
<1>3. CASE Iterate(s)
  <2>1. CASE Moves(s, "end", None)
    <3>1. UNCHANGED <<fd, bytes, bufs, events, scan, traffic, loop, statsLock>> /\ scraper[s].pc = "iterate"
      BY <1>3, Zenon DEF Iterate
    <3> QED
      BY <2>1, <3>1, QuietScrape
  <2> QED
    BY <1>3, <2>1, IterateStep, Zenon
<1>4. CASE SendTrafficStats(s) \/ SendRuntimeStats(s)
  BY <1>4, SendTrafficStep, SendRuntimeStep, Zenon
<1>5. CASE Collect(s)
  <2>1. UNCHANGED <<fd, bytes, bufs, events, scan, traffic, loop, statsLock>>
    BY <1>5, Zenon DEF Collect
  <2>2. CASE Moves(s, "idle", None)
    BY <2>1, <2>2, QuietScrape, "idle" \notin {"iterate", "send", "end"}
  <2>3. ASSUME NEW p, Moves(s, "closing", p) PROVE TrafficInv'
    BY <2>1, <2>3, QuietScrape, "closing" \notin {"iterate", "send", "end"}
  <2> QED
    BY <1>5, <2>2, <2>3, Zenon DEF Collect
<1>6. CASE CollectClosed(s)
  <2>1. UNCHANGED <<fd, bytes, bufs, events, scan, traffic, loop, statsLock>> /\ Moves(s, "closed", None)
    BY <1>6, Zenon DEF CollectClosed
  <2> QED
    BY <2>1, QuietScrape, "closed" \notin {"iterate", "send", "end"}, Zenon
<1> QED
  BY <1>1, <1>2, <1>3, <1>4, <1>5, <1>6, Zenon DEF Scraping

LEMMA TrafficInit == Init => TrafficInv
<1> SUFFICES ASSUME Init PROVE TrafficInv
  BY Zenon
<1>1. /\ fd = None /\ bytes = [g \in Conns |-> Never] /\ bufs = [b \in Buffers |-> <<>>] /\ events = <<>>
      /\ loop = At("select", None) /\ scraper = [s \in Scrapers |-> At("idle", None)]
      /\ conn = NoConn /\ counted = [g \in Conns |-> 0] /\ final = {} /\ mixed = {}
  BY Zenon DEF Init
<1>2. scan \subseteq ProcEvents
  <2>1. holders \subseteq Pids
    BY Zenon DEF Init
  <2>2. scan \subseteq {Event("start", p) : p \in Pids} \union {Event("listenOpen", p) : p \in holders}
    BY Zenon DEF Init
  <2> QED
    BY <2>1, <2>2, Kinds
<1>3. loop.pc = "select" /\ conn.gen = None /\ conn.closed = FALSE
  BY <1>1, Zenon DEF At, NoConn
<1>4. bufs["tcp"] = <<>> /\ bufs["proc"] = <<>> /\ bufs["listen"] = <<>> /\ DOMAIN bufs = Buffers
  BY <1>1, Zenon DEF Buffers
<1>5. conn \in [gen : {None} \union Conns, sent : Nat, closed : BOOLEAN]
  BY <1>1, Zenon DEF NoConn
<1>6. Types
  <2>1. bytes \in [Conns -> Nat \union {Never}] /\ counted \in [Conns -> Nat] /\ DOMAIN scraper = Scrapers
    BY <1>1, Zenon
  <2>2. /\ bufs["tcp"] \in Seq(ConnEvents) /\ bufs["proc"] \in Seq(ProcEvents) /\ bufs["listen"] \in Seq(ProcEvents)
        /\ events \in Seq(ConnEvents \union ProcEvents)
    <3>1. ASSUME NEW S PROVE <<>> \in Seq(S)
      OBVIOUS
    <3> QED
      BY <1>1, <1>4, <3>1, Zenon
  <2>3. fd \in {None} \union Conns /\ final \subseteq Conns
    BY <1>1, Zenon
  <2>4. loop.pc # "lock"
    BY <1>3, Zenon
  <2> QED
    BY <1>1, <1>2, <1>4, <1>5, <2>1, <2>2, <2>3, <2>4, Zenon DEF Types
<1>7. \A e : ~Comes(e) /\ ComesOnce(e)
  BY <1>1, <1>3, <1>4 DEF Comes, ComesOnce, InLoop
<1>8. EventsInv
  BY <1>7, Zenon DEF EventsInv
<1>9. \A s \in Scrapers : scraper[s].pc = "idle"
  BY <1>1, Zenon DEF At
<1>10. UpdatesInv
  BY <1>3, <1>9 DEF UpdatesInv
<1>11. CountInv
  BY <1>1, <1>3 DEF CountInv, TrafficCounted
<1> QED
  BY <1>6, <1>8, <1>10, <1>11 DEF TrafficInv

LEMMA TrafficStep == TrafficInv /\ [Next]_vars => TrafficInv'
<1> SUFFICES ASSUME TrafficInv, [Next]_vars PROVE TrafficInv'
  OBVIOUS
<1>1. CASE UNCHANGED vars
  <2>1. Still
    BY <1>1, Zenon DEF vars, traced, fixed, channels, locks, scrape, tables, Still, core
  <2> QED
    BY <2>1, StillStep, Zenon
<1>2. CASE Processes
  BY <1>2, ProcessesStep, OpenStep, SendStep, CloseFdStep, Zenon
<1>3. CASE \E b \in Buffers : Read(b)
  BY <1>3, ReadStep, Zenon
<1>4. CASE ReceiveEvent \/ OnConnectionOpen \/ OnConnectionClose \/ UpdateTrafficStats \/ GcConnections
  BY <1>4, ReceiveStep, OnOpenStep, OnCloseStep, UpdateStep, GcStep, Zenon
<1>5. CASE \E s \in Scrapers : Scrape(s) \/ Scraping(s)
  BY <1>5, ScrapeStep, Zenon
<1>6. CASE Scan
  BY <1>6, ScanStep, Zenon
<1>7. CASE Still
  BY <1>7, StillStep, Zenon
<1> QED
  BY <1>1, <1>2, <1>3, <1>4, <1>5, <1>6, <1>7, BusyOrStill, Zenon DEF Busies

\* The bytes of a connection are all counted once its close is applied, and those of one that got
\* only its own updates are never counted twice: in whatever order handleEvents gets the opens,
\* the closes and the updates of the scrapes, and whenever gc forgets the connection.
THEOREM TrafficIsCounted == Spec => []TrafficCounted
<1>1. TrafficInv => TrafficCounted
  BY Zenon DEF TrafficInv, CountInv
<1> QED
  BY <1>1, TrafficInit, TrafficStep, PTL DEF Spec
=============================================================================
