------------------------- MODULE TracerStartProofs -------------------------
(***************************************************************************)
(* The tracer is started as a whole or not at all (StartedOrNothing), for  *)
(* any programs, buffers and limits, and believes to be in the map of the  *)
(* traced clients what is there: both with the rest of the agent running   *)
(* around them.                                                            *)
(***************************************************************************)
EXTENDS EventLoop, FiniteSetTheorems, TLAPS

-----------------------------------------------------------------------------
(* TracerStart: the inductive invariant.                                     *)

Busy    == {p \in Progs : load[p] \notin {"new", "done"}}
Caching == {p \in Progs : load[p] \in {"loading", "sent"}}

\* The semaphore counts the goroutines that run, and a cache is free or in use by one of them.
LoadInv ==
  /\ load \in [Progs -> Steps] /\ sem \in Nat /\ caches \in Nat
  /\ sem = Cardinality(Busy) /\ sem <= MaxLoads
  /\ caches + Cardinality(Caching) = MaxLoads
  /\ boot # "programs" => Busy = {}

\* What is there at each stage of Run.  A program that is loaded has told so.
StageInv ==
  /\ boot \in {"maps", "failed"} => progs = {} /\ links = {} /\ readers = {} /\ ~maps
  /\ boot = "programs" =>
       /\ links = {} /\ readers = {} /\ progs \subseteq Progs
       /\ \A p \in Progs : load[p] \in {"sent", "returned", "done"} => \E r \in results : r.prog = p
       /\ \A r \in results : r.ok => r.prog \in progs
  /\ boot = "maps" => results = {} /\ load = [p \in Progs |-> "new"]
  /\ boot \in {"tails", "readers", "scan", "attach", "up"} => progs = Progs
  /\ boot = "tails" => links = {} /\ readers = {}
  /\ boot = "readers" => links = {} /\ readers \subseteq PerfMaps
  /\ boot \in {"scan", "attach", "up"} => readers = PerfMaps \union {"rings"}
  /\ boot = "up" => Attached \ Optional \subseteq links

StartInv == LoadInv /\ StageInv

-----------------------------------------------------------------------------
(* TracerStart: the proof.                                                   *)

LEMMA BusyFinite ==
  /\ IsFiniteSet(Busy) /\ IsFiniteSet(Caching)
  /\ Cardinality(Busy) \in Nat /\ Cardinality(Caching) \in Nat
<1>1. Busy \subseteq Progs /\ Caching \subseteq Progs
  BY Zenon DEF Busy, Caching
<1>2. IsFiniteSet(Busy) /\ IsFiniteSet(Caching)
  BY <1>1, StartAssumption, FS_Subset, Zenon
<1> QED
  BY <1>2, FS_CardinalityType, Zenon

\* A goroutine that has its turn and no cache yet: there are fewer caches in use than goroutines.
LEMMA CacheLeft ==
  ASSUME LoadInv, NEW p \in Progs, load[p] = "spawned"
  PROVE  caches > 0
<1>1. p \in Busy /\ p \notin Caching
  BY Zenon DEF Busy, Caching
<1>2. Caching \union {p} \subseteq Busy
  BY <1>1, Zenon DEF Busy, Caching
<1>3. Cardinality(Caching \union {p}) = Cardinality(Caching) + 1
  BY <1>1, BusyFinite, FS_AddElement, Zenon
<1>4. Cardinality(Caching \union {p}) <= Cardinality(Busy)
  BY <1>2, BusyFinite, FS_Subset, Zenon
<1> QED
  BY <1>3, <1>4, BusyFinite, StartAssumption DEF LoadInv

LEMMA StartSafe == StartInv => StartedOrNothing
<1> SUFFICES ASSUME StartInv PROVE StartedOrNothing
  BY Zenon
<1>1. LoadInv /\ StageInv
  BY Zenon DEF StartInv
<1>2. \A p \in Progs : load[p] = "spawned" => caches > 0
  BY <1>1, CacheLeft, Zenon
<1>3. Cardinality({p \in Progs : load[p] \notin {"new", "done"}}) <= MaxLoads
  BY <1>1, Zenon DEF LoadInv, Busy
<1> QED
  BY <1>1, <1>2, <1>3, Zenon DEF StartedOrNothing, LoadInv, StageInv

LEMMA StartInit == Unstarted \/ Started => StartInv
<1> SUFFICES ASSUME Unstarted \/ Started PROVE StartInv
  BY Zenon
<1>1. Busy = {} /\ Caching = {}
  BY Zenon DEF Unstarted, Started, Busy, Caching
<1>2. Cardinality(Busy) = 0 /\ Cardinality(Caching) = 0
  BY <1>1, FS_EmptySet, Zenon
<1>3. LoadInv
  BY <1>1, <1>2, StartAssumption DEF Unstarted, Started, LoadInv, Steps
<1>4. StageInv
  BY StartAssumption, Zenon DEF Unstarted, Started, StageInv, Attached
<1> QED
  BY <1>3, <1>4, Zenon DEF StartInv

\* A goroutine takes its next step: who runs, and who has a cache, after it.
LEMMA Advances ==
  ASSUME load \in [Progs -> Steps], NEW p \in Progs, NEW x \in Steps, load' = [load EXCEPT ![p] = x]
  PROVE  /\ load' \in [Progs -> Steps]
         /\ Busy' = IF x \in {"new", "done"} THEN Busy \ {p} ELSE Busy \union {p}
         /\ Caching' = IF x \in {"loading", "sent"} THEN Caching \union {p} ELSE Caching \ {p}
<1>1. load'[p] = x /\ \A q \in Progs : q # p => load'[q] = load[q]
  BY Zenon
<1>2. Busy' = IF x \in {"new", "done"} THEN Busy \ {p} ELSE Busy \union {p}
  BY <1>1, Zenon DEF Busy
<1>3. Caching' = IF x \in {"loading", "sent"} THEN Caching \union {p} ELSE Caching \ {p}
  BY <1>1, Zenon DEF Caching
<1> QED
  BY <1>2, <1>3, Zenon

LEMMA Counts ==
  ASSUME NEW S, IsFiniteSet(S), NEW x
  PROVE  /\ x \in S => S \union {x} = S /\ Cardinality(S \ {x}) = Cardinality(S) - 1
         /\ x \notin S => S \ {x} = S /\ Cardinality(S \union {x}) = Cardinality(S) + 1
<1>1. CASE x \in S
  <2>1. S \union {x} = S
    BY <1>1, Zenon
  <2> QED
    BY <2>1, <1>1, FS_RemoveElement, Zenon
<1>2. CASE x \notin S
  <2>1. S \ {x} = S
    BY <1>2, Zenon
  <2> QED
    BY <2>1, <1>2, FS_AddElement, Zenon
<1> QED
  BY <1>1, <1>2, Zenon

\* The stages that leave the goroutines alone.
LEMMA StageMoves ==
  ASSUME StartInv,
         \/ Refused \/ LoadMaps \/ InstallTailProgs \/ StartReaders \/ ScanFails \/ ScanEnds \/ AttachPrograms
  PROVE  StartInv'
<1>1. LoadInv /\ StageInv
  BY Zenon DEF StartInv
<1>2. UNCHANGED loadVars
  BY Zenon DEF Refused, LoadMaps, InstallTailProgs, StartReaders, ScanFails, ScanEnds, AttachPrograms
<1>3. boot # "programs"
  BY Zenon DEF Refused, LoadMaps, InstallTailProgs, StartReaders, ScanFails, ScanEnds, AttachPrograms
<1>4. Busy' = Busy /\ Caching' = Caching
  BY <1>2, Zenon DEF Busy, Caching, loadVars
<1>5. LoadInv'
  BY <1>1, <1>2, <1>3, <1>4, Zenon DEF LoadInv, loadVars
<1> SUFFICES StageInv'
  BY <1>5, Zenon DEF StartInv
<1>6. CASE Refused \/ ScanFails \/ ScanEnds
  BY <1>1, <1>2, <1>6 DEF StageInv, Refused, ScanFails, ScanEnds, loadVars
<1>7. CASE LoadMaps
  BY <1>1, <1>2, <1>7 DEF StageInv, LoadMaps, loadVars
<1>8. CASE InstallTailProgs
  BY <1>1, <1>2, <1>8, Zenon DEF StageInv, InstallTailProgs, CloseCollection, loadVars
<1>9. CASE StartReaders
  BY <1>1, <1>2, <1>9, Zenon DEF StageInv, StartReaders, Close, CloseCollection, loadVars
<1>10. CASE AttachPrograms
  BY <1>1, <1>2, <1>10, Zenon DEF StageInv, AttachPrograms, Close, CloseCollection, loadVars
<1> QED
  BY <1>6, <1>7, <1>8, <1>9, <1>10, Zenon

LEMMA SpawnMoves ==
  ASSUME StartInv, NEW p \in Progs, Spawn(p)
  PROVE  StartInv'
<1>1. LoadInv /\ StageInv
  BY Zenon DEF StartInv
<1>2. p \notin Busy /\ p \notin Caching
  BY Zenon DEF Busy, Caching, Spawn
<1>3. load' \in [Progs -> Steps] /\ Busy' = Busy \union {p} /\ Caching' = Caching \ {p}
  BY <1>1, Advances, "spawned" \in Steps, Zenon DEF LoadInv, Spawn, Steps
<1>4. Caching' = Caching /\ Cardinality(Busy') = Cardinality(Busy) + 1
  BY <1>2, <1>3, BusyFinite, Counts
<1>5. LoadInv'
  BY <1>1, <1>3, <1>4, BusyFinite, StartAssumption DEF LoadInv, Spawn
<1>6. StageInv'
  BY <1>1, Zenon DEF StageInv, LoadInv, Spawn
<1> QED
  BY <1>5, <1>6, Zenon DEF StartInv

LEMMA TakeCacheMoves ==
  ASSUME StartInv, NEW p \in Progs, TakeCache(p)
  PROVE  StartInv'
<1>1. LoadInv /\ StageInv
  BY DEF StartInv
<1>2. p \in Busy /\ p \notin Caching
  BY Zenon DEF Busy, Caching, TakeCache
<1>3. load' \in [Progs -> Steps] /\ Busy' = Busy \union {p} /\ Caching' = Caching \union {p}
  BY <1>1, Advances, "loading" \in Steps, Zenon DEF LoadInv, TakeCache, Steps
<1>4. Busy' = Busy /\ Cardinality(Caching') = Cardinality(Caching) + 1
  BY <1>2, <1>3, BusyFinite, Counts, Zenon
<1>5. boot = "programs"
  BY <1>1, <1>2, Zenon DEF LoadInv
<1>6. boot' = boot /\ sem' = sem /\ caches' = caches - 1 /\ caches > 0
  BY Zenon DEF TakeCache
<1>7. LoadInv'
  <2>1. load' \in [Progs -> Steps] /\ Cardinality(Busy') = Cardinality(Busy)
    BY <1>3, <1>4, Zenon
  <2>2. caches' \in Nat /\ caches' + Cardinality(Caching') = MaxLoads
    BY <1>1, <1>4, <1>6, BusyFinite, StartAssumption DEF LoadInv
  <2> QED
    BY <1>1, <1>5, <1>6, <2>1, <2>2, Zenon DEF LoadInv
<1>8. StageInv'
  BY <1>1, <1>5, Zenon DEF StageInv, LoadInv, TakeCache
<1> QED
  BY <1>7, <1>8 DEF StartInv

LEMMA LoadMoves ==
  ASSUME StartInv, NEW p \in Progs, Load(p)
  PROVE  StartInv'
<1>1. LoadInv /\ StageInv
  BY DEF StartInv
<1>2. p \in Busy /\ p \in Caching
  BY Zenon DEF Busy, Caching, Load
<1>3. load' \in [Progs -> Steps] /\ Busy' = Busy \union {p} /\ Caching' = Caching \union {p}
  BY <1>1, Advances, "sent" \in Steps, Zenon DEF LoadInv, Load, Steps
<1>4. Busy' = Busy /\ Caching' = Caching
  BY <1>2, <1>3, Zenon
<1>5. boot = "programs"
  BY <1>1, <1>2, Zenon DEF LoadInv
<1>6. LoadInv'
  BY <1>1, <1>3, <1>4, <1>5, Zenon DEF LoadInv, Load
<1>7. PICK ok \in BOOLEAN : /\ results' = results \union {[prog |-> p, ok |-> ok]}
                            /\ progs' = IF ok THEN progs \union {p} ELSE progs
  BY Zenon DEF Load
<1>8. \A q \in Progs : load'[q] \in {"sent", "returned", "done"} => \E r \in results' : r.prog = q
  <2> TAKE q \in Progs
  <2>1. CASE q = p
    <3>1. [prog |-> p, ok |-> ok] \in results' /\ [prog |-> p, ok |-> ok].prog = p
      BY <1>7, Zenon
    <3> QED
      BY <2>1, <3>1, Zenon
  <2>2. CASE q # p
    <3>1. load'[q] = load[q]
      BY <1>1, <2>2, Zenon DEF LoadInv, Load
    <3> QED
      BY <1>1, <1>5, <1>7, <3>1, Zenon DEF StageInv
  <2> QED
    BY <2>1, <2>2, Zenon
<1>9. \A r \in results' : r.ok => r.prog \in progs'
  <2> TAKE r \in results'
  <2>1. CASE r \in results
    BY <2>1, <1>1, <1>5, <1>7, Zenon DEF StageInv
  <2>2. CASE r = [prog |-> p, ok |-> ok]
    <3>1. r.prog = p /\ r.ok = ok
      BY <2>2, Zenon
    <3>2. ok => p \in progs'
      BY <1>7, Zenon
    <3> QED
      BY <3>1, <3>2, Zenon
  <2> QED
    BY <2>1, <2>2, <1>7, Zenon
<1>10. boot' = "programs" /\ UNCHANGED <<links, readers>> /\ progs' \subseteq Progs
  BY <1>1, <1>5, <1>7, Zenon DEF StageInv, Load
<1>11. StageInv'
  BY <1>1, <1>5, <1>8, <1>9, <1>10 DEF StageInv
<1> QED
  BY <1>6, <1>11, Zenon DEF StartInv

LEMMA ReturnMoves ==
  ASSUME StartInv, NEW p \in Progs, Return(p)
  PROVE  StartInv'
<1>1. LoadInv /\ StageInv
  BY DEF StartInv
<1>2. p \in Busy
  BY Zenon DEF Busy, Return
<1>3. boot = "programs"
  BY <1>1, <1>2, Zenon DEF LoadInv
<1>4. StageInv'
  BY <1>1, <1>3, Zenon DEF StageInv, LoadInv, Return
<1>5. boot' = boot
  BY Zenon DEF Return
<1>6. CASE load[p] = "sent" /\ caches' = caches + 1 /\ load' = [load EXCEPT ![p] = "returned"] /\ UNCHANGED sem
  <2>1. load' \in [Progs -> Steps] /\ Busy' = Busy \union {p} /\ Caching' = Caching \ {p}
    BY <1>1, <1>6, Advances, "returned" \in Steps, Zenon DEF LoadInv, Steps
  <2>2. p \in Caching
    BY <1>6, Zenon DEF Caching
  <2>3. Busy' = Busy /\ Cardinality(Caching') = Cardinality(Caching) - 1
    BY <1>2, <2>1, <2>2, BusyFinite, Counts
  <2>4. caches' \in Nat /\ caches' + Cardinality(Caching') = MaxLoads
    BY <1>1, <1>6, <2>3, BusyFinite, StartAssumption DEF LoadInv
  <2>5. LoadInv'
    BY <1>1, <1>3, <1>6, <1>5, <2>1, <2>3, <2>4, Zenon DEF LoadInv
  <2> QED
    BY <1>4, <2>5, Zenon DEF StartInv
<1>7. CASE load[p] = "returned" /\ sem' = sem - 1 /\ load' = [load EXCEPT ![p] = "done"] /\ UNCHANGED caches
  <2>1. load' \in [Progs -> Steps] /\ Busy' = Busy \ {p} /\ Caching' = Caching \ {p}
    BY <1>1, <1>7, Advances, "done" \in Steps, Zenon DEF LoadInv, Steps
  <2>2. p \notin Caching
    BY <1>7, Zenon DEF Caching
  <2>3. Caching' = Caching /\ Cardinality(Busy') = Cardinality(Busy) - 1
    BY <1>2, <2>1, <2>2, BusyFinite, Counts, Zenon
  <2>4. /\ IsFiniteSet(Busy)' /\ IsFiniteSet(Caching)'
        /\ (Cardinality(Busy) \in Nat)' /\ (Cardinality(Caching) \in Nat)'
    BY BusyFinite, PTL
  <2>5. sem' \in Nat /\ sem' = Cardinality(Busy') /\ sem' <= MaxLoads
    BY <1>1, <1>7, <2>3, <2>4, BusyFinite, StartAssumption DEF LoadInv
  <2>6. LoadInv'
    BY <1>1, <1>3, <1>7, <1>5, <2>1, <2>3, <2>5, Zenon DEF LoadInv
  <2> QED
    BY <1>4, <2>6 DEF StartInv
<1> QED
  BY <1>6, <1>7, Zenon DEF Return

\* Without an error every program has told that it is loaded.
LEMMA LoadedMoves ==
  ASSUME StartInv, Loaded
  PROVE  StartInv'
<1>1. LoadInv /\ StageInv
  BY Zenon DEF StartInv
<1>2. Busy = {}
  BY Zenon DEF Busy, Loaded
<1>3. Busy' = Busy /\ Caching' = Caching
  BY Zenon DEF Busy, Caching, Loaded
<1>4. LoadInv'
  BY <1>1, <1>2, <1>3, Zenon DEF LoadInv, Loaded
<1> SUFFICES StageInv'
  BY <1>4, Zenon DEF StartInv
<1>5. CASE \E r \in results : ~r.ok
  BY <1>1, <1>5, Zenon DEF StageInv, Loaded, CloseCollection
<1>6. CASE ~\E r \in results : ~r.ok
  <2>1. \A p \in Progs : p \in progs
    BY <1>1, <1>6, Zenon DEF StageInv, Loaded
  <2>2. progs = Progs
    BY <1>1, <2>1, Zenon DEF StageInv, Loaded
  <2> QED
    BY <1>1, <1>6, <2>2, Zenon DEF StageInv, Loaded
<1> QED
  BY <1>5, <1>6, Zenon

LEMMA StartStep ==
  ASSUME StartInv, Run \/ Loading \/ ScanEnds \/ ScanFails
  PROVE  StartInv'
<1>1. ASSUME NEW p \in Progs, Spawn(p) \/ TakeCache(p) \/ Load(p) \/ Return(p) PROVE StartInv'
  BY <1>1, SpawnMoves, TakeCacheMoves, LoadMoves, ReturnMoves
<1> QED
  BY <1>1, StageMoves, LoadedMoves, Zenon DEF Run, Loading

LEMMA StartKept ==
  ASSUME StartInv, UNCHANGED startVars
  PROVE  StartInv'
<1>1. Busy' = Busy /\ Caching' = Caching
  BY Zenon DEF Busy, Caching, startVars, loadVars
<1>2. LoadInv' = LoadInv
  BY <1>1, Zenon DEF LoadInv, startVars, loadVars
<1>3. StageInv' = StageInv
  BY Zenon DEF StageInv, startVars, loadVars
<1> QED
  BY <1>2, <1>3, Zenon DEF StartInv

-----------------------------------------------------------------------------
(* TracedClients: what the tracer believes to be in the map is there.        *)

LEMMA SetKnown ==
  ASSUME known = kernel, NEW ips, SetTracedClients(ips)
  PROVE  known' = kernel'
<1>1. ASSUME NEW left \in SUBSET (known \ ips), known' = ips \union left,
             kernel' = (kernel \union (ips \ known)) \ ((known \ ips) \ left)
      PROVE known' = kernel'
  BY <1>1, Zenon
<1>2. ASSUME NEW added \in SUBSET (ips \ known), kernel' = kernel \union added, known' = known \union added
      PROVE known' = kernel'
  BY <1>2, Zenon
<1> QED
  BY <1>1, <1>2, Zenon DEF SetTracedClients

LEMMA ClientsStep ==
  ASSUME known = kernel, ReceiveList \/ UpdateTracedClients \/ UNCHANGED <<known, kernel>>
  PROVE  known' = kernel'
  BY SetKnown, Zenon DEF ReceiveList, UpdateTracedClients

-----------------------------------------------------------------------------
(* Within the agent.                                                         *)

\* The processes, the handlers, the scrapes and the profiler: nothing of the other modules.
LEMMA LoopFixed ==
  ASSUME \/ Processes \/ ReadEvent \/ EmitMerged \/ Receive \/ (HandleEvent /\ ~ContainerClosed) \/ Gc
         \/ (\E p \in Pids : Instrument(p))
         \/ (\E s \in Scrapers : Scrape(s) \/ Scraping(s)) \/ AddTarget \/ Profile \/ Profiling
  PROVE  UNCHANGED fixed
<1> USE DEF traced, Unlocked, GcLeaves, ScrapeLeaves, ProfilerLeaves
<1>1. CASE Processes
  <2>1. CASE Open \/ Send \/ CloseFd
    BY <2>1, Zenon DEF Open, Send, CloseFd
  <2>2. CASE \E b \in Buffers : LoseSample(b)
    BY <2>2, Zenon DEF LoseSample
  <2>3. CASE \E p \in Pids : Listen(p) \/ Share(p) \/ CloseListen(p) \/ Exit(p) \/ Start(p)
    BY <2>3, Zenon DEF Listen, Listening, Share, CloseListen, Exit, Start
  <2> QED
    BY <1>1, <2>1, <2>2, <2>3, Zenon DEF Processes
<1>2. CASE ReadEvent \/ EmitMerged
  BY <1>2, Zenon DEF ReadEvent, EmitMerged, Read
<1>3. CASE Receive
  BY <1>3, Zenon DEF Receive, ReceiveEvent, ReceiveProfile
<1>4. CASE OnConnectionOpen \/ OnConnectionClose \/ UpdateTrafficStats \/ UpdateRuntimeStats
  BY <1>4, Zenon DEF OnConnectionOpen, OnConnectionClose, UpdateTrafficStats, UpdateRuntimeStats
<1>5. CASE OnListenOpen \/ OnListenClose \/ OnProcessStart
  BY <1>5, Zenon DEF OnListenOpen, OnListenClose, OnProcessStart
<1>6. CASE Announce \/ OnProcessExit \/ OnProcessClosed
  BY <1>6, Zenon DEF Announce, OnProcessExit, OnProcessClosed
<1>7. CASE Gc
  BY <1>7, Zenon DEF Gc, GcRead, GcReads, RevalidateListens, GcConnections
<1>8. CASE \E p \in Pids : Instrument(p)
  BY <1>8, Zenon DEF Instrument
<1>9. CASE \E s \in Scrapers : Scrape(s) \/ Scraping(s)
  BY <1>9, Zenon DEF Scrape, Scraping, LockStats, Iterate, SendTrafficStats, SendRuntimeStats, Collect, CollectClosed
<1>10. CASE AddTarget \/ Profile \/ Profiling
  BY <1>10, Zenon DEF AddTarget, Profile, Profiling, FindTarget, Found, SendProfile
<1> QED
  BY <1>1, <1>2, <1>3, <1>4, <1>5, <1>6, <1>7, <1>8, <1>9, <1>10, Zenon DEF HandleEvent

LEMMA OuterFrame ==
  ASSUME Next
  PROVE  /\ Starting \/ ScanStops \/ UNCHANGED startVars
         /\ TraceClients \/ UNCHANGED <<known, kernel>>
<1>1. CASE UNCHANGED fixed
  BY <1>1, Zenon DEF fixed, clientVars
<1>2. CASE Starting \/ ScanStops \/ Scan
  BY <1>2, Zenon DEF Starting, ScanStops, Scan, clientVars
<1>3. CASE TraceClients
  BY <1>3, Zenon DEF TraceClients
<1>4. CASE Fetcher \/ ClientsChange
  BY <1>4, Zenon DEF Fetcher, Fetching, Fetch, SendList, ClientsChange, Answer, Local
<1>5. CASE Containers \/ ContainerClosed \/ Journal \/ JournalChanges
  BY <1>5, Zenon DEF Containers, ContainerClosed, Journal, JournalChanges, clientVars
<1> QED
  BY <1>1, <1>2, <1>3, <1>4, <1>5, LoopFixed, Zenon DEF Next

\* The tracer is started as a whole or not at all: one that runs has its programs loaded and
\* attached and its buffers read, one that could not be started has closed all of them; and no
\* program waits for a cache of the kernel's types while it is loaded.
THEOREM StartsOrNothing == Spec => []StartedOrNothing
<1>1. Init => StartInv
  BY StartInit, Zenon DEF Init
<1>2. StartInv /\ [Next]_vars => StartInv'
  <2> SUFFICES ASSUME StartInv, [Next]_vars PROVE StartInv'
    BY Zenon
  <2>1. CASE Starting \/ ScanStops
    BY <2>1, StartStep, Zenon DEF Starting, ScanStops
  <2>2. CASE UNCHANGED startVars
    BY <2>2, StartKept, Zenon
  <2>3. CASE UNCHANGED vars
    BY <2>3, <2>2, Zenon DEF vars, traced, fixed
  <2> QED
    BY <2>1, <2>2, <2>3, OuterFrame, Zenon
<1> QED
  BY <1>1, <1>2, StartSafe, PTL DEF Spec

\* The safety half of ClientsSettle: whichever put or delete of SetTracedClients failed, the set
\* the tracer compares the next list with is what the map of the kernel holds.
THEOREM KnownIsInKernel == Spec => [](known = kernel)
<1>1. Init => known = kernel
  BY Zenon DEF Init, NoClients
<1>2. known = kernel /\ [Next]_vars => (known = kernel)'
  <2> SUFFICES ASSUME known = kernel, [Next]_vars PROVE (known = kernel)'
    BY Zenon
  <2>1. CASE TraceClients
    BY <2>1, ClientsStep, Zenon DEF TraceClients
  <2>2. CASE UNCHANGED <<known, kernel>>
    BY <2>2, Zenon
  <2>3. CASE UNCHANGED vars
    BY <2>3, <2>2, Zenon DEF vars, traced, fixed, clientVars
  <2> QED
    BY <2>1, <2>2, <2>3, OuterFrame, Zenon
<1> QED
  BY <1>1, <1>2, PTL DEF Spec
=============================================================================
