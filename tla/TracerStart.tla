---------------------------- MODULE TracerStart ----------------------------
(***************************************************************************)
(* The start of the tracer (Tracer.Run): the maps and the programs are     *)
(* loaded, a few programs at a time, the readers and the merger started,   *)
(* what runs already announced, and the programs attached.  EventLoop      *)
(* composes it with the goroutines that read what the tracer sends.        *)
(***************************************************************************)
EXTENDS Naturals, FiniteSets

CONSTANTS
  Progs,      \* the programs of the collection
  TailProgs,  \* those that are called by other programs, and uprobes: not attached here
  Optional,   \* those that may fail to be attached (conntrack may not be in use)
  PerfMaps,   \* the perf buffers
  MaxLoads    \* maxConcurrentProgramLoads

ASSUME StartAssumption == TailProgs \subseteq Progs /\ Optional \subseteq Progs \ TailProgs /\ IsFiniteSet(Progs) /\ MaxLoads \in Nat \ {0}

VARIABLES
  boot,     \* where Run is
  load,     \* the goroutine of each program in loadCollection
  results,  \* the channel of that name: the programs and their outcomes
  caches,   \* kernelTypeCaches: how many are free
  sem,      \* the semaphore of forEachLimited: how many calls run
  maps,     \* the maps exist
  progs,    \* the programs that are loaded
  links,    \* the programs that are attached
  readers   \* the perf buffers that are read, and "rings" with the merger

loadVars  == <<load, results, caches, sem>>
startVars == <<boot, loadVars, maps, progs, links, readers>>

Steps == {"new", "spawned", "loading", "sent", "returned", "done"}

Unstarted ==
  /\ boot = "maps" /\ load = [p \in Progs |-> "new"]
  /\ results = {} /\ caches = MaxLoads /\ sem = 0
  /\ maps = FALSE /\ progs = {} /\ links = {} /\ readers = {}

Started ==
  /\ boot = "up" /\ load = [p \in Progs |-> "done"]
  /\ results = {} /\ caches = MaxLoads /\ sem = 0
  /\ maps = TRUE /\ progs = Progs /\ links = Progs \ TailProgs /\ readers = PerfMaps \union {"rings"}

-----------------------------------------------------------------------------
(* loadCollection and forEachLimited.                                        *)

\* ebpf: no tracefs, too old a kernel, or one without BTF.
Refused ==
  /\ boot = "maps" /\ boot' = "failed"
  /\ UNCHANGED <<loadVars, maps, progs, links, readers>>

LoadMaps ==
  /\ boot = "maps"
  /\ \/ boot' = "programs" /\ maps' = TRUE
     \/ boot' = "failed" /\ UNCHANGED maps
  /\ UNCHANGED <<loadVars, progs, links, readers>>

\* The semaphore is taken before the goroutine is started.
Spawn(p) ==
  /\ boot = "programs" /\ load[p] = "new" /\ sem < MaxLoads
  /\ sem' = sem + 1 /\ load' = [load EXCEPT ![p] = "spawned"]
  /\ UNCHANGED <<boot, results, caches, maps, progs, links, readers>>

TakeCache(p) ==
  /\ load[p] = "spawned" /\ caches > 0
  /\ caches' = caches - 1 /\ load' = [load EXCEPT ![p] = "loading"]
  /\ UNCHANGED <<boot, results, sem, maps, progs, links, readers>>

\* The verifier may refuse the program.  The channel has room for every result.
Load(p) ==
  /\ load[p] = "loading" /\ Cardinality(results) < Cardinality(Progs)
  /\ \E ok \in BOOLEAN : /\ results' = results \union {[prog |-> p, ok |-> ok]}
                         /\ progs' = IF ok THEN progs \union {p} ELSE progs
  /\ load' = [load EXCEPT ![p] = "sent"]
  /\ UNCHANGED <<boot, caches, sem, maps, links, readers>>

\* Mutant: the semaphore is given back before the cache.
ReturnCacheLast(p) ==
  /\ \/ load[p] = "sent" /\ sem' = sem - 1 /\ load' = [load EXCEPT ![p] = "returned"] /\ UNCHANGED caches
     \/ load[p] = "returned" /\ caches' = caches + 1 /\ load' = [load EXCEPT ![p] = "done"] /\ UNCHANGED sem
  /\ UNCHANGED <<boot, results, maps, progs, links, readers>>

\* The deferred calls: the cache is returned by the function, the semaphore by its caller.
Return(p) ==
  /\ \/ load[p] = "sent" /\ caches' = caches + 1 /\ load' = [load EXCEPT ![p] = "returned"] /\ UNCHANGED sem
     \/ load[p] = "returned" /\ sem' = sem - 1 /\ load' = [load EXCEPT ![p] = "done"] /\ UNCHANGED caches
  /\ UNCHANGED <<boot, results, maps, progs, links, readers>>

\* Collection.Close
CloseCollection == progs' = {} /\ maps' = FALSE

\* All of the programs or none.
Loaded ==
  /\ boot = "programs" /\ \A p \in Progs : load[p] = "done"
  /\ IF \E r \in results : ~r.ok
     THEN boot' = "failed" /\ CloseCollection
     ELSE boot' = "tails" /\ UNCHANGED <<maps, progs>>
  /\ results' = {} /\ UNCHANGED <<load, caches, sem, links, readers>>

-----------------------------------------------------------------------------
(* The rest of Run.                                                          *)

\* Tracer.Close
Close == CloseCollection /\ links' = {} /\ readers' = {}

InstallTailProgs ==
  /\ boot = "tails"
  /\ \/ boot' = "readers" /\ UNCHANGED <<maps, progs>>
     \/ boot' = "failed" /\ CloseCollection
  /\ UNCHANGED <<loadVars, links, readers>>

\* ebpf: the readers of the perf buffers, then the merger.
StartReaders ==
  /\ boot = "readers"
  /\ \/ \E m \in PerfMaps \ readers : readers' = readers \union {m} /\ UNCHANGED <<boot, maps, progs, links>>
     \/ /\ PerfMaps \subseteq readers /\ readers' = readers \union {"rings"} /\ boot' = "scan"
        /\ UNCHANGED <<maps, progs, links>>
     \/ Close /\ boot' = "failed"
  /\ UNCHANGED loadVars

\* Of the failures only that of the scan leaves everything as it is.
ScanFails ==
  /\ boot = "scan" /\ boot' = "scanFailed"
  /\ UNCHANGED <<loadVars, maps, progs, links, readers>>

ScanEnds ==
  /\ boot = "scan" /\ boot' = "attach"
  /\ UNCHANGED <<loadVars, maps, progs, links, readers>>

Attached == Progs \ TailProgs

AttachPrograms ==
  /\ boot = "attach"
  /\ \/ \E p \in Attached \ links : links' = links \union {p} /\ UNCHANGED <<boot, maps, progs, readers>>
     \/ Attached \ Optional \subseteq links /\ boot' = "up" /\ UNCHANGED <<maps, progs, links, readers>>
     \/ ~(Attached \ Optional \subseteq links) /\ Close /\ boot' = "failed"
  /\ UNCHANGED loadVars

Loading == \E p \in Progs : TakeCache(p) \/ Load(p) \/ Return(p)
Run     == Refused \/ LoadMaps \/ (\E p \in Progs : Spawn(p)) \/ Loaded \/ InstallTailProgs \/ StartReaders \/ AttachPrograms

-----------------------------------------------------------------------------
\* A tracer that runs has every program loaded and attached (but for conntrack's, which may fail)
\* and every buffer read; one that could not be started, for whatever program, buffer or link,
\* has left nothing loaded, attached or read (the scan aside).  While programs load, no more of
\* them load than are allowed, and none waits for a cache of the kernel's types ("never waits: at
\* most as many loads as caches").
StartedOrNothing ==
  /\ load \in [Progs -> Steps]
  /\ boot = "up" => progs = Progs /\ Attached \ Optional \subseteq links /\ readers = PerfMaps \union {"rings"}
  /\ boot = "failed" => progs = {} /\ links = {} /\ readers = {} /\ ~maps
  /\ Cardinality({p \in Progs : load[p] \notin {"new", "done"}}) <= MaxLoads
  /\ (\E p \in Progs : load[p] = "spawned") => caches > 0
=============================================================================
