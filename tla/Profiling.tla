----------------------------- MODULE Profiling -----------------------------
(***************************************************************************)
(* The profiler (profiling/profiling.go, profiling/goheap.go,              *)
(* jvm/async_profiler.go) for one pid that processes have one after the    *)
(* other.  The target finder stores what handleEvents announces; the       *)
(* collector initialises the target (FindTarget), starts and collects the  *)
(* async-profiler of a JVM and reads the allocation counters of a Go       *)
(* process.  It copies what it needs under the lock, works without it and  *)
(* stores the result under the pid: the process, or the target, may have   *)
(* been replaced in between.  A step between two locks is one action.      *)
(***************************************************************************)
EXTENDS Integers, Sequences, FiniteSets, Functions

CONSTANTS
  MaxProcs,  \* bound: the processes that have the pid
  Kinds,     \* bound: what the processes are, one after the other
  Buckets,   \* the allocation sites of a Go process: its mbuckets list, in this order
  MaxAllocs  \* bound: allocations of each process

None == 0
\* "disabled" is a Go process with EbpfProfilingDisabled, "taken" a JVM another tool profiles.
Kind == {"go", "disabled", "jvm", "taken"}
Procs == 1..MaxProcs

ASSUME ProfilingAssumption ==
  /\ MaxProcs \in Nat /\ Kinds \subseteq [Procs -> Kind] /\ MaxAllocs \in [Procs -> Nat]
  /\ Buckets = 1..Cardinality(Buckets)

VARIABLES
  kind,     \* what each process is
  last,     \* how many processes were started
  proc,     \* the process that has the pid
  allocs,   \* the allocation counters of each process
  agent,    \* the agent's async-profiler in each JVM: off, on, or lost: on, its dump file removed
  dead,     \* the session saw the pid die and has not cleaned up yet
  infos,    \* the process handleEvents is about to announce
  target,   \* TargetFinder.processes of the pid
  col,      \* the collector: where it is and what it copied
  reported, \* history: the allocations of each process that were reported, by site
  base,     \* history: its counters when they were read without last counters
  sampled,  \* history: the JVMs whose profile this round collected
  torn,     \* history: the processes whose list was once read in part
  touched   \* history: the processes whose target a step for another process changed

traced  == <<kind, last, proc, allocs, dead>>
results == <<reported, base, sampled, torn>>
profilerVars == <<traced, agent, infos, target, col, results, touched>>

NoCounts == [b \in Buckets |-> 0]
NoTarget == [proc |-> None, initialized |-> FALSE, isJvm |-> FALSE, isGo |-> FALSE, started |-> FALSE,
             err |-> FALSE, hasPrev |-> FALSE, prev |-> NoCounts]
At(pc) == [pc |-> pc, proc |-> None, hasPrev |-> FALSE, prev |-> NoCounts]

ProfilerInit ==
  /\ kind \in Kinds /\ last = 0 /\ proc = None /\ dead = FALSE
  /\ allocs = [p \in Procs |-> NoCounts] /\ agent = [p \in Procs |-> "off"]
  /\ infos = None /\ target = NoTarget /\ col = At("idle")
  /\ reported = [p \in Procs |-> NoCounts] /\ base = [p \in Procs |-> NoCounts]
  /\ sampled = {} /\ torn = {} /\ touched = {}

-----------------------------------------------------------------------------
(* The processes, and their announcement by handleEvents.                    *)

Start ==
  /\ proc = None /\ last < MaxProcs /\ infos = None
  /\ last' = last + 1 /\ proc' = last' /\ infos' = last'
  /\ UNCHANGED <<kind, allocs, dead, agent, target, col, results, touched>>

Exit ==
  /\ proc # None /\ proc' = None /\ dead' = TRUE
  /\ UNCHANGED <<kind, last, allocs, agent, infos, target, col, results, touched>>

Alloc(b) ==
  /\ proc # None /\ kind[proc] = "go" /\ SumFunction(allocs[proc]) < MaxAllocs[proc]
  /\ allocs' = [allocs EXCEPT ![proc][b] = @ + 1]
  /\ UNCHANGED <<kind, last, proc, dead, agent, infos, target, col, results, touched>>

\* A process that is gone when its start is handled is not announced.
AddTarget ==
  /\ infos # None /\ infos' = None
  /\ \/ target' = [NoTarget EXCEPT !.proc = infos]
     \/ proc # infos /\ UNCHANGED target
  /\ UNCHANGED <<traced, agent, col, results, touched>>

-----------------------------------------------------------------------------
(* A round of the collector.                                                 *)

Touches(p) == touched' = touched \union (IF target.proc \in {None, p} THEN {} ELSE {target.proc})

\* The profiler of those processes that are JVMs of the agent's is in this state now.
Sets(ps, state) == [p \in Procs |-> IF p \in ps /\ kind[p] = "jvm" THEN state ELSE agent[p]]

\* RemoveDeadPID, for a pid that died before this round.
CleanUp ==
  /\ col.pc = "idle" /\ dead /\ dead' = FALSE
  /\ target' = NoTarget /\ agent' = (IF target.started THEN Sets({proc}, "off") ELSE agent)
  /\ touched' = touched \union (({target.proc} \cap {proc}) \ {None})
  /\ UNCHANGED <<kind, last, proc, allocs, infos, col, results>>

\* The session asks for the target of a pid it has samples of.
FindTarget ==
  /\ col.pc = "idle" /\ ~dead /\ col' = At("jvm")
  /\ IF target.proc = None \/ target.initialized THEN UNCHANGED <<target, touched>>
     ELSE /\ target' = [target EXCEPT !.initialized = TRUE,
                                      !.isJvm = proc # None /\ kind[proc] \in {"jvm", "taken"},
                                      !.isGo = proc # None /\ kind[proc] = "go"]
          /\ Touches(proc)
  /\ UNCHANGED <<traced, agent, infos, results>>

\* The process is too young (CollectInterval), or had no samples.
NoTargetFound ==
  /\ col.pc = "idle" /\ ~dead /\ col' = At("jvm")
  /\ UNCHANGED <<traced, agent, infos, target, results, touched>>

\* collectAsyncProfilerProfiles copies the JVMs under the lock.
ListJvms ==
  /\ col.pc = "jvm"
  /\ col' = IF target.isJvm /\ ~target.err
            THEN [At(IF target.started THEN "collect" ELSE "deploy") EXCEPT !.proc = target.proc] ELSE At("go")
  /\ sampled' = {}
  /\ UNCHANGED <<traced, agent, infos, target, reported, base, torn, touched>>

\* IsAsyncProfilerAlreadyLoaded and DeployAndStartAsyncProfiler, which may fail.
Deploy ==
  /\ col.pc = "deploy"
  /\ \/ /\ proc # None /\ kind[proc] = "jvm" /\ agent' = Sets({proc}, "on")
        /\ col' = [col EXCEPT !.pc = "started"]
     \/ /\ UNCHANGED agent /\ col' = [col EXCEPT !.pc = "failed"]
     \/ /\ UNCHANGED agent /\ col' = At("go")   \* JavaAsyncProfilerDelay
  /\ UNCHANGED <<traced, infos, target, results, touched>>

\* The outcome is stored in whatever target the pid has now.
StoreOutcome ==
  /\ col.pc \in {"started", "failed"} /\ col' = At("go")
  /\ target' = IF target.proc = None THEN target
               ELSE IF col.pc = "started" THEN [target EXCEPT !.started = TRUE] ELSE [target EXCEPT !.err = TRUE]
  /\ Touches(col.proc)
  /\ UNCHANGED <<traced, agent, infos, results>>

\* A mutant: the profiler is not started again.
NotRestarted(state, stopped, restarted) == IF stopped \/ state = "off" THEN "off" ELSE "lost"

\* CollectAsyncProfiler stops the profiler, reads and removes its dump and starts it again, also
\* when it was not running; each may fail, and the profiler is not given up for it.
Restarted(state, stopped, restarted) ==
  IF restarted THEN "on" ELSE IF stopped \/ state = "off" THEN "off" ELSE "lost"

\* read: the dump could be read, if there is one, and parsed.
CollectAsyncProfiler(stopped, read, restarted) ==
  /\ col.pc = "collect" /\ proc # None /\ col' = At("go")
  /\ agent' = Sets({proc}, Restarted(agent[proc], stopped, restarted))
  /\ sampled' = IF agent[proc] = "on" /\ stopped /\ read THEN {proc} ELSE {}
  /\ UNCHANGED <<traced, infos, target, reported, base, torn, touched>>

\* Nothing is done for a process that is gone, or whose pid in its namespace cannot be read.
CollectJvm ==
  \/ \E stopped, read, restarted \in BOOLEAN : CollectAsyncProfiler(stopped, read, restarted)
  \/ /\ col.pc = "collect" /\ col' = At("go")
     /\ UNCHANGED <<traced, agent, infos, target, results, touched>>

\* collectGoHeapProfiles copies the Go processes and their last counters under the lock.
ListGo ==
  /\ col.pc = "go"
  /\ col' = IF target.isGo
            THEN [pc |-> "read", proc |-> target.proc, hasPrev |-> target.hasPrev, prev |-> target.prev]
            ELSE At("idle")
  /\ UNCHANGED <<traced, agent, infos, target, results, touched>>

\* A mutant: a counter that went down counts as nothing new, and one that is new as nothing.
DeltaOfKnown(cur, prev) == [b \in Buckets |-> IF prev[b] = 0 \/ cur[b] < prev[b] THEN 0 ELSE cur[b] - prev[b]]

\* A mutant: the last counters are ignored.
WholeCounters(cur, prev) == cur

\* buildProfiles: what is new since the last counters, all of it if the counter went down.
Delta(cur, prev) == [b \in Buckets |-> IF cur[b] < prev[b] THEN cur[b] ELSE cur[b] - prev[b]]

Plus(a, b) == [x \in Buckets |-> a[x] + b[x]]

\* readBuckets returns what it could read of the list.  The address is the one found in the
\* process of the target; in another process of the same program it may be right.  The history of
\* a process whose list was read in part ends there.
ReadBuckets ==
  /\ col.pc = "read"
  /\ \/ /\ proc # None /\ kind[proc] = "go"
        /\ \E n \in 0..Cardinality(Buckets) :
             LET cur == [b \in Buckets |-> IF b <= n THEN allocs[proc][b] ELSE 0]
                 new == IF col.hasPrev THEN Delta(cur, col.prev) ELSE NoCounts
             IN /\ torn' = torn \union {p \in {proc} : cur # allocs[p]}
                /\ reported' = [reported EXCEPT ![proc] = IF proc \in torn' THEN NoCounts ELSE Plus(@, new)]
                /\ base' = [base EXCEPT ![proc] = IF proc \in torn' THEN NoCounts
                                                  ELSE IF col.hasPrev THEN @ ELSE cur]
                /\ col' = IF cur = NoCounts THEN At("idle") ELSE [col EXCEPT !.pc = "store", !.prev = cur]
                /\ UNCHANGED sampled
     \/ /\ (proc = None \/ proc # col.proc) /\ col' = At("idle") /\ UNCHANGED results
  /\ UNCHANGED <<traced, agent, infos, target, touched>>

StorePrev ==
  /\ col.pc = "store" /\ col' = At("idle")
  /\ target' = IF target.proc = None THEN target ELSE [target EXCEPT !.hasPrev = TRUE, !.prev = col.prev]
  /\ Touches(col.proc)
  /\ UNCHANGED <<traced, agent, infos, results>>

-----------------------------------------------------------------------------
Collect ==
  \/ CleanUp \/ FindTarget \/ NoTargetFound
  \/ ListJvms \/ Deploy \/ StoreOutcome \/ CollectJvm
  \/ ListGo \/ ReadBuckets \/ StorePrev

ProfilerNext == Start \/ Exit \/ (\E b \in Buckets : Alloc(b)) \/ AddTarget \/ Collect

\* The collector's ticker keeps firing; a process that runs has samples, and the delay of the
\* async-profiler passes.  A profiler that is collected again and again is collected without an
\* error at some time, when it has its dump and when it has not.
ProfilerFairness ==
  /\ WF_profilerVars(AddTarget) /\ WF_profilerVars(Collect)
  /\ SF_profilerVars(FindTarget) /\ SF_profilerVars(Deploy /\ col'.pc # "go")
  /\ SF_profilerVars(CollectAsyncProfiler(TRUE, TRUE, TRUE))
  /\ SF_profilerVars(CollectAsyncProfiler(TRUE, TRUE, TRUE) /\ agent[proc] = "on")

ProfilerSpec == ProfilerInit /\ [][ProfilerNext]_profilerVars /\ ProfilerFairness

-----------------------------------------------------------------------------
\* No allocation of a site is reported twice (buildProfiles), whatever became of the pid between
\* the copy of the last counters and their use, as long as the list was read to its end each time.
ReportedOnce ==
  \A p \in Procs \ torn : \A b \in Buckets : reported[p][b] <= allocs[p][b]

\* The target of a process: nothing else was stored in it.
OwnTarget(p) == proc = p /\ target.proc = p /\ p \notin touched

\* What a Go process allocates after it was first read is reported (collectGoHeapProfiles), if it
\* lives on and its target is not changed for another process.
AllocationsReported ==
  \A p \in Procs :
    []<>(OwnTarget(p) /\ kind[p] = "go" /\ allocs[p] # NoCounts =>
           p \in torn \/ \A b \in Buckets : base[p][b] + reported[p][b] >= allocs[p][b])

\* A JVM is profiled (collectAsyncProfilerProfiles) in one round after another until it exits,
\* also after rounds in which its profiler could not be stopped, read or started again, unless it
\* could not be started at first or the target was changed for another process.
JvmProfiled ==
  \A p \in Procs :
    []<>(OwnTarget(p) /\ kind[p] = "jvm" => target.err \/ p \in sampled)
=============================================================================
