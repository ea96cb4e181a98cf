------------------------------ MODULE Registry ------------------------------
(***************************************************************************)
(* How Registry (containers/registry.go) finds the container of the        *)
(* process an event is of, and how containers learn that processes start   *)
(* and exit (containers/container.go, process.go).                         *)
(*                                                                         *)
(* Process events come through a perf buffer of each CPU, in any order,    *)
(* connection and L7 events through ring buffers read by another           *)
(* goroutine, so an exit can overtake the start of its process, and the    *)
(* events the process sent before it.  forwardEvents reads the cgroup of   *)
(* the process when an event passes; handleEvents may get to the event     *)
(* long after the process is gone, and then has to find its container by   *)
(* what it remembers of the pid: the containers of the running processes,  *)
(* of the ones that exited, of the early reads, and of its ancestors.      *)
(*                                                                         *)
(* A container is named by its cgroup.  What the handlers do to the        *)
(* registry is a function of the registry r and of the kernel's processes. *)
(* Entries with a time to live expire at any time after they were made.    *)
(***************************************************************************)
EXTENDS Naturals, Sequences, FiniteSets

CONSTANTS
  Pids,       \* pids
  Cgroups,    \* the cgroups of the node
  Skipped,    \* those that make no container (calcId, filters)
  None,
  Plans       \* bound: how often a pid is used, which processes may fork it (None: one that the
              \* agent does not know of), L7 events of each process, cgroups in use, processes
              \* that change them, processes whose start or exit may be lost, and events
              \* waiting in a buffer or in the channel

ASSUME CgroupsAssumption == None \notin Cgroups /\ None \notin Pids /\ Skipped \subseteq Cgroups

ASSUME PlansAssumption ==
  Plans \subseteq [starts : [Pids -> Nat], forks : [Pids -> SUBSET (Pids \union {None})],
                  events : [Pids -> Nat], cgroups : SUBSET Cgroups, moves : SUBSET Pids,
                  lossy : SUBSET Pids, ring : Nat]

VARIABLES
  plan,       \* the bounds of this behaviour
  alive,      \* kernel: the cgroup of the running process of a pid, None if there is none
  parents,    \* kernel: process_parents, None without an entry
  starts,     \* kernel: how many processes had the pid
  sent,       \* kernel: how many L7 events the process has sent
  procRing,   \* process events on their way to forwardEvents
  connRing,   \* L7 events on their way to forwardEvents
  events,     \* Registry.events
  early,      \* Registry.earlyCg
  reg,        \* the maps of handleEvents and the processes of the containers
  been,       \* history: the cgroups in which the last process of the pid was
  stale,      \* history: pids reused while containersByPid or recentlyExited had the process
              \* before, until the start is handled
  misread,    \* history: pids reused while the early read of another process was remembered,
              \* and not read again when the start was forwarded
  orphans,    \* history: pids of which what is remembered of an ancestor's pid may be wrong
  outcome     \* history: what became of the last L7 event

kernel == <<plan, alive, parents, starts, sent>>
ghosts == <<been, stale, misread, orphans>>
queues == <<procRing, connRing, events>>
vars   == <<kernel, queues, early, reg, ghosts, outcome>>

\* byPid: containersByPid; ignored: containersByPidIgnored; exited: recentlyExited;
\* known: containersById and containersByCgroupId; procs: Container.processes, "serving" with
\* the state of inbound connections, "standin" after the process is gone; zombie: zombieAt
\* ("old" after gcInterval).
Registries ==
  [byPid   : [Pids -> Cgroups \union {None}],
   ignored : SUBSET Pids,
   exited  : [Pids -> Cgroups \union {None}],
   known   : SUBSET (Cgroups \ Skipped),
   procs   : [Cgroups -> [Pids -> {"none", "live", "serving", "standin"}]],
   zombie  : [Cgroups -> {"no", "fresh", "old"}]]

NoOutcome == [doubtful |-> FALSE, been |-> {}, to |-> None]

Init ==
  /\ plan \in Plans
  /\ alive = [p \in Pids |-> None] /\ parents = [p \in Pids |-> None]
  /\ starts = [p \in Pids |-> 0] /\ sent = [p \in Pids |-> 0]
  /\ procRing = {} /\ connRing = <<>> /\ events = <<>>
  /\ early = [p \in Pids |-> None]
  /\ reg = [byPid |-> [p \in Pids |-> None], ignored |-> {}, exited |-> [p \in Pids |-> None],
            known |-> {}, procs |-> [c \in Cgroups |-> [p \in Pids |-> "none"]],
            zombie |-> [c \in Cgroups |-> "no"]]
  /\ been = [p \in Pids |-> {}] /\ stale = {} /\ misread = {} /\ orphans = {}
  /\ outcome = NoOutcome

-----------------------------------------------------------------------------
(* The kernel. *)

Event(kind, p) == [kind |-> kind, pid |-> p]

Waiting(p) ==
  \/ \E e \in procRing : e.pid = p
  \/ \E q \in {connRing, events} : \E k \in DOMAIN q : q[k].pid = p

\* The least set with p that is closed under parents, of the pids that go on: p and its
\* ancestors up to the first that does not.
Reached(p, goOn) ==
  {q \in Pids : \A S \in SUBSET Pids : (p \in S /\ \A s \in S \intersect goOn : parents[s] \in S) => q \in S}

Ancestry(p)    == Reached(p, {q \in Pids : parents[q] # None})
Descendants(p) == {q \in Pids : parents[q] # None /\ p \in Ancestry(parents[q])}

Doubtful == stale \union misread \union orphans

\* A process event is lost when the perf buffer is full.
PostProc(kind, p) ==
  \/ Cardinality(procRing) < plan.ring /\ procRing' = procRing \union {Event(kind, p)}
  \/ p \in plan.lossy /\ UNCHANGED procRing

\* A process starts, forked in the cgroup of its parent.  A pid is not reused while events of
\* its last owner wait, nor by a descendant of it that process_parents still knows as such.
Start(p) ==
  /\ alive[p] = None /\ starts[p] < plan.starts[p] /\ ~Waiting(p)
  /\ PostProc("start", p)
  /\ \E q \in plan.forks[p], g \in plan.cgroups :
       /\ q # None => g = alive[q] /\ p \notin Ancestry(q)
       /\ alive' = [alive EXCEPT ![p] = g]
       /\ parents' = [parents EXCEPT ![p] = q]
       /\ been' = [been EXCEPT ![p] = {g}]
       /\ stale' = IF {reg.byPid[p], reg.exited[p]} \subseteq {None, g} THEN stale \ {p} ELSE stale \union {p}
       /\ misread' = IF early[p] \in {None, g} THEN misread \ {p} ELSE misread \union {p}
       /\ orphans' = (orphans \ {p}) \union Descendants(p)
                     \union {r \in {p} : q # None /\ (q \in Doubtful \/ been[q] # {g})}
  /\ starts' = [starts EXCEPT ![p] = @ + 1]
  /\ sent' = [sent EXCEPT ![p] = 0]
  /\ UNCHANGED <<plan, connRing, events, early, reg, outcome>>

Exit(p) ==
  /\ alive[p] # None
  /\ PostProc("exit", p)
  /\ alive' = [alive EXCEPT ![p] = None]
  /\ UNCHANGED <<plan, parents, starts, sent, connRing, events, early, reg, ghosts, outcome>>

\* A process is moved to another cgroup, as a container runtime or systemd does with a new one.
Move(p) ==
  /\ alive[p] # None /\ p \in plan.moves
  /\ \E g \in plan.cgroups \ {alive[p]} :
       /\ alive' = [alive EXCEPT ![p] = g]
       /\ been' = [been EXCEPT ![p] = @ \union {g}]
  /\ orphans' = orphans \union Descendants(p)
  /\ UNCHANGED <<plan, parents, starts, sent, queues, early, reg, stale, misread, outcome>>

Request(p) ==
  /\ alive[p] # None /\ sent[p] < plan.events[p] /\ Len(connRing) < plan.ring
  /\ sent' = [sent EXCEPT ![p] = @ + 1]
  /\ connRing' = Append(connRing, Event("l7", p))
  /\ UNCHANGED <<plan, alive, parents, starts, procRing, events, early, reg, ghosts, outcome>>

-----------------------------------------------------------------------------
(* forwardEvents *)

\* noteCgroup: a start refreshes what is known of the pid, another event does not.
Noted(e, read) ==
  IF read # None /\ (e.kind = "start" \/ early[e.pid] = None) THEN read ELSE early[e.pid]

\* The cgroup is read, unless the process is gone or the read fails.
Forward(e) ==
  /\ Len(events) < plan.ring /\ events' = Append(events, e)
  /\ \E read \in {None, alive[e.pid]} :
       /\ early' = IF e.kind = "exit" THEN early ELSE [early EXCEPT ![e.pid] = Noted(e, read)]
       /\ misread' = IF e.kind = "start" /\ read # None THEN misread \ {e.pid} ELSE misread
  /\ UNCHANGED <<kernel, reg, been, stale, orphans, outcome>>

ForwardProc ==
  \E e \in procRing : Forward(e) /\ procRing' = procRing \ {e} /\ UNCHANGED connRing

ForwardConn ==
  connRing # <<>> /\ Forward(Head(connRing)) /\ connRing' = Tail(connRing) /\ UNCHANGED procRing

-----------------------------------------------------------------------------
(* The processes of a container. *)

Live(r, c) == {p \in Pids : r.procs[c][p] \in {"live", "serving"}}

\* What a handler can read of a process that runs: all it needs, all but its taskstats, as
\* when it exits at this moment, or not what makes its container: the cgroup cannot be read
\* or was deleted, there is no metadata, the process is in /init.scope until it is moved, or
\* the container cannot be made or registered.
Reads == {"all", "nostats", "failed"}

\* ensureProcess and onProcessStart: nothing if the container has a process with the pid, or
\* if there are no taskstats of it.
EnsureProcess(r, c, p, read) ==
  IF r.procs[c][p] # "none" \/ alive[p] = None \/ read # "all" THEN r
  ELSE [r EXCEPT !.procs[c][p] = "live", !.zombie[c] = "no"]

\* Mutant: the container is not marked when a stand-in stays.
OnProcessExitNoZombie(r, c, p) ==
  LET left == IF r.procs[c][p] = "serving" THEN "standin" ELSE "none"
      s == [r EXCEPT !.procs[c][p] = left]
  IN IF (\A q \in Pids : s.procs[c][q] = "none") /\ s.zombie[c] = "no"
       THEN [s EXCEPT !.zombie[c] = "fresh"] ELSE s

\* onProcessExitLocked: a process with inbound connections leaves a stand-in.
OnProcessExit(r, c, p) ==
  LET left == IF r.procs[c][p] = "serving" THEN "standin" ELSE "none"
      s == [r EXCEPT !.procs[c][p] = left]
  IN IF Live(s, c) = {} /\ s.zombie[c] = "no" THEN [s EXCEPT !.zombie[c] = "fresh"] ELSE s

\* earlyContainer: the container of the cgroup that was read when an event passed.
EarlyContainer(r, p) == IF early[p] \in r.known THEN early[p] ELSE None

\* processOf: the process of an inbound connection or request, a stand-in if it is gone;
\* onInboundConnectionOpen and observeInboundL7 give it their state.  A container that was
\* deleted since changes nothing that can be seen.
ProcessOf(r, c, p) ==
  CASE c \notin r.known -> r
    [] c \in r.known /\ r.procs[c][p] = "live" -> [r EXCEPT !.procs[c][p] = "serving"]
    [] c \in r.known /\ r.procs[c][p] = "none" /\ (r.exited[p] = c \/ alive[p] = None) ->
         [r EXCEPT !.procs[c][p] = "standin"]
    [] OTHER -> r

-----------------------------------------------------------------------------
(* The container of a pid: result.c, and the registry result.r after looking for it. *)

Result(r, c) == [r |-> r, c |-> c]

\* The process runs: its container is the one of its cgroup, made if there is none.  A
\* failure is not remembered.
ContainerOfRunning(r, p, read) ==
  LET c == alive[p] IN
  IF read = "failed" THEN Result(r, None)
  ELSE IF c \in Skipped THEN Result([r EXCEPT !.ignored = @ \union {p}], None)
  ELSE Result(EnsureProcess([r EXCEPT !.byPid[p] = c, !.known = @ \union {c}], c, p, read), c)

\* The pids of S are gone, and c was found for them.
Remembered(r, S, c) ==
  IF c = None THEN Result([r EXCEPT !.ignored = @ \union S], None)
  ELSE Result([r EXCEPT !.exited = [p \in Pids |-> IF p \in S THEN c ELSE @[p]]], c)

\* getOrCreateContainer without asking for the parent.
GetOrCreateRoot(r, p, read) ==
  CASE r.byPid[p] # None -> Result(r, r.byPid[p])
    [] r.byPid[p] = None /\ p \in r.ignored -> Result(r, None)
    [] r.byPid[p] = None /\ p \notin r.ignored /\ alive[p] # None -> ContainerOfRunning(r, p, read)
    [] OTHER -> Remembered(r, {p}, EarlyContainer(r, p))

\* The pids of which goneProcessContainer asks for the parent, and those it reaches from p.
AskParent(r) ==
  {p \in Pids : /\ r.byPid[p] = None /\ p \notin r.ignored /\ alive[p] = None
                /\ EarlyContainer(r, p) = None /\ parents[p] # None}
Asked(r, p) == Reached(p, AskParent(r))

\* getOrCreateContainer: of a process that is gone, the container of the early read, else of
\* its parent, of which the same is asked, and so on up to end, where process_parents, which
\* keeps the entries used last, may have lost the parent; all on the way are remembered with it.
GetOrCreateContainer(r, p, end, read) ==
  LET g == GetOrCreateRoot(r, end, read)
      way == {q \in Asked(r, p) \ {end} : end \in Asked(r, q)}
  IN Remembered(g.r, way, g.c)

\* containerOrLate, and the same lookups for an L7 event.
ContainerOrLate(r, p, end, read) ==
  CASE r.byPid[p] # None -> Result(r, r.byPid[p])
    [] r.byPid[p] = None /\ r.exited[p] # None -> Result(r, r.exited[p])
    [] OTHER -> GetOrCreateContainer(r, p, end, read)

-----------------------------------------------------------------------------
(* handleEvents *)

Handle(kind) == events # <<>> /\ Head(events).kind = kind /\ events' = Tail(events)
Handled == Head(events)

\* Mutant: the container a pid had is taken for that of its new process.
OnStartTrusting ==
  /\ Handle("start")
  /\ \E read \in Reads :
     LET p == Handled.pid
         r == [reg EXCEPT !.exited[p] = None]
     IN \E end \in Asked(r, p) :
        LET g == GetOrCreateContainer(r, p, end, read)
        IN reg' = IF g.c = None THEN g.r ELSE EnsureProcess(g.r, g.c, p, read)
  /\ stale' = stale \ {Handled.pid}
  /\ UNCHANGED <<kernel, procRing, connRing, early, been, misread, orphans, outcome>>

\* A pid that is known already has wrapped around and its exit was missed, unless its cgroup
\* is that of the container.
ForgetWrapped(r, p, read) ==
  LET c == r.byPid[p] IN
  IF c # None /\ (alive[p] # c \/ read = "failed") THEN OnProcessExit([r EXCEPT !.byPid[p] = None], c, p) ELSE r

OnStart ==
  /\ Handle("start")
  /\ \E first, read \in Reads :
     LET p == Handled.pid
         r == ForgetWrapped([reg EXCEPT !.exited[p] = None], p, first)
     IN \E end \in Asked(r, p) :
        LET g == GetOrCreateContainer(r, p, end, read)
        IN reg' = IF g.c = None THEN g.r ELSE EnsureProcess(g.r, g.c, p, read)
  /\ stale' = stale \ {Handled.pid}
  /\ UNCHANGED <<kernel, procRing, connRing, early, been, misread, orphans, outcome>>

\* Mutant: the container is not told of the exit.
OnExitForgetsPid ==
  /\ Handle("exit")
  /\ reg' = [reg EXCEPT !.byPid[Handled.pid] = None, !.exited[Handled.pid] = reg.byPid[Handled.pid]]
  /\ UNCHANGED <<kernel, procRing, connRing, early, ghosts, outcome>>

OnExit ==
  /\ Handle("exit")
  /\ LET p == Handled.pid
         c == reg.byPid[p]
     IN reg' = IF c = None THEN reg
               ELSE [OnProcessExit(reg, c, p) EXCEPT !.byPid[p] = None, !.exited[p] = c]
  /\ UNCHANGED <<kernel, procRing, connRing, early, ghosts, outcome>>

OnL7 ==
  /\ Handle("l7")
  /\ \E read \in Reads, end \in Asked(reg, Handled.pid) :
     LET p == Handled.pid
         g == ContainerOrLate(reg, p, end, read)
     IN /\ reg' = IF g.c = None THEN g.r ELSE ProcessOf(g.r, g.c, p)
        /\ outcome' = [doubtful |-> p \in Doubtful, been |-> been[p], to |-> g.c]
  /\ UNCHANGED <<kernel, procRing, connRing, early, ghosts>>

-----------------------------------------------------------------------------
(* Time and the sweeps. *)

\* The times to live: RecentlyExitedTTL of recentlyExited and of earlyCg, and
\* IgnoredContainersCacheTTL; gcInterval since a container has no process.
ExpireExited(p) ==
  /\ reg.exited[p] # None
  /\ reg' = [reg EXCEPT !.exited[p] = None]
  /\ UNCHANGED <<kernel, queues, early, ghosts, outcome>>

ExpireEarly(p) ==
  /\ early[p] # None
  /\ early' = [early EXCEPT ![p] = None]
  /\ UNCHANGED <<kernel, queues, reg, ghosts, outcome>>

ExpireIgnored(p) ==
  /\ p \in reg.ignored
  /\ reg' = [reg EXCEPT !.ignored = @ \ {p}]
  /\ UNCHANGED <<kernel, queues, early, ghosts, outcome>>

Ageing(c) ==
  /\ reg.zombie[c] = "fresh"
  /\ reg' = [reg EXCEPT !.zombie[c] = "old"]
  /\ UNCHANGED <<kernel, queues, early, ghosts, outcome>>

\* forgetGoneProcesses, of Container.gc and of the ticker of the container.
ForgetGone(c, p) ==
  /\ reg.procs[c][p] = "standin"
  /\ reg' = OnProcessExit(reg, c, p)
  /\ UNCHANGED <<kernel, queues, early, ghosts, outcome>>

\* Collect: taskstats do not know the process any more.
CollectDead(c, p) ==
  /\ p \in Live(reg, c) /\ alive[p] = None
  /\ reg' = OnProcessExit(reg, c, p)
  /\ UNCHANGED <<kernel, queues, early, ghosts, outcome>>

\* The first loop of the registry's gc, one pid of it: its process is gone or in another
\* cgroup, or its cgroup was deleted or could not be read.
Drop(p) ==
  /\ reg.byPid[p] # None
  /\ reg' = OnProcessExit([reg EXCEPT !.byPid[p] = None], reg.byPid[p], p)
  /\ UNCHANGED <<kernel, queues, early, ghosts, outcome>>
GcPid(p)  == alive[p] # reg.byPid[p] /\ Drop(p)
GcUnread(p) == alive[p] # None /\ Drop(p)

\* The second loop, one container of it: a dead container is deleted with its pids; the
\* containers made for the cgroup later are new ones.
GcDead(c) ==
  /\ c \in reg.known /\ reg.zombie[c] = "old"
  /\ reg' = [reg EXCEPT !.known = @ \ {c},
                        !.byPid = [p \in Pids |-> IF @[p] = c THEN None ELSE @[p]],
                        !.procs[c] = [p \in Pids |-> "none"], !.zombie[c] = "no"]
  /\ UNCHANGED <<kernel, queues, early, ghosts, outcome>>

\* containersByPidIgnored is made anew by every gc.
GcIgnored ==
  /\ reg.ignored # {}
  /\ reg' = [reg EXCEPT !.ignored = {}]
  /\ UNCHANGED <<kernel, queues, early, ghosts, outcome>>

KernelStep == \E p \in Pids : Start(p) \/ Exit(p) \/ Move(p) \/ Request(p)
EventLoop  == OnStart \/ OnExit \/ OnL7
Expiry     == (\E p \in Pids : ExpireExited(p) \/ ExpireEarly(p) \/ ExpireIgnored(p))
              \/ (\E c \in Cgroups : Ageing(c))
Sweep      == (\E c \in Cgroups, p \in Pids : ForgetGone(c, p) \/ CollectDead(c, p))
              \/ (\E p \in Pids : GcPid(p) \/ GcUnread(p)) \/ (\E c \in Cgroups : GcDead(c)) \/ GcIgnored

Next == KernelStep \/ ForwardProc \/ ForwardConn \/ EventLoop \/ Expiry \/ Sweep

\* The gc ticker of handleEvents fires again and again, and time passes.  Nothing is assumed of
\* the events: they may stay in their buffers for ever.
Fairness ==
  /\ \A p \in Pids : WF_vars(GcPid(p))
  /\ \A c \in Cgroups : WF_vars(Ageing(c)) /\ WF_vars(GcDead(c))

Spec == Init /\ [][Next]_vars /\ Fairness
-----------------------------------------------------------------------------
(* Properties *)

Events == [kind : {"start", "exit", "l7"}, pid : Pids]

\* Type invariant.
TypeOK ==
  /\ alive \in [Pids -> Cgroups \union {None}] /\ parents \in [Pids -> Pids \union {None}]
  /\ starts \in [Pids -> Nat] /\ sent \in [Pids -> Nat]
  /\ procRing \in SUBSET Events /\ connRing \in Seq(Events) /\ events \in Seq(Events)
  /\ early \in [Pids -> Cgroups \union {None}]
  /\ reg \in Registries
  /\ been \in [Pids -> SUBSET Cgroups] /\ Doubtful \subseteq Pids
  /\ outcome.doubtful \in BOOLEAN /\ outcome.been \subseteq Cgroups /\ outcome.to \in Cgroups \union {None}

\* The maps of the registry name the same containers: a pid belongs to a container that
\* containersById still has, and every running process a container counts has its pid in
\* containersByPid, where the gc will find that it is gone even if its exit is never seen.
\* A container with such a process is not on its way to be deleted (zombieAt is reset by
\* onProcessStart and set when the last one exits, stand-ins aside).
MapsAgree ==
  /\ TypeOK
  /\ \A p \in Pids : reg.byPid[p] # None => reg.byPid[p] \in reg.known
  /\ \A c \in Cgroups : \A p \in Live(reg, c) : reg.byPid[p] = c
  /\ \A c \in Cgroups : reg.zombie[c] # "no" => Live(reg, c) = {}

\* An L7 event is handed to the container of a cgroup in which the process that sent it has
\* been, or to none: neither what is remembered of an exited process, nor an early read of its
\* cgroup, nor the container of an ancestor, nor an exit that was missed leads to another one.
\* The exceptions are pids that were reused, while the agent still takes them for the process
\* before (until the start is handled, or for RecentlyExitedTTL if the cgroup could not be read
\* when it passed), and processes with an ancestor that changed its cgroup, whose pid was
\* reused, or of which one of these was the case when it forked (goneProcessContainer asks for
\* the container of the parent's pid as it is now).
RightContainer ==
  outcome.doubtful \/ outcome.to \in {None} \union outcome.been

\* A container whose last process is gone for good is deleted, also when its exit was lost,
\* when it was gone before taskstats were read, or when only stand-ins are left.
DeadContainerDeleted ==
  \A c \in Cgroups : []<>((\E p \in Pids : alive[p] = c) \/ c \notin reg.known)
=============================================================================
