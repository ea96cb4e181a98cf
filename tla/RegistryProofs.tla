--------------------------- MODULE RegistryProofs ---------------------------
(***************************************************************************)
(* The maps of the registry agree, and an L7 event never goes to the       *)
(* container of a cgroup in which its process has not been, for any pids,  *)
(* cgroups and families of processes, any number of processes and events,  *)
(* process events in any order or lost, and reads that fail.               *)
(***************************************************************************)
EXTENDS Registry, TLAPS

\* What every registry that a handler leaves behind satisfies: the maps name the same containers.
Agree(r) ==
  /\ \A p \in Pids : r.byPid[p] # None => r.byPid[p] \in r.known
  /\ \A c \in Cgroups : \A p \in Live(r, c) : r.byPid[p] = c
  /\ \A c \in Cgroups : r.zombie[c] # "no" => Live(r, c) = {}

\* A pid, not of st, of which what is remembered is of its last process; the containers it may
\* lead to.
Trust(p, st) == p \notin st \union misread \union orphans
Own(p) == {None} \union been[p]

\* Of the parent of a process that is no orphan what is remembered is right, and it has not
\* been in a cgroup in which the child has not been.
Family(st) ==
  \A p \in Pids : p \notin orphans /\ parents[p] # None =>
    Trust(parents[p], st) /\ been[parents[p]] \subseteq been[p]

\* The kernel knows a process by one of its cgroups, and so does the early read that was made
\* of it.
Readable == \A p \in Pids : alive[p] \in Own(p) /\ (p \notin misread => early[p] \in Own(p))

\* So does what a registry remembers of the pid, once the start of the process was handled;
\* what was found when the process was gone, unless it came from an early read or an ancestor
\* that is wrong.
Memory(r, st) ==
  \A p \in Pids :
    /\ p \notin st => r.byPid[p] \in Own(p)
    /\ p \notin st \union orphans /\ (p \notin misread \/ alive[p] # None) => r.exited[p] \in Own(p)

FamilyInv == Family(stale)
MemoryInv == Readable /\ Memory(reg, stale)
RegistryInv == TypeOK /\ plan \in Plans /\ Agree(reg) /\ FamilyInv /\ MemoryInv /\ RightContainer

-----------------------------------------------------------------------------
(* The handlers as functions of the registry. *)

\* The maps of handleEvents, without the processes of the containers, are the same.
SameMaps(s, r) == s.byPid = r.byPid /\ s.ignored = r.ignored /\ s.exited = r.exited /\ s.known = r.known

\* The registry with one process of a container changed.
LEMMA ProcFacts ==
  ASSUME NEW r \in Registries, NEW c \in Cgroups, NEW p \in Pids,
         NEW what \in {"none", "live", "serving", "standin"},
         NEW s, s = [r EXCEPT !.procs[c][p] = what]
  PROVE  /\ s \in Registries /\ SameMaps(s, r) /\ s.zombie = r.zombie
         /\ s.procs[c][p] = what
         /\ \A d \in Cgroups, q \in Pids : (d # c \/ q # p) => s.procs[d][q] = r.procs[d][q]
BY Zenon DEF Registries, SameMaps

\* The registry with the mark of a container changed.
LEMMA ZombieFacts ==
  ASSUME NEW r \in Registries, NEW c \in Cgroups, NEW what \in {"no", "fresh", "old"},
         NEW s, s = [r EXCEPT !.zombie[c] = what]
  PROVE  /\ s \in Registries /\ SameMaps(s, r) /\ s.procs = r.procs
         /\ s.zombie[c] = what
         /\ \A d \in Cgroups \ {c} : s.zombie[d] = r.zombie[d]
<1>1. r.zombie \in [Cgroups -> {"no", "fresh", "old"}]
    BY Zenon DEF Registries
<1>2. s.zombie = [r.zombie EXCEPT ![c] = what] /\ SameMaps(s, r) /\ s.procs = r.procs
    BY Zenon DEF Registries, SameMaps
<1>3. s \in Registries
    BY Zenon DEF Registries
<1> QED BY <1>1, <1>2, <1>3

\* ensureProcess: the container has a live process more, and no mark, or nothing changes.
LEMMA EnsureFacts ==
  ASSUME NEW r \in Registries, NEW c \in Cgroups, NEW p \in Pids, NEW read \in Reads,
         NEW s, s = EnsureProcess(r, c, p, read)
  PROVE  /\ s \in Registries /\ SameMaps(s, r)
         /\ (Agree(r) /\ (alive[p] = None \/ r.byPid[p] = c)) => Agree(s)
<1>1. CASE r.procs[c][p] # "none" \/ alive[p] = None \/ read # "all"
    BY <1>1, Zenon DEF EnsureProcess, SameMaps
<1>2. CASE ~(r.procs[c][p] # "none" \/ alive[p] = None \/ read # "all")
    <2>0. PICK t : t = [r EXCEPT !.procs[c][p] = "live"]
        BY Zenon
    <2>1. s = [t EXCEPT !.zombie[c] = "no"]
        BY <1>2, <2>0, Zenon DEF EnsureProcess
    <2>2. /\ t \in Registries /\ SameMaps(t, r) /\ t.zombie = r.zombie
          /\ t.procs[c][p] = "live"
          /\ \A d \in Cgroups, q \in Pids : (d # c \/ q # p) => t.procs[d][q] = r.procs[d][q]
        BY <2>0, ProcFacts
    <2>3. /\ s \in Registries /\ SameMaps(s, t) /\ s.procs = t.procs
          /\ s.zombie[c] = "no"
          /\ \A d \in Cgroups \ {c} : s.zombie[d] = t.zombie[d]
        BY <2>1, <2>2, ZombieFacts
    <2>4. ASSUME Agree(r), alive[p] = None \/ r.byPid[p] = c PROVE Agree(s)
        BY <1>2, <2>2, <2>3, <2>4 DEF Agree, Live, SameMaps
    <2> QED BY <2>2, <2>3, <2>4, Zenon DEF SameMaps
<1> QED BY <1>1, <1>2, Zenon

\* onProcessExitLocked: the process is gone, and the container is marked if it was the last one.
LEMMA ExitFacts ==
  ASSUME NEW r \in Registries, NEW c \in Cgroups, NEW p \in Pids, NEW s, s = OnProcessExit(r, c, p)
  PROVE  /\ s \in Registries /\ SameMaps(s, r)
         /\ p \notin Live(s, c) /\ \A d \in Cgroups : Live(s, d) \subseteq Live(r, d)
         /\ \A d \in Cgroups : s.zombie[d] # "no" => r.zombie[d] # "no" \/ Live(s, d) = {}
<1>1. PICK left : left = IF r.procs[c][p] = "serving" THEN "standin" ELSE "none"
    BY Zenon
<1>2. PICK t : t = [r EXCEPT !.procs[c][p] = left]
    BY Zenon
<1>3. s = IF Live(t, c) = {} /\ t.zombie[c] = "no" THEN [t EXCEPT !.zombie[c] = "fresh"] ELSE t
    BY <1>1, <1>2, Zenon DEF OnProcessExit
<1>4. left \in {"none", "standin"}
    BY <1>1, Zenon
<1>5. /\ t \in Registries /\ SameMaps(t, r) /\ t.zombie = r.zombie
      /\ t.procs[c][p] = left
      /\ \A d \in Cgroups, q \in Pids : (d # c \/ q # p) => t.procs[d][q] = r.procs[d][q]
    BY <1>2, <1>4, ProcFacts, SMTT(30)
<1>6. p \notin Live(t, c) /\ \A d \in Cgroups : Live(t, d) \subseteq Live(r, d)
    BY <1>4, <1>5, Zenon DEF Live
<1>7. CASE Live(t, c) = {} /\ t.zombie[c] = "no"
    <2>1. /\ s \in Registries /\ SameMaps(s, t) /\ s.procs = t.procs
          /\ \A d \in Cgroups \ {c} : s.zombie[d] = t.zombie[d]
        BY <1>3, <1>5, <1>7, ZombieFacts
    <2>2. \A d : Live(s, d) = Live(t, d)
        BY <2>1, Zenon DEF Live
    <2> QED BY <1>5, <1>6, <1>7, <2>1, <2>2 DEF SameMaps
<1>8. CASE ~(Live(t, c) = {} /\ t.zombie[c] = "no")
    <2>1. s = t
        BY <1>3, <1>8, Zenon
    <2> QED BY <1>5, <1>6, <2>1, Zenon DEF SameMaps
<1> QED BY <1>7, <1>8, Zenon

\* The registry with what is remembered of an exited process changed, and without a pid.
WithExited(r, p, c) == [r EXCEPT !.exited[p] = c]
WithoutPid(r, p) == [r EXCEPT !.byPid[p] = None]

\* Nothing else changes with what is remembered of an exited process.
LEMMA ExitedFacts ==
  ASSUME NEW r \in Registries, NEW p \in Pids, NEW c \in Cgroups \union {None},
         NEW s, s = WithExited(r, p, c)
  PROVE  /\ s \in Registries /\ s.byPid = r.byPid /\ (Agree(r) => Agree(s))
         /\ s.exited[p] = c /\ \A q \in Pids \ {p} : s.exited[q] = r.exited[q]
<1>1. /\ s.byPid = r.byPid /\ s.known = r.known /\ s.procs = r.procs /\ s.zombie = r.zombie
      /\ s.ignored = r.ignored /\ s.exited = [r.exited EXCEPT ![p] = c]
    BY Zenon DEF Registries, WithExited
<1>2. r.exited \in [Pids -> Cgroups \union {None}]
    BY Zenon DEF Registries
<1>3. s \in Registries
    BY <1>2, Zenon DEF Registries, WithExited
<1> QED BY <1>1, <1>2, <1>3 DEF Agree, Live

\* Nothing else changes with the container of a pid.
LEMMA ByPidFacts ==
  ASSUME NEW r \in Registries, NEW p \in Pids, NEW s, s = WithoutPid(r, p)
  PROVE  /\ s \in Registries /\ s.exited = r.exited /\ s.known = r.known /\ s.procs = r.procs /\ s.zombie = r.zombie
         /\ s.byPid[p] = None /\ \A q \in Pids \ {p} : s.byPid[q] = r.byPid[q]
<1>1. /\ s.exited = r.exited /\ s.known = r.known /\ s.procs = r.procs /\ s.zombie = r.zombie
      /\ s.ignored = r.ignored /\ s.byPid = [r.byPid EXCEPT ![p] = None]
    BY Zenon DEF Registries, WithoutPid
<1>2. r.byPid \in [Pids -> Cgroups \union {None}]
    BY Zenon DEF Registries
<1>3. s \in Registries
    BY <1>2, Zenon DEF Registries, WithoutPid
<1> QED BY <1>1, <1>2, <1>3, Zenon

\* Pids are added to containersByPid with the cgroup of the process that runs.
Grown(s, r) == \A q \in Pids : s.byPid[q] = r.byPid[q] \/ (alive[q] # None /\ s.byPid[q] = alive[q])

\* What the lookups read: cgroups or nothing, and parents.
Readings ==
  /\ alive \in [Pids -> Cgroups \union {None}] /\ early \in [Pids -> Cgroups \union {None}]
  /\ parents \in [Pids -> Pids \union {None}]

\* Pids that are gone are remembered with their container, or ignored.
LEMMA RememberedFacts ==
  ASSUME NEW r \in Registries, NEW S \in SUBSET Pids, NEW c \in Cgroups \union {None},
         NEW g, g = Remembered(r, S, c)
  PROVE  /\ g.r \in Registries /\ g.c = c /\ (Agree(r) => Agree(g.r)) /\ g.r.byPid = r.byPid
         /\ \A q \in Pids : g.r.exited[q] = r.exited[q] \/ (c # None /\ q \in S /\ g.r.exited[q] = c)
<1>1. CASE c = None
    <2>0. PICK T : T = r.ignored \union S
        BY Zenon
    <2>1. g.c = c /\ g.r = [r EXCEPT !.ignored = T]
        BY <1>1, <2>0, Zenon DEF Remembered, Result
    <2>2. T \in SUBSET Pids
        BY <2>0, SMTT(30) DEF Registries
    <2>a. g.r \in Registries
        BY <2>1, <2>2, Zenon DEF Registries
    <2>3. /\ g.r.byPid = r.byPid /\ g.r.exited = r.exited /\ g.r.known = r.known
          /\ g.r.procs = r.procs /\ g.r.zombie = r.zombie
        BY <2>1, Zenon DEF Registries
    <2> QED BY <2>1, <2>a, <2>3 DEF Agree, Live
<1>2. CASE c # None
    <2>0. PICK f : f = [p \in Pids |-> IF p \in S THEN c ELSE r.exited[p]]
        BY Zenon
    <2>1. g.c = c /\ g.r = [r EXCEPT !.exited = f]
        BY <1>2, <2>0, Zenon DEF Remembered, Result
    <2>2. f \in [Pids -> Cgroups \union {None}]
        BY <2>0, SMTT(30) DEF Registries
    <2>3. g.r \in Registries
        BY <2>1, <2>2, Zenon DEF Registries
    <2>4. /\ g.r.byPid = r.byPid /\ g.r.exited = f /\ g.r.known = r.known
          /\ g.r.procs = r.procs /\ g.r.zombie = r.zombie
        BY <2>1, Zenon DEF Registries
    <2>5. Agree(r) => Agree(g.r)
        BY <2>4 DEF Agree, Live
    <2>6. \A q \in Pids : g.r.exited[q] = r.exited[q] \/ (c # None /\ q \in S /\ g.r.exited[q] = c)
        BY <1>2, <2>0, <2>4, Zenon
    <2> QED BY <2>1, <2>3, <2>4, <2>5, <2>6, Zenon
<1> QED BY <1>1, <1>2, Zenon

\* A process that runs gets the container of its cgroup.
LEMMA RunningFacts ==
  ASSUME Readings, NEW r \in Registries, NEW p \in Pids, NEW read \in Reads, alive[p] # None,
         r.byPid[p] = None, NEW g, g = ContainerOfRunning(r, p, read)
  PROVE  /\ g.r \in Registries /\ g.c \in {None, alive[p]} /\ (Agree(r) => Agree(g.r)) /\ Grown(g.r, r)
         /\ g.r.exited = r.exited
         /\ g.c # None => g.r.byPid[p] = g.c
<1>0. alive[p] \in Cgroups
    BY Zenon DEF Readings
<1>f. CASE read = "failed"
    <2>1. g.c = None /\ g.r = r
        BY <1>f, Zenon DEF ContainerOfRunning, Result
    <2> QED BY <2>1, Zenon DEF Grown
<1>1. CASE read # "failed" /\ alive[p] \in Skipped
    <2>1. g.c = None /\ g.r = [r EXCEPT !.ignored = @ \union {p}]
        BY <1>1, Zenon DEF ContainerOfRunning, Result
    <2>2. g.r \in Registries
        BY <2>1, SMTT(30) DEF Registries
    <2>3. /\ g.r.byPid = r.byPid /\ g.r.exited = r.exited /\ g.r.known = r.known
          /\ g.r.procs = r.procs /\ g.r.zombie = r.zombie
        BY <2>1, Zenon DEF Registries
    <2> QED BY <2>1, <2>2, <2>3 DEF Agree, Live, Grown
<1>2. CASE read # "failed" /\ alive[p] \notin Skipped
    <2>0. PICK t : t = [r EXCEPT !.byPid[p] = alive[p], !.known = @ \union {alive[p]}]
        BY Zenon
    <2>1. g.c = alive[p] /\ g.r = EnsureProcess(t, alive[p], p, read)
        BY <1>2, <2>0, Zenon DEF ContainerOfRunning, Result
    <2>2. t \in Registries
        BY <1>0, <1>2, <2>0, Zenon DEF Registries
    <2>3. /\ t.byPid = [r.byPid EXCEPT ![p] = alive[p]] /\ t.exited = r.exited
          /\ t.known = r.known \union {alive[p]} /\ t.procs = r.procs /\ t.zombie = r.zombie
        BY <2>0, Zenon DEF Registries
    <2>4. t.byPid[p] = alive[p] /\ \A q \in Pids \ {p} : t.byPid[q] = r.byPid[q]
        BY <2>3, Zenon DEF Registries
    <2>5. Agree(r) => Agree(t)
        <3> SUFFICES ASSUME Agree(r) PROVE Agree(t)
            BY Zenon
        <3>1. \A d \in Cgroups : Live(t, d) = Live(r, d) /\ p \notin Live(r, d)
            BY <1>0, <2>3, CgroupsAssumption DEF Live, Agree
        <3>2. \A q \in Pids : t.byPid[q] # None => t.byPid[q] \in t.known
            BY <2>3, <2>4, Zenon DEF Agree
        <3>3. \A d \in Cgroups : \A q \in Live(t, d) : t.byPid[q] = d
            BY <2>4, <3>1 DEF Agree, Live
        <3> QED BY <2>3, <3>1, <3>2, <3>3, Zenon DEF Agree
    <2>6. /\ g.r \in Registries /\ SameMaps(g.r, t) /\ (Agree(t) => Agree(g.r))
        BY <1>0, <2>1, <2>2, <2>4, EnsureFacts
    <2> QED BY <2>1, <2>3, <2>4, <2>5, <2>6 DEF SameMaps, Grown
<1> QED BY <1>f, <1>1, <1>2, Zenon

\* getOrCreateContainer without the parent.
LEMMA RootFacts ==
  ASSUME Readings, NEW r \in Registries, NEW p \in Pids, NEW read \in Reads,
         NEW g, g = GetOrCreateRoot(r, p, read)
  PROVE  /\ g.r \in Registries /\ g.c \in Cgroups \union {None} /\ (Agree(r) => Agree(g.r)) /\ Grown(g.r, r)
         /\ g.c \in {None, r.byPid[p], alive[p], early[p]}
         /\ \A q \in Pids : g.r.exited[q] = r.exited[q] \/ (alive[q] = None /\ g.r.exited[q] = early[q])
         /\ g.c # None /\ alive[p] # None => g.r.byPid[p] = g.c
<1>1. CASE r.byPid[p] # None
    <2>1. g.r = r /\ g.c = r.byPid[p]
        BY <1>1, Zenon DEF GetOrCreateRoot, Result
    <2> QED BY <2>1, Zenon DEF Grown, Registries
<1>2. CASE r.byPid[p] = None /\ p \in r.ignored
    <2>1. g.r = r /\ g.c = None
        BY <1>2, Zenon DEF GetOrCreateRoot, Result
    <2> QED BY <2>1, Zenon DEF Grown
<1>3. CASE r.byPid[p] = None /\ p \notin r.ignored /\ alive[p] # None
    <2>1. g = ContainerOfRunning(r, p, read)
        BY <1>3, Zenon DEF GetOrCreateRoot
    <2>2. /\ g.r \in Registries /\ g.c \in {None, alive[p]} /\ (Agree(r) => Agree(g.r)) /\ Grown(g.r, r)
          /\ g.r.exited = r.exited
          /\ g.c # None => g.r.byPid[p] = g.c
        BY <1>3, <2>1, RunningFacts
    <2> QED BY <2>2, Zenon DEF Readings
<1>4. CASE r.byPid[p] = None /\ p \notin r.ignored /\ alive[p] = None
    <2>0. PICK c : c = EarlyContainer(r, p)
        BY Zenon
    <2>s. PICK S : S = {p}
        BY Zenon
    <2>1. g = Remembered(r, S, c) /\ S \in SUBSET Pids
        BY <1>4, <2>0, <2>s, Zenon DEF GetOrCreateRoot
    <2>2. c \in {None, early[p]} /\ c \in Cgroups \union {None}
        BY <2>0, Zenon DEF EarlyContainer, Readings
    <2>3. /\ g.r \in Registries /\ g.c = c /\ (Agree(r) => Agree(g.r)) /\ g.r.byPid = r.byPid
          /\ \A q \in Pids : g.r.exited[q] = r.exited[q] \/ (c # None /\ q \in S /\ g.r.exited[q] = c)
        BY <2>1, <2>2, RememberedFacts
    <2> QED BY <1>4, <2>s, <2>2, <2>3, Zenon DEF Grown
<1> QED BY <1>1, <1>2, <1>3, <1>4, Zenon

\* goneProcessContainer goes on to another pid only from one whose process is gone, and, from
\* one of which what is remembered is right, only to such pids.
LEMMA AskedFacts ==
  ASSUME Readings, NEW r \in Registries, NEW p \in Pids, NEW q \in Asked(r, p)
  PROVE  /\ q \in Pids /\ (q # p => alive[p] = None)
         /\ \A st : Family(st) /\ Trust(p, st) => Trust(q, st) /\ been[q] \subseteq been[p]
<1>1. q \in Pids /\ \A S \in SUBSET Pids : (p \in S /\ \A s \in S \intersect AskParent(r) : parents[s] \in S) => q \in S
    BY Zenon DEF Asked, Reached
<1>2. ASSUME q # p PROVE alive[p] = None
    <2>1. {p} \in SUBSET Pids /\ p \in {p} /\ q \notin {p}
        BY <1>2, Zenon
    <2>2. p \in AskParent(r)
        BY <1>1, <2>1, Zenon
    <2> QED BY <2>2, Zenon DEF AskParent
<1>3. ASSUME NEW st, Family(st), Trust(p, st) PROVE Trust(q, st) /\ been[q] \subseteq been[p]
    <2>0. PICK S : S = {t \in Pids : Trust(t, st) /\ been[t] \subseteq been[p]}
        BY Zenon
    <2>1. S \in SUBSET Pids /\ p \in S
        BY <1>3, <2>0, Zenon
    <2>2. ASSUME NEW s \in S \intersect AskParent(r) PROVE parents[s] \in S
        <3>1. s \in Pids /\ Trust(s, st) /\ been[s] \subseteq been[p] /\ parents[s] # None
            BY <2>0, <2>2, Zenon DEF AskParent
        <3>2. parents[s] \in Pids
            BY <3>1, SMTT(30) DEF Readings
        <3>3. Trust(parents[s], st) /\ been[parents[s]] \subseteq been[s]
            BY <1>3, <3>1, Zenon DEF Family, Trust
        <3> QED BY <2>0, <3>1, <3>2, <3>3, Zenon
    <2>3. q \in S
        BY <1>1, <2>1, <2>2, Zenon
    <2> QED BY <2>0, <2>3, Zenon
<1> QED BY <1>1, <1>2, <1>3, Zenon

\* getOrCreateContainer: the container is one in which the process has been, and the pids on
\* the way are remembered with one in which theirs have been.
LEMMA LookupFacts ==
  ASSUME Readings, NEW r \in Registries, NEW p \in Pids, NEW end \in Asked(r, p), NEW read \in Reads,
         NEW g, g = GetOrCreateContainer(r, p, end, read)
  PROVE  /\ g.r \in Registries /\ g.c \in Cgroups \union {None} /\ (Agree(r) => Agree(g.r)) /\ Grown(g.r, r)
         /\ g.c # None /\ alive[p] # None => g.r.byPid[p] = g.c
         /\ \A st : Readable /\ Family(st) /\ Memory(r, st) =>
              Memory(g.r, st) /\ (Trust(p, st) => g.c \in Own(p))
<1>0. end \in Pids /\ (end # p => alive[p] = None)
    BY AskedFacts, Zenon
<1>1. PICK h : h = GetOrCreateRoot(r, end, read)
    BY Zenon
<1>2. PICK way : way = {q \in Asked(r, p) \ {end} : end \in Asked(r, q)}
    BY Zenon
<1>3. g = Remembered(h.r, way, h.c)
    BY <1>1, <1>2, Zenon DEF GetOrCreateContainer
<1>4. way \in SUBSET Pids
    BY <1>2, AskedFacts, Zenon
<1>5. /\ h.r \in Registries /\ h.c \in Cgroups \union {None} /\ (Agree(r) => Agree(h.r)) /\ Grown(h.r, r)
      /\ h.c \in {None, r.byPid[end], alive[end], early[end]}
      /\ \A q \in Pids : h.r.exited[q] = r.exited[q] \/ (alive[q] = None /\ h.r.exited[q] = early[q])
      /\ h.c # None /\ alive[end] # None => h.r.byPid[end] = h.c
    BY <1>0, <1>1, RootFacts
<1>6. /\ g.r \in Registries /\ g.c = h.c /\ (Agree(h.r) => Agree(g.r)) /\ g.r.byPid = h.r.byPid
      /\ \A q \in Pids : g.r.exited[q] = h.r.exited[q] \/ (q \in way /\ g.r.exited[q] = h.c)
    <2>1. PICK t : t = h.r
        BY Zenon
    <2>2. PICK c : c = h.c
        BY Zenon
    <2>3. t \in Registries /\ c \in Cgroups \union {None} /\ g = Remembered(t, way, c)
        BY <1>3, <1>5, <2>1, <2>2, Zenon
    <2>4. /\ g.r \in Registries /\ g.c = c /\ (Agree(t) => Agree(g.r)) /\ g.r.byPid = t.byPid
          /\ \A q \in Pids : g.r.exited[q] = t.exited[q] \/ (c # None /\ q \in way /\ g.r.exited[q] = c)
        BY <1>4, <2>3, RememberedFacts
    <2> QED BY <2>1, <2>2, <2>4, Zenon
<1>7. \A q \in way : alive[q] = None /\ end \in Asked(r, q) /\ q \in Pids
    BY <1>2, <1>4, AskedFacts, Zenon
<1>8. ASSUME NEW st, Readable, Family(st), Memory(r, st)
      PROVE  Memory(g.r, st) /\ (Trust(p, st) => g.c \in Own(p))
    <2>1. ASSUME NEW q \in Pids, Trust(q, st), end \in Asked(r, q) PROVE h.c \in Own(q)
        <3>1. Trust(end, st) /\ been[end] \subseteq been[q]
            BY <1>8, <2>1, AskedFacts, Zenon
        <3>2. r.byPid[end] \in Own(end) /\ alive[end] \in Own(end) /\ early[end] \in Own(end)
            BY <1>0, <1>8, <3>1, Zenon DEF Memory, Readable, Trust
        <3>3. Own(end) \subseteq Own(q) /\ None \in Own(q)
            BY <3>1, Zenon DEF Own
        <3> QED BY <1>5, <3>2, <3>3, Zenon
    <2>2. ASSUME NEW q \in Pids, q \notin st PROVE g.r.byPid[q] \in Own(q)
        BY <1>5, <1>6, <1>8, <2>2, Zenon DEF Grown, Memory, Readable
    <2>3. ASSUME NEW q \in Pids, q \notin st \union orphans, q \notin misread \/ alive[q] # None
          PROVE  g.r.exited[q] \in Own(q)
        <3>1. r.exited[q] \in Own(q) /\ (alive[q] = None => early[q] \in Own(q))
            BY <1>8, <2>3, Zenon DEF Memory, Readable
        <3>2. q \in way => h.c \in Own(q)
            BY <1>7, <2>1, <2>3, Zenon DEF Trust
        <3> QED BY <1>5, <1>6, <3>1, <3>2, Zenon
    <2>4. Memory(g.r, st)
        BY <2>2, <2>3, Zenon DEF Memory
    <2> QED BY <1>6, <2>1, <2>4, Zenon
<1>9. g.c # None /\ alive[p] # None => g.r.byPid[p] = g.c
    BY <1>0, <1>5, <1>6, Zenon
<1>10. Grown(g.r, r)
    BY <1>5, <1>6, Zenon DEF Grown
<1> QED BY <1>5, <1>6, <1>8, <1>9, <1>10, Zenon

\* processOf: a live process of a known container serves, or a stand-in is made.
LEMMA ProcessOfFacts ==
  ASSUME NEW r \in Registries, NEW c \in Cgroups, NEW p \in Pids, NEW s, s = ProcessOf(r, c, p)
  PROVE  s \in Registries /\ SameMaps(s, r) /\ (Agree(r) => Agree(s))
<1>1. CASE s = r
    BY <1>1, Zenon DEF SameMaps
<1>2. CASE r.procs[c][p] = "live" /\ s = [r EXCEPT !.procs[c][p] = "serving"]
    <2>1. /\ s \in Registries /\ SameMaps(s, r) /\ s.zombie = r.zombie
          /\ s.procs[c][p] = "serving"
          /\ \A d \in Cgroups, q \in Pids : (d # c \/ q # p) => s.procs[d][q] = r.procs[d][q]
        BY <1>2, ProcFacts
    <2>2. \A d \in Cgroups : Live(s, d) = Live(r, d)
        BY <1>2, <2>1 DEF Live
    <2> QED BY <2>1, <2>2 DEF Agree, SameMaps
<1>3. CASE r.procs[c][p] = "none" /\ s = [r EXCEPT !.procs[c][p] = "standin"]
    <2>1. /\ s \in Registries /\ SameMaps(s, r) /\ s.zombie = r.zombie
          /\ s.procs[c][p] = "standin"
          /\ \A d \in Cgroups, q \in Pids : (d # c \/ q # p) => s.procs[d][q] = r.procs[d][q]
        BY <1>3, ProcFacts
    <2>2. \A d \in Cgroups : Live(s, d) = Live(r, d)
        BY <1>3, <2>1, Zenon DEF Live
    <2> QED BY <2>1, <2>2 DEF Agree, SameMaps
<1> QED BY <1>1, <1>2, <1>3, Zenon DEF ProcessOf

\* A pid is taken out of containersByPid and its container is told that the process is gone.
LEMMA DropFacts ==
  ASSUME NEW r \in Registries, Agree(r), NEW p \in Pids, NEW c \in Cgroups, r.byPid[p] = c,
         NEW t, t = WithoutPid(r, p), NEW s, s = OnProcessExit(t, c, p)
  PROVE  /\ s \in Registries /\ Agree(s) /\ s.exited = r.exited /\ s.byPid[p] = None
         /\ \A q \in Pids \ {p} : s.byPid[q] = r.byPid[q]
<1>1. /\ t \in Registries /\ t.exited = r.exited /\ t.known = r.known /\ t.procs = r.procs /\ t.zombie = r.zombie
      /\ t.byPid[p] = None /\ \A q \in Pids \ {p} : t.byPid[q] = r.byPid[q]
    BY ByPidFacts
<1>2. /\ s \in Registries /\ SameMaps(s, t)
      /\ p \notin Live(s, c) /\ \A d \in Cgroups : Live(s, d) \subseteq Live(t, d)
      /\ \A d \in Cgroups : s.zombie[d] # "no" => t.zombie[d] # "no" \/ Live(s, d) = {}
    BY <1>1, ExitFacts
<1>3. \A d \in Cgroups : Live(t, d) = Live(r, d)
    BY <1>1, Zenon DEF Live
<1>4. \A q \in Pids : s.byPid[q] # None => s.byPid[q] \in s.known
    BY <1>1, <1>2 DEF Agree, SameMaps
<1>5. ASSUME NEW d \in Cgroups, NEW q \in Live(s, d) PROVE s.byPid[q] = d
    <2>1. q \in Live(r, d) /\ q \in Pids /\ r.byPid[q] = d
        BY <1>2, <1>3 DEF Agree, Live
    <2>2. q # p
        BY <1>2, <1>5, <2>1, Zenon
    <2> QED BY <1>1, <1>2, <2>1, <2>2 DEF SameMaps
<1>6. \A d \in Cgroups : s.zombie[d] # "no" => Live(s, d) = {}
    BY <1>1, <1>2, <1>3 DEF Agree
<1> QED BY <1>1, <1>2, <1>4, <1>5, <1>6 DEF Agree, SameMaps

-----------------------------------------------------------------------------
(* What the handlers do to the registry. *)

\* The conjuncts of the invariant as they are used.
LEMMA InvFacts ==
  ASSUME RegistryInv
  PROVE  /\ Readings /\ starts \in [Pids -> Nat] /\ sent \in [Pids -> Nat]
         /\ alive \in [Pids -> Cgroups \union {None}] /\ early \in [Pids -> Cgroups \union {None}]
         /\ parents \in [Pids -> Pids \union {None}] /\ been \in [Pids -> SUBSET Cgroups]
         /\ procRing \in SUBSET Events /\ connRing \in Seq(Events) /\ events \in Seq(Events)
         /\ reg \in Registries /\ Agree(reg) /\ Doubtful \subseteq Pids
         /\ Family(stale) /\ Readable /\ Memory(reg, stale)
BY Zenon DEF RegistryInv, TypeOK, Readings, FamilyInv, MemoryInv

\* The event at the head of a queue, and what is behind it.
LEMMA HeadFacts ==
  ASSUME NEW q \in Seq(Events), q # <<>>
  PROVE  Head(q) \in Events /\ Head(q).pid \in Pids /\ Tail(q) \in Seq(Events)
<1>1. Head(q) \in Events /\ Tail(q) \in Seq(Events)
    OBVIOUS
<1> QED BY <1>1, Zenon DEF Events

LEMMA HandledFacts ==
  ASSUME RegistryInv, events # <<>>
  PROVE  Handled.pid \in Pids /\ Tail(events) \in Seq(Events)
BY InvFacts, HeadFacts, Zenon DEF Handled

\* A start: what is remembered of the pid is forgotten unless it is of the process that runs.
LEMMA OnStartFacts ==
  ASSUME RegistryInv, OnStart
  PROVE  reg' \in Registries /\ Agree(reg') /\ Memory(reg', stale \ {Handled.pid})
<1>p. PICK p : p = Handled.pid
    BY Zenon
<1>0. /\ Readings /\ reg \in Registries /\ Agree(reg) /\ p \in Pids
      /\ Family(stale) /\ Readable /\ Memory(reg, stale)
    BY <1>p, InvFacts, HandledFacts, Zenon DEF OnStart, Handle
<1>r. PICK r : r = WithExited(reg, p, None)
    BY Zenon
<1>e. PICK first \in Reads, read \in Reads : \E s :
        /\ s = ForgetWrapped(r, p, first)
        /\ \E end \in Asked(s, p) : \E g :
             /\ g = GetOrCreateContainer(s, p, end, read)
             /\ reg' = IF g.c = None THEN g.r ELSE EnsureProcess(g.r, g.c, p, read)
    BY <1>p, <1>r, Zenon DEF OnStart, WithExited
<1>s. PICK s :
        /\ s = ForgetWrapped(r, p, first)
        /\ \E end \in Asked(s, p) : \E g :
             /\ g = GetOrCreateContainer(s, p, end, read)
             /\ reg' = IF g.c = None THEN g.r ELSE EnsureProcess(g.r, g.c, p, read)
    BY <1>e, Zenon
<1>d. PICK end \in Asked(s, p) : \E g :
        /\ g = GetOrCreateContainer(s, p, end, read)
        /\ reg' = IF g.c = None THEN g.r ELSE EnsureProcess(g.r, g.c, p, read)
    BY <1>s, Zenon
<1>g. PICK g :
        /\ g = GetOrCreateContainer(s, p, end, read)
        /\ reg' = IF g.c = None THEN g.r ELSE EnsureProcess(g.r, g.c, p, read)
    BY <1>d, Zenon
<1>3. /\ r \in Registries /\ Agree(r) /\ r.byPid = reg.byPid
      /\ r.exited[p] = None /\ \A q \in Pids \ {p} : r.exited[q] = reg.exited[q]
    <2>1. None \in Cgroups \union {None}
        BY Zenon
    <2> QED BY <1>0, <1>r, <2>1, ExitedFacts
<1>4. /\ s \in Registries /\ Agree(s) /\ s.byPid[p] \in {None, alive[p]} /\ s.exited = r.exited
      /\ \A q \in Pids \ {p} : s.byPid[q] = reg.byPid[q]
    <2>0. PICK c : c = r.byPid[p]
        BY Zenon
    <2>1. CASE ~(c # None /\ (alive[p] # c \/ first = "failed"))
        <3>1. s = r
            BY <1>s, <2>0, <2>1, Zenon DEF ForgetWrapped
        <3> QED BY <1>3, <2>0, <2>1, <3>1, Zenon
    <2>2. CASE c # None /\ (alive[p] # c \/ first = "failed")
        <3>0. PICK t : t = WithoutPid(r, p)
            BY Zenon
        <3>1. c \in Cgroups /\ r.byPid[p] = c
            BY <1>0, <1>3, <2>0, <2>2 DEF Registries
        <3>2. s = OnProcessExit(t, c, p)
            BY <1>s, <2>0, <2>2, <3>0, Zenon DEF ForgetWrapped, WithoutPid
        <3>3. /\ s \in Registries /\ Agree(s) /\ s.exited = r.exited /\ s.byPid[p] = None
              /\ \A q \in Pids \ {p} : s.byPid[q] = r.byPid[q]
            BY <1>0, <1>3, <3>0, <3>1, <3>2, DropFacts
        <3> QED BY <1>3, <3>3, Zenon
    <2> QED BY <2>1, <2>2, Zenon
<1>st. PICK st : st = stale \ {p}
    BY Zenon
<1>5. Family(st) /\ Memory(s, st)
    <2>1. Family(st)
        BY <1>0, <1>st, Zenon DEF Family, Trust
    <2>2. ASSUME NEW q \in Pids
          PROVE  /\ q \notin st => s.byPid[q] \in Own(q)
                 /\ q \notin st \union orphans /\ (q \notin misread \/ alive[q] # None) => s.exited[q] \in Own(q)
        <3>1. CASE q = p
            <4>1. None \in Own(q) /\ alive[q] \in Own(q)
                BY <1>0, Zenon DEF Own, Readable
            <4> QED BY <1>3, <1>4, <3>1, <4>1, Zenon
        <3>2. CASE q # p
            <4>1. q \notin st => q \notin stale
                BY <1>st, <3>2, Zenon
            <4>2. s.byPid[q] = reg.byPid[q] /\ s.exited[q] = reg.exited[q]
                BY <1>3, <1>4, <3>2, Zenon
            <4>3. /\ q \notin stale => reg.byPid[q] \in Own(q)
                  /\ q \notin stale \union orphans /\ (q \notin misread \/ alive[q] # None) => reg.exited[q] \in Own(q)
                BY <1>0, Zenon DEF Memory
            <4> QED BY <4>1, <4>2, <4>3, Zenon
        <3> QED BY <3>1, <3>2, Zenon
    <2> QED BY <2>1, <2>2, Zenon DEF Memory
<1>6. /\ g.r \in Registries /\ g.c \in Cgroups \union {None} /\ Agree(g.r) /\ Memory(g.r, st)
      /\ g.c # None /\ alive[p] # None => g.r.byPid[p] = g.c
    BY <1>0, <1>g, <1>4, <1>5, LookupFacts, Zenon
<1>7. reg' \in Registries /\ Agree(reg') /\ reg'.byPid = g.r.byPid /\ reg'.exited = g.r.exited
    <2>1. CASE g.c = None
        BY <1>g, <1>6, <2>1, Zenon
    <2>2. CASE g.c # None
        <3>1. reg' = EnsureProcess(g.r, g.c, p, read) /\ g.c \in Cgroups
            BY <1>g, <1>6, <2>2, Zenon
        <3>2. reg' \in Registries /\ SameMaps(reg', g.r) /\ Agree(reg')
            BY <1>0, <1>6, <2>2, <3>1, EnsureFacts
        <3> QED BY <3>2, Zenon DEF SameMaps
    <2> QED BY <2>1, <2>2, Zenon
<1>8. Memory(reg', st)
    BY <1>6, <1>7, Zenon DEF Memory
<1> QED BY <1>p, <1>st, <1>7, <1>8, Zenon

\* An exit: the container of the pid is remembered.
LEMMA OnExitFacts ==
  ASSUME RegistryInv, OnExit, NEW p, p = Handled.pid
  PROVE  /\ reg' \in Registries /\ Agree(reg')
         /\ reg'.byPid[p] = None /\ \A q \in Pids \ {p} : reg'.byPid[q] = reg.byPid[q]
         /\ reg'.exited[p] \in {reg.exited[p], reg.byPid[p]} /\ \A q \in Pids \ {p} : reg'.exited[q] = reg.exited[q]
<1>0. reg \in Registries /\ Agree(reg) /\ p \in Pids
    BY InvFacts, HandledFacts, Zenon DEF OnExit, Handle
<1>1. PICK c : c = reg.byPid[p]
    BY Zenon
<1>2. CASE c = None
    BY <1>0, <1>1, <1>2, Zenon DEF OnExit
<1>3. CASE c # None
    <2>1. PICK o : o = OnProcessExit(reg, c, p)
        BY Zenon
    <2>2. PICK t : t = WithoutPid(o, p)
        BY Zenon
    <2>3. reg' = WithExited(t, p, c)
        BY <1>1, <1>3, <2>1, <2>2, Zenon DEF OnExit, WithExited, WithoutPid
    <2>4. c \in Cgroups
        BY <1>0, <1>1, <1>3, Zenon DEF Registries
    <2>5. /\ o \in Registries /\ SameMaps(o, reg)
          /\ p \notin Live(o, c) /\ \A d \in Cgroups : Live(o, d) \subseteq Live(reg, d)
          /\ \A d \in Cgroups : o.zombie[d] # "no" => reg.zombie[d] # "no" \/ Live(o, d) = {}
        BY <1>0, <2>1, <2>4, ExitFacts
    <2>6. /\ t \in Registries /\ t.exited = o.exited /\ t.known = o.known /\ t.procs = o.procs /\ t.zombie = o.zombie
          /\ t.byPid[p] = None /\ \A q \in Pids \ {p} : t.byPid[q] = o.byPid[q]
        BY <1>0, <2>2, <2>5, ByPidFacts
    <2>7. \A d \in Cgroups : Live(t, d) = Live(o, d)
        BY <2>6, Zenon DEF Live
    <2>8. ASSUME NEW d \in Cgroups, NEW q \in Live(t, d) PROVE t.byPid[q] = d
        <3>1. q \in Live(reg, d) /\ q \in Pids /\ reg.byPid[q] = d
            BY <1>0, <2>5, <2>7 DEF Agree, Live
        <3>2. q # p
            BY <1>1, <2>5, <2>7, <2>8, <3>1
        <3> QED BY <2>5, <2>6, <3>1, <3>2, Zenon DEF SameMaps
    <2>9. Agree(t)
        <3>1. \A q \in Pids : t.byPid[q] # None => t.byPid[q] \in t.known
            BY <1>0, <2>5, <2>6 DEF Agree, SameMaps
        <3>2. \A d \in Cgroups : t.zombie[d] # "no" => Live(t, d) = {}
            BY <1>0, <2>5, <2>6, <2>7, Zenon DEF Agree
        <3> QED BY <2>8, <3>1, <3>2, Zenon DEF Agree
    <2>10. /\ reg' \in Registries /\ reg'.byPid = t.byPid /\ (Agree(t) => Agree(reg'))
           /\ reg'.exited[p] = c /\ \A q \in Pids \ {p} : reg'.exited[q] = t.exited[q]
        BY <1>0, <2>3, <2>4, <2>6, ExitedFacts, SMTT(30)
    <2> QED BY <1>1, <2>5, <2>6, <2>9, <2>10 DEF SameMaps
<1> QED BY <1>2, <1>3, Zenon

\* An L7 event: its container is one of a cgroup in which its process has been.
LEMMA OnL7Facts ==
  ASSUME RegistryInv, OnL7
  PROVE  /\ reg' \in Registries /\ Agree(reg') /\ Memory(reg', stale)
         /\ outcome'.to \in Cgroups \union {None} /\ outcome'.doubtful \in BOOLEAN /\ outcome'.been \subseteq Cgroups
         /\ outcome'.doubtful \/ outcome'.to \in {None} \union outcome'.been
<1>p. PICK p : p = Handled.pid
    BY Zenon
<1>0. /\ Readings /\ reg \in Registries /\ Agree(reg) /\ p \in Pids
      /\ Family(stale) /\ Readable /\ Memory(reg, stale) /\ been \in [Pids -> SUBSET Cgroups]
    BY <1>p, InvFacts, HandledFacts, Zenon DEF OnL7, Handle
<1>st. PICK st : st = stale
    BY Zenon
<1>a. PICK read \in Reads : \E end \in Asked(reg, p) : \E g :
        /\ g = ContainerOrLate(reg, p, end, read)
        /\ reg' = IF g.c = None THEN g.r ELSE ProcessOf(g.r, g.c, p)
        /\ outcome' = [doubtful |-> p \in Doubtful, been |-> been[p], to |-> g.c]
    BY <1>p, Zenon DEF OnL7
<1>b. PICK end \in Asked(reg, p) : \E g :
        /\ g = ContainerOrLate(reg, p, end, read)
        /\ reg' = IF g.c = None THEN g.r ELSE ProcessOf(g.r, g.c, p)
        /\ outcome' = [doubtful |-> p \in Doubtful, been |-> been[p], to |-> g.c]
    BY <1>a, Zenon
<1>1. PICK g :
        /\ g = ContainerOrLate(reg, p, end, read)
        /\ reg' = IF g.c = None THEN g.r ELSE ProcessOf(g.r, g.c, p)
        /\ outcome' = [doubtful |-> p \in Doubtful, been |-> been[p], to |-> g.c]
    BY <1>b, Zenon
<1>2. outcome'.to = g.c /\ outcome'.doubtful = (p \in Doubtful) /\ outcome'.been = been[p]
    BY <1>1, Zenon
<1>3. /\ g.r \in Registries /\ g.c \in Cgroups \union {None} /\ Agree(g.r)
      /\ Memory(g.r, st) /\ (Trust(p, st) => g.c \in Own(p))
    <2>1. CASE reg.byPid[p] # None
        <3>1. g.r = reg /\ g.c = reg.byPid[p]
            BY <1>1, <2>1, Zenon DEF ContainerOrLate, Result
        <3>2. Trust(p, st) => reg.byPid[p] \in Own(p)
            BY <1>0, <1>st, Zenon DEF Trust, Memory
        <3> QED BY <1>0, <1>st, <3>1, <3>2, Zenon DEF Registries
    <2>2. CASE reg.byPid[p] = None /\ reg.exited[p] # None
        <3>1. g.r = reg /\ g.c = reg.exited[p]
            BY <1>1, <2>2, Zenon DEF ContainerOrLate, Result
        <3>2. Trust(p, st) => reg.exited[p] \in Own(p)
            BY <1>0, <1>st, Zenon DEF Trust, Memory
        <3> QED BY <1>0, <1>st, <3>1, <3>2, Zenon DEF Registries
    <2>3. CASE reg.byPid[p] = None /\ reg.exited[p] = None
        <3>1. g = GetOrCreateContainer(reg, p, end, read)
            BY <1>1, <2>3, Zenon DEF ContainerOrLate
        <3>2. PICK r : r = reg
            BY Zenon
        <3>3. r \in Registries /\ end \in Asked(r, p) /\ g = GetOrCreateContainer(r, p, end, read)
            BY <1>0, <3>1, <3>2, Zenon
        <3>4. Family(st) /\ Memory(r, st) /\ Agree(r)
            BY <1>0, <1>st, <3>2, Zenon
        <3> QED BY <1>0, <3>3, <3>4, LookupFacts, Zenon
    <2> QED BY <2>1, <2>2, <2>3, Zenon
<1>4. reg' \in Registries /\ Agree(reg') /\ reg'.byPid = g.r.byPid /\ reg'.exited = g.r.exited
    <2>1. CASE g.c = None
        BY <1>1, <1>3, <2>1, Zenon
    <2>2. CASE g.c # None
        <3>1. reg' = ProcessOf(g.r, g.c, p) /\ g.c \in Cgroups
            BY <1>1, <1>3, <2>2, Zenon
        <3>2. reg' \in Registries /\ SameMaps(reg', g.r) /\ Agree(reg')
            BY <1>0, <1>3, <3>1, ProcessOfFacts
        <3> QED BY <3>2 DEF SameMaps
    <2> QED BY <2>1, <2>2
<1>5. Memory(reg', stale)
    BY <1>st, <1>3, <1>4, Zenon DEF Memory
<1>6. Trust(p, st) <=> p \notin Doubtful
    BY <1>st, Zenon DEF Trust, Doubtful
<1>7. outcome'.doubtful \in BOOLEAN /\ (outcome'.doubtful \/ outcome'.to \in {None} \union outcome'.been)
    <2>1. outcome'.doubtful \in BOOLEAN
        <3>1. (p \in Doubtful) \in BOOLEAN
            OBVIOUS
        <3> QED BY <1>2, <3>1, Zenon
    <2>2. CASE p \in Doubtful
        BY <1>2, <2>1, <2>2, Zenon
    <2>3. CASE p \notin Doubtful
        BY <1>2, <1>3, <1>6, <2>1, <2>3, Zenon DEF Own
    <2> QED BY <2>2, <2>3, Zenon
<1>8. been[p] \subseteq Cgroups
    BY <1>0, SMTT(30)
<1> QED BY <1>2, <1>3, <1>4, <1>5, <1>7, <1>8, Zenon

-----------------------------------------------------------------------------
(* The expiries and the sweeps forget, and nothing else. *)

\* Pids are only taken out of the maps.
Shrunk(s, r) ==
  /\ s \in Registries /\ Agree(s)
  /\ \A q \in Pids : s.byPid[q] \in {None, r.byPid[q]} /\ s.exited[q] \in {None, r.exited[q]}

\* The registry without a container.
WithoutContainer(r, c) ==
  [r EXCEPT !.known = @ \ {c}, !.byPid = [p \in Pids |-> IF @[p] = c THEN None ELSE @[p]],
            !.procs[c] = [p \in Pids |-> "none"], !.zombie[c] = "no"]

\* A container is deleted with its pids and its processes.
LEMMA GcDeadFacts ==
  ASSUME NEW r \in Registries, Agree(r), NEW c \in Cgroups, NEW s, s = WithoutContainer(r, c)
  PROVE  Shrunk(s, r)
<1>1. /\ s.known = r.known \ {c} /\ s.byPid = [p \in Pids |-> IF r.byPid[p] = c THEN None ELSE r.byPid[p]]
      /\ s.procs = [r.procs EXCEPT ![c] = [p \in Pids |-> "none"]]
      /\ s.zombie = [r.zombie EXCEPT ![c] = "no"] /\ s.exited = r.exited /\ s.ignored = r.ignored
    BY Zenon DEF Registries, WithoutContainer
<1>2. /\ r.byPid \in [Pids -> Cgroups \union {None}] /\ r.exited \in [Pids -> Cgroups \union {None}]
      /\ r.known \in SUBSET (Cgroups \ Skipped) /\ r.ignored \in SUBSET Pids
      /\ r.procs \in [Cgroups -> [Pids -> {"none", "live", "serving", "standin"}]]
      /\ r.zombie \in [Cgroups -> {"no", "fresh", "old"}]
    BY Zenon DEF Registries
<1>3. s \in Registries
    BY <1>2, Zenon DEF Registries, WithoutContainer
<1>4. Live(s, c) = {} /\ \A d \in Cgroups \ {c} : Live(s, d) = Live(r, d)
    BY <1>1, <1>2 DEF Live
<1>5. \A q \in Pids : s.byPid[q] # None => s.byPid[q] \in s.known
    BY <1>1, <1>2 DEF Agree
<1>6. ASSUME NEW d \in Cgroups, NEW q \in Live(s, d) PROVE s.byPid[q] = d
    <2>1. d # c /\ q \in Live(r, d) /\ q \in Pids
        BY <1>4, <1>6, Zenon DEF Live
    <2> QED BY <1>1, <2>1 DEF Agree
<1>7. ASSUME NEW d \in Cgroups, s.zombie[d] # "no" PROVE Live(s, d) = {}
    <2>1. CASE d = c
        BY <1>4, <2>1, Zenon
    <2>2. CASE d # c
        <3>1. s.zombie[d] = r.zombie[d]
            BY <1>1, <1>2, <2>2, Zenon
        <3> QED BY <1>4, <1>7, <2>2, <3>1, Zenon DEF Agree
    <2> QED BY <2>1, <2>2, Zenon
<1>8. Agree(s)
    BY <1>5, <1>6, <1>7, Zenon DEF Agree
<1>9. \A q \in Pids : s.byPid[q] \in {None, r.byPid[q]} /\ s.exited[q] \in {None, r.exited[q]}
    BY <1>1, Zenon
<1> QED BY <1>3, <1>8, <1>9, Zenon DEF Shrunk

\* The pids whose lookups are not repeated change no container.
LEMMA IgnoredFacts ==
  ASSUME NEW r \in Registries, Agree(r), NEW S \in SUBSET Pids, NEW s, s = [r EXCEPT !.ignored = S]
  PROVE  Shrunk(s, r)
<1>1. s \in Registries
    BY Zenon DEF Registries
<1>2. s.byPid = r.byPid /\ s.exited = r.exited /\ s.known = r.known /\ s.procs = r.procs /\ s.zombie = r.zombie
    BY Zenon DEF Registries
<1> QED BY <1>1, <1>2 DEF Agree, Live, Shrunk

\* A process is reported gone to its container, whose pid was not, or is not any more, in
\* containersByPid.
LEMMA GoneFacts ==
  ASSUME NEW r \in Registries, Agree(r), NEW c \in Cgroups, NEW p \in Pids, NEW s, s = OnProcessExit(r, c, p)
  PROVE  Shrunk(s, r)
<1>1. /\ s \in Registries /\ SameMaps(s, r)
      /\ p \notin Live(s, c) /\ \A d \in Cgroups : Live(s, d) \subseteq Live(r, d)
      /\ \A d \in Cgroups : s.zombie[d] # "no" => r.zombie[d] # "no" \/ Live(s, d) = {}
    BY ExitFacts
<1>2. Agree(s)
    BY <1>1 DEF Agree, SameMaps
<1> QED BY <1>1, <1>2, Zenon DEF Shrunk, SameMaps

LEMMA SweepFacts ==
  ASSUME RegistryInv, Expiry \/ Sweep
  PROVE  /\ Shrunk(reg', reg) /\ early' \in [Pids -> Cgroups \union {None}]
         /\ \A q \in Pids : early'[q] \in {None, early[q]}
         /\ UNCHANGED <<kernel, queues, ghosts, outcome>>
<1>0. reg \in Registries /\ Agree(reg) /\ early \in [Pids -> Cgroups \union {None}]
    BY InvFacts, Zenon
<1>1. ASSUME NEW p \in Pids, ExpireEarly(p)
      PROVE  /\ Shrunk(reg', reg) /\ early' \in [Pids -> Cgroups \union {None}]
             /\ \A q \in Pids : early'[q] \in {None, early[q]}
             /\ UNCHANGED <<kernel, queues, ghosts, outcome>>
    <2>1. Shrunk(reg, reg)
        BY <1>0, Zenon DEF Shrunk
    <2> QED BY <1>0, <1>1, <2>1, Zenon DEF ExpireEarly
<1>2. ASSUME NEW p \in Pids, ExpireExited(p) PROVE Shrunk(reg', reg)
    <2>1. reg' = WithExited(reg, p, None)
        BY <1>2, Zenon DEF ExpireExited, WithExited
    <2>2. /\ reg' \in Registries /\ reg'.byPid = reg.byPid /\ (Agree(reg) => Agree(reg'))
          /\ reg'.exited[p] = None /\ \A q \in Pids \ {p} : reg'.exited[q] = reg.exited[q]
        BY <1>0, <2>1, ExitedFacts
    <2> QED BY <1>0, <2>2, Zenon DEF Shrunk
<1>3. ASSUME NEW p \in Pids, ExpireIgnored(p) PROVE Shrunk(reg', reg)
    <2>1. PICK S : S = reg.ignored \ {p}
        BY Zenon
    <2>2. reg' = [reg EXCEPT !.ignored = S] /\ S \in SUBSET Pids
        BY <1>0, <1>3, <2>1, Zenon DEF ExpireIgnored, Registries
    <2> QED BY <1>0, <2>2, IgnoredFacts, Zenon
<1>4. ASSUME NEW c \in Cgroups, Ageing(c) PROVE Shrunk(reg', reg)
    <2>1. /\ reg' \in Registries /\ SameMaps(reg', reg) /\ reg'.procs = reg.procs
          /\ \A d \in Cgroups \ {c} : reg'.zombie[d] = reg.zombie[d]
        BY <1>0, <1>4, ZombieFacts DEF Ageing
    <2>2. \A d \in Cgroups : Live(reg', d) = Live(reg, d)
        BY <2>1, Zenon DEF Live
    <2>3. reg.zombie[c] # "no"
        BY <1>4, Zenon DEF Ageing
    <2> QED BY <1>0, <2>1, <2>2, <2>3 DEF Shrunk, Agree, SameMaps
<1>5. ASSUME NEW c \in Cgroups, NEW p \in Pids, ForgetGone(c, p) \/ CollectDead(c, p) PROVE Shrunk(reg', reg)
    BY <1>0, <1>5, GoneFacts, Zenon DEF ForgetGone, CollectDead
<1>6. ASSUME NEW p \in Pids, Drop(p) PROVE Shrunk(reg', reg)
    <2>1. PICK c : c = reg.byPid[p]
        BY Zenon
    <2>2. PICK t : t = WithoutPid(reg, p)
        BY Zenon
    <2>3. c \in Cgroups /\ reg' = OnProcessExit(t, c, p)
        BY <1>0, <1>6, <2>1, <2>2, Zenon DEF Drop, Registries, WithoutPid
    <2>4. /\ reg' \in Registries /\ Agree(reg') /\ reg'.exited = reg.exited /\ reg'.byPid[p] = None
          /\ \A q \in Pids \ {p} : reg'.byPid[q] = reg.byPid[q]
        BY <1>0, <2>1, <2>2, <2>3, DropFacts
    <2> QED BY <2>4, Zenon DEF Shrunk
<1>7. ASSUME NEW c \in Cgroups, GcDead(c) PROVE Shrunk(reg', reg)
    <2>1. reg' = WithoutContainer(reg, c)
        BY <1>7, Zenon DEF GcDead, WithoutContainer
    <2> QED BY <1>0, <2>1, GcDeadFacts, Zenon
<1>8. ASSUME GcIgnored PROVE Shrunk(reg', reg)
    BY <1>0, <1>8, IgnoredFacts, Zenon DEF GcIgnored
<1>9. ASSUME (\E p \in Pids : ExpireExited(p) \/ ExpireIgnored(p)) \/ (\E c \in Cgroups : Ageing(c)) \/ Sweep
      PROVE  UNCHANGED <<kernel, queues, early, ghosts, outcome>>
    BY <1>9, Zenon DEF ExpireExited, ExpireIgnored, Ageing, Sweep, ForgetGone, CollectDead, GcPid, GcUnread, Drop, GcDead, GcIgnored
<1>10. CASE \E p \in Pids : ExpireEarly(p)
    BY <1>1, <1>10, Zenon
<1>11. CASE (\E p \in Pids : ExpireExited(p) \/ ExpireIgnored(p)) \/ (\E c \in Cgroups : Ageing(c)) \/ Sweep
    <2>1. Shrunk(reg', reg)
        BY <1>2, <1>3, <1>4, <1>5, <1>6, <1>7, <1>8, <1>11, Zenon DEF Sweep, GcPid, GcUnread
    <2> QED BY <1>0, <1>9, <1>11, <2>1, Zenon
<1> QED BY <1>10, <1>11, Zenon DEF Expiry

-----------------------------------------------------------------------------
(* The steps of the kernel keep the invariant. *)

\* An ancestor of the parent is an ancestor; a pid and its parent are ancestors of the pid.
LEMMA AncestryFacts ==
  ASSUME parents \in [Pids -> Pids \union {None}], NEW d \in Pids
  PROVE  /\ d \in Ancestry(d)
         /\ parents[d] # None => parents[d] \in Pids /\ parents[d] \in Ancestry(d) /\ Ancestry(parents[d]) \subseteq Ancestry(d)
<1> DEFINE Closed(S) == \A s \in S \intersect {q \in Pids : parents[q] # None} : parents[s] \in S
<1>1. \A u : Ancestry(u) = {q \in Pids : \A S \in SUBSET Pids : (u \in S /\ Closed(S)) => q \in S}
    BY Zenon DEF Ancestry, Reached
<1>2. \A S \in SUBSET Pids : d \in S /\ Closed(S) /\ parents[d] # None => parents[d] \in S
    BY Zenon
<1> HIDE DEF Closed
<1>3. parents[d] # None => parents[d] \in Pids
    BY SMTT(30)
<1>4. d \in Ancestry(d)
    BY <1>1, Zenon
<1>5. ASSUME parents[d] # None PROVE parents[d] \in Ancestry(d) /\ Ancestry(parents[d]) \subseteq Ancestry(d)
    BY <1>1, <1>2, <1>3, <1>5, Zenon
<1> QED BY <1>3, <1>4, <1>5, Zenon

\* The parent of a process that does not descend from x is another one that does not either.
LEMMA DescentFacts ==
  ASSUME parents \in [Pids -> Pids \union {None}], NEW x \in Pids, NEW d \in Pids, parents[d] # None,
         d \notin Descendants(x)
  PROVE  parents[d] \in Pids \ {x} /\ parents[d] \notin Descendants(x)
<1>1. PICK u : u = parents[d]
    BY Zenon
<1>2. u \in Pids
    BY <1>1, AncestryFacts, Zenon
<1>3. x \notin Ancestry(u)
    BY <1>1, Zenon DEF Descendants
<1>4. u # x
    BY <1>2, <1>3, AncestryFacts, Zenon
<1>5. ASSUME u \in Descendants(x) PROVE FALSE
    <2>1. parents[u] # None /\ x \in Ancestry(parents[u])
        BY <1>5, Zenon DEF Descendants
    <2>2. Ancestry(parents[u]) \subseteq Ancestry(u)
        BY <1>2, <2>1, AncestryFacts, Zenon
    <2> QED BY <1>3, <2>1, <2>2, Zenon
<1> QED BY <1>1, <1>2, <1>4, <1>5, Zenon

\* Nothing that FamilyInv and MemoryInv are about becomes wrong when less is doubtful.
LEMMA FamilyKept ==
  ASSUME RegistryInv, UNCHANGED <<parents, been, orphans>>, stale' \subseteq stale, misread' \subseteq misread
  PROVE  FamilyInv'
<1>1. Family(stale)
    BY InvFacts, Zenon
<1>2. \A p : Trust(p, stale) => Trust(p, stale)'
    BY Zenon DEF Trust
<1> QED BY <1>1, <1>2, Zenon DEF FamilyInv, Family

\* A process event that is posted, or lost, is an event.
LEMMA PostFacts ==
  ASSUME RegistryInv, NEW x \in Pids, NEW kind \in {"start", "exit"}, PostProc(kind, x)
  PROVE  procRing' \in SUBSET Events
<1>1. Event(kind, x) \in Events
    BY Zenon DEF Event, Events
<1>2. procRing \in SUBSET Events
    BY InvFacts, Zenon
<1> QED BY <1>1, <1>2, Zenon DEF PostProc

\* A process forked by one of which all is right is in the cgroup of its parent, and nothing
\* depends on it yet; those that depend on the process before are orphans.
LEMMA StartStep ==
  ASSUME RegistryInv, NEW x \in Pids, Start(x)
  PROVE  RegistryInv'
<1>a. PICK q \in plan.forks[x] : \E g \in plan.cgroups :
        /\ q # None => g = alive[q] /\ x \notin Ancestry(q)
        /\ alive' = [alive EXCEPT ![x] = g]
        /\ parents' = [parents EXCEPT ![x] = q]
        /\ been' = [been EXCEPT ![x] = {g}]
        /\ stale' = IF {reg.byPid[x], reg.exited[x]} \subseteq {None, g} THEN stale \ {x} ELSE stale \union {x}
        /\ misread' = IF early[x] \in {None, g} THEN misread \ {x} ELSE misread \union {x}
        /\ orphans' = (orphans \ {x}) \union Descendants(x)
                      \union {r \in {x} : q # None /\ (q \in Doubtful \/ been[q] # {g})}
    BY Zenon DEF Start
<1>1. PICK g \in plan.cgroups :
        /\ q # None => g = alive[q] /\ x \notin Ancestry(q)
        /\ alive' = [alive EXCEPT ![x] = g]
        /\ parents' = [parents EXCEPT ![x] = q]
        /\ been' = [been EXCEPT ![x] = {g}]
        /\ stale' = IF {reg.byPid[x], reg.exited[x]} \subseteq {None, g} THEN stale \ {x} ELSE stale \union {x}
        /\ misread' = IF early[x] \in {None, g} THEN misread \ {x} ELSE misread \union {x}
        /\ orphans' = (orphans \ {x}) \union Descendants(x)
                      \union {r \in {x} : q # None /\ (q \in Doubtful \/ been[q] # {g})}
    BY <1>a, Zenon
<1>2. g \in Cgroups /\ q \in Pids \union {None}
    <2>1. plan \in Plans
        BY Zenon DEF RegistryInv
    <2>2. plan.cgroups \in SUBSET Cgroups /\ plan.forks \in [Pids -> SUBSET (Pids \union {None})]
        BY <2>1, PlansAssumption, SMTT(30)
    <2>3. plan.forks[x] \in SUBSET (Pids \union {None})
        BY <2>2, Zenon
    <2> QED BY <2>2, <2>3, Zenon
<1>3. /\ starts' = [starts EXCEPT ![x] = @ + 1] /\ sent' = [sent EXCEPT ![x] = 0]
      /\ UNCHANGED <<plan, connRing, events, early, reg, outcome>>
    BY Zenon DEF Start
<1>4. /\ alive'[x] = g /\ parents'[x] = q /\ been'[x] = {g}
      /\ \A p \in Pids \ {x} : alive'[p] = alive[p] /\ parents'[p] = parents[p] /\ been'[p] = been[p]
    BY <1>1, InvFacts, Zenon
<1>5. \A p \in Pids \ {x} : (p \in stale' <=> p \in stale) /\ (p \in misread' <=> p \in misread)
    BY <1>1, Zenon
<1>6. TypeOK'
    <2>1. /\ alive' \in [Pids -> Cgroups \union {None}] /\ parents' \in [Pids -> Pids \union {None}]
          /\ been' \in [Pids -> SUBSET Cgroups]
        BY <1>1, <1>2, InvFacts, Zenon
    <2>2. starts' \in [Pids -> Nat] /\ sent' \in [Pids -> Nat]
        BY <1>3, InvFacts, SMTT(30)
    <2>3. Doubtful' \subseteq Pids
        <3>1. stale \subseteq Pids /\ misread \subseteq Pids /\ orphans \subseteq Pids
            BY InvFacts, Zenon DEF Doubtful
        <3>2. stale' \subseteq Pids
            BY <1>1, <3>1, Zenon
        <3>3. misread' \subseteq Pids
            BY <1>1, <3>1, Zenon
        <3>4. orphans' \subseteq Pids
            BY <1>1, <3>1, Zenon DEF Descendants
        <3> QED BY <3>2, <3>3, <3>4, Zenon DEF Doubtful
    <2>4. procRing' \in SUBSET Events
        BY PostFacts, Zenon DEF Start
    <2>5. /\ outcome'.doubtful \in BOOLEAN /\ outcome'.been \subseteq Cgroups
          /\ outcome'.to \in Cgroups \union {None}
        BY <1>3, Zenon DEF RegistryInv, TypeOK
    <2> QED BY <1>3, <2>1, <2>2, <2>3, <2>4, <2>5, InvFacts, Zenon DEF TypeOK
<1>7. FamilyInv'
    <2> SUFFICES ASSUME NEW d \in Pids, d \notin orphans', parents'[d] # None
                 PROVE  /\ parents'[d] \notin stale' \union misread' \union orphans'
                        /\ been'[parents'[d]] \subseteq been'[d]
        BY Zenon DEF FamilyInv, Family, Trust
    <2>1. CASE d = x
        <3>1. q \in Pids /\ x \notin Ancestry(q) /\ q \notin Doubtful /\ been[q] = {g}
            BY <1>1, <1>2, <1>4, <2>1, Zenon
        <3>2. q # x
            BY <3>1, InvFacts, AncestryFacts, Zenon
        <3>3. q \notin Descendants(x)
            <4>1. ASSUME parents[q] # None PROVE x \notin Ancestry(parents[q])
                BY <3>1, <4>1, InvFacts, AncestryFacts, Zenon
            <4> QED BY <4>1, Zenon DEF Descendants
        <3>4. q \notin orphans'
            BY <1>1, <3>1, <3>2, <3>3, Zenon DEF Doubtful
        <3>5. q \notin stale' \union misread'
            BY <1>5, <3>1, <3>2, Zenon DEF Doubtful
        <3> QED BY <1>4, <2>1, <3>1, <3>2, <3>4, <3>5, Zenon
    <2>2. CASE d # x
        <3>1. d \notin orphans /\ d \notin Descendants(x) /\ parents'[d] = parents[d]
            BY <1>1, <1>4, <2>2, Zenon
        <3>2. PICK u : u = parents[d]
            BY Zenon
        <3>3. u \in Pids \ {x} /\ u \notin Descendants(x)
            BY <3>1, <3>2, InvFacts, DescentFacts, Zenon
        <3>4. Trust(u, stale) /\ been[u] \subseteq been[d]
            BY <3>1, <3>2, InvFacts, Zenon DEF Family
        <3>5. u \notin orphans'
            BY <1>1, <3>3, <3>4, Zenon DEF Trust
        <3>6. u \notin stale' \union misread'
            BY <1>5, <3>3, <3>4, Zenon DEF Trust
        <3> QED BY <1>4, <2>2, <3>1, <3>2, <3>3, <3>4, <3>5, <3>6, Zenon
    <2> QED BY <2>1, <2>2, Zenon
<1>8. MemoryInv'
    <2> SUFFICES ASSUME NEW p \in Pids
                 PROVE  /\ alive'[p] \in {None} \union been'[p]
                        /\ p \notin misread' => early'[p] \in {None} \union been'[p]
                        /\ p \notin stale' => reg'.byPid[p] \in {None} \union been'[p]
                        /\ p \notin stale' \union orphans' /\ (p \notin misread' \/ alive'[p] # None)
                             => reg'.exited[p] \in {None} \union been'[p]
        BY Zenon DEF MemoryInv, Readable, Memory, Own
    <2>1. CASE p = x
        <3>1. been'[p] = {g} /\ alive'[p] = g
            BY <1>4, <2>1, Zenon
        <3>2. p \notin misread' => early[p] \in {None, g}
            BY <1>1, <2>1, Zenon
        <3>3. p \notin stale' => reg.byPid[p] \in {None, g} /\ reg.exited[p] \in {None, g}
            BY <1>1, <2>1, Zenon
        <3> QED BY <1>3, <3>1, <3>2, <3>3, Zenon
    <2>2. CASE p # x
        <3>1. been'[p] = been[p] /\ alive'[p] = alive[p] /\ (p \in stale' <=> p \in stale) /\ (p \in misread' <=> p \in misread)
            BY <1>4, <1>5, <2>2, Zenon
        <3>2. p \notin orphans' => p \notin orphans
            BY <1>1, <2>2, Zenon
        <3>3. /\ alive[p] \in Own(p) /\ (p \notin misread => early[p] \in Own(p))
              /\ p \notin stale => reg.byPid[p] \in Own(p)
              /\ p \notin stale \union orphans /\ (p \notin misread \/ alive[p] # None) => reg.exited[p] \in Own(p)
            BY InvFacts, Zenon DEF Readable, Memory
        <3> QED BY <1>3, <3>1, <3>2, <3>3, Zenon DEF Own
    <2> QED BY <2>1, <2>2, Zenon
<1>9. plan' \in Plans /\ Agree(reg)' /\ RightContainer'
    BY <1>3, Zenon DEF RegistryInv, Agree, Live, RightContainer
<1> QED BY <1>6, <1>7, <1>8, <1>9, Zenon DEF RegistryInv

LEMMA ExitStep ==
  ASSUME RegistryInv, NEW x \in Pids, Exit(x)
  PROVE  RegistryInv'
<1>1. /\ alive' = [alive EXCEPT ![x] = None]
      /\ UNCHANGED <<plan, parents, starts, sent, connRing, events, early, reg, been, stale, misread, orphans, outcome>>
    BY Zenon DEF Exit, ghosts
<1>2. \A p \in Pids : alive'[p] = alive[p] \/ alive'[p] = None
    BY <1>1, InvFacts, Zenon
<1>3. TypeOK'
    <2>1. alive' \in [Pids -> Cgroups \union {None}]
        BY <1>1, InvFacts, Zenon
    <2>2. procRing' \in SUBSET Events
        BY PostFacts, Zenon DEF Exit
    <2>3. /\ Doubtful' \subseteq Pids
          /\ outcome'.doubtful \in BOOLEAN /\ outcome'.been \subseteq Cgroups /\ outcome'.to \in Cgroups \union {None}
        BY <1>1, Zenon DEF RegistryInv, TypeOK, Doubtful
    <2> QED BY <1>1, <2>1, <2>2, <2>3, InvFacts, Zenon DEF TypeOK
<1>4. FamilyInv'
    BY <1>1, FamilyKept, Zenon
<1>5. MemoryInv'
    <2>1. \A p \in Pids : None \in Own(p) /\ Own(p)' = Own(p)
        BY <1>1, Zenon DEF Own
    <2>2. Readable'
        BY <1>1, <1>2, <2>1, InvFacts, Zenon DEF Readable
    <2>3. Memory(reg, stale)'
        BY <1>1, <1>2, <2>1, InvFacts, Zenon DEF Memory
    <2> QED BY <2>2, <2>3, Zenon DEF MemoryInv
<1>6. plan' \in Plans /\ Agree(reg)' /\ RightContainer'
    BY <1>1, Zenon DEF RegistryInv, Agree, Live, RightContainer
<1> QED BY <1>3, <1>4, <1>5, <1>6, Zenon DEF RegistryInv

\* A process that moves has been in one cgroup more; the processes that descend from it are
\* orphans.
LEMMA MoveStep ==
  ASSUME RegistryInv, NEW x \in Pids, Move(x)
  PROVE  RegistryInv'
<1>1. PICK g \in plan.cgroups : alive' = [alive EXCEPT ![x] = g] /\ been' = [been EXCEPT ![x] = @ \union {g}]
    BY Zenon DEF Move
<1>2. /\ alive[x] # None /\ orphans' = orphans \union Descendants(x)
      /\ UNCHANGED <<plan, parents, starts, sent, procRing, connRing, events, early, reg, stale, misread, outcome>>
    BY Zenon DEF Move, queues
<1>3. g \in Cgroups
    <2>1. plan \in Plans
        BY Zenon DEF RegistryInv
    <2>2. plan.cgroups \in SUBSET Cgroups
        BY <2>1, PlansAssumption, SMTT(30)
    <2> QED BY <2>2, Zenon
<1>4. /\ alive'[x] = g /\ been'[x] = been[x] \union {g}
      /\ \A p \in Pids \ {x} : alive'[p] = alive[p] /\ been'[p] = been[p]
    BY <1>1, InvFacts, Zenon
<1>5. TypeOK'
    <2>1. alive' \in [Pids -> Cgroups \union {None}]
        BY <1>1, <1>3, InvFacts, Zenon
    <2>2. been' \in [Pids -> SUBSET Cgroups]
        <3>1. been[x] \union {g} \in SUBSET Cgroups
            BY <1>3, InvFacts, SMTT(30)
        <3> QED BY <1>1, <3>1, InvFacts, Zenon
    <2>3. Doubtful' \subseteq Pids
        BY <1>2, InvFacts, Zenon DEF Doubtful, Descendants
    <2>4. outcome'.doubtful \in BOOLEAN /\ outcome'.been \subseteq Cgroups /\ outcome'.to \in Cgroups \union {None}
        BY <1>2, Zenon DEF RegistryInv, TypeOK
    <2> QED BY <1>2, <2>1, <2>2, <2>3, <2>4, InvFacts, Zenon DEF TypeOK
<1>6. FamilyInv'
    <2> SUFFICES ASSUME NEW d \in Pids, d \notin orphans', parents[d] # None
                 PROVE  /\ parents[d] \notin stale \union misread \union orphans'
                        /\ been'[parents[d]] \subseteq been'[d]
        BY <1>2, Zenon DEF FamilyInv, Family, Trust
    <2>1. PICK u : u = parents[d]
        BY Zenon
    <2>2. u \in Pids \ {x} /\ u \notin Descendants(x)
        BY <1>2, <2>1, InvFacts, DescentFacts, Zenon
    <2>3. Trust(u, stale) /\ been[u] \subseteq been[d]
        BY <1>2, <2>1, InvFacts, Zenon DEF Family
    <2>4. been'[u] = been[u] /\ been[d] \subseteq been'[d]
        BY <1>4, <2>2, Zenon
    <2> QED BY <1>2, <2>1, <2>2, <2>3, <2>4, Zenon DEF Trust
<1>7. MemoryInv'
    <2>1. \A p \in Pids : Own(p) \subseteq Own(p)' /\ alive'[p] \in Own(p)'
        <3>1. \A p \in Pids : been[p] \subseteq been'[p]
            BY <1>4, Zenon
        <3>2. \A p \in Pids : alive'[p] \in {None} \union been'[p]
            BY <1>4, InvFacts, Zenon DEF Readable, Own
        <3> QED BY <3>1, <3>2, Zenon DEF Own
    <2>2. Readable'
        BY <1>2, <2>1, InvFacts, Zenon DEF Readable
    <2>3. \A p \in Pids : alive'[p] # None => p = x \/ alive[p] # None
        BY <1>4, Zenon
    <2>4. Memory(reg, stale)'
        BY <1>2, <2>1, <2>3, InvFacts, Zenon DEF Memory
    <2> QED BY <2>2, <2>4, Zenon DEF MemoryInv
<1>8. plan' \in Plans /\ Agree(reg)' /\ RightContainer'
    BY <1>2, Zenon DEF RegistryInv, Agree, Live, RightContainer
<1> QED BY <1>5, <1>6, <1>7, <1>8, Zenon DEF RegistryInv

LEMMA RequestStep ==
  ASSUME RegistryInv, NEW x \in Pids, Request(x)
  PROVE  RegistryInv'
<1>1. /\ sent' = [sent EXCEPT ![x] = @ + 1] /\ connRing' = Append(connRing, Event("l7", x))
      /\ UNCHANGED <<plan, alive, parents, starts, procRing, events, early, reg, been, stale, misread, orphans, outcome>>
    BY Zenon DEF Request, ghosts
<1>2. TypeOK'
    <2>1. sent' \in [Pids -> Nat]
        BY <1>1, InvFacts, SMTT(30)
    <2>2. Event("l7", x) \in Events
        BY Zenon DEF Event, Events
    <2>3. connRing' \in Seq(Events)
        <3>1. PICK e : e = Event("l7", x)
            BY Zenon
        <3>2. e \in Events /\ connRing' = Append(connRing, e) /\ connRing \in Seq(Events)
            BY <1>1, <2>2, <3>1, InvFacts, Zenon
        <3> QED BY <3>2
    <2>4. /\ Doubtful' \subseteq Pids
          /\ outcome'.doubtful \in BOOLEAN /\ outcome'.been \subseteq Cgroups /\ outcome'.to \in Cgroups \union {None}
        BY <1>1, Zenon DEF RegistryInv, TypeOK, Doubtful
    <2> QED BY <1>1, <2>1, <2>3, <2>4, InvFacts, Zenon DEF TypeOK
<1>3. FamilyInv'
    BY <1>1, FamilyKept, Zenon
<1>4. MemoryInv'
    BY <1>1, InvFacts, Zenon DEF MemoryInv, Readable, Memory, Own
<1>5. plan' \in Plans /\ Agree(reg)' /\ RightContainer'
    BY <1>1, Zenon DEF RegistryInv, Agree, Live, RightContainer
<1> QED BY <1>2, <1>3, <1>4, <1>5, Zenon DEF RegistryInv

-----------------------------------------------------------------------------
(* So do those of forwardEvents. *)

\* forwardEvents reads the cgroup of the process that runs: one in which it has been.
LEMMA ForwardStep ==
  ASSUME RegistryInv, NEW e \in Events, Forward(e),
         procRing' \in SUBSET Events, connRing' \in Seq(Events)
  PROVE  RegistryInv'
<1>1. PICK read \in {None, alive[e.pid]} :
        /\ early' = IF e.kind = "exit" THEN early ELSE [early EXCEPT ![e.pid] = Noted(e, read)]
        /\ misread' = IF e.kind = "start" /\ read # None THEN misread \ {e.pid} ELSE misread
    BY Zenon DEF Forward
<1>2. /\ events' = Append(events, e)
      /\ UNCHANGED <<plan, alive, parents, starts, sent, reg, been, stale, orphans, outcome>>
    BY Zenon DEF Forward, kernel
<1>3. e.pid \in Pids
    BY Zenon DEF Events
<1>4. /\ Noted(e, read) \in {early[e.pid], alive[e.pid]}
      /\ e.kind = "start" /\ read # None => Noted(e, read) = alive[e.pid] /\ alive[e.pid] # None
    BY <1>1, Zenon DEF Noted
<1>5. early' \in [Pids -> Cgroups \union {None}] /\ \A p \in Pids \ {e.pid} : early'[p] = early[p]
    BY <1>1, <1>3, <1>4, InvFacts, SMTT(30)
<1>6. /\ early'[e.pid] \in {early[e.pid], alive[e.pid]}
      /\ e.kind = "start" => early'[e.pid] = Noted(e, read)
    BY <1>1, <1>3, <1>4, InvFacts, Zenon
<1>7. misread' \subseteq misread /\ \A p \in misread \ misread' : p = e.pid /\ e.kind = "start" /\ read # None
    BY <1>1, Zenon
<1>8. TypeOK'
    <2>1. events' \in Seq(Events)
        BY <1>2, InvFacts
    <2>2. /\ Doubtful' \subseteq Pids
          /\ outcome'.doubtful \in BOOLEAN /\ outcome'.been \subseteq Cgroups /\ outcome'.to \in Cgroups \union {None}
        BY <1>2, <1>7, Zenon DEF RegistryInv, TypeOK, Doubtful
    <2> QED BY <1>2, <1>5, <2>1, <2>2, InvFacts, Zenon DEF TypeOK
<1>9. FamilyInv'
    BY <1>2, <1>7, FamilyKept, Zenon
<1>10. MemoryInv'
    <2>1. \A p \in Pids : Own(p)' = Own(p)
        BY <1>2, Zenon DEF Own
    <2>2. ASSUME NEW p \in Pids, p \notin misread' PROVE early'[p] \in Own(p)
        <3>1. alive[p] \in Own(p) /\ (p \notin misread => early[p] \in Own(p))
            BY InvFacts, Zenon DEF Readable
        <3>2. CASE p \notin misread
            BY <1>5, <1>6, <3>1, <3>2, Zenon
        <3>3. CASE p \in misread
            <4>1. p = e.pid /\ e.kind = "start" /\ read # None
                BY <1>7, <2>2, <3>3, Zenon
            <4> QED BY <1>4, <1>6, <3>1, <4>1, Zenon
        <3> QED BY <3>2, <3>3, Zenon
    <2>3. Readable'
        BY <1>2, <2>1, <2>2, InvFacts, Zenon DEF Readable
    <2>4. \A p \in Pids : p \notin misread' => p \notin misread \/ alive[p] # None
        BY <1>4, <1>7, Zenon
    <2>5. Memory(reg, stale)'
        BY <1>2, <2>1, <2>4, InvFacts, Zenon DEF Memory
    <2> QED BY <2>3, <2>5, Zenon DEF MemoryInv
<1>11. plan' \in Plans /\ Agree(reg)' /\ RightContainer'
    BY <1>2, Zenon DEF RegistryInv, Agree, Live, RightContainer
<1> QED BY <1>8, <1>9, <1>10, <1>11, Zenon DEF RegistryInv

LEMMA ForwardSteps ==
  ASSUME RegistryInv, ForwardProc \/ ForwardConn
  PROVE  RegistryInv'
<1>1. ASSUME NEW e \in procRing, Forward(e), procRing' = procRing \ {e}, UNCHANGED connRing PROVE RegistryInv'
    <2>1. e \in Events /\ procRing' \in SUBSET Events /\ connRing' \in Seq(Events)
        BY <1>1, InvFacts, Zenon
    <2> QED BY <1>1, <2>1, ForwardStep, Zenon
<1>2. ASSUME connRing # <<>>, Forward(Head(connRing)), connRing' = Tail(connRing), UNCHANGED procRing PROVE RegistryInv'
    <2>0. PICK e : e = Head(connRing)
        BY Zenon
    <2>1. e \in Events /\ procRing' \in SUBSET Events /\ connRing' \in Seq(Events)
        BY <1>2, <2>0, HeadFacts, InvFacts, Zenon
    <2> QED BY <1>2, <2>0, <2>1, ForwardStep, Zenon
<1> QED BY <1>1, <1>2, Zenon DEF ForwardProc, ForwardConn

-----------------------------------------------------------------------------
(* So do those of handleEvents, the expiries and the sweeps. *)

\* The rest of the invariant, from what a handler does to the registry.
LEMMA HandlerStep ==
  ASSUME RegistryInv, events # <<>>, events' = Tail(events),
         UNCHANGED <<kernel, procRing, connRing, early, been, misread, orphans>>, stale' \subseteq stale,
         reg' \in Registries, Agree(reg'), Memory(reg', stale'), RightContainer',
         outcome'.doubtful \in BOOLEAN, outcome'.been \subseteq Cgroups, outcome'.to \in Cgroups \union {None}
  PROVE  RegistryInv'
<1>1. UNCHANGED <<plan, alive, parents, starts, sent>>
    BY Zenon DEF kernel
<1>2. TypeOK'
    <2>1. Doubtful' \subseteq Pids
        BY InvFacts, Zenon DEF Doubtful
    <2> QED BY <1>1, <2>1, InvFacts, HandledFacts, Zenon DEF TypeOK
<1>3. FamilyInv'
    BY <1>1, FamilyKept, Zenon
<1>4. MemoryInv'
    <2>1. \A p \in Pids : Own(p)' = Own(p)
        BY Zenon DEF Own
    <2>2. Readable'
        BY <1>1, <2>1, InvFacts, Zenon DEF Readable
    <2>3. Memory(reg, stale)'
        BY <1>1, <2>1, Zenon DEF Memory
    <2> QED BY <2>2, <2>3, Zenon DEF MemoryInv
<1>5. plan' \in Plans /\ Agree(reg)'
    BY <1>1, Zenon DEF RegistryInv, Agree, Live
<1> QED BY <1>2, <1>3, <1>4, <1>5, Zenon DEF RegistryInv

LEMMA OnStartStep ==
  ASSUME RegistryInv, OnStart
  PROVE  RegistryInv'
<1>1. /\ events # <<>> /\ events' = Tail(events) /\ stale' = stale \ {Handled.pid}
      /\ UNCHANGED <<kernel, procRing, connRing, early, been, misread, orphans>> /\ UNCHANGED outcome
    BY Zenon DEF OnStart, Handle
<1>2. reg' \in Registries /\ Agree(reg') /\ Memory(reg', stale')
    BY <1>1, OnStartFacts, Zenon
<1>3. /\ RightContainer' /\ outcome'.doubtful \in BOOLEAN /\ outcome'.been \subseteq Cgroups
      /\ outcome'.to \in Cgroups \union {None}
    BY <1>1, Zenon DEF RegistryInv, RightContainer, TypeOK
<1> QED BY <1>1, <1>2, <1>3, HandlerStep, Zenon

LEMMA OnExitStep ==
  ASSUME RegistryInv, OnExit
  PROVE  RegistryInv'
<1>1. /\ events # <<>> /\ events' = Tail(events)
      /\ UNCHANGED <<kernel, procRing, connRing, early, been, stale, misread, orphans>> /\ UNCHANGED outcome
    BY Zenon DEF OnExit, Handle, ghosts
<1>2. PICK x : x = Handled.pid
    BY Zenon
<1>3. /\ reg' \in Registries /\ Agree(reg')
      /\ reg'.byPid[x] = None /\ \A q \in Pids \ {x} : reg'.byPid[q] = reg.byPid[q]
      /\ reg'.exited[x] \in {reg.exited[x], reg.byPid[x]} /\ \A q \in Pids \ {x} : reg'.exited[q] = reg.exited[q]
    BY <1>2, OnExitFacts, Zenon
<1>4. Memory(reg', stale')
    <2> SUFFICES ASSUME NEW p \in Pids
                 PROVE  /\ p \notin stale => reg'.byPid[p] \in Own(p)
                        /\ p \notin stale \union orphans /\ (p \notin misread \/ alive[p] # None) => reg'.exited[p] \in Own(p)
        BY <1>1, Zenon DEF Memory
    <2>1. /\ p \notin stale => reg.byPid[p] \in Own(p)
          /\ p \notin stale \union orphans /\ (p \notin misread \/ alive[p] # None) => reg.exited[p] \in Own(p)
          /\ None \in Own(p)
        BY InvFacts, Zenon DEF Memory, Own
    <2>2. CASE p = x
        BY <1>3, <2>1, <2>2, Zenon
    <2>3. CASE p # x
        BY <1>3, <2>1, <2>3, Zenon
    <2> QED BY <2>2, <2>3, Zenon
<1>5. /\ RightContainer' /\ outcome'.doubtful \in BOOLEAN /\ outcome'.been \subseteq Cgroups
      /\ outcome'.to \in Cgroups \union {None}
    BY <1>1, Zenon DEF RegistryInv, RightContainer, TypeOK
<1> QED BY <1>1, <1>3, <1>4, <1>5, HandlerStep, Zenon

LEMMA OnL7Step ==
  ASSUME RegistryInv, OnL7
  PROVE  RegistryInv'
<1>1. /\ events # <<>> /\ events' = Tail(events)
      /\ UNCHANGED <<kernel, procRing, connRing, early, been, stale, misread, orphans>>
    BY Zenon DEF OnL7, Handle, ghosts
<1>2. /\ reg' \in Registries /\ Agree(reg') /\ Memory(reg', stale')
      /\ outcome'.to \in Cgroups \union {None} /\ outcome'.doubtful \in BOOLEAN /\ outcome'.been \subseteq Cgroups
      /\ RightContainer'
    BY <1>1, OnL7Facts, Zenon DEF RightContainer
<1> QED BY <1>1, <1>2, HandlerStep, Zenon

\* Nothing, or forgetting: the expiries, the sweeps, and a step that changes no variable.
LEMMA ForgetStep ==
  ASSUME RegistryInv, Shrunk(reg', reg), early' \in [Pids -> Cgroups \union {None}],
         \A q \in Pids : early'[q] \in {None, early[q]},
         UNCHANGED <<kernel, queues, ghosts, outcome>>
  PROVE  RegistryInv'
<1>1. UNCHANGED <<plan, alive, parents, starts, sent, procRing, connRing, events, been, stale, misread, orphans, outcome>>
    BY Zenon DEF kernel, queues, ghosts
<1>2. /\ reg' \in Registries /\ Agree(reg')
      /\ \A q \in Pids : reg'.byPid[q] \in {None, reg.byPid[q]} /\ reg'.exited[q] \in {None, reg.exited[q]}
    BY Zenon DEF Shrunk
<1>3. TypeOK'
    <2>1. /\ Doubtful' \subseteq Pids
          /\ outcome'.doubtful \in BOOLEAN /\ outcome'.been \subseteq Cgroups /\ outcome'.to \in Cgroups \union {None}
        BY <1>1, Zenon DEF RegistryInv, TypeOK, Doubtful
    <2> QED BY <1>1, <1>2, <2>1, InvFacts, Zenon DEF TypeOK
<1>4. FamilyInv'
    BY <1>1, FamilyKept, Zenon
<1>5. MemoryInv'
    <2>1. \A p \in Pids : None \in Own(p) /\ Own(p)' = Own(p)
        BY <1>1, Zenon DEF Own
    <2>2. Readable'
        BY <1>1, <2>1, InvFacts, Zenon DEF Readable
    <2>3. ASSUME NEW p \in Pids
          PROVE  /\ p \notin stale => reg'.byPid[p] \in Own(p)
                 /\ p \notin stale \union orphans /\ (p \notin misread \/ alive[p] # None) => reg'.exited[p] \in Own(p)
        BY <1>2, <2>1, InvFacts, Zenon DEF Memory
    <2>4. Memory(reg, stale)'
        BY <1>1, <2>1, <2>3, Zenon DEF Memory
    <2> QED BY <2>2, <2>4, Zenon DEF MemoryInv
<1>6. plan' \in Plans /\ Agree(reg)' /\ RightContainer'
    BY <1>1, <1>2, Zenon DEF RegistryInv, Agree, Live, RightContainer
<1> QED BY <1>3, <1>4, <1>5, <1>6, Zenon DEF RegistryInv

-----------------------------------------------------------------------------
(* The results. *)

\* An empty registry satisfies the invariant.
LEMMA RegistryInit == Init => RegistryInv
<1> SUFFICES ASSUME Init PROVE RegistryInv
    BY Zenon
<1>1. reg \in Registries
    BY Zenon DEF Init, Registries
<1>2. TypeOK
    <2>1. connRing \in Seq(Events) /\ events \in Seq(Events)
        BY DEF Init
    <2>2. procRing \in SUBSET Events /\ Doubtful \subseteq Pids /\ been \in [Pids -> SUBSET Cgroups]
        BY Zenon DEF Init, Doubtful
    <2>3. outcome.doubtful \in BOOLEAN /\ outcome.been \subseteq Cgroups /\ outcome.to \in Cgroups \union {None}
        BY Zenon DEF Init, NoOutcome
    <2>4. starts \in [Pids -> Nat] /\ sent \in [Pids -> Nat]
        BY SMTT(30) DEF Init
    <2> QED BY <1>1, <2>1, <2>2, <2>3, <2>4, Zenon DEF Init, TypeOK
<1>3. Agree(reg)
    BY Zenon DEF Init, Agree, Live
<1>4. FamilyInv
    BY Zenon DEF Init, FamilyInv, Family
<1>5. MemoryInv
    BY Zenon DEF Init, MemoryInv, Readable, Memory, Own
<1>6. RightContainer
    BY Zenon DEF Init, NoOutcome, RightContainer
<1> QED BY <1>2, <1>3, <1>4, <1>5, <1>6, Zenon DEF Init, RegistryInv

\* The inductive invariant of the registry.
THEOREM RegistryInvariant == Spec => []RegistryInv
<1>1. RegistryInv /\ [Next]_vars => RegistryInv'
    <2> SUFFICES ASSUME RegistryInv, [Next]_vars PROVE RegistryInv'
        BY Zenon
    <2>1. CASE KernelStep
        BY <2>1, StartStep, ExitStep, MoveStep, RequestStep, Zenon DEF KernelStep
    <2>2. CASE ForwardProc \/ ForwardConn
        BY <2>2, ForwardSteps, Zenon
    <2>3. CASE EventLoop
        BY <2>3, OnStartStep, OnExitStep, OnL7Step, Zenon DEF EventLoop
    <2>4. CASE Expiry \/ Sweep
        BY <2>4, SweepFacts, ForgetStep, Zenon
    <2>5. CASE UNCHANGED vars
        <3>1. UNCHANGED <<kernel, queues, ghosts, outcome>> /\ reg' = reg /\ early' = early
            BY <2>5, Zenon DEF vars
        <3>2. Shrunk(reg', reg) /\ early' \in [Pids -> Cgroups \union {None}]
            BY <3>1, InvFacts, Zenon DEF Shrunk
        <3> QED BY <3>1, <3>2, ForgetStep, Zenon
    <2> QED BY <2>1, <2>2, <2>3, <2>4, <2>5, Zenon DEF Next
<1> QED BY <1>1, RegistryInit, PTL DEF Spec

\* The maps of the registry agree whatever order the events of a process arrive in, and
\* whatever is lost, cannot be read, expires or is swept: a pid belongs to a container that
\* containersById has, a running process a container counts has its pid in containersByPid,
\* and a container with one is not on its way to be deleted.
THEOREM MapsAlwaysAgree == Spec => []MapsAgree
<1>1. RegistryInv => MapsAgree
    BY Zenon DEF RegistryInv, Agree, MapsAgree
<1> QED BY <1>1, RegistryInvariant, PTL

\* An L7 event goes to a container in which the process that sent it has been, or to none
\* (handleEvents, containerOrLate, goneProcessContainer), whatever the order of the process
\* events and the length of the line of ancestors; the exceptions are the reused pids and the
\* children of moved or reused ones that RightContainer names.
THEOREM EventsToTheirContainer == Spec => []RightContainer
<1>1. RegistryInv => RightContainer
    BY Zenon DEF RegistryInv
<1> QED BY <1>1, RegistryInvariant, PTL
=============================================================================
