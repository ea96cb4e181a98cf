--------------------------- MODULE GlobalUprobes ----------------------------
(***************************************************************************)
(* The uprobes that the processes of one binary share                      *)
(* (ebpftracer/tracer.go: acquireGlobalUprobe, releaseGlobalUprobes,       *)
(* detachIdleGlobalUprobes, Close) and the references that the processes   *)
(* keep (containers/process.go: instrument, addUprobeKey, Close;           *)
(* containers/container.go: attachTlsUprobes), with the functions that     *)
(* attach the uprobes of a binary (ebpftracer/tls.go, nodejs.go,           *)
(* python.go).                                                             *)
(*                                                                         *)
(* A slot is one thing to instrument in a process.  The instrument         *)
(* goroutine of a process works on its Own slots and Process.Close waits   *)
(* for it; handleEvents works on the others (TLS libraries) and does not   *)
(* hold the lock under which Collect closes a process, so it may have got  *)
(* a reference of a process that is closed by then.                        *)
(***************************************************************************)
EXTENDS Naturals, FiniteSets

CONSTANTS
  Slots,     \* things to instrument in processes
  Procs,     \* processes
  Keys,      \* binaries: UprobeKey
  ProcOf,    \* the process of a slot
  KeyOf,     \* the binary of a slot
  Own,       \* the slots of the instrument goroutines
  Before,    \* the slots that are tried before a slot, which is only tried if all of them fail
  None,
  TTL        \* globalUprobeIdleTTL

ASSUME SlotsAssumption ==
  /\ IsFiniteSet(Slots) /\ Own \subseteq Slots /\ None \notin Procs
  /\ ProcOf \in [Slots -> Procs] /\ KeyOf \in [Slots -> Keys] /\ Before \in [Slots -> SUBSET Slots]
ASSUME TTLAssumption == TTL \in Nat \ {0}

VARIABLES
  tracer,    \* "open", "stopping" (Close is closing the programs), "closed"
  attached,  \* the keys of globalUprobes
  links,     \* the uprobes of each binary that are attached in the kernel
  refs,      \* refcount
  idle,      \* time since unusedSince, up to TTL
  slot,      \* a slot is "new", "acquired" (got a reference, not noted in the process yet),
             \* "held" (in uprobeKeys), "taken" (Process.Close took it out to release it),
             \* "late" (refused by addUprobeKey, to be released), "done"
  process,   \* a process is "running", "cancelled" (Close has begun), "closed" (its flag), "gone"
  attaching  \* the process attachTlsUprobes works on, or None

uprobes == <<tracer, attached, links, refs, idle>>
uprobesVars == <<uprobes, slot, process, attaching>>

Referring == {s \in Slots : slot[s] \in {"acquired", "held", "taken", "late"}}

UprobesInit ==
  /\ tracer = "open" /\ attached = {} /\ links = [k \in Keys |-> {}]
  /\ refs = [k \in Keys |-> 0] /\ idle = [k \in Keys |-> 0]
  /\ slot = [s \in Slots |-> "new"] /\ process = [p \in Procs |-> "running"]
  /\ attaching = None

-----------------------------------------------------------------------------
(* What a function that attaches the uprobes of a binary leaves behind, if some symbols are   *)
(* missing and some uprobes fail to be attached: the uprobe at the entry of the function that *)
(* matters, the one at its return, and those that a version of the library may not have.      *)

Probes == {"enter", "exit", "extra"}
Pair   == {"enter", "exit"}

Some(open) == [ok |-> TRUE, open |-> open]
Nothing    == [ok |-> FALSE, open |-> {}]

\* attachUprobes: a symbol may be missing if it is optional; anything else closes the links.
AttachUprobes(specs, optional, missing, failing) ==
  IF (missing \ optional) \cap specs = {} /\ (failing \ missing) \cap specs = {}
  THEN Some(specs \ missing) ELSE Nothing

AttachOpenSslUprobes(missing, failing) == AttachUprobes(Probes, {"extra"}, missing, failing)
AttachGoTlsUprobes(missing, failing)   == AttachUprobes(Pair, {}, missing, failing)
AttachJavaTlsUprobes(missing, failing) == AttachUprobes(Pair, {}, missing, failing)

\* Both symbols are looked up first.
AttachRustlsUprobes(missing, failing) ==
  IF missing \cap Pair # {} \/ failing \cap Pair # {} THEN Nothing ELSE Some(Pair)

\* The callbacks are attached as far as that succeeds.
AttachNodejsUprobes(missing, failing) ==
  IF (missing \union failing) \cap Pair # {} THEN Nothing ELSE Some(Probes \ (missing \union failing))

AttachPythonUprobes(missing, failing) ==
  IF (missing \union failing) \cap Pair # {} THEN Nothing ELSE Some(Pair)

\* What may come of instrumenting a runtime, and of attaching to a TLS library.
OwnOutcomes ==
  {AttachNodejsUprobes(m, f) : m \in SUBSET Probes, f \in SUBSET Probes}
  \union {AttachPythonUprobes(m, f) : m \in SUBSET Probes, f \in SUBSET Probes}

TlsOutcomes ==
  {AttachOpenSslUprobes(m, f) : m \in SUBSET Probes, f \in SUBSET Probes}
  \union {AttachGoTlsUprobes(m, f) : m \in SUBSET Probes, f \in SUBSET Probes}
  \union {AttachRustlsUprobes(m, f) : m \in SUBSET Probes, f \in SUBSET Probes}
  \union {AttachJavaTlsUprobes(m, f) : m \in SUBSET Probes, f \in SUBSET Probes}

Outcomes(s) == IF s \in Own THEN OwnOutcomes ELSE TlsOutcomes

-----------------------------------------------------------------------------
(* The tracer, under globalUprobesLock. *)

\* Mutant: the age is compared without the count.
DetachIdleByAge(keys, count, age) == {k \in keys : age[k] < TTL}

\* detachIdleGlobalUprobes
DetachIdle(keys, count, age) == {k \in keys : count[k] > 0 \/ age[k] < TTL}

\* The links that are left when only these keys are.
Only(keys) == [k \in Keys |-> IF k \in keys THEN links[k] ELSE {}]

\* acquireGlobalUprobe: the file may be gone, attach may fail, and fails once Close has
\* closed the programs.
Acquire(s) ==
  LET k == KeyOf[s]
      left == DetachIdle(attached, refs, idle)
  IN
  /\ \/ /\ k \in left /\ attached' = left /\ links' = Only(left)
        /\ refs' = [refs EXCEPT ![k] = @ + 1]
        /\ slot' = [slot EXCEPT ![s] = "acquired"]
     \/ /\ k \notin left /\ tracer # "closed"
        /\ \E o \in Outcomes(s) : o.ok /\ links' = [Only(left) EXCEPT ![k] = o.open]
        /\ attached' = left \union {k} /\ refs' = [refs EXCEPT ![k] = 1]
        /\ slot' = [slot EXCEPT ![s] = "acquired"]
     \/ /\ k \notin left /\ attached' = left
        /\ \E o \in Outcomes(s) : ~o.ok /\ links' = [Only(left) EXCEPT ![k] = o.open]
        /\ slot' = [slot EXCEPT ![s] = "done"] /\ UNCHANGED refs
     \/ /\ slot' = [slot EXCEPT ![s] = "done"] /\ UNCHANGED <<attached, links, refs>>
  /\ UNCHANGED <<tracer, idle>>

Count(S, k) == Cardinality({s \in S : KeyOf[s] = k})

\* Mutant: of several references to one binary only one is given back.
ReleaseOnce(S) ==
  LET count == [k \in Keys |-> IF k \in attached /\ Count(S, k) > 0 THEN refs[k] - 1 ELSE refs[k]]
      age   == [k \in Keys |-> IF k \in attached /\ Count(S, k) > 0 /\ count[k] = 0 THEN 0 ELSE idle[k]]
  IN /\ refs' = count /\ idle' = age
     /\ attached' = DetachIdle(attached, count, age) /\ links' = Only(attached')
     /\ slot' = [s \in Slots |-> IF s \in S THEN "done" ELSE slot[s]]
     /\ UNCHANGED tracer

\* releaseGlobalUprobes with the keys of the slots S; a count stops at zero.
Release(S) ==
  LET left(k) == IF Count(S, k) < refs[k] THEN refs[k] - Count(S, k) ELSE 0
      count == [k \in Keys |-> IF k \in attached THEN left(k) ELSE refs[k]]
      age   == [k \in Keys |-> IF k \in attached /\ Count(S, k) > 0 /\ count[k] = 0 THEN 0 ELSE idle[k]]
  IN /\ refs' = count /\ idle' = age
     /\ attached' = DetachIdle(attached, count, age) /\ links' = Only(attached')
     /\ slot' = [s \in Slots |-> IF s \in S THEN "done" ELSE slot[s]]
     /\ UNCHANGED tracer

\* Tracer.Close begins: the programs are being closed.
StopPrograms ==
  /\ tracer = "open" /\ tracer' = "stopping"
  /\ UNCHANGED <<attached, links, refs, idle, slot, process, attaching>>

\* Tracer.Close under the lock: every link is closed, globalUprobes is nil.
CloseUprobes ==
  /\ tracer = "stopping" /\ tracer' = "closed"
  /\ attached' = {} /\ links' = Only({})
  /\ UNCHANGED <<refs, idle, slot, process, attaching>>

-----------------------------------------------------------------------------
(* The goroutines of the processes and handleEvents. *)

\* AttachNodejsProbes and AttachPythonThreadLockProbes try one library after the other.
InstrumentOwn(s) ==
  /\ \A t \in Before[s] : slot[t] = "done"
  /\ s \in Own /\ slot[s] = "new" /\ process[ProcOf[s]] \in {"running", "cancelled"}
  /\ Acquire(s)
  /\ UNCHANGED <<process, attaching>>

\* attachTlsUprobes reads the process without the lock of the container.
BeginAttach(p) ==
  /\ attaching = None /\ process[p] # "gone"
  /\ \E s \in Slots \ Own : ProcOf[s] = p /\ slot[s] = "new"
  /\ attaching' = p
  /\ UNCHANGED <<uprobes, slot, process>>

AttachTls(s) ==
  /\ s \notin Own /\ slot[s] = "new" /\ attaching = ProcOf[s]
  /\ Acquire(s)
  /\ UNCHANGED <<process, attaching>>

EndAttach ==
  /\ attaching # None
  /\ \A s \in Slots \ Own : ProcOf[s] = attaching => slot[s] \notin {"new", "acquired", "late"}
  /\ attaching' = None
  /\ UNCHANGED <<uprobes, slot, process>>

\* Mutant: the reference of a closed process is kept.
AddUprobeKeyAnyway(s) ==
  /\ slot[s] = "acquired"
  /\ slot' = [slot EXCEPT ![s] = "held"]
  /\ UNCHANGED <<uprobes, process, attaching>>

\* addUprobeKey, under uprobeKeysLock.
AddUprobeKey(s) ==
  /\ slot[s] = "acquired"
  /\ slot' = [slot EXCEPT ![s] = IF process[ProcOf[s]] \in {"closed", "gone"} THEN "late" ELSE "held"]
  /\ UNCHANGED <<uprobes, process, attaching>>

ReleaseLate(s) ==
  /\ slot[s] = "late"
  /\ Release({s})
  /\ UNCHANGED <<process, attaching>>

\* Process.Close: cancel, wait for the instrument goroutine, take the keys, release them.
Cancel(p) ==
  /\ process[p] = "running"
  /\ process' = [process EXCEPT ![p] = "cancelled"]
  /\ UNCHANGED <<uprobes, slot, attaching>>

Taken(p) == {s \in Slots : ProcOf[s] = p /\ slot[s] = "held"}

TakeKeys(p) ==
  /\ process[p] = "cancelled"
  /\ \A s \in Own : ProcOf[s] = p => slot[s] # "acquired"
  /\ slot' = [s \in Slots |-> IF s \in Taken(p) THEN "taken" ELSE slot[s]]
  /\ process' = [process EXCEPT ![p] = "closed"]
  /\ UNCHANGED <<uprobes, attaching>>

ReleaseKeys(p) ==
  /\ process[p] = "closed"
  /\ Release({s \in Slots : ProcOf[s] = p /\ slot[s] = "taken"})
  /\ process' = [process EXCEPT ![p] = "gone"]
  /\ UNCHANGED attaching

\* Time passes for the binaries that no process uses.
Tick ==
  /\ \E k \in attached : refs[k] = 0 /\ idle[k] < TTL
  /\ idle' = [k \in Keys |-> IF k \in attached /\ refs[k] = 0 /\ idle[k] < TTL THEN idle[k] + 1 ELSE idle[k]]
  /\ UNCHANGED <<tracer, attached, links, refs, slot, process, attaching>>

Attach == \E s \in Slots : InstrumentOwn(s) \/ AttachTls(s)
Note   == \E s \in Slots : AddUprobeKey(s) \/ ReleaseLate(s)
Close  == \E p \in Procs : Cancel(p) \/ TakeKeys(p) \/ ReleaseKeys(p)
UprobesNext == Attach \/ Note \/ Close \/ (\E p \in Procs : BeginAttach(p)) \/ EndAttach
               \/ StopPrograms \/ CloseUprobes \/ Tick

\* The goroutines that attach go on, a Close that has begun too, and time passes.
UprobesFairness ==
  /\ WF_uprobesVars(Attach) /\ WF_uprobesVars(Note) /\ WF_uprobesVars(EndAttach)
  /\ WF_uprobesVars(CloseUprobes) /\ WF_uprobesVars(Tick)
  /\ \A p \in Procs : WF_uprobesVars(TakeKeys(p)) /\ WF_uprobesVars(ReleaseKeys(p))

UprobesSpec == UprobesInit /\ [][UprobesNext]_uprobesVars /\ UprobesFairness
-----------------------------------------------------------------------------
(* Properties *)

\* Type invariant.
UprobesTypeOK ==
  /\ tracer \in {"open", "stopping", "closed"} /\ attached \subseteq Keys /\ links \in [Keys -> SUBSET Probes]
  /\ refs \in [Keys -> Nat] /\ idle \in [Keys -> 0..TTL]
  /\ slot \in [Slots -> {"new", "acquired", "held", "taken", "late", "done"}]
  /\ process \in [Procs -> {"running", "cancelled", "closed", "gone"}]
  /\ attaching \in Procs \union {None}

\* The refcount of an attached binary is the number of references that are somewhere: in the
\* uprobeKeys of a process, on the way into them, or on the way back.
RefsExact == \A k \in attached : refs[k] = Count(Referring, k)

ReferredHasEntry == tracer # "closed" => \A s \in Referring : KeyOf[s] \in attached

\* The uprobes in the kernel are those of the binaries in globalUprobes.
LinksExact == \A k \in Keys : IF k \in attached THEN Pair \subseteq links[k] ELSE links[k] = {}

\* While a process has a reference, the uprobes of its binary stay attached, the one at the
\* return of a function with the one at its entry: neither the idle sweep of another acquire or
\* release, nor the Close of another process detaches them.  And no others are attached: an
\* attach that failed half way has left nothing in the kernel.
ReferredIsAttached == ReferredHasEntry /\ LinksExact

\* A closed tracer has no uprobes attached and attaches no more, whatever the goroutines of
\* the processes were about to do (acquireGlobalUprobe would write to the nil map).
ClosedHasNone == tracer = "closed" => attached = {}

\* Every reference of a process that was closed is given back, one that attachTlsUprobes got
\* while or after Process.Close ran too.
ReferencesReturned ==
  \A s \in Slots : []<>(process[ProcOf[s]] = "gone" => slot[s] \in {"new", "done"})
=============================================================================
