---------------------------- MODULE QueueBudget ----------------------------
(***************************************************************************)
(* The path of a span from the code that ends it to the OTLP exporter      *)
(* (tracing/queue_budget.go): budgetProcessor reserves a place and bytes   *)
(* for it in queueBudget, hands it to the SDK's BatchSpanProcessor, whose  *)
(* queue has room for maxSpans spans and drops silently what does not fit, *)
(* and countingExporter gives the place and the bytes back once the        *)
(* exporter is done with the batch.                                        *)
(*                                                                         *)
(* Spans end in several goroutines (the event loop, the gc of every        *)
(* container), so every span has a stage of its own.  reserve and release  *)
(* hold queueBudget.mu and are atomic; the steps between them are not.     *)
(***************************************************************************)
EXTENDS Integers, FiniteSets, FiniteSetsExt

CONSTANTS
  Spans,      \* the spans the agent makes
  Sampled,    \* those whose span context is sampled
  SpanSize,   \* spanSize of every span
  MaxSpans,   \* queueBudget.maxSpans, also the capacity of the SDK queue
  MaxBytes,   \* queueBudget.maxBytes
  MaxBatch    \* MaxExportBatchSize of the SDK

ASSUME SpansAssumption == IsFiniteSet(Spans) /\ Sampled \subseteq Spans
ASSUME SizeAssumption == SpanSize \in [Spans -> Nat]
ASSUME LimitsAssumption == MaxSpans \in Nat /\ MaxBytes \in Nat /\ MaxBatch \in Nat

VARIABLES
  stage,      \* where every span is
  uncounted,  \* spans whose End returned and that spansCreated does not count yet
  created,    \* spansCreated
  exported,   \* spansExported
  failed,     \* spansExportFailed
  reserved,   \* queueBudget.spans
  bytes,      \* queueBudget.bytes
  dropped,    \* queueBudget.dropped
  worker      \* what the SDK's processQueue goroutine does with its batch

counters  == <<created, exported, failed>>
budget    == <<reserved, bytes, dropped>>
queueVars == <<stage, uncounted, counters, budget, worker>>

\* new: not ended yet; reserved: in OnEnd, past reserve; queued: in the SDK queue;
\* batched: in the batch of the worker; done: given back; dropped: over the budget;
\* lost: dropped by the SDK queue; ignored: not sampled.
Stage == {"new", "reserved", "queued", "batched", "done", "dropped", "lost", "ignored"}

At(st)    == {s \in Spans : stage[s] = st}
Held      == {s \in Spans : stage[s] \in {"reserved", "queued", "batched"}}
BytesOf(S) == MapThenSumSet(LAMBDA s : SpanSize[s], S)

QueueInit ==
  /\ stage = [s \in Spans |-> "new"]
  /\ uncounted = {}
  /\ created = 0 /\ exported = 0 /\ failed = 0
  /\ reserved = 0 /\ bytes = 0 /\ dropped = 0
  /\ worker = "collect"

-----------------------------------------------------------------------------
(* OnEnd of a span, in the goroutine that ends it. *)

\* Mutant: the bounds are compared with what the SDK queue holds now.
OverBudgetQueueOnly(s) ==
  Cardinality(At("queued")) + 1 > MaxSpans \/ BytesOf(At("queued")) + SpanSize[s] > MaxBytes
OverBudget(s) == reserved + 1 > MaxSpans \/ bytes + SpanSize[s] > MaxBytes

\* The SDK ignores a span that is not sampled: OnEnd passes it on with nothing reserved.
EndUnsampled(s) ==
  /\ stage[s] = "new" /\ s \notin Sampled
  /\ stage' = [stage EXCEPT ![s] = "ignored"]
  /\ uncounted' = uncounted \union {s}
  /\ UNCHANGED <<counters, budget, worker>>

\* reserve refuses the span: OnEnd returns, the span is counted as dropped.
ReserveRefused(s) ==
  /\ stage[s] = "new" /\ s \in Sampled
  /\ OverBudget(s)
  /\ stage' = [stage EXCEPT ![s] = "dropped"]
  /\ dropped' = dropped + 1
  /\ uncounted' = uncounted \union {s}
  /\ UNCHANGED <<counters, reserved, bytes, worker>>

Reserve(s) ==
  /\ stage[s] = "new" /\ s \in Sampled
  /\ ~OverBudget(s)
  /\ stage' = [stage EXCEPT ![s] = "reserved"]
  /\ reserved' = reserved + 1
  /\ bytes' = bytes + SpanSize[s]
  /\ UNCHANGED <<uncounted, counters, dropped, worker>>

\* The SDK's OnEnd: a non-blocking send to a channel of MaxSpans spans.
Enqueue(s) ==
  /\ stage[s] = "reserved"
  /\ stage' = [stage EXCEPT ![s] = IF Cardinality(At("queued")) < MaxSpans
                                     THEN "queued" ELSE "lost"]
  /\ uncounted' = uncounted \union {s}
  /\ UNCHANGED <<counters, budget, worker>>

\* createSpanAt counts the span after End returned.
CountCreated(s) ==
  /\ s \in uncounted
  /\ uncounted' = uncounted \ {s}
  /\ created' = created + 1
  /\ UNCHANGED <<stage, exported, failed, budget, worker>>

-----------------------------------------------------------------------------
(* The processQueue goroutine of the SDK and countingExporter. *)

Dequeue(s) ==
  /\ worker = "collect" /\ stage[s] = "queued"
  /\ Cardinality(At("batched")) < MaxBatch
  /\ stage' = [stage EXCEPT ![s] = "batched"]
  /\ UNCHANGED <<uncounted, counters, budget, worker>>

\* The batch is full or its timer fired: ExportSpans is called and waits for the collector.
StartExport ==
  /\ worker = "collect" /\ At("batched") # {}
  /\ worker' = "export"
  /\ UNCHANGED <<stage, uncounted, counters, budget>>

\* Mutant: a failed batch is not counted.
ExportAnsweredSilently(ok) ==
  /\ worker = "export"
  /\ exported' = IF ok THEN exported + Cardinality(At("batched")) ELSE exported
  /\ worker' = "release"
  /\ UNCHANGED <<stage, uncounted, created, failed, budget>>

\* The collector answered, or the export timed out or failed.
ExportAnswered(ok) ==
  /\ worker = "export"
  /\ exported' = IF ok THEN exported + Cardinality(At("batched")) ELSE exported
  /\ failed' = IF ok THEN failed ELSE failed + Cardinality(At("batched"))
  /\ worker' = "release"
  /\ UNCHANGED <<stage, uncounted, created, budget>>

\* Mutant: the count of the batch is given back and its bytes are not.
ReleaseSpansOnly ==
  /\ worker = "release"
  /\ reserved' = reserved - Cardinality(At("batched"))
  /\ stage' = [s \in Spans |-> IF stage[s] = "batched" THEN "done" ELSE stage[s]]
  /\ worker' = "collect"
  /\ UNCHANGED <<uncounted, counters, bytes, dropped>>
\* Mutant: reserve keeps the mutex when it refuses a span, so release waits forever.
ReleaseBlocked ==
  /\ worker = "release" /\ dropped = 0
  /\ reserved' = reserved - Cardinality(At("batched"))
  /\ bytes' = bytes - BytesOf(At("batched"))
  /\ stage' = [s \in Spans |-> IF stage[s] = "batched" THEN "done" ELSE stage[s]]
  /\ worker' = "collect"
  /\ UNCHANGED <<uncounted, counters, dropped>>

Release ==
  /\ worker = "release"
  /\ reserved' = reserved - Cardinality(At("batched"))
  /\ bytes' = bytes - BytesOf(At("batched"))
  /\ stage' = [s \in Spans |-> IF stage[s] = "batched" THEN "done" ELSE stage[s]]
  /\ worker' = "collect"
  /\ UNCHANGED <<uncounted, counters, dropped>>

OnEnd(s) == EndUnsampled(s) \/ ReserveRefused(s) \/ Reserve(s) \/ Enqueue(s) \/ CountCreated(s)
Worker   == (\E s \in Spans : Dequeue(s)) \/ StartExport \/ (\E ok \in BOOLEAN : ExportAnswered(ok)) \/ Release

QueueNext == (\E s \in Spans : OnEnd(s)) \/ Worker

\* A goroutine inside OnEnd is not blocked by anything and goes on; so does the
\* worker, whose exports are bounded by a timeout.
QueueFairness == (\A s \in Spans : WF_queueVars(Enqueue(s) \/ CountCreated(s))) /\ WF_queueVars(Worker)

QueueSpec == QueueInit /\ [][QueueNext]_queueVars /\ QueueFairness
-----------------------------------------------------------------------------
(* Properties *)

\* The types of the control state; those of the byte count are apart.
ControlTypeOK ==
  /\ stage \in [Spans -> Stage]
  /\ uncounted \subseteq Spans
  /\ created \in Nat /\ exported \in Nat /\ failed \in Nat
  /\ reserved \in Int /\ dropped \in Nat
  /\ worker \in {"collect", "export", "release"}

\* queueBudget.spans is the number of spans between reserve and release, in whatever
\* goroutine or queue they are, and never over maxSpans.
CountExact == reserved = Cardinality(Held) /\ reserved <= MaxSpans

\* queueBudget.bytes is what those spans weigh, never over maxBytes: what release gives
\* back is exactly what reserve took (the comments of queueBudget and spanSize).
BytesExact == bytes = BytesOf(Held) /\ bytes <= MaxBytes

\* Both counts of queueBudget are exact, at every interleaving of the goroutines that end
\* spans with the exporter.
BudgetExact == CountExact /\ BytesExact

\* The SDK never drops a span it was handed: every span past reserve finds room in the
\* SDK queue, however reserve, OnEnd and the worker interleave (newBatcher gives the
\* queue the same bound as the budget, and a span counts until it is exported).
NoSilentLoss == At("lost") = {}

QueueDrained == Held = {} /\ uncounted = {} /\ worker = "collect"

\* Once the pipeline has drained, created minus (exported + failed) is exactly the spans
\* lost on the way (the comment of spansCreated), and these are the ones dropped counts
\* and the ones that are not sampled: nothing disappears without being counted.
DrainedAccounting ==
  QueueDrained => created - (exported + failed) = dropped + Cardinality(At("ignored"))

\* A span the budget let in is exported (or fails) and gives its place back, whatever the
\* collector answers: the budget cannot stay exhausted.
GivenBack == \A s \in Spans : stage[s] = "reserved" ~> stage[s] = "done"
=============================================================================
