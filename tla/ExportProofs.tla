--------------------------- MODULE ExportProofs ---------------------------
(***************************************************************************)
(* What the agent sends to the collector, by its two paths.                *)
(* QueueBudget, the spans: the counts of queueBudget are exact, the SDK    *)
(* queue never overflows and the drained counters account for every span,  *)
(* for every set of spans, every capacity and every batch size.            *)
(* Spool, the metrics: no scrape disappears without a reason, only         *)
(* complete payloads are sent, and the collector gets them in order, for   *)
(* any spool limit, payload sizes, number of scrapes and of restarts.      *)
(***************************************************************************)
EXTENDS QueueBudget, Spool, FiniteSetTheorems, WellFoundedInduction, TLAPS

-----------------------------------------------------------------------------
(* QueueBudget *)

\* The inductive invariant: the count is needed to know that a span past reserve
\* finds room, and the absence of lost spans to know that the count has no leak.
CountInv == ControlTypeOK /\ CountExact /\ NoSilentLoss

\* A set of spans is finite and has a cardinality.
LEMMA SpanSets ==
  ASSUME NEW S \in SUBSET Spans
  PROVE  IsFiniteSet(S) /\ Cardinality(S) \in Nat
  BY SpansAssumption, FS_Subset, FS_CardinalityType, Zenon

\* The initial state: nothing is held.
LEMMA CountInit == QueueInit => CountInv
<1> SUFFICES ASSUME QueueInit PROVE CountInv
    BY Zenon
<1>1. Held = {} /\ At("lost") = {}
    BY Zenon DEF QueueInit, Held, At
<1>2. Cardinality(Held) = 0
    BY <1>1, FS_EmptySet, Zenon
<1> QED
    BY <1>1, <1>2, LimitsAssumption
    DEF QueueInit, CountInv, ControlTypeOK, CountExact, NoSilentLoss, Stage

\* Enqueue finds room: the span itself is held and not queued, so fewer than
\* MaxSpans spans are in the SDK queue.
LEMMA QueueHasRoom ==
  ASSUME CountInv, NEW s \in Spans, stage[s] = "reserved"
  PROVE  Cardinality(At("queued")) < MaxSpans
<1> DEFINE Q == At("queued")
<1>1. Q \subseteq Spans /\ s \notin Q /\ Q \union {s} \subseteq Held
    BY Zenon DEF At, Held
<1>2. Held \subseteq Spans
    BY Zenon DEF Held
<1>3. IsFiniteSet(Held) /\ Cardinality(Held) \in Nat /\ IsFiniteSet(Q) /\ Cardinality(Q) \in Nat
    BY <1>1, <1>2, SpanSets, Zenon
<1>4. Cardinality(Q \union {s}) = Cardinality(Q) + 1
    BY <1>1, <1>3, FS_AddElement, Zenon
<1>5. Cardinality(Q \union {s}) <= Cardinality(Held)
    BY <1>1, <1>3, FS_Subset, Zenon
<1>6. Cardinality(Held) <= MaxSpans
    BY Zenon DEF CountInv, CountExact
<1> HIDE DEF Q
<1>7. Cardinality(Q) < MaxSpans
    BY <1>3, <1>4, <1>5, <1>6, LimitsAssumption
<1> QED
    BY <1>7, Zenon DEF Q

\* Every step keeps the count exact and loses no span.
LEMMA CountStep == CountInv /\ [QueueNext]_queueVars => CountInv'
<1> SUFFICES ASSUME CountInv, [QueueNext]_queueVars PROVE CountInv'
    BY Zenon
<1> USE DEF CountInv, ControlTypeOK, CountExact, NoSilentLoss, Stage
<1>0. /\ IsFiniteSet(Held) /\ Cardinality(Held) \in Nat
      /\ IsFiniteSet(At("batched")) /\ Cardinality(At("batched")) \in Nat
    BY SpanSets, Zenon DEF Held, At
<1>1. ASSUME NEW s \in Spans, EndUnsampled(s) PROVE CountInv'
    <2>1. Held' = Held /\ At("lost")' = At("lost")
        BY <1>1, Zenon DEF EndUnsampled, Held, At
    <2> QED BY <1>1, <2>1, Zenon DEF EndUnsampled, counters, budget
<1>2. ASSUME NEW s \in Spans, ReserveRefused(s) PROVE CountInv'
    <2>1. Held' = Held /\ At("lost")' = At("lost")
        BY <1>2, Zenon DEF ReserveRefused, Held, At
    <2> QED BY <1>2, <2>1 DEF ReserveRefused, counters
<1>3. ASSUME NEW s \in Spans, Reserve(s) PROVE CountInv'
    <2>1. Held' = Held \union {s} /\ s \notin Held /\ At("lost")' = At("lost")
        BY <1>3, Zenon DEF Reserve, Held, At
    <2>2. Cardinality(Held') = Cardinality(Held) + 1
        BY <2>1, <1>0, FS_AddElement, Zenon
    <2>3. reserved + 1 <= MaxSpans
        BY <1>3, LimitsAssumption DEF Reserve, OverBudget
    <2> QED BY <1>3, <2>1, <2>2, <2>3 DEF Reserve, counters
<1>4. ASSUME NEW s \in Spans, Enqueue(s) PROVE CountInv'
    <2>1. Cardinality(At("queued")) < MaxSpans
        BY <1>4, QueueHasRoom, Zenon DEF Enqueue
    <2>2. stage' = [stage EXCEPT ![s] = "queued"] /\ stage[s] = "reserved"
        BY <1>4, <2>1, Zenon DEF Enqueue
    <2>3. Held' = Held /\ At("lost")' = At("lost")
        BY <2>2, Zenon DEF Held, At
    <2> QED BY <1>4, <2>2, <2>3, Zenon DEF Enqueue, counters, budget
<1>5. ASSUME NEW s \in Spans, CountCreated(s) PROVE CountInv'
    <2>1. Held' = Held /\ At("lost")' = At("lost")
        BY <1>5, Zenon DEF CountCreated, Held, At
    <2> QED BY <1>5, <2>1 DEF CountCreated, budget
<1>6. ASSUME NEW s \in Spans, Dequeue(s) PROVE CountInv'
    <2>1. Held' = Held /\ At("lost")' = At("lost")
        BY <1>6, Zenon DEF Dequeue, Held, At
    <2> QED BY <1>6, <2>1, Zenon DEF Dequeue, counters, budget
<1>7. CASE StartExport
    <2>1. Held' = Held /\ At("lost")' = At("lost")
        BY <1>7, Zenon DEF StartExport, Held, At
    <2> QED BY <1>7, <2>1, Zenon DEF StartExport, counters, budget
<1>8. ASSUME NEW ok \in BOOLEAN, ExportAnswered(ok) PROVE CountInv'
    <2>1. Held' = Held /\ At("lost")' = At("lost")
        BY <1>8, Zenon DEF ExportAnswered, Held, At
    <2> QED BY <1>8, <2>1, <1>0 DEF ExportAnswered, budget
<1>9. CASE Release
    <2>1. Held' = Held \ At("batched") /\ At("lost")' = At("lost")
        BY <1>9, Zenon DEF Release, Held, At
    <2>2. Held \cap At("batched") = At("batched")
        BY Zenon DEF Held, At
    <2>3. Cardinality(Held') = Cardinality(Held) - Cardinality(At("batched"))
        BY <2>1, <2>2, <1>0, FS_Difference, Zenon
    <2> QED BY <1>9, <2>1, <2>3, <1>0, LimitsAssumption DEF Release, counters
<1>10. CASE UNCHANGED queueVars
    <2>1. Held' = Held /\ At("lost")' = At("lost")
        BY <1>10, Zenon DEF queueVars, Held, At
    <2> QED BY <1>10, <2>1, Zenon DEF queueVars, counters, budget
<1> QED
    BY <1>1, <1>2, <1>3, <1>4, <1>5, <1>6, <1>7, <1>8, <1>9, <1>10, Zenon
    DEF QueueNext, OnEnd, Worker

\* Every reachable state has the control types (the variables of tracing/queue_budget.go
\* except the byte count).
THEOREM ControlTypes == QueueSpec => []ControlTypeOK
<1>1. CountInv => ControlTypeOK
    BY Zenon DEF CountInv
<1> QED BY <1>1, CountInit, CountStep, PTL DEF QueueSpec

\* queueBudget.spans counts exactly the spans between reserve and release and stays
\* within maxSpans.
THEOREM CountIsExact == QueueSpec => []CountExact
<1>1. CountInv => CountExact
    BY Zenon DEF CountInv
<1> QED BY <1>1, CountInit, CountStep, PTL DEF QueueSpec

\* The SDK queue never drops a span that reserve let in.
THEOREM NothingLostSilently == QueueSpec => []NoSilentLoss
<1>1. CountInv => NoSilentLoss
    BY Zenon DEF CountInv
<1> QED BY <1>1, CountInit, CountStep, PTL DEF QueueSpec
-----------------------------------------------------------------------------
(* The bytes of a set of spans.  BytesOf is a fold over the set, that is a recursive
   function on its subsets: that the function exists, and that it does not matter in which
   order it adds, is proved here. *)

\* What the recursion takes next, adds, and the equation it is the solution of.
First(T) == CHOOSE s \in T : TRUE
Adds(g, T) == IF T = {} THEN 0 ELSE SpanSize[First(T)] + g[T \ {First(T)}]
Sums(g, S) == g = [T \in SUBSET S |-> Adds(g, T)]
Summing(S) == CHOOSE g : Sums(g, S)

\* BytesOf is the function its definition chooses.
LEMMA BytesOfDef ==
  ASSUME NEW S
  PROVE BytesOf(S) = Summing(S)[S]
BY Zenon DEF BytesOf, MapThenSumSet, MapThenFoldSet, Sums, Adds, First, Summing

\* Strict inclusion is well founded on the sets of spans: of any non-empty collection of
\* them, one has no proper subset in the collection.  The lemmas below use it to induct.
LEMMA SmallestSet ==
  ASSUME NEW P \in SUBSET (SUBSET Spans), P # {}
  PROVE \E T \in P : \A U \in SUBSET T : U # T => U \notin P
<1>1. IsWellFoundedOn(StrictSubsetOrdering(Spans), FiniteSubsetsOf(Spans))
  BY FS_StrictSubsetOrderingWellFounded, Zenon
<1>2. P \subseteq FiniteSubsetsOf(Spans)
  BY SpansAssumption, FS_Subset, Zenon DEF FiniteSubsetsOf
<1>3. PICK T \in P : \A U \in P : ~(<<U, T>> \in StrictSubsetOrdering(Spans))
  BY <1>1, <1>2, WFMin, Zenon
<1> QED BY <1>3, Zenon DEF StrictSubsetOrdering

\* What the recursion takes out of a set is one of its elements.
LEMMA FirstIn == ASSUME NEW T \in SUBSET Spans, T # {}
   PROVE First(T) \in T /\ First(T) \in Spans /\ T \ {First(T)} \in SUBSET T /\ T \ {First(T)} # T
BY Zenon DEF First

\* Two functions that satisfy the recursion have the same values where both are defined.
LEMMA SumsAgree ==
  ASSUME NEW S \in SUBSET Spans, NEW V \in SUBSET Spans, NEW g, NEW h,
         Sums(g, S), Sums(h, V), NEW T \in SUBSET (S \cap V)
  PROVE g[T] = h[T]
<1> DEFINE P == {W \in SUBSET (S \cap V) : g[W] # h[W]}
<1> SUFFICES ASSUME P # {} PROVE FALSE BY Zenon
<1>1. PICK W \in P : \A U \in SUBSET W : U # W => U \notin P
  BY SmallestSet, Zenon
<1>2. g[W] = Adds(g, W) /\ h[W] = Adds(h, W)
  BY Zenon DEF Sums
<1>3. CASE W = {}
  BY <1>2, <1>3, Zenon DEF Adds
<1>4. CASE W # {}
  <2>1. W \ {First(W)} \in SUBSET W /\ W \ {First(W)} # W
     BY <1>4, FirstIn, Zenon
  <2>2. g[W \ {First(W)}] = h[W \ {First(W)}]
     BY <2>1, <1>1, Zenon
  <2> QED BY <1>2, <1>4, <2>2, Zenon DEF Adds
<1> QED BY <1>3, <1>4, Zenon

\* The recursion has a solution on the subsets of every set of spans.
LEMMA SummingExists ==
  ASSUME NEW S \in SUBSET Spans
  PROVE Sums(Summing(S), S)
<1> DEFINE P == {T \in SUBSET Spans : ~Sums(Summing(T), T)}
<1> SUFFICES ASSUME P # {} PROVE FALSE BY Zenon
<1>1. PICK T \in P : \A U \in SUBSET T : U # T => U \notin P
  BY SmallestSet, Zenon
<1>2. \A U \in SUBSET T : U # T => Sums(Summing(U), U)
  BY <1>1, Zenon
<1> DEFINE Rest(U) == U \ {First(U)}
           val(U) == IF U = {} THEN 0 ELSE SpanSize[First(U)] + Summing(Rest(U))[Rest(U)]
           g == [U \in SUBSET T |-> val(U)]
<1>3. ASSUME NEW U \in SUBSET T PROVE val(U) = Adds(g, U)
  <2>1. CASE U = {}
    BY <2>1, Zenon DEF Adds
  <2>2. CASE U # {}
    <3> DEFINE R == Rest(U)
    <3>1. R \in SUBSET T /\ R # T
       BY <2>2, FirstIn, Zenon
    <3>2. Sums(Summing(R), R)
       BY <3>1, <1>2, Zenon
    <3>3. Summing(R)[R] = Adds(Summing(R), R)
       BY <3>2, Zenon DEF Sums
    <3>4. CASE R = {}
       BY <3>4, <3>3, <2>2, <3>1, Zenon DEF Adds
    <3>5. CASE R # {}
       <4>1. Rest(R) \in SUBSET R /\ Rest(R) \in SUBSET T /\ Rest(R) # T
          BY <3>1, <3>5, FirstIn, Zenon
       <4>2. Sums(Summing(Rest(R)), Rest(R))
          BY <4>1, <1>2, Zenon
       <4>3. Summing(R)[Rest(R)] = Summing(Rest(R))[Rest(R)]
          BY <3>2, <4>2, <4>1, <3>1, SumsAgree
       <4>4. g[R] = Summing(R)[R]
          BY <4>3, <3>3, <3>5, <3>1, Zenon DEF Adds
       <4> QED BY <4>4, <2>2, Zenon DEF Adds
    <3> QED BY <3>4, <3>5, Zenon
  <2> QED BY <2>1, <2>2, Zenon
<1>4. Sums(g, T)
  BY <1>3, Zenon DEF Sums
<1>5. Sums(Summing(T), T)
  BY <1>4, Zenon DEF Summing
<1> QED BY <1>1, <1>5, Zenon

\* So BytesOf satisfies the recursion itself.
LEMMA BytesRecursion ==
  ASSUME NEW T \in SUBSET Spans
  PROVE BytesOf(T) = IF T = {} THEN 0 ELSE SpanSize[First(T)] + BytesOf(T \ {First(T)})
<1>1. BytesOf(T) = Adds(Summing(T), T)
  BY BytesOfDef, SummingExists, Zenon DEF Sums
<1>2. CASE T = {}
  BY <1>1, <1>2, Zenon DEF Adds
<1>3. CASE T # {}
  <2> DEFINE R == T \ {First(T)}
  <2>1. R \in SUBSET T
    BY Zenon
  <2>2. Sums(Summing(R), R) /\ Sums(Summing(T), T)
    BY SummingExists, Zenon
  <2>3. Summing(T)[R] = Summing(R)[R]
    BY <2>1, <2>2, SumsAgree
  <2>4. Summing(R)[R] = BytesOf(R)
    BY BytesOfDef, Zenon
  <2> QED BY <1>1, <1>3, <2>3, <2>4, Zenon DEF Adds
<1> QED BY <1>2, <1>3, Zenon

\* A set of spans weighs a natural number of bytes.
LEMMA BytesNat ==
  ASSUME NEW S \in SUBSET Spans
  PROVE BytesOf(S) \in Nat
<1> DEFINE P == {T \in SUBSET Spans : BytesOf(T) \notin Nat}
<1> SUFFICES ASSUME P # {} PROVE FALSE BY Zenon
<1>1. PICK T \in P : \A U \in SUBSET T : U # T => U \notin P
  BY SmallestSet, Zenon
<1>2. T # {}
  BY <1>1, BytesRecursion
<1>3. First(T) \in Spans /\ T \ {First(T)} \in SUBSET T /\ T \ {First(T)} # T
  BY <1>2, FirstIn, Zenon
<1>4. BytesOf(T \ {First(T)}) \in Nat
  BY <1>1, <1>3, Zenon
<1>5. BytesOf(T) = SpanSize[First(T)] + BytesOf(T \ {First(T)})
  BY <1>2, BytesRecursion, Zenon
<1> QED BY <1>1, <1>3, <1>4, <1>5, SizeAssumption

\* The order in which the sum takes the spans does not matter: any of them can be the first.
LEMMA BytesWithout ==
  ASSUME NEW S \in SUBSET Spans, NEW y \in S
  PROVE BytesOf(S) = SpanSize[y] + BytesOf(S \ {y})
<1> DEFINE P == {T \in SUBSET Spans : \E z \in T : BytesOf(T) # SpanSize[z] + BytesOf(T \ {z})}
<1> SUFFICES ASSUME P # {} PROVE FALSE BY Zenon
<1>1. PICK T \in P : \A U \in SUBSET T : U # T => U \notin P
  BY SmallestSet, Zenon
<1>2. PICK z \in T : BytesOf(T) # SpanSize[z] + BytesOf(T \ {z})
  BY <1>1, Zenon
<1> DEFINE x == First(T)
<1>3. x \in T /\ x \in Spans /\ z \in Spans
  BY FirstIn, Zenon
<1> HIDE DEF x
<1>4. BytesOf(T) = SpanSize[x] + BytesOf(T \ {x})
  BY BytesRecursion, Zenon DEF x
<1>5. x # z
  BY <1>2, <1>4, Zenon
<1> DEFINE R == T \ {x, z}
<1>6. BytesOf(T \ {x}) = SpanSize[z] + BytesOf(R)
  <2>1. BytesOf(T \ {x}) = SpanSize[z] + BytesOf((T \ {x}) \ {z})
    BY <1>1, <1>3, <1>5, Zenon
  <2>2. (T \ {x}) \ {z} = R
    BY Zenon
  <2> QED BY <2>1, <2>2, Zenon
<1>7. BytesOf(T \ {z}) = SpanSize[x] + BytesOf(R)
  <2>1. BytesOf(T \ {z}) = SpanSize[x] + BytesOf((T \ {z}) \ {x})
    BY <1>1, <1>3, <1>5, Zenon
  <2>2. (T \ {z}) \ {x} = R
    BY Zenon
  <2> QED BY <2>1, <2>2, Zenon
<1>8. BytesOf(R) \in Nat /\ SpanSize[x] \in Nat /\ SpanSize[z] \in Nat
  BY <1>3, SizeAssumption, BytesNat, Zenon
<1> HIDE DEF R, P
<1> QED BY <1>2, <1>4, <1>6, <1>7, <1>8

\* Spans given back take with them what they weigh.
LEMMA BytesDifference ==
  ASSUME NEW S \in SUBSET Spans, NEW V \in SUBSET S
  PROVE BytesOf(S \ V) = BytesOf(S) - BytesOf(V)
<1> DEFINE P == {T \in SUBSET S : BytesOf(S \ T) # BytesOf(S) - BytesOf(T)}
<1> SUFFICES ASSUME P # {} PROVE FALSE BY Zenon
<1>1. PICK T \in P : \A U \in SUBSET T : U # T => U \notin P
  BY SmallestSet, Zenon
<1>2. BytesOf({}) = 0 /\ BytesOf(S) \in Nat
  BY BytesRecursion, BytesNat, Zenon
<1>3. T # {}
  <2>1. S \ {} = S
     BY Zenon
  <2>2. BytesOf(S \ {}) = BytesOf(S) - BytesOf({})
     BY <1>2, <2>1
  <2> QED BY <1>1, <2>2, Zenon
<1>4. PICK y \in T : TRUE
  BY <1>3, Zenon
<1> DEFINE R == T \ {y}
<1>5. R \in SUBSET T /\ R # T /\ R \in SUBSET S
  BY Zenon
<1>6. BytesOf(S \ R) = BytesOf(S) - BytesOf(R)
  BY <1>1, <1>5, Zenon
<1>7. BytesOf(T) = SpanSize[y] + BytesOf(R)
  BY BytesWithout, Zenon
<1>8. BytesOf(S \ R) = SpanSize[y] + BytesOf(S \ T)
  <2>1. (S \ R) \ {y} = S \ T /\ y \in S \ R /\ S \ R \in SUBSET Spans
     BY Zenon
  <2> QED BY <2>1, BytesWithout
<1>9. SpanSize[y] \in Nat /\ BytesOf(R) \in Nat /\ BytesOf(S \ T) \in Nat
  BY SizeAssumption, BytesNat, Zenon
<1>10. BytesOf(S \ T) # BytesOf(S) - BytesOf(T)
  BY <1>1, Zenon
<1> HIDE DEF R, P
<1> QED BY <1>10, <1>2, <1>6, <1>7, <1>8, <1>9

-----------------------------------------------------------------------------
(* The byte count and the counters of a drained pipeline. *)

\* The inductive invariant of both counts: the bytes follow the spans that are held.
BudgetInv == CountInv /\ BytesExact

\* The spans that are held change only when one is reserved and when a batch is released.
LEMMA HeldStep ==
  ASSUME CountInv, [QueueNext]_queueVars
  PROVE  \/ Held' = Held /\ bytes' = bytes
         \/ \E s \in Spans : Reserve(s) /\ s \notin Held /\ Held' = Held \union {s}
         \/ Release /\ Held' = Held \ At("batched")
<1> USE DEF CountInv, ControlTypeOK, Held
<1>1. ASSUME NEW s \in Spans, EndUnsampled(s) \/ ReserveRefused(s) \/ CountCreated(s) \/ Dequeue(s)
      PROVE Held' = Held /\ bytes' = bytes
    BY <1>1, Zenon DEF EndUnsampled, ReserveRefused, CountCreated, Dequeue, budget
<1>2. ASSUME NEW s \in Spans, Reserve(s) PROVE s \notin Held /\ Held' = Held \union {s}
    BY <1>2, Zenon DEF Reserve
<1>3. ASSUME NEW s \in Spans, Enqueue(s) PROVE Held' = Held /\ bytes' = bytes
    <2>1. Cardinality(At("queued")) < MaxSpans
        BY <1>3, QueueHasRoom, Zenon DEF Enqueue
    <2> QED BY <1>3, <2>1, Zenon DEF Enqueue, budget
<1>4. ASSUME StartExport \/ (\E ok \in BOOLEAN : ExportAnswered(ok)) \/ UNCHANGED queueVars
      PROVE Held' = Held /\ bytes' = bytes
    BY <1>4, Zenon DEF StartExport, ExportAnswered, queueVars, budget
<1>5. Release => Held' = Held \ At("batched")
    BY Zenon DEF Release, At
<1> HIDE DEF CountInv, ControlTypeOK, Held
<1> QED BY <1>1, <1>2, <1>3, <1>4, <1>5, Zenon DEF QueueNext, OnEnd, Worker

\* The initial state: nothing is held, so nothing weighs.
LEMMA BudgetInit == QueueInit => BudgetInv
<1> SUFFICES ASSUME QueueInit PROVE BytesExact
    BY CountInit, Zenon DEF BudgetInv
<1>1. Held = {}
    BY Zenon DEF QueueInit, Held
<1>2. BytesOf(Held) = 0
    BY <1>1, BytesRecursion, Zenon
<1> QED BY <1>2, LimitsAssumption DEF QueueInit, BytesExact

\* Every step keeps both counts exact.
LEMMA BudgetStep == BudgetInv /\ [QueueNext]_queueVars => BudgetInv'
<1> SUFFICES ASSUME BudgetInv, [QueueNext]_queueVars PROVE BytesExact'
    BY CountStep, Zenon DEF BudgetInv
<1> USE DEF BytesExact
<1>0. CountInv /\ bytes = BytesOf(Held) /\ bytes \in Nat /\ bytes <= MaxBytes /\ Held \in SUBSET Spans
    BY BytesNat, Zenon DEF BudgetInv, Held
<1>1. CASE Held' = Held /\ bytes' = bytes
    BY <1>0, <1>1, Zenon
<1>2. ASSUME NEW s \in Spans, Reserve(s), s \notin Held, Held' = Held \union {s}
      PROVE  BytesExact'
    <2>1. BytesOf(Held \union {s}) = SpanSize[s] + BytesOf(Held)
        <3>1. (Held \union {s}) \ {s} = Held /\ Held \union {s} \in SUBSET Spans
            BY <1>0, <1>2, Zenon
        <3> QED BY <3>1, BytesWithout
    <2>2. bytes' = bytes + SpanSize[s] /\ bytes + SpanSize[s] <= MaxBytes
        BY <1>0, <1>2, LimitsAssumption, SizeAssumption DEF Reserve, OverBudget
    <2> QED BY <1>0, <1>2, <2>1, <2>2, SizeAssumption
<1>3. ASSUME Release, Held' = Held \ At("batched") PROVE BytesExact'
    <2>1. At("batched") \in SUBSET Held
        BY Zenon DEF At, Held
    <2>2. BytesOf(Held \ At("batched")) = BytesOf(Held) - BytesOf(At("batched"))
        BY <1>0, <2>1, BytesDifference, Zenon
    <2>3. BytesOf(At("batched")) \in Nat
        BY <1>0, <2>1, BytesNat, Zenon
    <2>4. bytes' = bytes - BytesOf(At("batched"))
        BY <1>3, Zenon DEF Release
    <2> QED BY <1>0, <1>3, <2>2, <2>3, <2>4, LimitsAssumption
<1> QED BY <1>0, <1>1, <1>2, <1>3, HeldStep, Zenon

\* queueBudget.spans and queueBudget.bytes are exact and within their limits, at every
\* interleaving of reserve, the SDK queue, the worker and release.
THEOREM BudgetIsExact == QueueSpec => []BudgetExact
<1>1. BudgetInv => BudgetExact
    BY Zenon DEF BudgetInv, BudgetExact, CountInv
<1> QED BY <1>1, BudgetInit, BudgetStep, PTL DEF QueueSpec

\* The spans whose End has returned.
Ended == {s \in Spans : stage[s] \notin {"new", "reserved"}}

\* The counters at any time: a span is counted as created once its End has returned and its
\* goroutine has got round to it, as exported or failed when the collector answers and
\* not yet when its batch is released.
AccountInv ==
  /\ CountInv
  /\ uncounted \subseteq Ended
  /\ created + Cardinality(uncounted) = Cardinality(Ended)
  /\ dropped = Cardinality(At("dropped"))
  /\ exported + failed = Cardinality(At("done"))
                         + (IF worker = "release" THEN Cardinality(At("batched")) ELSE 0)

\* Spans of different stages are counted apart.
LEMMA DisjointCount ==
  ASSUME NEW S \in SUBSET Spans, NEW T \in SUBSET Spans, S \cap T = {}
  PROVE  Cardinality(S \union T) = Cardinality(S) + Cardinality(T)
<1>1. IsFiniteSet(S) /\ IsFiniteSet(T) /\ Cardinality(S) \in Nat /\ Cardinality(T) \in Nat
    BY SpanSets, Zenon
<1>2. Cardinality(S \union T) = Cardinality(S) + Cardinality(T) - Cardinality(S \cap T)
    BY <1>1, FS_Union, Zenon
<1>3. Cardinality(S \cap T) = 0
    BY FS_EmptySet, Zenon
<1> QED BY <1>1, <1>2, <1>3

\* The initial state: nothing has happened and nothing is counted.
LEMMA AccountInit == QueueInit => AccountInv
<1> SUFFICES ASSUME QueueInit PROVE AccountInv
    OBVIOUS
<1>1. uncounted = {} /\ Ended = {} /\ At("dropped") = {} /\ At("done") = {}
    BY Zenon DEF QueueInit, Ended, At
<1> QED BY <1>1, CountInit, FS_EmptySet DEF QueueInit, AccountInv

\* Every step keeps the counters in line with the stages of the spans.
LEMMA AccountStep == AccountInv /\ [QueueNext]_queueVars => AccountInv'
<1> SUFFICES ASSUME AccountInv, [QueueNext]_queueVars PROVE AccountInv'
    OBVIOUS
<1> DEFINE U == Cardinality(uncounted)
           E == Cardinality(Ended)
           Dr == Cardinality(At("dropped"))
           Do == Cardinality(At("done"))
           Ba == Cardinality(At("batched"))
<1>0. /\ CountInv' /\ ControlTypeOK
      /\ IsFiniteSet(uncounted) /\ IsFiniteSet(Ended) /\ IsFiniteSet(At("dropped"))
      /\ IsFiniteSet(At("done")) /\ IsFiniteSet(At("batched"))
      /\ U \in Nat /\ E \in Nat /\ Dr \in Nat /\ Do \in Nat /\ Ba \in Nat
    BY CountStep, SpanSets, Zenon DEF AccountInv, CountInv, ControlTypeOK, Ended, At
<1> USE <1>0 DEF AccountInv, ControlTypeOK
\* A span ends: it is uncounted, and the end of its stage is one of three.
<1>1. ASSUME NEW s \in Spans, NEW st \in {"ignored", "dropped", "queued"},
             stage[s] \in {"new", "reserved"}, stage' = [stage EXCEPT ![s] = st],
             uncounted' = uncounted \union {s}, UNCHANGED <<counters, worker>>,
             dropped' = IF st = "dropped" THEN dropped + 1 ELSE dropped
      PROVE  AccountInv'
    <2>1. Ended' = Ended \union {s} /\ s \notin Ended /\ s \notin uncounted
        BY <1>1, Zenon DEF Ended
    <2>2. At("done")' = At("done") /\ At("batched")' = At("batched")
        BY <1>1, Zenon DEF At
    <2>3. At("dropped")' = (IF st = "dropped" THEN At("dropped") \union {s} ELSE At("dropped"))
          /\ s \notin At("dropped")
        BY <1>1, Zenon DEF At
    <2>4. /\ Cardinality(Ended') = E + 1 /\ Cardinality(uncounted') = U + 1
          /\ Cardinality(At("dropped")') = (IF st = "dropped" THEN Dr + 1 ELSE Dr)
        <3>1. Cardinality(Ended') = E + 1
            BY <2>1, FS_AddElement, Zenon
        <3>2. Cardinality(uncounted') = U + 1
            BY <1>1, <2>1, FS_AddElement, Zenon
        <3>3. Cardinality(At("dropped") \union {s}) = Dr + 1
            BY <2>3, FS_AddElement, Zenon
        <3> QED BY <2>3, <3>1, <3>2, <3>3, Zenon
    <2>5. uncounted' \subseteq Ended'
        BY <1>1, <2>1, Zenon
    <2> HIDE DEF U, E, Dr, Do, Ba
    <2>6. created' + Cardinality(uncounted') = Cardinality(Ended')
        BY <1>1, <2>4 DEF U, E, counters
    <2>7. dropped' = Cardinality(At("dropped")')
        BY <1>1, <2>4, Zenon DEF Dr
    <2> QED BY <1>1, <2>2, <2>5, <2>6, <2>7, Zenon DEF counters
<1>2. ASSUME NEW s \in Spans, EndUnsampled(s) PROVE AccountInv'
    BY <1>1, <1>2, Zenon DEF EndUnsampled, budget
<1>3. ASSUME NEW s \in Spans, ReserveRefused(s) PROVE AccountInv'
    BY <1>1, <1>3, Zenon DEF ReserveRefused
<1>4. ASSUME NEW s \in Spans, Enqueue(s) PROVE AccountInv'
    <2>1. Cardinality(At("queued")) < MaxSpans
        BY <1>4, QueueHasRoom, Zenon DEF Enqueue
    <2> QED BY <1>1, <1>4, <2>1, Zenon DEF Enqueue, budget
<1>5. ASSUME NEW s \in Spans, CountCreated(s) PROVE AccountInv'
    <2>1. Ended' = Ended /\ \A st \in Stage : At(st)' = At(st)
        BY <1>5, Zenon DEF CountCreated, Ended, At
    <2>2. Cardinality(uncounted') = U - 1
        BY <1>5, FS_RemoveElement, Zenon DEF CountCreated
    <2> QED BY <1>5, <2>1, <2>2 DEF CountCreated, budget, Stage
\* A span moves between stages before its end, or between those after it.
<1>6. ASSUME NEW s \in Spans, Reserve(s) \/ Dequeue(s) PROVE AccountInv'
    <2>1. Ended' = Ended /\ At("dropped")' = At("dropped") /\ At("done")' = At("done")
        BY <1>6, Zenon DEF Reserve, Dequeue, Ended, At
    <2>2. At("batched")' = At("batched") \/ worker = "collect"
        BY <1>6, Zenon DEF Reserve, Dequeue, At
    <2> QED BY <1>6, <2>1, <2>2, Zenon DEF Reserve, Dequeue, counters, budget
<1>7. CASE StartExport \/ UNCHANGED queueVars
    <2>1. Ended' = Ended /\ \A st \in Stage : At(st)' = At(st)
        BY <1>7, Zenon DEF StartExport, queueVars, Ended, At
    <2> QED BY <1>7, <2>1, Zenon DEF StartExport, queueVars, counters, budget, Stage
<1>8. ASSUME NEW ok \in BOOLEAN, ExportAnswered(ok) PROVE AccountInv'
    <2>1. Ended' = Ended /\ \A st \in Stage : At(st)' = At(st)
        BY <1>8, Zenon DEF ExportAnswered, Ended, At
    <2>2. exported' + failed' = exported + failed + Ba
        BY <1>8 DEF ExportAnswered
    <2> QED BY <1>8, <2>1, <2>2 DEF ExportAnswered, budget, Stage
<1>9. CASE Release
    <2>1. Ended' = Ended /\ At("dropped")' = At("dropped")
        BY <1>9, Zenon DEF Release, Ended, At
    <2>2. At("done")' = At("done") \union At("batched") /\ At("done") \cap At("batched") = {}
        BY <1>9, Zenon DEF Release, At
    <2>3. Cardinality(At("done")') = Do + Ba
        BY <2>2, DisjointCount, Zenon DEF At
    <2> QED BY <1>9, <2>1, <2>3 DEF Release, counters
<1> QED
    BY <1>2, <1>3, <1>4, <1>5, <1>6, <1>7, <1>8, <1>9, Zenon DEF QueueNext, OnEnd, Worker

\* Once the pipeline has drained, created - (exported + failed) is exactly the spans that the
\* budget dropped and those that are not sampled.
THEOREM DrainedIsAccounted == QueueSpec => []DrainedAccounting
<1>1. AccountInv => DrainedAccounting
    <2> SUFFICES ASSUME AccountInv, QueueDrained
                 PROVE  created - (exported + failed) = dropped + Cardinality(At("ignored"))
        BY Zenon DEF DrainedAccounting
    <2> DEFINE D == At("done")
               R == At("dropped")
               G == At("ignored")
    <2>1. Ended = (D \union R) \union G
        BY Zenon DEF AccountInv, CountInv, ControlTypeOK, Stage, NoSilentLoss, QueueDrained, Held, Ended, At
    <2>2. D \cap R = {} /\ (D \union R) \cap G = {}
        BY Zenon DEF At
    <2>3. /\ IsFiniteSet(D) /\ IsFiniteSet(R) /\ IsFiniteSet(G) /\ IsFiniteSet(D \union R)
          /\ Cardinality(D) \in Nat /\ Cardinality(R) \in Nat /\ Cardinality(G) \in Nat
        BY SpanSets, Zenon DEF At
    <2>4. Cardinality(D \union R) = Cardinality(D) + Cardinality(R)
        BY <2>2, DisjointCount, Zenon DEF At
    <2>5. Cardinality(Ended) = Cardinality(D) + Cardinality(R) + Cardinality(G)
        <3>1. D \union R \in SUBSET Spans /\ G \in SUBSET Spans
            BY Zenon DEF At
        <3>2. Cardinality((D \union R) \union G) = Cardinality(D \union R) + Cardinality(G)
            BY <3>1, <2>2, DisjointCount, Zenon
        <3> QED BY <2>1, <2>4, <3>2, Zenon
    <2>6. created = Cardinality(Ended) /\ exported + failed = Cardinality(D) /\ dropped = Cardinality(R)
        <3>1. Cardinality(uncounted) = 0 /\ worker = "collect"
            BY FS_EmptySet, Zenon DEF QueueDrained
        <3>2. created + 0 = Cardinality(Ended) /\ exported + failed = Cardinality(D) + 0
            BY <3>1, Zenon DEF AccountInv
        <3> QED BY <2>3, <3>2 DEF AccountInv, CountInv, ControlTypeOK
    <2> HIDE DEF D, R, G
    <2> QED BY <2>3, <2>5, <2>6 DEF G
<1> QED BY <1>1, AccountInit, AccountStep, PTL DEF QueueSpec

-----------------------------------------------------------------------------
(* Spool *)

Payload == [scrape : Numbers, size : Sizes, complete : BOOLEAN]

\* The two loops as records, and what they work on: scrapeLoop on the scrape that was taken
\* last, which is complete and not in the spool yet.
LoopsInv ==
  /\ writer \in {Idle} \union [at : {"sum", "remove", "create", "write", "rename"}, new : Payload, seen : SUBSET File]
  /\ sender \in {Idle} \union [at : {"read", "post", "remove"}, file : File]
  /\ writer # Idle => /\ writer.new.scrape = scrapes /\ writer.new.complete
                      /\ \A f \in files : f.scrape < scrapes
  /\ \A f \in files : f.scrape <= scrapes
  /\ last <= scrapes

\* sendLoop has the oldest file of the spool in its hands, also when scrapeLoop or itself has
\* removed it, and nothing in the spool is older than what the collector accepted last.
OrderInv ==
  /\ \A f \in files : f.scrape >= last
  /\ sender # Idle =>
       /\ sender.file.scrape >= last /\ sender.file.scrape <= scrapes
       /\ \A f \in files : f.scrape >= sender.file.scrape
       /\ sender.file.scrape # 0 => sender.file.complete
  /\ sender.at \in {"post", "remove"} => sender.file \in Payload
  /\ sender.at = "remove" => sender.file \in delivered \/ fate[sender.file.scrape] # "none"

SpoolInv == Accounted /\ LoopsInv /\ OrderInv

\* Of any non-empty set of naturals one is the least.
LEMMA LeastNatural ==
  ASSUME NEW S \in SUBSET Nat, S # {}
  PROVE  \E m \in S : \A n \in S : m <= n
<1>1. PICK m \in S : \A n \in S : ~(<<n, m>> \in OpToRel(<, Nat))
    BY NatLessThanWellFounded, WFMin, Zenon
<1>2. \A n \in S : ~(n < m)
    BY <1>1, Zenon DEF OpToRel
<1> QED BY <1>2

\* Oldest is a file of the set, and none of the set is older.
LEMMA OldestFile ==
  ASSUME NEW S \in SUBSET File, S # {}
  PROVE  Oldest(S) \in S /\ \A g \in S : Oldest(S).scrape <= g.scrape
<1>1. Scrapes(S) \in SUBSET Nat /\ Scrapes(S) # {}
    BY SpoolAssumption DEF Scrapes, File, EmptyFile, Numbers
<1>2. PICK m \in Scrapes(S) : \A n \in Scrapes(S) : m <= n
    BY <1>1, LeastNatural, Zenon
<1>3. PICK f \in S : f.scrape = m
    BY <1>2, Zenon DEF Scrapes
<1>4. \A g \in S : f.scrape <= g.scrape
    BY <1>2, <1>3, Zenon DEF Scrapes
<1> QED BY <1>3, <1>4, Zenon DEF Oldest

\* What the invariant says of the records of the two loops.
LEMMA LoopRecords ==
  ASSUME SpoolInv
  PROVE  /\ writer.at = "idle" <=> writer = Idle
         /\ writer # Idle => writer \in [at : {"sum", "remove", "create", "write", "rename"},
                                         new : Payload, seen : SUBSET File]
         /\ sender.at = "idle" <=> sender = Idle
         /\ sender # Idle => sender \in [at : {"read", "post", "remove"}, file : File]
  BY DEF SpoolInv, LoopsInv, Idle

\* Files as sets of numbered payloads.
LEMMA FileFacts ==
  /\ Payload \subseteq File /\ EmptyFile \in File
  /\ \A f \in File : f.scrape \in Nat /\ (f.scrape = 0 <=> f = EmptyFile) /\ (f.size = 0 <=> f = EmptyFile)
  /\ \A f \in File : f # EmptyFile => f \in Payload
  /\ \A f \in Payload : f.scrape \in Numbers /\ f.scrape # 0
  BY SpoolAssumption DEF File, Payload, EmptyFile, Numbers

\* Every step keeps what is known of the two loops.
LEMMA LoopsStep == SpoolInv /\ [Next]_vars => LoopsInv'
<1> SUFFICES ASSUME SpoolInv, [Next]_vars PROVE LoopsInv'
    BY Zenon
<1>0. /\ files \subseteq File /\ scrapes \in Nat /\ scrapes <= MaxScrapes /\ last \in Nat /\ MaxScrapes \in Nat
      /\ LoopsInv /\ OrderInv
    BY SpoolAssumption DEF SpoolInv, Accounted, TypeOK
<1> USE <1>0
<1>1. CASE Scrape
    <2>1. PICK size \in Sizes : writer' =
            [at |-> IF Cardinality(files) <= 1 THEN "create" ELSE "sum",
             new |-> [scrape |-> scrapes + 1, size |-> size, complete |-> TRUE], seen |-> files]
        BY <1>1, Zenon DEF Scrape
    <2>2. writer'.new = [scrape |-> scrapes + 1, size |-> size, complete |-> TRUE] /\ writer'.new \in Payload
        <3>1. writer'.new = [scrape |-> scrapes + 1, size |-> size, complete |-> TRUE]
            BY <2>1, Zenon
        <3>2. scrapes + 1 \in Numbers
            BY <1>1 DEF Scrape, Numbers
        <3> QED BY <3>1, <3>2 DEF Payload
    <2>3. writer' \in [at : {"sum", "remove", "create", "write", "rename"}, new : Payload, seen : SUBSET File]
        BY <2>1, <2>2, Zenon
    <2>4. \A f \in files : f.scrape < scrapes + 1
        BY FileFacts DEF LoopsInv
    <2> QED BY <1>1, <2>2, <2>3, <2>4, FileFacts DEF Scrape, LoopsInv, disk, history
<1>2. CASE SumSizes
    <2>1. UNCHANGED <<files, scrapes, sender, last>>
        BY <1>2, Zenon DEF SumSizes, GiveUp, disk, history
    <2>2. writer' = Idle \/ \E a \in {"remove", "create"} : writer' = [writer EXCEPT !.at = a]
        BY <1>2, Zenon DEF SumSizes, GiveUp
    <2>3. writer # Idle
        BY <1>2, LoopRecords, Zenon DEF SumSizes, Idle
    <2> QED BY <2>1, <2>2, <2>3, LoopRecords, Zenon DEF LoopsInv
<1>3. CASE RemoveOldest
    <2>1. UNCHANGED <<scrapes, sender, last>> /\ files' \subseteq files
        BY <1>3, Zenon DEF RemoveOldest, GiveUp
    <2>2. writer' = Idle \/ writer' = [writer EXCEPT !.at = "create"]
        BY <1>3, Zenon DEF RemoveOldest, GiveUp
    <2>3. writer # Idle
        BY <1>3, LoopRecords, Zenon DEF RemoveOldest, Idle
    <2> QED BY <2>1, <2>2, <2>3, LoopRecords, Zenon DEF LoopsInv
<1>4. CASE CreateTemp
    <2>1. writer # Idle
        BY <1>4, LoopRecords, Zenon DEF CreateTemp, Idle
    <2> QED BY <1>4, <2>1, LoopRecords, Zenon DEF LoopsInv, CreateTemp, history
<1>5. CASE WriteTemp
    <2>1. UNCHANGED <<files, scrapes, sender, last>>
        BY <1>5, Zenon DEF WriteTemp, GiveUp, history
    <2>2. writer' = Idle \/ writer' = [writer EXCEPT !.at = "rename"]
        BY <1>5, Zenon DEF WriteTemp, GiveUp
    <2>3. writer # Idle
        BY <1>5, LoopRecords, Zenon DEF WriteTemp, Idle
    <2> QED BY <2>1, <2>2, <2>3, LoopRecords, Zenon DEF LoopsInv
<1>6. CASE Rename
    <2>1. writer # Idle /\ writer.new.scrape = scrapes
        BY <1>6, LoopRecords, Zenon DEF Rename, Idle, LoopsInv
    <2> QED BY <1>6, <2>1 DEF LoopsInv, Rename, history
<1>7. CASE Pick
    <2>1. Oldest(files) \in File
        BY <1>7, OldestFile, Zenon DEF Pick
    <2> QED BY <1>7, <2>1, Zenon DEF LoopsInv, Pick, disk, history
<1>8. CASE Read
    <2>1. UNCHANGED <<scrapes, writer, last>> /\ files' \subseteq files
        BY <1>8, Zenon DEF Read, history
    <2>2. sender # Idle
        BY <1>8, LoopRecords, Zenon DEF Read, Idle
    <2>3. sender' = Idle \/ sender' = [sender EXCEPT !.at = "post"]
        BY <1>8, Zenon DEF Read
    <2> QED BY <2>1, <2>2, <2>3, LoopRecords, Zenon DEF LoopsInv
<1>9. CASE RemoveSent
    BY <1>9, Zenon DEF LoopsInv, RemoveSent, history
<1>10. CASE Answered
    <2>1. UNCHANGED <<files, scrapes, writer>> /\ (last' = last \/ last' = sender.file.scrape)
        BY <1>10, Zenon DEF Answered, Accept, disk
    <2>2. sender # Idle /\ sender' = [sender EXCEPT !.at = "remove"]
        BY <1>10, LoopRecords, Zenon DEF Answered, Idle
    <2> QED BY <2>1, <2>2, LoopRecords, Zenon DEF LoopsInv, OrderInv
<1>11. CASE Failed
    <2>1. UNCHANGED <<files, scrapes, writer>> /\ (last' = last \/ last' = sender.file.scrape) /\ sender' = Idle
        BY <1>11, Zenon DEF Failed, Accept, disk
    <2>2. sender # Idle
        BY <1>11, LoopRecords, Zenon DEF Failed, Idle
    <2> QED BY <2>1, <2>2, Zenon DEF LoopsInv, OrderInv
<1>12. CASE Crash
    BY <1>12, Zenon DEF LoopsInv, Crash, disk
<1>13. CASE UNCHANGED vars
    BY <1>13, Zenon DEF LoopsInv, vars, disk, history
<1> QED
    BY <1>1, <1>2, <1>3, <1>4, <1>5, <1>6, <1>7, <1>8, <1>9, <1>10, <1>11, <1>12, <1>13, Zenon
    DEF Next, WriterStep, SenderStep

\* Every step keeps the order: a file enters the spool with the highest number, and what is
\* accepted is the oldest of the spool.
LEMMA OrderStep == SpoolInv /\ [Next]_vars => OrderInv'
<1> SUFFICES ASSUME SpoolInv, [Next]_vars PROVE OrderInv'
    OBVIOUS
<1>0. /\ files \subseteq File /\ scrapes \in Nat /\ last \in Nat /\ LoopsInv /\ OrderInv
      /\ \A f \in files : f.scrape # 0 => f.complete
      /\ \A f \in File : f.scrape \in Nat
      /\ fate \in [Numbers -> {"none", "raced", "disk", "truncated", "rejected", "crash"}]
    BY SpoolAssumption, FileFacts DEF SpoolInv, Accounted, TypeOK
<1> USE <1>0
<1>1. ASSUME files' \subseteq files, scrapes' \in Nat, scrapes' >= scrapes, delivered' = delivered, last' = last,
             \A n \in Numbers : fate[n] # "none" => fate'[n] # "none",
             sender' = sender \/ sender' = Idle
      PROVE  OrderInv'
    <2>1. CASE sender' = Idle
        BY <1>1, <2>1, Zenon DEF OrderInv, Idle
    <2>2. CASE sender' = sender /\ sender # Idle
        <3>1. sender.file \in File /\ sender.at \in {"read", "post", "remove"}
            BY <2>2, LoopRecords, Zenon
        <3>2. sender.at = "remove" => sender.file.scrape \in Numbers
            BY FileFacts, Zenon DEF OrderInv
        <3>3. sender.at = "remove" => sender.file \in delivered' \/ fate'[sender.file.scrape] # "none"
            BY <1>1, <3>2, Zenon DEF OrderInv
        <3> QED BY <1>1, <2>2, <3>1, <3>3 DEF OrderInv
    <2> QED BY <1>1, <2>1, <2>2, Zenon
<1>2. CASE Scrape
    BY <1>2, <1>1 DEF Scrape, disk, history
<1>3. ASSUME NEW why \in {"raced", "disk"}, GiveUp(why), files' = files PROVE OrderInv'
    BY <1>3, <1>1 DEF GiveUp
<1>4. CASE SumSizes
    <2>1. files' = files
        BY <1>4, Zenon DEF SumSizes, disk
    <2>2. GiveUp("raced") \/ UNCHANGED <<scrapes, sender, crashes, history>>
        BY <1>4, Zenon DEF SumSizes
    <2> QED BY <1>1, <1>3, <2>1, <2>2 DEF history
<1>5. CASE RemoveOldest
    <2>1. CASE Oldest(writer.seen) \in files
        BY <1>5, <1>1, <2>1 DEF RemoveOldest
    <2>2. CASE Oldest(writer.seen) \notin files
        BY <1>5, <1>3, <2>2, Zenon DEF RemoveOldest
    <2> QED BY <2>1, <2>2, Zenon
<1>6. CASE CreateTemp
    BY <1>6, <1>1 DEF CreateTemp, history
<1>7. CASE WriteTemp
    <2>1. files' = files
        BY <1>7, Zenon DEF WriteTemp
    <2>2. GiveUp("disk") \/ UNCHANGED <<scrapes, sender, crashes, history>>
        BY <1>7, Zenon DEF WriteTemp
    <2> QED BY <1>1, <1>3, <2>1, <2>2 DEF history
<1>8. CASE Rename
    <2>1. writer.new.scrape = scrapes /\ last <= scrapes /\ writer.new \in Payload
        BY <1>8, LoopRecords, Zenon DEF Rename, Idle, LoopsInv
    <2>2. files' = files \union {writer.new} /\ UNCHANGED <<scrapes, sender, fate, delivered, last>>
        BY <1>8, Zenon DEF Rename, history
    <2> QED BY <2>1, <2>2, Zenon DEF OrderInv
<1>9. CASE Pick
    <2>1. Oldest(files) \in files /\ \A g \in files : Oldest(files).scrape <= g.scrape
        BY <1>9, OldestFile, Zenon DEF Pick
    <2>2. sender' = [at |-> "read", file |-> Oldest(files)] /\ UNCHANGED <<files, scrapes, fate, delivered, last>>
        BY <1>9, Zenon DEF Pick, disk, history
    <2> QED BY <2>1, <2>2, Zenon DEF OrderInv, LoopsInv
<1>10. CASE Read
    <2>1. sender # Idle
        BY <1>10, LoopRecords, Zenon DEF Read, Idle
    <2>2. files' \subseteq files /\ UNCHANGED <<scrapes, fate, delivered, last>>
        BY <1>10, Zenon DEF Read, history
    <2>3. CASE sender' = Idle
        BY <1>1, <2>2, <2>3
    <2>4. CASE sender' # Idle
        <3>1. sender' = [sender EXCEPT !.at = "post"] /\ sender.file.size > 0 /\ sender.file \in files
            BY <1>10, <2>4, Zenon DEF Read
        <3>2. sender.file \in Payload
            BY <3>1, FileFacts DEF EmptyFile
        <3>3. sender'.at = "post" /\ sender'.file = sender.file
            BY <2>1, <3>1, LoopRecords, Zenon
        <3> QED BY <2>1, <2>2, <3>2, <3>3, Zenon DEF OrderInv
    <2> QED BY <2>3, <2>4, Zenon
<1>11. CASE RemoveSent
    BY <1>11, <1>1 DEF RemoveSent, history
<1>12. CASE Answered
    <2>1. sender # Idle /\ sender.file \in Payload
        BY <1>12, LoopRecords, Zenon DEF Answered, Idle, OrderInv
    <2>2. sender' = [sender EXCEPT !.at = "remove"] /\ UNCHANGED <<files, scrapes>>
        BY <1>12, Zenon DEF Answered, disk
    <2>3. sender'.at = "remove" /\ sender'.file = sender.file
        BY <2>1, <2>2, LoopRecords, Zenon
    <2>4. \/ delivered' = delivered \union {sender.file} /\ last' = sender.file.scrape
          \/ fate' = [fate EXCEPT ![sender.file.scrape] = "rejected"] /\ last' = last
        BY <1>12, Zenon DEF Answered, Accept
    <2>5. sender.file.scrape \in Numbers /\ sender.file.scrape \in Nat
        BY <2>1, FileFacts, Zenon
    <2>6. sender.file \in delivered' \/ fate'[sender.file.scrape] # "none"
        BY <2>4, <2>5, Zenon
    <2>7. last' = last \/ last' = sender.file.scrape
        BY <2>4, Zenon
    <2>8. sender' # Idle
        BY <2>3 DEF Idle
    <2> QED BY <2>1, <2>2, <2>3, <2>5, <2>6, <2>7, <2>8 DEF OrderInv
<1>13. CASE Failed
    <2>1. sender # Idle /\ sender' = Idle /\ files' = files
        BY <1>13, LoopRecords, Zenon DEF Failed, Idle, disk
    <2>2. last' = last \/ last' = sender.file.scrape
        BY <1>13, Zenon DEF Failed, Accept
    <2> QED BY <2>1, <2>2, Zenon DEF OrderInv, Idle
<1>14. CASE Crash
    BY <1>14, <1>1 DEF Crash, disk
<1>15. CASE UNCHANGED vars
    BY <1>15, <1>1 DEF vars, disk, history
<1> QED
    BY <1>2, <1>4, <1>5, <1>6, <1>7, <1>8, <1>9, <1>10, <1>11, <1>12, <1>13, <1>14, <1>15, Zenon
    DEF Next, WriterStep, SenderStep

\* Every scrape stays accounted for.
LEMMA AccountedStep == SpoolInv /\ [Next]_vars => Accounted'
<1> SUFFICES ASSUME SpoolInv, [Next]_vars PROVE Accounted'
    OBVIOUS
<1> DEFINE Fates == {"none", "raced", "disk", "truncated", "rejected", "crash"}
           Known(n) == \/ n \in Scrapes(files) \union Scrapes(delivered)
                       \/ fate[n] # "none"
                       \/ writer.at # "idle" /\ writer.new.scrape = n
           Whole == \A f \in files \union delivered : f.scrape # 0 => f.complete
<1>0. /\ TypeOK /\ LoopsInv /\ OrderInv /\ Whole /\ \A n \in 1..scrapes : Known(n)
      /\ scrapes \in Nat /\ MaxScrapes \in Nat /\ MaxCrashes \in Nat
      /\ fate \in [Numbers -> Fates]
      /\ writer # Idle => writer.new \in Payload /\ writer.new.scrape \in Numbers
    BY SpoolAssumption, FileFacts, LoopRecords DEF SpoolInv, Accounted, TypeOK
<1>a. /\ LoopsInv' /\ OrderInv'
       /\ writer' # Idle => writer'.new \in Payload
    BY LoopsStep, OrderStep, Zenon DEF LoopsInv
<1>b. /\ writer' = Idle \/ writer' \in [at : {"sum", "remove", "create", "write", "rename"}, new : Payload, seen : SUBSET File]
      /\ sender' = Idle \/ sender' \in [at : {"read", "post", "remove"}, file : File]
    BY LoopsStep, Zenon DEF LoopsInv
<1> USE <1>0, <1>a
\* The types follow from those of the parts.
<1>1. ASSUME files' \subseteq File, temps' \subseteq File, delivered' \subseteq File,
             scrapes' \in 0..MaxScrapes, crashes' \in 0..MaxCrashes, last' \in 0..MaxScrapes, fate' \in [Numbers -> Fates]
      PROVE  TypeOK'
    <2>1. /\ writer'.at \in {"idle", "sum", "remove", "create", "write", "rename"}
          /\ writer'.at # "idle" => writer'.new \in File /\ writer'.seen \subseteq File
        <3>1. CASE writer' = Idle
            BY <3>1, Zenon DEF Idle
        <3>2. CASE writer' \in [at : {"sum", "remove", "create", "write", "rename"}, new : Payload, seen : SUBSET File]
            BY <3>2, FileFacts, Zenon
        <3> QED BY <3>1, <3>2, <1>b, Zenon
    <2>2. /\ sender'.at \in {"idle", "read", "post", "remove"}
          /\ sender'.at # "idle" => sender'.file \in File
        <3>1. CASE sender' = Idle
            BY <3>1, Zenon DEF Idle
        <3>2. CASE sender' \in [at : {"read", "post", "remove"}, file : File]
            BY <3>2, Zenon
        <3> QED BY <3>1, <3>2, <1>b, Zenon
    <2> QED BY <1>1, <2>1, <2>2, Zenon DEF TypeOK
\* A step that only takes known scrapes out of the spool and forgets no reason.
<1>2. ASSUME temps' \subseteq File, files' \subseteq files, delivered' = delivered, scrapes' = scrapes, last' = last,
             crashes' \in 0..MaxCrashes, fate' \in [Numbers -> Fates],
             \A n \in Numbers : fate[n] # "none" => fate'[n] # "none",
             \A f \in files \ files' : f.scrape = 0 \/ f.scrape \in Scrapes(delivered) \/ fate'[f.scrape] # "none",
             writer # Idle => \/ writer'.at # "idle" /\ writer'.new = writer.new
                              \/ fate'[writer.new.scrape] # "none"
      PROVE  Accounted'
    <2>1. TypeOK'
        BY <1>1, <1>2, Zenon DEF TypeOK
    <2>2. ASSUME NEW n \in 1..scrapes' PROVE Known(n)'
        <3>1. n \in 1..scrapes /\ n # 0 /\ n \in Numbers
            BY <1>2 DEF Numbers, TypeOK
        <3>2. CASE n \in Scrapes(files)
            <4>1. PICK f \in files : f.scrape = n
                BY <3>2, Zenon DEF Scrapes
            <4>2. CASE f \in files'
                BY <4>1, <4>2, Zenon DEF Scrapes
            <4>3. CASE f \notin files'
                BY <1>2, <3>1, <4>1, <4>3, Zenon
            <4> QED BY <4>2, <4>3, Zenon
        <3>3. CASE n \in Scrapes(delivered) \/ fate[n] # "none"
            BY <1>2, <3>1, <3>3, Zenon
        <3>4. CASE writer.at # "idle" /\ writer.new.scrape = n
            BY <1>2, <3>4 DEF Idle
        <3> QED BY <3>1, <3>2, <3>3, <3>4, Zenon
    <2>3. Whole'
        BY <1>2, Zenon
    <2> QED BY <2>1, <2>2, <2>3, Zenon DEF Accounted
<1>3. CASE Scrape
    <2>1. writer'.new.scrape = scrapes + 1 /\ writer'.at # "idle" /\ writer.at = "idle"
        BY <1>3 DEF Scrape
    <2>2. scrapes' = scrapes + 1 /\ scrapes + 1 <= MaxScrapes /\ UNCHANGED <<files, temps, crashes, fate, delivered, last>>
        BY <1>3 DEF Scrape, disk, history
    <2>3. TypeOK'
        BY <1>1, <2>2 DEF TypeOK
    <2>4. ASSUME NEW n \in 1..scrapes' PROVE Known(n)'
        <3>1. n \in 1..scrapes \/ n = scrapes + 1
            BY <2>2
        <3> QED BY <2>1, <2>2, <3>1, Zenon
    <2> QED BY <2>2, <2>3, <2>4, Zenon DEF Accounted
<1>4. ASSUME NEW why \in {"raced", "disk"}, GiveUp(why), writer # Idle, files' = files, temps' \subseteq File
      PROVE  Accounted'
    <2>1. fate' = [fate EXCEPT ![writer.new.scrape] = why] /\ UNCHANGED <<scrapes, crashes, delivered, last>>
        BY <1>4, Zenon DEF GiveUp
    <2>2. /\ fate' \in [Numbers -> Fates] /\ fate'[writer.new.scrape] # "none"
          /\ \A n \in Numbers : fate[n] # "none" => fate'[n] # "none"
        BY <1>4, <2>1, Zenon
    <2> HIDE DEF Fates
    <2> QED BY <1>2, <1>4, <2>1, <2>2, Zenon DEF TypeOK
<1>5. CASE SumSizes
    <2>1. UNCHANGED <<files, temps>> /\ writer # Idle
        BY <1>5 DEF SumSizes, disk, Idle
    <2>2. CASE writer.seen \subseteq files
        <3>1. /\ writer' = [writer EXCEPT !.at = IF Size(writer.seen) > MaxSpoolSize THEN "remove" ELSE "create"]
              /\ UNCHANGED <<scrapes, crashes, fate, delivered, last>>
            BY <1>5, <2>2, Zenon DEF SumSizes, history
        <3>2. writer'.at # "idle" /\ writer'.new = writer.new
            BY <2>1, <3>1, LoopRecords, Zenon
        <3> QED BY <1>2, <2>1, <3>1, <3>2, Zenon DEF TypeOK
    <2>3. CASE ~(writer.seen \subseteq files)
        <3>1. GiveUp("raced")
            BY <1>5, <2>3, Zenon DEF SumSizes
        <3> QED BY <1>4, <2>1, <3>1, Zenon DEF TypeOK
    <2> QED BY <2>2, <2>3, Zenon
<1>6. CASE RemoveOldest
    <2> DEFINE f == Oldest(writer.seen)
    <2>1. temps' = temps /\ writer # Idle
        BY <1>6 DEF RemoveOldest, Idle
    <2>2. CASE f \in files
        <3>1. /\ files' = files \ {f} /\ writer' = [writer EXCEPT !.at = "create"]
              /\ fate' = IF f.scrape = 0 THEN fate ELSE [fate EXCEPT ![f.scrape] = "truncated"]
              /\ UNCHANGED <<scrapes, crashes, delivered, last>>
            BY <1>6, <2>2, Zenon DEF RemoveOldest
        <3>2. writer'.at # "idle" /\ writer'.new = writer.new
            BY <2>1, <3>1, LoopRecords, Zenon
        <3>3. f.scrape = 0 \/ f.scrape \in Numbers
            BY <2>2, FileFacts, Zenon DEF TypeOK
        <3> HIDE DEF f
        <3>4. /\ fate' \in [Numbers -> Fates] /\ (f.scrape = 0 \/ fate'[f.scrape] # "none")
              /\ \A n \in Numbers : fate[n] # "none" => fate'[n] # "none"
            BY <3>1, <3>3, Zenon
        <3> HIDE DEF Fates
        <3> QED BY <1>2, <2>1, <3>1, <3>2, <3>4, Zenon DEF TypeOK
    <2>3. CASE f \notin files
        <3>1. GiveUp("raced") /\ files' = files
            BY <1>6, <2>3, Zenon DEF RemoveOldest
        <3> QED BY <1>4, <2>1, <3>1, Zenon DEF TypeOK
    <2> QED BY <2>2, <2>3, Zenon
<1>7. CASE CreateTemp
    <2>1. writer # Idle
        BY <1>7 DEF CreateTemp, Idle
    <2>2. [writer.new EXCEPT !.complete = FALSE] \in File
        BY <2>1, Zenon DEF Payload, File
    <2>3. temps' \subseteq File /\ UNCHANGED <<files, scrapes, crashes, fate, delivered, last>>
        BY <1>7, <2>2, Zenon DEF CreateTemp, history, TypeOK
    <2>4. writer'.at # "idle" /\ writer'.new = writer.new
        BY <1>7, <2>1, LoopRecords, Zenon DEF CreateTemp
    <2> QED BY <1>2, <2>3, <2>4, Zenon DEF TypeOK
<1>8. CASE WriteTemp
    <2>1. writer # Idle /\ files' = files
        BY <1>8 DEF WriteTemp, Idle
    <2>2. temps' \subseteq File
        BY <1>8, <2>1, FileFacts DEF WriteTemp, TypeOK
    <2>3. CASE GiveUp("disk")
        BY <1>4, <2>1, <2>2, <2>3, Zenon
    <2>4. CASE ~GiveUp("disk")
        <3>1. writer' = [writer EXCEPT !.at = "rename"] /\ UNCHANGED <<scrapes, crashes, fate, delivered, last>>
            BY <1>8, <2>4, Zenon DEF WriteTemp, history
        <3>2. writer'.at # "idle" /\ writer'.new = writer.new
            BY <2>1, <3>1, LoopRecords, Zenon
        <3> QED BY <1>2, <2>1, <2>2, <3>1, <3>2, Zenon DEF TypeOK
    <2> QED BY <2>3, <2>4, Zenon
<1>9. CASE Rename
    <2>1. writer # Idle /\ writer.new \in File /\ writer.new.complete
        BY <1>9, FileFacts DEF Rename, Idle, LoopsInv
    <2>2. /\ temps' = temps \ {writer.new} /\ files' = files \union {writer.new}
          /\ UNCHANGED <<scrapes, crashes, fate, delivered, last>>
        BY <1>9, Zenon DEF Rename, history
    <2>3. TypeOK'
        BY <1>1, <2>1, <2>2, Zenon DEF TypeOK
    <2>4. \A n \in 1..scrapes' : Known(n)'
        BY <2>1, <2>2, Zenon DEF Scrapes
    <2>5. Whole'
        BY <2>1, <2>2, Zenon
    <2> QED BY <2>3, <2>4, <2>5, Zenon DEF Accounted
<1>10. CASE Pick
    <2>1. UNCHANGED <<files, temps, scrapes, writer, crashes, fate, delivered, last>>
        BY <1>10, Zenon DEF Pick, disk, history
    <2> QED BY <1>2, <2>1, Zenon DEF TypeOK, LoopsInv, Idle
<1>11. CASE Read
    <2>1. UNCHANGED <<temps, scrapes, writer, crashes, fate, delivered, last>> /\ files' \subseteq files
        BY <1>11, Zenon DEF Read, history
    <2>2. \A f \in files \ files' : f.scrape = 0
        BY <1>11, FileFacts, Zenon DEF Read, TypeOK
    <2> QED BY <1>2, <2>1, <2>2, Zenon DEF TypeOK, LoopsInv, Idle
<1>12. CASE RemoveSent
    <2>1. UNCHANGED <<temps, scrapes, writer, crashes, fate, delivered, last>> /\ files' = files \ {sender.file}
        BY <1>12, Zenon DEF RemoveSent, history
    <2>2. sender.file \in delivered \/ fate[sender.file.scrape] # "none"
        BY <1>12, Zenon DEF RemoveSent, OrderInv
    <2> QED BY <1>2, <2>1, <2>2 DEF TypeOK, LoopsInv, Idle, Scrapes
<1>13. ASSUME UNCHANGED <<files, temps, scrapes, writer, crashes>>, sender # Idle,
              sender.file \in Payload,
              \/ Accept /\ fate' = fate
              \/ /\ UNCHANGED <<delivered, last>>
                 /\ fate' = fate \/ fate' = [fate EXCEPT ![sender.file.scrape] = "rejected"]
       PROVE  Accounted'
    <2>1. sender.file \in File /\ sender.file.scrape \in Numbers /\ sender.file.complete
        BY <1>13, FileFacts, Zenon DEF OrderInv
    <2>2. /\ delivered \subseteq delivered' /\ delivered' \subseteq delivered \union {sender.file}
          /\ last' = last \/ last' = sender.file.scrape
          /\ fate' \in [Numbers -> Fates] /\ \A n \in Numbers : fate[n] # "none" => fate'[n] # "none"
        BY <1>13, Zenon DEF Accept
    <2> HIDE DEF Fates
    <2>3. TypeOK'
        BY <1>1, <1>13, <2>1, <2>2 DEF TypeOK, Numbers
    <2>4. \A n \in 1..scrapes' : Known(n)'
        <3>1. \A n \in 1..scrapes : n \in Numbers
            BY DEF TypeOK, Numbers
        <3> QED BY <1>13, <2>2, <3>1, Zenon DEF Scrapes
    <2>5. Whole'
        BY <1>13, <2>1, <2>2, Zenon
    <2> QED BY <2>3, <2>4, <2>5, Zenon DEF Accounted
<1>14. CASE Answered
    <2>1. sender # Idle /\ sender.file \in Payload
        BY <1>14 DEF Answered, Idle, OrderInv
    <2> QED BY <1>13, <1>14, <2>1, Zenon DEF Answered, disk
<1>15. CASE Failed
    <2>1. sender # Idle /\ sender.file \in Payload
        BY <1>15 DEF Failed, Idle, OrderInv
    <2> QED BY <1>13, <1>15, <2>1, Zenon DEF Failed, disk
<1>16. CASE Crash
    <2>1. UNCHANGED <<files, temps, scrapes, delivered, last>> /\ crashes' = crashes + 1 /\ crashes < MaxCrashes
        BY <1>16, Zenon DEF Crash, disk
    <2>2. fate' = IF writer = Idle THEN fate ELSE [fate EXCEPT ![writer.new.scrape] = "crash"]
        BY <1>16, LoopRecords, Zenon DEF Crash
    <2>3. /\ fate' \in [Numbers -> Fates] /\ \A n \in Numbers : fate[n] # "none" => fate'[n] # "none"
          /\ writer # Idle => fate'[writer.new.scrape] # "none"
        BY <2>2, Zenon
    <2> HIDE DEF Fates
    <2> QED BY <1>2, <2>1, <2>3 DEF TypeOK
<1>17. CASE UNCHANGED vars
    <2>1. UNCHANGED <<files, temps, scrapes, writer, crashes, fate, delivered, last>>
        BY <1>17, Zenon DEF vars, disk, history
    <2> QED BY <1>2, <2>1 DEF TypeOK, LoopsInv, Idle
<1> QED
    BY <1>3, <1>5, <1>6, <1>7, <1>8, <1>9, <1>10, <1>11, <1>12, <1>14, <1>15, <1>16, <1>17, Zenon
    DEF Next, WriterStep, SenderStep

\* At the start the spool holds at most an empty file of an earlier version.
LEMMA SpoolInit == Init => SpoolInv
<1> SUFFICES ASSUME Init PROVE SpoolInv
    BY Zenon
<1>1. /\ files \subseteq {EmptyFile} /\ temps = {} /\ scrapes = 0 /\ crashes = 0 /\ writer = Idle /\ sender = Idle
      /\ fate = [n \in Numbers |-> "none"] /\ delivered = {} /\ last = 0
    BY SpoolAssumption, Zenon DEF Init
<1>2. \A f \in files : f.scrape = 0 /\ f \in File
    BY <1>1, FileFacts, Zenon
<1>3. Accounted
    BY <1>1, <1>2, SpoolAssumption DEF Accounted, TypeOK, Idle
<1> QED BY <1>1, <1>2, <1>3 DEF SpoolInv, LoopsInv, OrderInv, Idle

\* The invariant holds in every reachable state.
THEOREM SpoolInvariant == Spec => []SpoolInv
<1>1. SpoolInv /\ [Next]_vars => SpoolInv'
    BY AccountedStep, LoopsStep, OrderStep, Zenon DEF SpoolInv
<1> QED BY <1>1, SpoolInit, PTL DEF Spec

\* A scrape that was taken is in the spool or being written, was accepted, or was given up for a
\* reason that the agent knows, whatever the two loops, the collector and restarts do; and
\* what is in the spool or was sent is complete.
THEOREM NothingUnaccounted == Spec => []Accounted
<1>1. SpoolInv => Accounted
    BY Zenon DEF SpoolInv
<1> QED BY <1>1, SpoolInvariant, PTL

\* The collector never accepts a scrape after a later one.
THEOREM SentInOrder == Spec => InOrder
<1>1. SpoolInv /\ [Next]_vars => [last' >= last]_vars
    <2> SUFFICES ASSUME SpoolInv, Next PROVE last' >= last
        BY Zenon DEF vars
    <2>1. last \in Nat
        BY SpoolAssumption DEF SpoolInv, Accounted, TypeOK
    <2>2. last' = last \/ (sender # Idle /\ last' = sender.file.scrape)
        BY LoopRecords, Zenon DEF Next, Scrape, WriterStep, SumSizes, RemoveOldest, CreateTemp, WriteTemp, Rename,
           GiveUp, SenderStep, Pick, Read, RemoveSent, Answered, Failed, Accept, Crash, history
    <2> QED BY <2>1, <2>2 DEF SpoolInv, OrderInv
<1> QED BY <1>1, SpoolInvariant, PTL DEF Spec, InOrder
=============================================================================
