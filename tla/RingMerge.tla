----------------------------- MODULE RingMerge -----------------------------
(***************************************************************************)
(* The two BPF ring buffers l7_events and tcp_connect_events, the eBPF     *)
(* programs that write to them, and ringMerger (ebpftracer/ringmerge.go),  *)
(* the goroutine that reads both and hands their records over in the       *)
(* order of the time the eBPF side stamped them with.                      *)
(*                                                                         *)
(* A record is written by one program run on some CPU: the time is read    *)
(* (Stamp), room is reserved in the ring (Reserve), and the record is      *)
(* submitted or discarded.  Runs on several CPUs interleave, so the        *)
(* records of one ring need not be in the order of their times.            *)
(*                                                                         *)
(* A ring is the set of its records with their positions: the head is the  *)
(* unconsumed record with the lowest one.                                  *)
(***************************************************************************)
EXTENDS Integers, FiniteSets

CONSTANTS
  L7,         \* the records of l7_events
  Tcp,        \* the records of tcp_connect_events
  Ticks,      \* how far the clock may move between two readings of it
  QueueMax,   \* how many records queuedRing takes out of its ring (maxBytes)
  Empty, Busy \* headEmpty and headBusy as results of a look at a ring

Records == L7 \union Tcp

ASSUME RecordsAssumption ==
  /\ L7 \cap Tcp = {}
  /\ {Empty, Busy} \cap Records = {} /\ Empty # Busy
ASSUME SizesAssumption == QueueMax \in Nat
ASSUME TicksAssumption == Ticks \subseteq Nat

VARIABLES
  st,       \* what became of every record so far
  ts,       \* its time
  pos,      \* its position in its ring
  prod,     \* the producer positions of the two rings
  now,      \* bpf_ktime_get_ns
  before,   \* history: the records submitted before this one was stamped
  pc,       \* where run and nextRecord are
  l7Head,   \* what nextRecord saw at the head of the L7 ring
  tcpHead   \* and at the head of the connections ring

ringVars   == <<st, ts, pos, prod, now, before>>
mergerVars == <<pc, l7Head, tcpHead>>
vars       == <<ringVars, mergerVars>>

\* new: not stamped yet; stamped: its time is read; busy: reserved; ready: submitted;
\* discard: discarded and not skipped yet; skipped; lost: the ring was full;
\* queued: in queuedRing.records; emitted: handed over.
Status == {"new", "stamped", "busy", "ready", "discard", "skipped", "lost", "queued", "emitted"}

RingOf(r)  == IF r \in L7 THEN L7 ELSE Tcp
At(S, Q)   == {r \in S : st[r] \in Q}
Submitted  == At(Records, {"ready", "queued", "emitted"})

Init ==
  /\ st = [r \in Records |-> "new"]
  /\ ts = [r \in Records |-> 0]
  /\ pos = [r \in Records |-> 0]
  /\ prod = [l7 |-> 0, tcp |-> 0]
  /\ now = 0
  /\ before = [r \in Records |-> {}]
  /\ pc = "fill" /\ l7Head = Empty /\ tcpHead = Empty

-----------------------------------------------------------------------------
(* The eBPF side: send_event, http1_flush, http2_flush; send_tcp_connect_event. *)

\* The time is read before room is reserved; another CPU may do anything in between.
Stamp(r) ==
  /\ st[r] = "new"
  /\ st' = [st EXCEPT ![r] = "stamped"]
  /\ ts' = [ts EXCEPT ![r] = now]
  /\ before' = [before EXCEPT ![r] = Submitted]
  /\ \E d \in Ticks : now' = now + d
  /\ UNCHANGED <<pos, prod, mergerVars>>

\* A full ring: bpf_ringbuf_reserve and bpf_ringbuf_output fail, the record is counted as
\* dropped.  The records of the module are some of those that share the ring, so it may
\* be full at any time.
ReserveFull(r) ==
  /\ st[r] = "stamped"
  /\ st' = [st EXCEPT ![r] = "lost"]
  /\ UNCHANGED <<ts, pos, prod, now, before, mergerVars>>

Reserve(r) ==
  /\ st[r] = "stamped"
  /\ st' = [st EXCEPT ![r] = "busy"]
  /\ IF r \in L7
       THEN pos' = [pos EXCEPT ![r] = prod.l7] /\ prod' = [prod EXCEPT !.l7 = prod.l7 + 1]
       ELSE pos' = [pos EXCEPT ![r] = prod.tcp] /\ prod' = [prod EXCEPT !.tcp = prod.tcp + 1]
  /\ UNCHANGED <<ts, now, before, mergerVars>>

\* The record is visible.  The clock moves on by the time the traced program can do
\* anything that depends on an L7 record; a connection record and the first data of the
\* connection may be sent by the same program run, at the same time.
Submit(r) ==
  /\ st[r] = "busy"
  /\ st' = [st EXCEPT ![r] = "ready"]
  /\ \E d \in Ticks : now' = IF r \in L7 THEN now + d + 1 ELSE now + d
  /\ UNCHANGED <<ts, pos, prod, before, mergerVars>>

\* The payload of an L7 event cannot be read; a connection record is copied whole.
Discard(r) ==
  /\ st[r] = "busy" /\ r \in L7
  /\ st' = [st EXCEPT ![r] = "discard"]
  /\ UNCHANGED <<ts, pos, prod, now, before, mergerVars>>

Program(r) == Stamp(r) \/ ReserveFull(r) \/ Reserve(r) \/ Submit(r) \/ Discard(r)

-----------------------------------------------------------------------------
(* mmapRing.head and queuedRing.head *)

First(S, r) == r \in S /\ \A o \in S : pos[r] <= pos[o]

\* What head returns: the oldest record that is not discarded, if it is submitted.
IsRingHead(ring, h) ==
  LET left == At(ring, {"busy", "ready"}) IN
  \/ left = {} /\ h = Empty
  \/ \E r \in left : First(left, r) /\ h = (IF st[r] = "busy" THEN Busy ELSE r)

\* The discarded records head pops on the way to the record it returns.
SkipDiscarded(ring) ==
  LET left == At(ring, {"busy", "ready"}) IN
  [r \in Records |-> IF r \in ring /\ st[r] = "discard" /\ (\A o \in left : pos[r] < pos[o])
                       THEN "skipped" ELSE st[r]]

Queued == At(Tcp, {"queued"})

\* Mutant: the ring first, then the queue.
IsTcpHeadRingFirst(h) ==
  IF At(Tcp, {"ready"}) # {} THEN \E r \in At(Tcp, {"ready"}) : First(At(Tcp, {"ready"}), r) /\ h = r
  ELSE IF Queued # {} THEN \E r \in Queued : First(Queued, r) /\ h = r ELSE IsRingHead(Tcp, h)

\* The queue first, then the ring.
IsTcpHead(h) ==
  IF Queued # {} THEN \E r \in Queued : First(Queued, r) /\ h = r ELSE IsRingHead(Tcp, h)

-----------------------------------------------------------------------------
(* ringMerger.run *)

\* One round of queuedRing.fill: a submitted record moves to the queue.
Fill(r) ==
  /\ pc = "fill"
  /\ Cardinality(Queued) < QueueMax
  /\ r \in Tcp /\ IsRingHead(Tcp, r)
  /\ st' = [st EXCEPT ![r] = "queued"]
  /\ UNCHANGED <<ts, pos, prod, now, before, mergerVars>>

FillDone ==
  /\ pc = "fill"
  /\ \/ Cardinality(Queued) >= QueueMax
     \/ IsRingHead(Tcp, Empty) \/ IsRingHead(Tcp, Busy)
  /\ pc' = "lookL7"
  /\ UNCHANGED <<ringVars, l7Head, tcpHead>>

\* nextRecord: the L7 ring first.
LookL7 ==
  /\ pc = "lookL7"
  /\ \E h \in L7 \union {Empty, Busy} : IsRingHead(L7, h) /\ l7Head' = h
  /\ st' = SkipDiscarded(L7)
  /\ pc' = "lookTcp"
  /\ UNCHANGED <<ts, pos, prod, now, before, tcpHead>>

\* Mutant: the round ends unless both rings have a record to compare.
LookTcpBoth ==
  /\ pc = "lookTcp"
  /\ \E h \in Tcp \union {Empty, Busy} :
       /\ IsTcpHead(h) /\ tcpHead' = h
       /\ pc' = IF l7Head \in L7 /\ h \in Tcp THEN "take" ELSE "fill"
  /\ UNCHANGED <<ringVars, l7Head>>

\* Mutant: only two ready heads are compared, a busy ring counts as empty.
LookTcpIgnoringBusy ==
  /\ pc = "lookTcp"
  /\ \E h \in Tcp \union {Empty, Busy} :
       /\ IsTcpHead(h) /\ tcpHead' = h
       /\ pc' = IF l7Head \notin L7 /\ h \notin Tcp THEN "fill" ELSE "take"
  /\ UNCHANGED <<ringVars, l7Head>>

\* Then the connections: a busy ring, or both empty, ends the round (run sleeps and starts
\* over); a ring seen empty is looked at again.
LookTcp ==
  /\ pc = "lookTcp"
  /\ \E h \in Tcp \union {Empty, Busy} :
       /\ IsTcpHead(h) /\ tcpHead' = h
       /\ pc' = CASE l7Head = Busy \/ h = Busy -> "fill"
                  [] l7Head = Empty /\ h = Empty -> "fill"
                  [] l7Head \in L7 /\ h \in Tcp -> "take"
                  [] OTHER -> "lookAgain"
  /\ UNCHANGED <<ringVars, l7Head>>

LookAgain ==
  /\ pc = "lookAgain"
  /\ \/ /\ l7Head \in L7
        /\ \E h \in Tcp \union {Empty, Busy} :
             IsTcpHead(h) /\ tcpHead' = h /\ pc' = (IF h = Busy THEN "fill" ELSE "take")
        /\ UNCHANGED <<st, l7Head>>
     \/ /\ l7Head = Empty
        /\ \E h \in L7 \union {Empty, Busy} :
             IsRingHead(L7, h) /\ l7Head' = h /\ pc' = (IF h = Busy THEN "fill" ELSE "take")
        /\ st' = SkipDiscarded(L7)
        /\ UNCHANGED tcpHead
  /\ UNCHANGED <<ts, pos, prod, now, before>>

\* The L7 record goes first when it is the older one, or the only one.
L7First == l7Head \in L7 /\ (tcpHead \notin Tcp \/ ts[l7Head] < ts[tcpHead])

Picked == IF L7First THEN l7Head ELSE tcpHead

\* The record is copied, popped and handed over to emit.
Take ==
  /\ pc = "take"
  /\ st' = [st EXCEPT ![Picked] = "emitted"]
  /\ pc' = "fill" /\ l7Head' = Empty /\ tcpHead' = Empty
  /\ UNCHANGED <<ts, pos, prod, now, before>>

Merger == (\E r \in Tcp : Fill(r)) \/ FillDone \/ LookL7 \/ LookTcp \/ LookAgain \/ Take

Next == (\E r \in Records : Program(r)) \/ Merger

\* A program run cannot block: once stamped, a record is reserved and submitted or
\* discarded.  run loops without waiting for anybody but the receiver of emit.
Fairness ==
  /\ \A r \in Records : WF_vars(ReserveFull(r) \/ Reserve(r) \/ Submit(r) \/ Discard(r))
  /\ WF_vars(Merger)

Spec == Init /\ [][Next]_vars /\ Fairness
-----------------------------------------------------------------------------
(* Properties *)

\* Type invariant.
TypeOK ==
  /\ st \in [Records -> Status]
  /\ ts \in [Records -> Nat] /\ pos \in [Records -> Nat]
  /\ prod \in [l7 : Nat, tcp : Nat] /\ now \in Nat
  /\ before \in [Records -> SUBSET Records]
  /\ pc \in {"fill", "lookL7", "lookTcp", "lookAgain", "take"}
  /\ l7Head \in L7 \union {Empty, Busy} /\ tcpHead \in Tcp \union {Empty, Busy}

\* The claim of ringmerge.go ("The order holds for the events that are ordered in the
\* traced application"): when a record is handed over, every record that had been
\* submitted before its time was read, in either ring, has been handed over already.
\* So the open of a connection precedes its L7 events, and these precede its close.
CausalOrder ==
  \A r \in Records : st[r] = "emitted" => \A b \in before[r] : st[b] = "emitted"

\* "The records keep their order: the queue first, then the ring" (queuedRing), and
\* nothing is overtaken in its own ring: what lies before a record that was handed over
\* has been handed over, or skipped because it was discarded.
RingOrder ==
  \A r \in Records : st[r] = "emitted" =>
    \A o \in At(RingOf(r), {"busy", "ready", "discard", "queued"}) : pos[r] < pos[o]

\* nextRecord hands over only what is submitted: the head it remembers is still there
\* when it is popped, whatever the programs did since it was looked at.
PickedIsHead ==
  pc = "take" => /\ Picked \in Records /\ st[Picked] \in {"ready", "queued"}
                 /\ \A o \in At(RingOf(Picked), {"busy", "ready", "queued"}) : pos[Picked] <= pos[o]

\* Every submitted record is handed over, also while records of other programs are being
\* written or discarded around it.
Delivered == \A r \in Records : st[r] \in {"ready", "queued"} ~> st[r] = "emitted"

Delivery == INSTANCE CausalDelivery WITH
  begun <- At(Records, Status \ {"new"}),
  submitted <- Submitted,
  delivered <- At(Records, {"emitted"})

\* ringMerger implements CausalDelivery: the two rings, the queue and the looks at the
\* heads amount to one causally ordered delivery of what the eBPF side submitted.
ImplementsDelivery == Delivery!Spec
=============================================================================
