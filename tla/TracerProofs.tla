---------------------------- MODULE TracerProofs ----------------------------
(***************************************************************************)
(* The tracer's shared parts: the merger of its rings and the uprobes that *)
(* processes share.                                                        *)
(*                                                                         *)
(* ringMerger hands the records of the two rings over in causal order, for *)
(* every number of records, every size of the rings and of the queue, and  *)
(* every clock.                                                            *)
(*                                                                         *)
(* The argument: let c be handed over and b, submitted before c began, be  *)
(* in the other ring.  If b is still unread, the head h of b's ring is b   *)
(* or was reserved before b, so h was stamped before b was submitted and   *)
(* its time is not later than c's: the comparison picks h, not c.  If      *)
(* the other ring was seen empty, it was looked at after c could be read,  *)
(* hence after b was submitted: b had been read already.                   *)
(*                                                                         *)
(* The refcounts of the shared uprobes are exact, what a process refers to *)
(* is attached and a closed tracer has nothing attached, for every set of  *)
(* processes, slots and binaries.                                          *)
(***************************************************************************)
EXTENDS RingMerge, GlobalUprobes, FiniteSetTheorems, TLAPS

\* Records that have a position in their ring.
Placed == At(Records, {"busy", "ready", "discard", "skipped", "queued", "emitted"})

\* Only connection records are queued, only L7 records are discarded.
Kinds == \A r \in Records : /\ st[r] = "queued" => r \in Tcp
                            /\ st[r] \in {"discard", "skipped"} => r \in L7

\* Positions are handed out in increasing order.
Positions ==
  /\ \A r \in Placed : IF r \in L7 THEN pos[r] < prod.l7 ELSE pos[r] < prod.tcp
  /\ \A r, o \in Placed : r # o /\ RingOf(r) = RingOf(o) => pos[r] # pos[o]

\* The clock is past every time that was read, and strictly past what was stamped
\* before an L7 record was submitted.
Times ==
  /\ \A r \in Records : st[r] # "new" => ts[r] <= now
  /\ \A b \in L7 \cap Submitted : \A h \in L7 \cap Placed : pos[h] <= pos[b] => ts[h] < now

\* What a record finds submitted when it is stamped is submitted, and lies before it
\* if it is in the same ring.
Histories ==
  /\ \A c \in Records : before[c] \subseteq Submitted
  /\ \A c \in Records : st[c] = "new" => before[c] = {}
  /\ \A c \in Placed : \A b \in before[c] : RingOf(b) = RingOf(c) => pos[b] < pos[c]

\* Everything up to b in its ring was stamped before c: the heart of the argument.
HistoryTimes ==
  \A c \in Records : \A b \in before[c] : \A h \in RingOf(b) \cap Placed :
    pos[h] <= pos[b] => /\ ts[h] <= ts[c]
                        /\ b \in L7 => ts[h] < ts[c]

\* The queue holds the oldest connection records.
QueueFirst == \A q \in At(Tcp, {"queued"}) : \A o \in At(Tcp, {"busy", "ready"}) : pos[q] < pos[o]

\* The heads nextRecord remembers are still the oldest unread records.
L7HeadValid ==
  pc \in {"lookTcp", "lookAgain", "take"} /\ l7Head \in L7 =>
    /\ st[l7Head] = "ready"
    /\ \A o \in At(L7, {"busy", "ready", "discard"}) : o # l7Head => pos[l7Head] < pos[o]

TcpHeadValid ==
  pc \in {"lookAgain", "take"} /\ tcpHead \in Tcp =>
    /\ st[tcpHead] \in {"ready", "queued"}
    /\ \A o \in At(Tcp, {"busy", "ready", "queued"}) : o # tcpHead => pos[tcpHead] < pos[o]

HeadsKnown ==
  /\ pc = "lookAgain" => \/ l7Head \in L7 /\ tcpHead = Empty
                         \/ l7Head = Empty /\ tcpHead \in Tcp
  /\ pc = "take" => /\ l7Head # Busy /\ tcpHead # Busy
                    /\ l7Head \in L7 \/ tcpHead \in Tcp

\* A ring seen empty holds nothing that precedes the head of the other one.
EmptyMeansRead ==
  pc = "take" =>
    /\ l7Head = Empty => \A b \in before[tcpHead] \cap L7 : st[b] = "emitted"
    /\ tcpHead = Empty => \A b \in before[l7Head] \cap Tcp : st[b] = "emitted"

RingInv ==
  /\ TypeOK /\ Kinds /\ Positions /\ Times /\ Histories /\ HistoryTimes /\ QueueFirst
  /\ L7HeadValid /\ TcpHeadValid /\ HeadsKnown

\* The inductive invariant.
MergeInv == RingInv /\ EmptyMeansRead /\ RingOrder /\ CausalOrder

\* In the initial state nothing is stamped.
LEMMA MergeInit == Init => MergeInv
BY RecordsAssumption
DEF Init, MergeInv, RingInv, TypeOK, Status, Records, At, Submitted, Placed, Kinds, Positions,
    Times, Histories, HistoryTimes, QueueFirst, L7HeadValid, TcpHeadValid, HeadsKnown,
    EmptyMeansRead, RingOrder, CausalOrder

\* What a look at a ring returns: nothing is left, or the oldest unread record.
LEMMA HeadFacts ==
  ASSUME NEW ring \in {L7, Tcp}, NEW h \in ring \union {Empty, Busy}, IsRingHead(ring, h)
  PROVE  /\ h = Empty => At(ring, {"busy", "ready"}) = {}
         /\ h \in ring => /\ st[h] = "ready"
                          /\ \A o \in At(ring, {"busy", "ready"}) : pos[h] <= pos[o]
BY RecordsAssumption, Zenon DEF IsRingHead, First, At, Records

\* Skipping the discarded records of the L7 ring keeps what has a position and what is
\* submitted, and everything the invariant says apart from the heads.
LEMMA SkipKeeps ==
  ASSUME MergeInv, st' = SkipDiscarded(L7), UNCHANGED <<ts, pos, prod, now, before>>
  PROVE  /\ st' \in [Records -> Status]
         /\ Placed' = Placed /\ Submitted' = Submitted
         /\ \A r \in Records : st'[r] # st[r] => r \in L7 /\ st[r] = "discard" /\ st'[r] = "skipped"
         /\ Kinds' /\ Positions' /\ Times' /\ Histories' /\ HistoryTimes' /\ QueueFirst'
         /\ RingOrder' /\ CausalOrder'
<1> USE RecordsAssumption DEF MergeInv, RingInv, TypeOK, Records
<1>1. \A r \in Records : st'[r] # st[r] => r \in L7 /\ st[r] = "discard" /\ st'[r] = "skipped"
    BY Zenon DEF SkipDiscarded
<1>2. st' \in [Records -> Status]
    BY Zenon DEF SkipDiscarded, Status
<1>3. Placed' = Placed /\ Submitted' = Submitted
    BY <1>1, Zenon DEF Placed, Submitted, At
<1>4. Kinds'
    BY <1>1, Zenon DEF Kinds
<1>5. Positions' /\ Times' /\ Histories' /\ HistoryTimes'
    BY <1>1, <1>3 DEF Positions, Times, Histories, HistoryTimes, RingOf, Placed, At
<1>6. QueueFirst'
    BY <1>1, Zenon DEF QueueFirst, At
<1>7. RingOrder'
    BY <1>1 DEF RingOrder, At, RingOf
<1>8. CausalOrder'
    BY <1>1 DEF CausalOrder
<1> QED BY <1>1, <1>2, <1>3, <1>4, <1>5, <1>6, <1>7, <1>8, Zenon

\* The oldest unread L7 record after the discarded ones before it are skipped.
LEMMA L7HeadFacts ==
  ASSUME MergeInv, NEW h \in L7, IsRingHead(L7, h), st' = SkipDiscarded(L7), UNCHANGED pos
  PROVE  /\ st'[h] = "ready"
         /\ \A o \in At(L7, {"busy", "ready", "discard"})' : o # h => pos'[h] < pos'[o]
<1> USE RecordsAssumption DEF MergeInv, RingInv, TypeOK, Records
<1>1. st[h] = "ready" /\ \A o \in At(L7, {"busy", "ready"}) : pos[h] <= pos[o]
    BY HeadFacts, Zenon
<1>2. st'[h] = "ready"
    BY <1>1, Zenon DEF SkipDiscarded
<1>3. ASSUME NEW o \in L7, st'[o] \in {"busy", "ready", "discard"}, o # h
      PROVE  pos[h] < pos[o]
    <2>1. st[o] = st'[o]
        BY <1>3, Zenon DEF SkipDiscarded
    <2>2. pos[h] # pos[o]
        BY <1>1, <1>3, <2>1, Zenon DEF Positions, Placed, At, RingOf
    <2>3. CASE st[o] # "discard"
        BY <1>1, <1>3, <2>1, <2>2, <2>3 DEF At
    <2>4. CASE st[o] = "discard"
        <3>1. PICK q \in At(L7, {"busy", "ready"}) : ~(pos[o] < pos[q])
            BY <1>3, <2>1, <2>4, Zenon DEF SkipDiscarded
        <3> QED BY <1>1, <2>2, <3>1 DEF At
    <2> QED BY <2>3, <2>4, Zenon
<1> QED BY <1>2, <1>3, Zenon DEF At

\* The oldest unread connection record, in the queue or in the ring.
LEMMA TcpHeadFacts ==
  ASSUME MergeInv, NEW h \in Tcp \union {Empty, Busy}, IsTcpHead(h)
  PROVE  /\ h = Empty => At(Tcp, {"busy", "ready", "queued"}) = {}
         /\ h \in Tcp => /\ st[h] \in {"ready", "queued"}
                         /\ \A o \in At(Tcp, {"busy", "ready", "queued"}) : o # h => pos[h] < pos[o]
<1> USE RecordsAssumption DEF MergeInv, RingInv, TypeOK, Records
<1>1. CASE Queued # {}
    <2>1. h \in Queued /\ \A o \in Queued : pos[h] <= pos[o]
        BY <1>1, Zenon DEF IsTcpHead, First
    <2> QED BY <2>1 DEF Queued, At, QueueFirst, Positions, Placed, RingOf
<1>2. CASE Queued = {}
    <2>1. IsRingHead(Tcp, h)
        BY <1>2, Zenon DEF IsTcpHead
    <2>2. h \in Tcp => st[h] = "ready" /\ \A o \in At(Tcp, {"busy", "ready"}) : pos[h] <= pos[o]
        BY <2>1, HeadFacts, Zenon
    <2>3. h = Empty => At(Tcp, {"busy", "ready"}) = {}
        BY <2>1, HeadFacts, Zenon
    <2> QED BY <1>2, <2>2, <2>3 DEF Queued, At, Positions, Placed, RingOf
<1> QED BY <1>1, <1>2, Zenon

\* The record nextRecord picks preceded by nothing unread: the causal order at the moment
\* it is handed over.
LEMMA PickedFacts ==
  ASSUME MergeInv, pc = "take"
  PROVE  /\ Picked \in Records /\ st[Picked] \in {"ready", "queued"}
         /\ \A o \in At(RingOf(Picked), {"busy", "ready", "discard", "queued"}) :
              o # Picked => pos[Picked] < pos[o]
         /\ \A b \in before[Picked] : st[b] = "emitted"
<1> USE RecordsAssumption DEF MergeInv, RingInv, TypeOK, Records
<1>1. /\ l7Head \in L7 \union {Empty} /\ tcpHead \in Tcp \union {Empty}
      /\ l7Head \in L7 \/ tcpHead \in Tcp
    BY Zenon DEF HeadsKnown
<1>2. l7Head \in L7 => st[l7Head] = "ready"
                       /\ \A o \in At(L7, {"busy", "ready", "discard"}) : o # l7Head => pos[l7Head] < pos[o]
    BY Zenon DEF L7HeadValid
<1>3. tcpHead \in Tcp => st[tcpHead] \in {"ready", "queued"}
                         /\ \A o \in At(Tcp, {"busy", "ready", "queued"}) : o # tcpHead => pos[tcpHead] < pos[o]
    BY Zenon DEF TcpHeadValid
<1>4. \A c \in Records : \A b \in before[c] : b \in Records /\ st[b] \in {"ready", "queued", "emitted"}
    BY Zenon DEF Histories, Submitted, At
<1>5. CASE L7First
    <2>1. Picked = l7Head /\ l7Head \in L7 /\ RingOf(l7Head) = L7
        BY <1>5, Zenon DEF Picked, L7First, RingOf
    <2>2. \A o \in At(L7, {"busy", "ready", "discard", "queued"}) : o # l7Head => pos[l7Head] < pos[o]
        BY <1>2, <2>1, Zenon DEF Kinds, At
    <2>3. ASSUME NEW b \in before[l7Head], st[b] # "emitted" PROVE FALSE
        <3>1. b \in Records /\ st[b] \in {"ready", "queued"}
            BY <1>4, <2>1, <2>3, Zenon
        <3>2. CASE b \in L7
            <4>1. pos[b] < pos[l7Head]
                BY <1>2, <2>1, <2>3, <3>2, Zenon DEF Histories, Placed, At, RingOf
            <4>2. b \in At(L7, {"busy", "ready", "discard", "queued"})
                BY <3>1, <3>2, Zenon DEF At
            <4> QED BY <4>1, <4>2, <2>1, <2>2, <3>2
        <3>3. CASE b \in Tcp
            <4>1. b \in At(Tcp, {"busy", "ready", "queued"})
                BY <3>1, <3>3, Zenon DEF At
            <4>2. tcpHead \in Tcp
                BY <1>1, <2>1, <2>3, <3>3, Zenon DEF EmptyMeansRead
            <4>3. pos[tcpHead] <= pos[b] /\ tcpHead \in RingOf(b) \cap Placed
                BY <1>3, <3>1, <3>3, <4>1, <4>2 DEF RingOf, Placed, At
            <4>4. ts[tcpHead] <= ts[l7Head]
                BY <2>1, <2>3, <4>3, Zenon DEF HistoryTimes
            <4>5. ts[l7Head] < ts[tcpHead]
                BY <1>5, <4>2, Zenon DEF L7First
            <4> QED BY <2>1, <4>2, <4>4, <4>5
        <3> QED BY <3>1, <3>2, <3>3, Zenon
    <2> QED BY <1>2, <2>1, <2>2, <2>3, Zenon
<1>6. CASE ~L7First
    <2>1. Picked = tcpHead /\ tcpHead \in Tcp /\ RingOf(tcpHead) = Tcp
        BY <1>1, <1>6, Zenon DEF Picked, L7First, RingOf
    <2>2. \A o \in At(Tcp, {"busy", "ready", "discard", "queued"}) : o # tcpHead => pos[tcpHead] < pos[o]
        BY <1>3, <2>1, Zenon DEF Kinds, At
    <2>3. ASSUME NEW b \in before[tcpHead], st[b] # "emitted" PROVE FALSE
        <3>1. b \in Records /\ st[b] \in {"ready", "queued"}
            BY <1>4, <2>1, <2>3, Zenon
        <3>2. CASE b \in Tcp
            <4>1. pos[b] < pos[tcpHead]
                BY <1>3, <2>1, <2>3, <3>2, Zenon DEF Histories, Placed, At, RingOf
            <4>2. b \in At(Tcp, {"busy", "ready", "discard", "queued"})
                BY <3>1, <3>2, Zenon DEF At
            <4> QED BY <4>1, <4>2, <2>1, <2>2, <3>2
        <3>3. CASE b \in L7
            <4>1. st[b] = "ready"
                BY <3>1, <3>3, Zenon DEF Kinds
            <4>2. l7Head \in L7
                BY <1>1, <2>1, <2>3, <3>3, Zenon DEF EmptyMeansRead
            <4>3. pos[l7Head] <= pos[b] /\ l7Head \in RingOf(b) \cap Placed
                BY <1>2, <3>3, <4>1, <4>2 DEF RingOf, Placed, At
            <4>4. ts[l7Head] < ts[tcpHead]
                BY <2>1, <2>3, <3>3, <4>3, Zenon DEF HistoryTimes
            <4> QED BY <1>6, <2>1, <4>2, <4>4, Zenon DEF L7First
        <3> QED BY <3>1, <3>2, <3>3, Zenon
    <2> QED BY <1>3, <2>1, <2>2, <2>3, Zenon
<1> QED BY <1>5, <1>6, Zenon

\* Every step keeps the invariant.
LEMMA MergeStep == MergeInv /\ [Next]_vars => MergeInv'
<1> SUFFICES ASSUME MergeInv, [Next]_vars PROVE MergeInv'
    BY Zenon
<1> USE RecordsAssumption, SizesAssumption, TicksAssumption
    DEF MergeInv, RingInv, TypeOK, Records, mergerVars, ringVars
<1>1. ASSUME NEW r \in Records, Stamp(r) PROVE MergeInv'
  <2>1. TypeOK'
      BY <1>1
      DEF Stamp, Status, Submitted, At
  <2>2. Times'
      BY <1>1
      DEF Stamp, Times, RingOf, At, Submitted, Placed
  <2>3. Histories'
      BY <1>1, Zenon
      DEF Stamp, Histories, RingOf, At, Submitted, Placed
  <2>4. HistoryTimes'
      BY <1>1
      DEF Stamp, HistoryTimes, RingOf, At, Submitted, Placed, Times, Histories
  <2>5. EmptyMeansRead'
      BY <1>1, Zenon
      DEF Stamp, EmptyMeansRead, RingOf, At, Submitted, Placed, TcpHeadValid, L7HeadValid,
          HeadsKnown
  <2>6. Kinds' /\ Positions' /\ QueueFirst'
      BY <1>1
      DEF Stamp, Kinds, Positions, QueueFirst, RingOf, At, Submitted, Placed
  <2>7. L7HeadValid' /\ TcpHeadValid' /\ HeadsKnown'
      BY <1>1, Zenon
      DEF Stamp, L7HeadValid, TcpHeadValid, HeadsKnown, RingOf, At, Submitted, Placed
  <2>8. RingOrder' /\ CausalOrder'
      BY <1>1
      DEF Stamp, RingOrder, CausalOrder, RingOf, At, Submitted, Placed
  <2> QED BY <2>1, <2>2, <2>3, <2>4, <2>5, <2>6, <2>7, <2>8, Zenon
<1>2. ASSUME NEW r \in Records, ReserveFull(r) PROVE MergeInv'
  <2>1. TypeOK'
      BY <1>2, Zenon
      DEF ReserveFull, Status, Submitted, At
  <2>2. Kinds' /\ Positions' /\ Times' /\ Histories' /\ HistoryTimes' /\ QueueFirst'
      BY <1>2
      DEF ReserveFull, Kinds, Positions, Times, Histories, HistoryTimes, QueueFirst, RingOf, At,
          Submitted, Placed
  <2>3. L7HeadValid' /\ TcpHeadValid' /\ HeadsKnown' /\ EmptyMeansRead'
      BY <1>2, Zenon
      DEF ReserveFull, L7HeadValid, TcpHeadValid, HeadsKnown, EmptyMeansRead, RingOf, At,
          Submitted, Placed
  <2>4. RingOrder' /\ CausalOrder'
      BY <1>2, Zenon
      DEF ReserveFull, RingOrder, CausalOrder, RingOf, At, Submitted, Placed
  <2> QED BY <2>1, <2>2, <2>3, <2>4, Zenon
<1>3. ASSUME NEW r \in Records, Reserve(r) PROVE MergeInv'
  <2>1. TypeOK'
      BY <1>3
      DEF Reserve, Status, Submitted, At
  <2>2. Positions'
      BY <1>3
      DEF Reserve, Positions, RingOf, At, Submitted, Placed
  <2>3. Times'
      BY <1>3
      DEF Reserve, Times, RingOf, At, Submitted, Placed, Positions, Histories
  <2>4. Histories'
      BY <1>3
      DEF Reserve, Histories, RingOf, At, Submitted, Placed, Positions
  <2>5. HistoryTimes'
      BY <1>3
      DEF Reserve, HistoryTimes, RingOf, At, Submitted, Placed, Positions, Histories
  <2>6. QueueFirst'
      BY <1>3
      DEF Reserve, QueueFirst, RingOf, At, Submitted, Placed, Positions, Histories
  <2>7. L7HeadValid'
      BY <1>3
      DEF Reserve, L7HeadValid, RingOf, At, Submitted, Placed, Positions, Histories
  <2>8. TcpHeadValid'
      BY <1>3
      DEF Reserve, TcpHeadValid, RingOf, At, Submitted, Placed, Positions, Histories
  <2>9. RingOrder'
      BY <1>3
      DEF Reserve, RingOrder, RingOf, At, Submitted, Placed, Positions, Histories
  <2>10. Kinds' /\ HeadsKnown' /\ EmptyMeansRead' /\ CausalOrder'
      BY <1>3, Zenon
      DEF Reserve, Kinds, HeadsKnown, EmptyMeansRead, CausalOrder, RingOf, At, Submitted, Placed
  <2> QED BY <2>1, <2>2, <2>3, <2>4, <2>5, <2>6, <2>7, <2>8, <2>9, <2>10, Zenon
<1>4. ASSUME NEW r \in Records, Submit(r) PROVE MergeInv'
  <2>1. TypeOK'
      BY <1>4
      DEF Submit, Status, Submitted, At
  <2>2. Times'
      BY <1>4
      DEF Submit, Times, RingOf, At, Submitted, Placed
  <2>3. Histories'
      BY <1>4, Zenon
      DEF Submit, Histories, RingOf, At, Submitted, Placed
  <2>4. HistoryTimes'
      BY <1>4
      DEF Submit, HistoryTimes, RingOf, At, Submitted, Placed
  <2>5. QueueFirst'
      BY <1>4, Zenon
      DEF Submit, QueueFirst, RingOf, At, Submitted, Placed
  <2>6. L7HeadValid' /\ TcpHeadValid'
      BY <1>4, Zenon
      DEF Submit, L7HeadValid, TcpHeadValid, RingOf, At, Submitted, Placed
  <2>7. Kinds' /\ Positions' /\ HeadsKnown'
      BY <1>4
      DEF Submit, Kinds, Positions, HeadsKnown, RingOf, At, Submitted, Placed
  <2>8. EmptyMeansRead' /\ RingOrder' /\ CausalOrder'
      BY <1>4
      DEF Submit, EmptyMeansRead, RingOrder, CausalOrder, RingOf, At, Submitted, Placed
  <2> QED BY <2>1, <2>2, <2>3, <2>4, <2>5, <2>6, <2>7, <2>8, Zenon
<1>5. ASSUME NEW r \in Records, Discard(r) PROVE MergeInv'
  <2>1. TypeOK'
      BY <1>5, Zenon
      DEF Discard, Status, Submitted, At
  <2>2. Kinds' /\ Positions' /\ Times'
      BY <1>5
      DEF Discard, Kinds, Positions, Times, RingOf, At, Submitted, Placed
  <2>3. Histories' /\ HistoryTimes' /\ QueueFirst'
      BY <1>5
      DEF Discard, Histories, HistoryTimes, QueueFirst, RingOf, At, Submitted, Placed
  <2>4. L7HeadValid' /\ TcpHeadValid'
      BY <1>5, Zenon
      DEF Discard, L7HeadValid, TcpHeadValid, RingOf, At, Submitted, Placed
  <2>5. RingOrder'
      BY <1>5, Zenon
      DEF Discard, RingOrder, RingOf, At, Submitted, Placed
  <2>6. HeadsKnown' /\ EmptyMeansRead' /\ CausalOrder'
      BY <1>5, Zenon
      DEF Discard, HeadsKnown, EmptyMeansRead, CausalOrder, RingOf, At, Submitted, Placed
  <2> QED BY <2>1, <2>2, <2>3, <2>4, <2>5, <2>6, Zenon
<1>6. ASSUME NEW r \in Tcp, Fill(r) PROVE MergeInv'
  <2>a. st[r] = "ready" /\ \A o \in At(Tcp, {"busy", "ready"}) : pos[r] <= pos[o]
      BY <1>6, HeadFacts, Zenon DEF Fill
  <2>b. Placed' = Placed /\ Submitted' = Submitted
      BY <1>6, <2>a, Zenon DEF Fill, Placed, Submitted, At
  <2>1. TypeOK'
      BY <1>6, <2>a, <2>b, Zenon
      DEF Fill, Status, Submitted, At
  <2>2. QueueFirst'
      BY <1>6, <2>a, <2>b, SMTT(30)
      DEF Fill, QueueFirst, RingOf, At, Submitted, Placed, Positions
  <2>3. Kinds' /\ Positions' /\ Times' /\ Histories' /\ HistoryTimes'
      BY <1>6, <2>a, <2>b, SMTT(30)
      DEF Fill, Kinds, Positions, Times, Histories, HistoryTimes, RingOf, At, Submitted, Placed
  <2>4. L7HeadValid' /\ TcpHeadValid' /\ HeadsKnown' /\ EmptyMeansRead'
      BY <1>6, <2>a, <2>b, Zenon
      DEF Fill, L7HeadValid, TcpHeadValid, HeadsKnown, EmptyMeansRead, RingOf, At, Submitted,
          Placed
  <2>5. RingOrder'
      BY <1>6, <2>a, <2>b, Zenon
      DEF Fill, RingOrder, RingOf, At, Submitted, Placed
  <2>6. CausalOrder'
      BY <1>6, <2>a, <2>b
      DEF Fill, CausalOrder, RingOf, At, Submitted, Placed
  <2> QED BY <2>1, <2>2, <2>3, <2>4, <2>5, <2>6, Zenon
<1>7. CASE FillDone
  <2>1. TypeOK'
      BY <1>7, Zenon
      DEF FillDone, Status, Submitted, At
  <2>2. Kinds' /\ Positions' /\ Times' /\ Histories' /\ HistoryTimes' /\ QueueFirst'
      BY <1>7
      DEF FillDone, Kinds, Positions, Times, Histories, HistoryTimes, QueueFirst, RingOf, At,
          Submitted, Placed
  <2>3. L7HeadValid' /\ TcpHeadValid' /\ HeadsKnown' /\ EmptyMeansRead'
      BY <1>7, Zenon
      DEF FillDone, L7HeadValid, TcpHeadValid, HeadsKnown, EmptyMeansRead, RingOf, At,
          Submitted, Placed
  <2>4. RingOrder' /\ CausalOrder'
      BY <1>7, Zenon
      DEF FillDone, RingOrder, CausalOrder, RingOf, At, Submitted, Placed
  <2> QED BY <2>1, <2>2, <2>3, <2>4, Zenon
<1>8. CASE LookL7
  <2>1. PICK h \in L7 \union {Empty, Busy} : IsRingHead(L7, h) /\ l7Head' = h
      BY <1>8, Zenon DEF LookL7
  <2>2. /\ st' = SkipDiscarded(L7) /\ UNCHANGED <<ts, pos, prod, now, before, tcpHead>>
        /\ pc' = "lookTcp"
      BY <1>8, Zenon DEF LookL7
  <2>3. /\ st' \in [Records -> Status]
        /\ Kinds' /\ Positions' /\ Times' /\ Histories' /\ HistoryTimes' /\ QueueFirst'
        /\ RingOrder' /\ CausalOrder'
      BY <2>2, SkipKeeps, Zenon
  <2>4. TypeOK'
      BY <2>1, <2>2, <2>3, Zenon
  <2>5. L7HeadValid'
      BY <2>1, <2>2, L7HeadFacts, Zenon DEF L7HeadValid
  <2>6. TcpHeadValid' /\ HeadsKnown' /\ EmptyMeansRead'
      BY <2>2, Zenon DEF TcpHeadValid, HeadsKnown, EmptyMeansRead
  <2> QED BY <2>3, <2>4, <2>5, <2>6, Zenon
<1>9. CASE LookTcp
  <2>1. PICK h \in Tcp \union {Empty, Busy} :
          /\ IsTcpHead(h) /\ tcpHead' = h
          /\ pc' = CASE l7Head = Busy \/ h = Busy -> "fill"
                     [] l7Head = Empty /\ h = Empty -> "fill"
                     [] l7Head \in L7 /\ h \in Tcp -> "take"
                     [] OTHER -> "lookAgain"
      BY <1>9, Zenon DEF LookTcp
  <2>2. pc = "lookTcp" /\ UNCHANGED <<st, ts, pos, prod, now, before, l7Head>>
      BY <1>9, Zenon DEF LookTcp
  <2>3. TypeOK'
      BY <2>1, <2>2, Zenon
  <2>4. /\ Kinds' /\ Positions' /\ Times' /\ Histories' /\ HistoryTimes' /\ QueueFirst'
        /\ RingOrder' /\ CausalOrder'
      BY <2>2 DEF Kinds, Positions, Times, Histories, HistoryTimes, QueueFirst, RingOrder,
                  CausalOrder, At, Placed, Submitted
  <2>5. L7HeadValid'
      BY <2>2, Zenon DEF L7HeadValid, At
  <2>6. TcpHeadValid'
      <3>1. h \in Tcp => /\ st[h] \in {"ready", "queued"}
                         /\ \A o \in At(Tcp, {"busy", "ready", "queued"}) : o # h => pos[h] < pos[o]
          BY <2>1, TcpHeadFacts, Zenon
      <3> QED BY <2>1, <2>2, <3>1, Zenon DEF TcpHeadValid, At
  <2>7. HeadsKnown' /\ EmptyMeansRead'
      BY <2>1, <2>2, Zenon DEF HeadsKnown, EmptyMeansRead
  <2> QED BY <2>3, <2>4, <2>5, <2>6, <2>7, Zenon
<1>10. CASE LookAgain
  <2>1. CASE l7Head \in L7
      <3>1. PICK h \in Tcp \union {Empty, Busy} :
              IsTcpHead(h) /\ tcpHead' = h /\ pc' = (IF h = Busy THEN "fill" ELSE "take")
          BY <1>10, <2>1, Zenon DEF LookAgain
      <3>2. pc = "lookAgain" /\ UNCHANGED <<st, ts, pos, prod, now, before, l7Head>>
          BY <1>10, <2>1, Zenon DEF LookAgain
      <3>3. /\ h = Empty => At(Tcp, {"busy", "ready", "queued"}) = {}
            /\ h \in Tcp => /\ st[h] \in {"ready", "queued"}
                            /\ \A o \in At(Tcp, {"busy", "ready", "queued"}) : o # h => pos[h] < pos[o]
          BY <3>1, TcpHeadFacts, Zenon
      <3>4. TypeOK'
          BY <3>1, <3>2, Zenon
      <3>5. /\ Kinds' /\ Positions' /\ Times' /\ Histories' /\ HistoryTimes' /\ QueueFirst'
            /\ RingOrder' /\ CausalOrder'
          BY <3>2 DEF Kinds, Positions, Times, Histories, HistoryTimes, QueueFirst, RingOrder,
                      CausalOrder, At, Placed, Submitted
      <3>6. L7HeadValid' /\ HeadsKnown'
          BY <2>1, <3>1, <3>2, Zenon DEF L7HeadValid, HeadsKnown, At
      <3>7. TcpHeadValid'
          BY <3>1, <3>2, <3>3, Zenon DEF TcpHeadValid, At
      <3>8. EmptyMeansRead'
          BY <2>1, <3>1, <3>2, <3>3 DEF EmptyMeansRead, Histories, Submitted, At
      <3> QED BY <3>4, <3>5, <3>6, <3>7, <3>8, Zenon
  <2>2. CASE l7Head = Empty
      <3>1. PICK h \in L7 \union {Empty, Busy} :
              IsRingHead(L7, h) /\ l7Head' = h /\ pc' = (IF h = Busy THEN "fill" ELSE "take")
          BY <1>10, <2>2, Zenon DEF LookAgain
      <3>2. /\ pc = "lookAgain" /\ st' = SkipDiscarded(L7)
            /\ UNCHANGED <<ts, pos, prod, now, before, tcpHead>>
          BY <1>10, <2>2, Zenon DEF LookAgain
      <3>3. /\ st' \in [Records -> Status]
            /\ \A r \in Records : st'[r] # st[r] => r \in L7 /\ st[r] = "discard" /\ st'[r] = "skipped"
            /\ Kinds' /\ Positions' /\ Times' /\ Histories' /\ HistoryTimes' /\ QueueFirst'
            /\ RingOrder' /\ CausalOrder'
          BY <3>2, SkipKeeps, Zenon
      <3>4. TypeOK'
          BY <3>1, <3>2, <3>3, Zenon
      <3>5. tcpHead \in Tcp
          BY <2>2, <3>2, Zenon DEF HeadsKnown
      <3>6. L7HeadValid'
          BY <3>1, <3>2, L7HeadFacts, Zenon DEF L7HeadValid
      <3>7. TcpHeadValid' /\ HeadsKnown'
          BY <3>1, <3>2, <3>3, <3>5, Zenon DEF TcpHeadValid, HeadsKnown, At
      <3>8. EmptyMeansRead'
          <4>1. h = Empty => At(L7, {"busy", "ready"}) = {}
              BY <3>1, HeadFacts, Zenon
          <4>2. ASSUME h = Empty, NEW b \in before[tcpHead] \cap L7 PROVE st'[b] = "emitted"
              BY <3>3, <3>5, <4>1, <4>2, SMTT(30) DEF Histories, Submitted, At, Kinds
          <4> QED BY <3>1, <3>2, <3>5, <4>2, Zenon DEF EmptyMeansRead
      <3> QED BY <3>3, <3>4, <3>6, <3>7, <3>8, Zenon
  <2> QED BY <1>10, <2>1, <2>2, Zenon DEF LookAgain
<1>11. CASE Take
  <2>1. /\ Picked \in Records /\ st[Picked] \in {"ready", "queued"}
        /\ \A o \in At(RingOf(Picked), {"busy", "ready", "discard", "queued"}) :
             o # Picked => pos[Picked] < pos[o]
        /\ \A b \in before[Picked] : st[b] = "emitted"
      BY <1>11, PickedFacts, Zenon DEF Take
  <2> DEFINE p == Picked
  <2>2. /\ st' = [st EXCEPT ![p] = "emitted"]
        /\ pc' = "fill" /\ l7Head' = Empty /\ tcpHead' = Empty
        /\ UNCHANGED <<ts, pos, prod, now, before>>
      BY <1>11, Zenon DEF Take
  <2>3. /\ p \in Records /\ st[p] \in {"ready", "queued"}
        /\ \A o \in At(RingOf(p), {"busy", "ready", "discard", "queued"}) : o # p => pos[p] < pos[o]
        /\ \A b \in before[p] : st[b] = "emitted"
      BY <2>1, Zenon
  <2> HIDE DEF p
  <2>4. TypeOK'
      BY <2>2, <2>3, Zenon DEF Status
  <2>5. Placed' = Placed /\ Submitted' = Submitted
      BY <2>2, <2>3, Zenon DEF Placed, Submitted, At
  <2>6. Kinds' /\ QueueFirst'
      BY <2>2, <2>3, Zenon DEF Kinds, QueueFirst, At
  <2>7. Positions' /\ Times' /\ Histories' /\ HistoryTimes'
      BY <2>2, <2>3, <2>5 DEF Positions, Times, Histories, HistoryTimes, RingOf, Placed, At
  <2>8. L7HeadValid' /\ TcpHeadValid' /\ HeadsKnown' /\ EmptyMeansRead'
      BY <2>2, Zenon DEF L7HeadValid, TcpHeadValid, HeadsKnown, EmptyMeansRead
  <2>9. RingOrder'
      BY <2>2, <2>3 DEF RingOrder, At, RingOf
  <2>10. CausalOrder'
      BY <2>2, <2>3, Zenon DEF CausalOrder
  <2> QED BY <2>4, <2>5, <2>6, <2>7, <2>8, <2>9, <2>10, Zenon
<1>12. CASE UNCHANGED vars
    BY <1>12 DEF vars, Kinds, Positions, Times, Histories, HistoryTimes, QueueFirst, L7HeadValid,
       TcpHeadValid, HeadsKnown, EmptyMeansRead, RingOrder, CausalOrder, At, Placed, Submitted
<1> QED
    BY <1>1, <1>2, <1>3, <1>4, <1>5, <1>6, <1>7, <1>8, <1>9, <1>10, <1>11, <1>12, Zenon
    DEF Next, Program, Merger

-----------------------------------------------------------------------------
\* The invariant holds in every reachable state.
LEMMA MergeInvariant == Spec => []MergeInv
BY MergeInit, MergeStep, PTL DEF Spec

\* The variables of the rings and of ringMerger keep their types.
THEOREM TypeCorrect == Spec => []TypeOK
<1>1. MergeInv => TypeOK
    BY Zenon DEF MergeInv, RingInv
<1> QED BY <1>1, MergeInvariant, PTL

\* ringmerge.go hands the records over in causal order: the open of a connection before
\* its L7 events, these before its close.
THEOREM CausallyOrdered == Spec => []CausalOrder
<1>1. MergeInv => CausalOrder
    BY Zenon DEF MergeInv
<1> QED BY <1>1, MergeInvariant, PTL

\* queuedRing and the heads keep the order of every ring.
THEOREM RingsInOrder == Spec => []RingOrder
<1>1. MergeInv => RingOrder
    BY Zenon DEF MergeInv
<1> QED BY <1>1, MergeInvariant, PTL

\* The record nextRecord picks is submitted and still the oldest of its ring when it is popped.
THEOREM PickIsValid == Spec => []PickedIsHead
<1>1. MergeInv => PickedIsHead
  <2> SUFFICES ASSUME MergeInv, pc = "take" PROVE PickedIsHead
      BY Zenon DEF PickedIsHead
  <2>1. /\ Picked \in Records /\ st[Picked] \in {"ready", "queued"}
        /\ \A o \in At(RingOf(Picked), {"busy", "ready", "discard", "queued"}) :
             o # Picked => pos[Picked] < pos[o]
      BY PickedFacts, Zenon
  <2>2. pos \in [Records -> Nat]
      BY Zenon DEF MergeInv, RingInv, TypeOK
  <2> HIDE DEF Picked
  <2> QED BY <2>1, <2>2 DEF PickedIsHead, At, RingOf, Records
<1> QED BY <1>1, MergeInvariant, PTL

\* ringMerger implements causally ordered delivery (CausalDelivery): reading the time
\* begins a record, submitting it and handing it over are the steps of the same name, and
\* everything else it does is invisible.
THEOREM MergerImplementsDelivery == Spec => ImplementsDelivery
<1>1. Init => Delivery!Init
    BY Zenon DEF Init, Delivery!Init, At, Submitted, Status
<1>2. MergeInv /\ [Next]_vars => [Delivery!Next]_(Delivery!vars)
  <2> SUFFICES ASSUME MergeInv, [Next]_vars PROVE [Delivery!Next]_(Delivery!vars)
      BY Zenon
  <2> USE RecordsAssumption DEF MergeInv, RingInv, TypeOK, Records, mergerVars, ringVars
  <2> DEFINE Begun == At(Records, Status \ {"new"})
             Handed == At(Records, {"emitted"})
  <2>1. ASSUME NEW r \in Records, Stamp(r) PROVE Delivery!Begin(r)
    <3>1. r \notin Begun /\ Begun' = Begun \union {r} /\ Submitted' = Submitted /\ Handed' = Handed
        BY <2>1 DEF Stamp, At, Submitted, Status
    <3>2. before' = [before EXCEPT ![r] = Submitted]
        BY <2>1, Zenon DEF Stamp
    <3> QED BY <3>1, <3>2, Zenon DEF Delivery!Begin
  <2>2. ASSUME NEW r \in Records, Submit(r) PROVE Delivery!Submit(r)
    <3>1. /\ r \in Begun \ Submitted /\ Begun' = Begun
          /\ Submitted' = Submitted \union {r} /\ Handed' = Handed
        BY <2>2 DEF Submit, At, Submitted, Status
    <3>2. before' = before
        BY <2>2, Zenon DEF Submit
    <3> QED BY <3>1, <3>2, Zenon DEF Delivery!Submit
  <2>3. ASSUME Take PROVE Delivery!Deliver(Picked)
    <3> DEFINE p == Picked
    <3>1. /\ p \in Records /\ st[p] \in {"ready", "queued"}
          /\ \A b \in before[p] : st[b] = "emitted"
        BY <2>3, PickedFacts, Zenon DEF Take
    <3>2. st' = [st EXCEPT ![p] = "emitted"] /\ before' = before
        BY <2>3, Zenon DEF Take
    <3> HIDE DEF p
    <3>3. /\ p \in Submitted \ Handed /\ Begun' = Begun /\ Submitted' = Submitted
          /\ Handed' = Handed \union {p}
        BY <3>1, <3>2 DEF At, Submitted, Status
    <3>4. before[p] \subseteq Handed
        BY <3>1, Zenon DEF At
    <3>5. Delivery!Deliver(p)
        BY <3>2, <3>3, <3>4, Zenon DEF Delivery!Deliver
    <3> QED BY <3>5, Zenon DEF p
  <2>4. Take => Picked \in Records
      BY PickedFacts, Zenon DEF Take
  <2>5. ASSUME NEW r \in Records, ReserveFull(r) \/ Reserve(r) \/ Discard(r)
        PROVE UNCHANGED Delivery!vars
      BY <2>5 DEF ReserveFull, Reserve, Discard, Delivery!vars, At, Submitted, Status
  <2>6. ASSUME NEW r \in Tcp, Fill(r) PROVE UNCHANGED Delivery!vars
    <3>1. st[r] = "ready"
        BY <2>6, HeadFacts, Zenon DEF Fill
    <3> QED BY <2>6, <3>1, Zenon DEF Fill, Delivery!vars, At, Submitted, Status
  <2>7. ASSUME FillDone \/ LookTcp \/ UNCHANGED vars PROVE UNCHANGED Delivery!vars
      BY <2>7, Zenon DEF FillDone, LookTcp, vars, Delivery!vars, At, Submitted
  <2>8. ASSUME LookL7 \/ LookAgain PROVE UNCHANGED Delivery!vars
    <3>1. UNCHANGED before /\ (st' = SkipDiscarded(L7) \/ st' = st)
        BY <2>8, Zenon DEF LookL7, LookAgain
    <3>2. \A r \in Records : st'[r] # st[r] => st[r] = "discard" /\ st'[r] = "skipped"
        BY <3>1, Zenon DEF SkipDiscarded
    <3> QED BY <3>1, <3>2 DEF Delivery!vars, At, Submitted, Status
  <2> QED
      BY <2>1, <2>2, <2>3, <2>4, <2>5, <2>6, <2>7, <2>8, Zenon DEF Next, Program, Merger, Delivery!Next
<1> QED BY <1>1, <1>2, MergeInvariant, PTL DEF Spec, ImplementsDelivery, Delivery!Spec

-----------------------------------------------------------------------------
(* The shared uprobes. *)

\* The inductive invariant.  Exact counts need that a binary without an entry has no
\* references, for attach starts its count at one; that needs exact counts in turn, for only
\* a binary with the count zero is detached.
UInv == UprobesTypeOK /\ RefsExact /\ ReferredHasEntry /\ LinksExact /\ ClosedHasNone

\* A count is a natural number, and zero when no slot of the set is of the binary.
LEMMA CountType ==
  ASSUME NEW S \in SUBSET Slots, NEW k
  PROVE  /\ IsFiniteSet({s \in S : KeyOf[s] = k})
         /\ Count(S, k) \in Nat
         /\ Count(S, k) = 0 <=> \A s \in S : KeyOf[s] # k
<1> DEFINE T == {s \in S : KeyOf[s] = k}
<1>1. T \in SUBSET Slots
    BY Zenon
<1>2. IsFiniteSet(T)
    BY <1>1, SlotsAssumption, FS_Subset, Zenon
<1>3. Cardinality(T) \in Nat
    BY <1>2, FS_CardinalityType, Zenon
<1>4. Cardinality(T) = 0 <=> T = {}
    BY <1>2, FS_EmptySet, Zenon
<1>5. T = {} <=> \A s \in S : KeyOf[s] # k
    BY Zenon
<1> QED
    BY <1>2, <1>3, <1>4, <1>5, Zenon DEF Count

\* One more slot adds one to the count of its binary.
LEMMA CountAdd ==
  ASSUME NEW S \in SUBSET Slots, NEW x \in Slots, x \notin S, NEW k
  PROVE  Count(S \union {x}, k) = IF KeyOf[x] = k THEN Count(S, k) + 1 ELSE Count(S, k)
<1> DEFINE T == {s \in S : KeyOf[s] = k}
<1>1. IsFiniteSet(T)
    BY CountType, Zenon
<1>2. CASE KeyOf[x] = k
  <2>1. {s \in S \union {x} : KeyOf[s] = k} = T \union {x}
      BY <1>2, Zenon
  <2>2. Cardinality(T \union {x}) = Cardinality(T) + 1
      BY <1>1, FS_AddElement, Zenon
  <2> QED
      BY <1>2, <2>1, <2>2, Zenon DEF Count
<1>3. CASE KeyOf[x] # k
  <2>1. {s \in S \union {x} : KeyOf[s] = k} = T
      BY <1>3, Zenon
  <2> QED
      BY <1>3, <2>1, Zenon DEF Count
<1> QED
    BY <1>2, <1>3, Zenon

\* Taking slots away takes their count away.
LEMMA CountRemove ==
  ASSUME NEW S \in SUBSET Slots, NEW R \in SUBSET S, NEW k
  PROVE  Count(S \ R, k) = Count(S, k) - Count(R, k) /\ Count(R, k) <= Count(S, k)
<1> DEFINE T == {s \in S : KeyOf[s] = k}
           U == {s \in R : KeyOf[s] = k}
<1>1. IsFiniteSet(T)
    BY CountType, Zenon
<1>2. {s \in S \ R : KeyOf[s] = k} = T \ U /\ T \cap U = U /\ U \in SUBSET T
    BY Zenon
<1>3. Cardinality(T \ U) = Cardinality(T) - Cardinality(T \cap U)
    BY <1>1, FS_Difference, Zenon
<1>4. Cardinality(U) <= Cardinality(T)
    BY <1>1, <1>2, FS_Subset, Zenon
<1> QED
    BY <1>2, <1>3, <1>4, Zenon DEF Count

\* The initial state has no references and nothing attached.
LEMMA UInit == UprobesInit => UInv
<1> SUFFICES ASSUME UprobesInit PROVE UInv
    BY Zenon
<1>1. UprobesTypeOK
    BY TTLAssumption, SlotsAssumption DEF UprobesInit, UprobesTypeOK
<1>2. Referring = {}
    BY Zenon DEF UprobesInit, Referring
<1> QED
    BY <1>1, <1>2, Zenon DEF UprobesInit, UInv, RefsExact, ReferredHasEntry, LinksExact, ClosedHasNone

\* The idle sweep leaves every binary that is referred to.
LEMMA SweepKeepsReferred ==
  ASSUME UInv, NEW s \in Referring, KeyOf[s] \in attached
  PROVE  KeyOf[s] \in DetachIdle(attached, refs, idle)
<1>1. Referring \in SUBSET Slots
    BY Zenon DEF Referring
<1>2. Count(Referring, KeyOf[s]) # 0 /\ Count(Referring, KeyOf[s]) \in Nat
    BY <1>1, CountType, Zenon
<1>3. refs[KeyOf[s]] > 0
    BY <1>2 DEF UInv, RefsExact
<1> QED
    BY <1>3, Zenon DEF DetachIdle

\* What acquireGlobalUprobe and releaseGlobalUprobes keep.
Kept ==
  /\ tracer \in {"open", "stopping", "closed"} /\ attached \subseteq Keys /\ links \in [Keys -> SUBSET Probes]
  /\ refs \in [Keys -> Nat] /\ idle \in [Keys -> 0..TTL]
  /\ slot \in [Slots -> {"new", "acquired", "held", "taken", "late", "done"}]
  /\ RefsExact /\ ReferredHasEntry /\ LinksExact /\ ClosedHasNone

\* A function that attaches uprobes has attached the pair or left nothing behind.
LEMMA OutcomeType ==
  ASSUME NEW s, NEW o \in Outcomes(s)
  PROVE  /\ o.ok \in BOOLEAN /\ o.open \subseteq Probes
         /\ IF o.ok THEN Pair \subseteq o.open ELSE o.open = {}
<1> DEFINE Good(x) == /\ x.ok \in BOOLEAN /\ x.open \subseteq Probes
                      /\ IF x.ok THEN Pair \subseteq x.open ELSE x.open = {}
<1>1. Good(Nothing)
    BY Zenon DEF Nothing, Probes, Pair
<1>2. ASSUME NEW S \in SUBSET Probes, Pair \subseteq S PROVE Good(Some(S))
    BY <1>2, Zenon DEF Some
<1>3. ASSUME NEW m \in SUBSET Probes, NEW f \in SUBSET Probes, NEW specs \in {Probes, Pair},
             NEW optional \in {{}, {"extra"}}
      PROVE  Good(AttachUprobes(specs, optional, m, f))
  <2>1. CASE (m \ optional) \cap specs = {} /\ (f \ m) \cap specs = {}
    <3>1. specs \ m \in SUBSET Probes /\ Pair \subseteq specs \ m
        BY <2>1, Zenon DEF Probes, Pair
    <3> QED
        BY <1>2, <2>1, <3>1, Zenon DEF AttachUprobes
  <2> QED
      BY <1>1, <2>1, Zenon DEF AttachUprobes
<1>4. ASSUME NEW m \in SUBSET Probes, NEW f \in SUBSET Probes
      PROVE  /\ Good(AttachOpenSslUprobes(m, f)) /\ Good(AttachGoTlsUprobes(m, f))
             /\ Good(AttachJavaTlsUprobes(m, f)) /\ Good(AttachRustlsUprobes(m, f))
             /\ Good(AttachNodejsUprobes(m, f)) /\ Good(AttachPythonUprobes(m, f))
  <2>1. Good(AttachOpenSslUprobes(m, f)) /\ Good(AttachGoTlsUprobes(m, f)) /\ Good(AttachJavaTlsUprobes(m, f))
      BY <1>3, Zenon DEF AttachOpenSslUprobes, AttachGoTlsUprobes, AttachJavaTlsUprobes
  <2>2. Pair \in SUBSET Probes /\ Good(Some(Pair))
      BY <1>2, Zenon DEF Pair, Probes
  <2>3. Good(AttachRustlsUprobes(m, f)) /\ Good(AttachPythonUprobes(m, f))
      BY <1>1, <2>2, Zenon DEF AttachRustlsUprobes, AttachPythonUprobes
  <2>4. ASSUME (m \union f) \cap Pair = {} PROVE Good(Some(Probes \ (m \union f)))
    <3>1. Probes \ (m \union f) \in SUBSET Probes /\ Pair \subseteq Probes \ (m \union f)
        BY <2>2, <2>4, Zenon
    <3> QED
        BY <1>2, <3>1, Zenon
  <2>5. Good(AttachNodejsUprobes(m, f))
      BY <1>1, <2>4, Zenon DEF AttachNodejsUprobes
  <2> QED
      BY <2>1, <2>3, <2>5, Zenon
<1> HIDE DEF Good
<1>5. ASSUME o \in {AttachNodejsUprobes(m, f) : m \in SUBSET Probes, f \in SUBSET Probes} PROVE Good(o)
    BY <1>4, <1>5
<1>6. ASSUME o \in {AttachPythonUprobes(m, f) : m \in SUBSET Probes, f \in SUBSET Probes} PROVE Good(o)
    BY <1>4, <1>6
<1>7. ASSUME o \in {AttachOpenSslUprobes(m, f) : m \in SUBSET Probes, f \in SUBSET Probes} PROVE Good(o)
    BY <1>4, <1>7
<1>8. ASSUME o \in {AttachGoTlsUprobes(m, f) : m \in SUBSET Probes, f \in SUBSET Probes} PROVE Good(o)
    BY <1>4, <1>8
<1>9. ASSUME o \in {AttachRustlsUprobes(m, f) : m \in SUBSET Probes, f \in SUBSET Probes} PROVE Good(o)
    BY <1>4, <1>9
<1>10. ASSUME o \in {AttachJavaTlsUprobes(m, f) : m \in SUBSET Probes, f \in SUBSET Probes} PROVE Good(o)
    BY <1>4, <1>10
<1>11. CASE s \in Own
  <2>1. o \in OwnOutcomes
      BY <1>11, Zenon DEF Outcomes
  <2>2. Good(o)
      BY <1>5, <1>6, <2>1 DEF OwnOutcomes
  <2> QED
      BY <2>2, Zenon DEF Good
<1>12. CASE s \notin Own
  <2>1. o \in TlsOutcomes
      BY <1>12, Zenon DEF Outcomes
  <2>2. Good(o)
      BY <1>7, <1>8, <1>9, <1>10, <2>1 DEF TlsOutcomes
  <2> QED
      BY <2>2 DEF Good
<1> QED
    BY <1>11, <1>12, Zenon

\* Detaching binaries keeps LinksExact.
LEMMA OnlyExact ==
  ASSUME UInv, NEW K \in SUBSET attached
  PROVE  /\ Only(K) \in [Keys -> SUBSET Probes]
         /\ \A k \in Keys : IF k \in K THEN Pair \subseteq Only(K)[k] ELSE Only(K)[k] = {}
  BY Zenon DEF UInv, UprobesTypeOK, LinksExact, Only

\* acquireGlobalUprobe, for a slot that has no reference yet.
LEMMA AcquireKeeps ==
  ASSUME UInv, NEW x \in Slots, slot[x] = "new", Acquire(x)
  PROVE  Kept'
<1> DEFINE k == KeyOf[x]
           left == DetachIdle(attached, refs, idle)
<1> USE DEF UInv, UprobesTypeOK, Kept
<1>0. /\ k \in Keys /\ left \subseteq attached
      /\ Referring \in SUBSET Slots /\ x \notin Referring
    BY SlotsAssumption, Zenon DEF DetachIdle, Referring
<1>l. LinksExact' /\ links' \in [Keys -> SUBSET Probes]
  <2>1. CASE links' = Only(left) /\ attached' = left
      BY <1>0, <2>1, OnlyExact DEF LinksExact
  <2>2. ASSUME NEW o \in Outcomes(x), links' = [Only(left) EXCEPT ![k] = o.open],
               attached' = IF o.ok THEN left \union {k} ELSE left, k \notin left
        PROVE  LinksExact' /\ links' \in [Keys -> SUBSET Probes]
    <3>1. /\ o.open \in SUBSET Probes
          /\ IF o.ok THEN Pair \subseteq o.open ELSE o.open = {}
        BY OutcomeType, Zenon
    <3>2. /\ Only(left) \in [Keys -> SUBSET Probes]
          /\ \A j \in Keys : IF j \in left THEN Pair \subseteq Only(left)[j] ELSE Only(left)[j] = {}
        BY <1>0, OnlyExact, Zenon
    <3>3. links' \in [Keys -> SUBSET Probes]
        BY <2>2, <3>1, <3>2, Zenon
    <3>4. ASSUME NEW j \in Keys
          PROVE  IF j \in attached' THEN Pair \subseteq links'[j] ELSE links'[j] = {}
      <4>1. CASE j = k
          BY <1>0, <2>2, <3>1, <3>2, <4>1, Zenon
      <4>2. CASE j # k
          BY <1>0, <2>2, <3>2, <3>4, <4>2, Zenon
      <4> QED
          BY <4>1, <4>2, Zenon
    <3> QED
        BY <3>3, <3>4, Zenon DEF LinksExact
  <2>3. CASE links' = links /\ attached' = attached
      BY <2>3, Zenon DEF LinksExact
  <2> QED
      BY <2>1, <2>2, <2>3, Zenon DEF Acquire
<1>1. CASE slot' = [slot EXCEPT ![x] = "acquired"] /\ attached' = left \union {k}
           /\ refs' = [refs EXCEPT ![k] = IF k \in left THEN @ + 1 ELSE 1]
           /\ (k \in left \/ tracer # "closed")
  <2>1. Referring' = Referring \union {x}
      BY <1>1, Zenon DEF Referring
  <2>2. tracer # "closed"
      BY <1>0, <1>1, Zenon DEF ClosedHasNone
  <2>3. ASSUME k \notin left PROVE Count(Referring, k) = 0
    <3>1. \A s \in Referring : KeyOf[s] # k
        BY <2>2, <2>3, SweepKeepsReferred, Zenon DEF ReferredHasEntry
    <3> QED
        BY <1>0, <3>1, CountType, Zenon
  <2>4. ASSUME NEW j \in attached' PROVE refs'[j] = Count(Referring', j)
    <3>1. Count(Referring', j) = IF k = j THEN Count(Referring, j) + 1 ELSE Count(Referring, j)
        BY <1>0, <2>1, CountAdd
    <3>2. CASE j = k /\ k \in left
        BY <1>0, <1>1, <3>1, <3>2, Zenon DEF RefsExact
    <3>3. CASE j = k /\ k \notin left
        BY <1>0, <1>1, <2>3, <3>1, <3>3
    <3>4. CASE j # k
        BY <1>0, <1>1, <2>4, <3>1, <3>4, Zenon DEF RefsExact
    <3> QED
        BY <3>2, <3>3, <3>4, Zenon
  <2>5. ReferredHasEntry'
      BY <1>1, <2>1, <2>2, SweepKeepsReferred, Zenon DEF ReferredHasEntry
  <2>6. tracer' = tracer /\ idle' = idle
      BY Zenon DEF Acquire
  <2>7. refs' \in [Keys -> Nat]
      BY <1>0, <1>1
  <2> QED
      BY <1>0, <1>l, <1>1, <2>2, <2>4, <2>5, <2>6, <2>7, Zenon DEF RefsExact, ClosedHasNone
<1>2. CASE slot' = [slot EXCEPT ![x] = "done"] /\ attached' \in {left, attached} /\ refs' = refs
  <2>1. Referring' = Referring
      BY <1>2, Zenon DEF Referring
  <2>2. tracer' = tracer /\ idle' = idle
      BY DEF Acquire
  <2>3. ReferredHasEntry'
      BY <1>2, <2>1, <2>2, SweepKeepsReferred, Zenon DEF ReferredHasEntry
  <2>4. RefsExact' /\ ClosedHasNone'
      BY <1>0, <1>2, <2>1, <2>2, Zenon DEF RefsExact, ClosedHasNone
  <2> QED
      BY <1>0, <1>l, <1>2, <2>2, <2>3, <2>4, Zenon
<1>3. CASE k \in left /\ attached' = left /\ refs' = [refs EXCEPT ![k] = @ + 1]
    BY <1>1, <1>3, SMTT(30) DEF Acquire
<1> QED
    BY <1>1, <1>2, <1>3, Zenon DEF Acquire

\* releaseGlobalUprobes, with references that are on their way back.
LEMMA ReleaseKeeps ==
  ASSUME UInv, NEW S \in SUBSET Referring, Release(S)
  PROVE  Kept'
<1> USE DEF UInv, UprobesTypeOK, Kept
<1>0. Referring \in SUBSET Slots /\ S \in SUBSET Slots
    BY Zenon DEF Referring
<1>1. Referring' = Referring \ S /\ tracer' = tracer
    BY <1>0, Zenon DEF Referring, Release
<1>2. \A k \in Keys : Count(S, k) \in Nat /\ Count(Referring, k) \in Nat
    BY <1>0, CountType, Zenon
<1>3. refs' \in [Keys -> Nat] /\ idle' \in [Keys -> 0..TTL]
    BY <1>2, TTLAssumption DEF Release
<1>4. attached' \subseteq attached
      /\ \A k \in attached : k \notin attached' => refs'[k] = 0
    BY <1>3 DEF Release, DetachIdle
<1>5. ASSUME NEW k \in attached PROVE refs'[k] = Count(Referring', k)
  <2>1. /\ Count(Referring', k) = Count(Referring, k) - Count(S, k)
        /\ Count(S, k) <= Count(Referring, k)
      BY <1>0, <1>1, CountRemove, SMTT(30)
  <2>2. refs[k] = Count(Referring, k)
      BY <1>5, Zenon DEF RefsExact
  <2>3. refs'[k] = IF Count(S, k) < refs[k] THEN refs[k] - Count(S, k) ELSE 0
      BY <1>5, Zenon DEF Release
  <2> QED
      BY <1>2, <1>5, <2>1, <2>2, <2>3
<1>6. ReferredHasEntry'
  <2> SUFFICES ASSUME tracer # "closed", NEW s \in Referring' PROVE KeyOf[s] \in attached'
      BY <1>1, Zenon DEF ReferredHasEntry
  <2>1. KeyOf[s] \in attached
      BY <1>1, Zenon DEF ReferredHasEntry
  <2>2. Referring' \in SUBSET Slots /\ s \in Referring'
      BY <1>0, <1>1, Zenon
  <2>3. Count(Referring', KeyOf[s]) # 0
      BY <2>2, CountType, Zenon
  <2> QED
      BY <1>4, <1>5, <2>1, <2>3, Zenon
<1>7. slot' \in [Slots -> {"new", "acquired", "held", "taken", "late", "done"}]
    BY Zenon DEF Release
<1>8. LinksExact' /\ links' \in [Keys -> SUBSET Probes]
  <2>1. links' = Only(attached') /\ attached' \in SUBSET attached
      BY <1>4, Zenon DEF Release
  <2> QED
      BY <2>1, OnlyExact, Zenon DEF LinksExact
<1> QED
    BY <1>1, <1>3, <1>4, <1>5, <1>6, <1>7, <1>8, Zenon DEF RefsExact, ClosedHasNone

\* Steps that change neither the uprobes nor which slots have references.
LEMMA SameReferences ==
  ASSUME UInv, UNCHANGED uprobes, Referring' = Referring
  PROVE  RefsExact' /\ ReferredHasEntry' /\ LinksExact' /\ ClosedHasNone'
  BY Zenon DEF UInv, uprobes, RefsExact, ReferredHasEntry, LinksExact, ClosedHasNone, Count

\* Every step keeps the invariant.
LEMMA UStep == UInv /\ [UprobesNext]_uprobesVars => UInv'
<1> SUFFICES ASSUME UInv, [UprobesNext]_uprobesVars PROVE UInv'
    BY Zenon
<1> USE DEF UInv
<1>0. ASSUME Kept', process' \in [Procs -> {"running", "cancelled", "closed", "gone"}],
             attaching' \in Procs \union {None}
      PROVE  UInv'
    BY <1>0, Zenon DEF Kept, UprobesTypeOK
<1>1. ASSUME NEW s \in Slots, InstrumentOwn(s) \/ AttachTls(s) PROVE UInv'
  <2>1. slot[s] = "new" /\ Acquire(s) /\ UNCHANGED <<process, attaching>>
      BY <1>1, Zenon DEF InstrumentOwn, AttachTls
  <2> QED
      BY <1>0, <2>1, AcquireKeeps, Zenon DEF UprobesTypeOK
<1>2. ASSUME NEW s \in Slots, AddUprobeKey(s) PROVE UInv'
  <2>1. Referring' = Referring
      BY <1>2, Zenon DEF AddUprobeKey, Referring, UprobesTypeOK
  <2> QED
      BY <1>2, <2>1, SameReferences, Zenon DEF AddUprobeKey, UprobesTypeOK, uprobes
<1>3. ASSUME NEW s \in Slots, ReleaseLate(s) PROVE UInv'
  <2>1. {s} \in SUBSET Referring /\ Release({s}) /\ UNCHANGED <<process, attaching>>
      BY <1>3, Zenon DEF ReleaseLate, Referring
  <2> QED
      BY <1>0, <2>1, ReleaseKeeps, Zenon DEF UprobesTypeOK
<1>4. ASSUME NEW p \in Procs, Cancel(p) \/ BeginAttach(p) PROVE UInv'
  <2>1. Referring' = Referring
      BY <1>4, Zenon DEF Cancel, BeginAttach, Referring
  <2> QED
      BY <1>4, <2>1, SameReferences, Zenon DEF Cancel, BeginAttach, UprobesTypeOK, uprobes
<1>5. ASSUME NEW p \in Procs, TakeKeys(p) PROVE UInv'
  <2>1. Referring' = Referring
      BY <1>5, Zenon DEF TakeKeys, Taken, Referring, UprobesTypeOK
  <2> QED
      BY <1>5, <2>1, SameReferences, Zenon DEF TakeKeys, UprobesTypeOK, uprobes
<1>6. ASSUME NEW p \in Procs, ReleaseKeys(p) PROVE UInv'
  <2> DEFINE S == {s \in Slots : ProcOf[s] = p /\ slot[s] = "taken"}
  <2>1. S \in SUBSET Referring
      BY Zenon DEF Referring
  <2>2. Release(S)
      BY <1>6, Zenon DEF ReleaseKeys
  <2>3. Kept'
      BY <2>1, <2>2, ReleaseKeeps, Zenon
  <2> QED
      BY <1>0, <1>6, <2>3, Zenon DEF ReleaseKeys, UprobesTypeOK
<1>7. ASSUME EndAttach PROVE UInv'
  <2>1. Referring' = Referring
      BY <1>7, Zenon DEF EndAttach, Referring
  <2> QED
      BY <1>7, <2>1, SameReferences, Zenon DEF EndAttach, UprobesTypeOK, uprobes
<1>8. ASSUME StopPrograms \/ CloseUprobes \/ Tick PROVE UInv'
  <2>1. Referring' = Referring /\ UNCHANGED <<refs, slot, process, attaching>> /\ attached' \subseteq attached
      BY <1>8, Zenon DEF StopPrograms, CloseUprobes, Tick, Referring
  <2>2. RefsExact'
      BY <2>1, Zenon DEF RefsExact, Count
  <2>3. ReferredHasEntry' /\ ClosedHasNone'
      BY <1>8, <2>1, Zenon DEF StopPrograms, CloseUprobes, Tick, ReferredHasEntry, ClosedHasNone
  <2>4. UprobesTypeOK' /\ LinksExact'
    <3>1. CASE CloseUprobes
      <4>1. links' = Only({}) /\ attached' = {} /\ {} \in SUBSET attached
          BY <3>1, Zenon DEF CloseUprobes
      <4>2. LinksExact' /\ links' \in [Keys -> SUBSET Probes]
          BY <4>1, OnlyExact, Zenon DEF LinksExact
      <4> QED
          BY <2>1, <3>1, <4>2, Zenon DEF CloseUprobes, UprobesTypeOK
    <3>2. CASE StopPrograms \/ Tick
        BY <2>1, <3>2, TTLAssumption DEF StopPrograms, Tick, UprobesTypeOK, LinksExact
    <3> QED
        BY <1>8, <3>1, <3>2, Zenon
  <2> QED
      BY <2>2, <2>3, <2>4, Zenon
<1>9. CASE UNCHANGED uprobesVars
  <2>1. Referring' = Referring
      BY <1>9, Zenon DEF uprobesVars, Referring
  <2> QED
      BY <1>9, <2>1, SameReferences, Zenon DEF uprobesVars, UprobesTypeOK, uprobes
<1> QED
    BY <1>1, <1>2, <1>3, <1>4, <1>5, <1>6, <1>7, <1>8, <1>9, Zenon DEF UprobesNext, Attach, Note, Close

\* The refcount of an attached binary is the number of references to it (RefsExact), whatever
\* the order of acquireGlobalUprobe, addUprobeKey, releaseGlobalUprobes and the Closes.
THEOREM RefcountsExact == UprobesSpec => []RefsExact
<1>1. UInv => RefsExact
    BY Zenon DEF UInv
<1> QED
    BY UInit, UStep, <1>1, PTL DEF UprobesSpec

\* What a process refers to stays attached until the tracer is closed, and nothing else is
\* (ReferredIsAttached), whichever symbol is missing or uprobe fails to be attached.
THEOREM ReferredStaysAttached == UprobesSpec => []ReferredIsAttached
<1>1. UInv => ReferredIsAttached
    BY Zenon DEF UInv, ReferredIsAttached
<1> QED
    BY UInit, UStep, <1>1, PTL DEF UprobesSpec

\* A closed tracer has nothing attached (ClosedHasNone): a late acquireGlobalUprobe fails.
THEOREM ClosedForGood == UprobesSpec => []ClosedHasNone
<1>1. UInv => ClosedHasNone
    BY Zenon DEF UInv
<1> QED
    BY UInit, UStep, <1>1, PTL DEF UprobesSpec
=============================================================================
